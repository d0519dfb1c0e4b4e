----------------------------- MODULE BoundaryRun -----------------------------
(***************************************************************************)
(* integrations/langgraph/boundaries: capture() drives worker processes,   *)
(* one per target, and one observer process over pipes, and keeps a        *)
(* schedule of what it sent and received.  A worker may hold an effect in  *)
(* flight on a thread of its own; the observer samples the file of effects *)
(* at the two ends of a window, which a nonce names, here its target.      *)
(*                                                                         *)
(* A message is its kind.  Mounts, namespaces and signatures are left out: *)
(* the probe of a worker is a row of the schedule that says "restricted".  *)
(***************************************************************************)
EXTENDS Integers, Sequences, FiniteSets, SequencesExt

CONSTANT Scenario    \* "both_paused", "one_unknown", "inflight", "timeout"

ASSUME ScenarioAssumption == Scenario \subseteq {"both_paused", "one_unknown", "inflight", "timeout"}

VARIABLES
  scenario,
  proc,       \* the processes: what main has left to do, pipes, thread, state, file of effects
  key,        \* the observer's private key is on disk
  c,          \* controller: todo, peers, peers whose pipe broke, mode, saved
  schedule,
  faults      \* history: what went wrong outside the protocol

vars == <<scenario, proc, key, c, schedule, faults>>

Targets(s) == IF s \in {"both_paused", "one_unknown"} THEN <<"A", "B">> ELSE <<"A">>

Mode(s) == CASE s = "inflight" -> "inflight" [] s = "timeout" -> "ignore" [] OTHER -> "pause"

Unavailable(s, t) == s = "one_unknown" /\ t = "B"

\* A statement of capture(): op, peer, what is sent or awaited, about whom.
Do(op, peer, kind, of) == <<[op |-> op, peer |-> peer, kind |-> kind, of |-> of]>>

Send(peer, kind, t)  == Do("send", peer, kind, t)
Await(peer, kind, t) == Do("await", peer, kind, t)

Launch(s, t) ==
  Do("spawn", t, "", t) \o Await(t, "ready", t) \o Await(t, "authority_probe", t)
  \o IF Mode(s) = "pause" THEN <<>> ELSE Await(t, "inflight_ready", t)

Release(s, t) ==
  IF Mode(s) = "pause" THEN <<>> ELSE Send(t, "release_effect", t) \o Await(t, "release_ack", t)

Open(t) == Send("observer", "start", t) \o Await("observer", "window_started", t)

Close(t) == Send("observer", "end", t) \o Await("observer", "observation", t)

\* The window opens when the effect is out.
ObserveAfterRelease(s, t) == Release(s, t) \o Open(t) \o Close(t)

\* The window is ended once more.
ObserveAndCloseTwice(s, t) == Open(t) \o Release(s, t) \o Close(t) \o Send("observer", "end", t)

Observe(s, t) == Open(t) \o Release(s, t) \o Close(t)

Control(s, t) ==
  IF Unavailable(s, t) THEN <<>>
  ELSE Send(t, "pause", t) \o Await(t, IF s = "timeout" THEN "graph_completed" ELSE "native_paused", t)
       \o Observe(s, t)

Finish(s, t) ==
  IF s = "timeout" \/ Unavailable(s, t) THEN Do("force", t, "", t)
  ELSE Send(t, "exit", t) \o Await(t, "finished", t) \o Do("finish", t, "", t)

ForEach(s, Part(_, _)) == FlattenSeq([i \in DOMAIN Targets(s) |-> Part(s, Targets(s)[i])])

Script(s) ==
  Do("spawn", "observer", "", "") \o Await("observer", "ready", "")
  \o ForEach(s, Launch) \o ForEach(s, Control) \o ForEach(s, Finish)
  \o Send("observer", "close", "") \o Await("observer", "owner_check", "")
  \o Do("finish", "observer", "", "") \o Do("save", "", "", "")

Peers == {"observer", "A", "B"}

Init ==
  /\ scenario \in Scenario /\ key = FALSE /\ schedule = <<>> /\ faults = {}
  /\ proc = [p \in Peers |->
       [main |-> <<>>, alive |-> FALSE, code |-> 0, in |-> <<>>, out |-> <<>>, said |-> 0,
        thread |-> "none", released |-> FALSE, state |-> "running", file |-> 0, windows |-> {}]]
  /\ c = [todo |-> Script(scenario), peers |-> <<>>, broken |-> {}, mode |-> "running",
          saved |-> FALSE]
-----------------------------------------------------------------------------
(* The processes.                                                          *)

Main(s, p) ==
  IF p = "observer" THEN <<"create", "ready", "serve">>
  ELSE CASE Mode(s) = "pause"    -> <<"ready", "authority_probe", "pause", "receipt", "native_paused", "loop">>
         [] Mode(s) = "inflight" -> <<"ready", "authority_probe", "thread", "pause", "receipt",
                                      "native_paused", "loop">>
         [] Mode(s) = "ignore"   -> <<"ready", "authority_probe", "thread", "pause", "receipt",
                                      "ignored", "graph_completed", "loop">>

Runs(p, statements) ==
  /\ proc[p].main # <<>> /\ Head(proc[p].main) \in statements
  /\ UNCHANGED <<scenario, c, schedule>>

Becomes(p, x) == proc' = [proc EXCEPT ![p] = x]

Says(x, kind, of, body) ==
  [x EXCEPT !.said = @ + 1,
            !.out = Append(@, [kind |-> kind, of |-> of, n |-> x.said + 1, body |-> body])]

Past(x) == [x EXCEPT !.main = Tail(@)]

\* The rest of main is skipped; the observer's finally is not, once inside its try.
Raised(p, x) ==
  [x EXCEPT !.code = 1,
            !.main = IF p = "observer" /\ Head(@) \in {"serve", "owner_check"} THEN <<"remove">> ELSE <<>>]

Events == {"ready", "authority_probe", "receipt", "ignored", "native_paused", "graph_completed",
           "release_ack", "finished", "owner_check"}

Emit(p) ==
  /\ Runs(p, Events) /\ UNCHANGED <<key, faults>>
  /\ LET kind == Head(proc[p].main) IN
     Becomes(p, [Says(Past(proc[p]), kind, p, <<>>) EXCEPT
                   !.state = CASE kind = "native_paused"   -> "paused"
                               [] kind = "graph_completed" -> "completed"
                               [] OTHER                    -> @])

StartThread(p) ==
  /\ Runs(p, {"thread"}) /\ UNCHANGED <<key, faults>>
  /\ Becomes(p, [Past(proc[p]) EXCEPT !.thread = "begun"])

Threaded(p, from, x) ==
  /\ proc[p].alive /\ proc[p].thread = from /\ Becomes(p, x)
  /\ UNCHANGED <<scenario, c, schedule, key>>

ThreadReady(p) ==
  /\ Threaded(p, "begun", [Says(proc[p], "inflight_ready", p, <<>>) EXCEPT !.thread = "waiting"])
  /\ UNCHANGED faults

ThreadWrite(p) ==
  /\ proc[p].released /\ UNCHANGED faults
  /\ Threaded(p, "waiting", [proc[p] EXCEPT !.thread = "written", !.file = @ + 1])

ThreadTell(p) ==
  /\ Threaded(p, "written", [Says(proc[p], "effect_committed", p, <<>>) EXCEPT !.thread = "dead"])
  /\ UNCHANGED faults

\* The barrier expires, or the write fails: the main thread goes on.
ThreadFail(p) ==
  /\ Threaded(p, "waiting", [proc[p] EXCEPT !.thread = "dead"]) /\ faults' = faults \cup {"thread"}

Received(p) == Head(proc[p].in)

Heard(x) == [x EXCEPT !.in = Tail(@)]

ReceivePause(p) ==
  /\ Runs(p, {"pause"}) /\ proc[p].in # <<>> /\ UNCHANGED <<key, faults>>
  /\ Becomes(p, IF Received(p).kind = "pause" THEN Heard(Past(proc[p])) ELSE Raised(p, proc[p]))

NoThread(x) == x.thread \in {"none", "dead"}

Loop(p) ==
  /\ Runs(p, {"loop"}) /\ proc[p].in # <<>> /\ UNCHANGED <<key, faults>>
  /\ LET x == Heard(proc[p]) IN
     Becomes(p, CASE Received(p).kind = "release_effect" /\ x.thread # "none" ->
                       [x EXCEPT !.released = TRUE, !.main = <<"join", "release_ack", "loop">>]
                  [] Received(p).kind = "exit" /\ NoThread(x) -> [x EXCEPT !.main = <<"finished">>]
                  [] OTHER -> Raised(p, x))

JoinThread(p) ==
  /\ Runs(p, {"join"}) /\ NoThread(proc[p]) /\ Becomes(p, Past(proc[p])) /\ UNCHANGED <<key, faults>>

CreateKey ==
  /\ Runs("observer", {"create"}) /\ key' = TRUE /\ Becomes("observer", Past(proc["observer"]))
  /\ UNCHANGED faults

\* One request of the controller.
Serve ==
  /\ Runs("observer", {"serve"}) /\ proc["observer"].in # <<>> /\ UNCHANGED <<key, faults>>
  /\ LET x      == Heard(proc["observer"])
         r      == Received("observer")
         window == {v \in x.windows : v.of = r.of}
     IN Becomes("observer",
          CASE r.kind = "start" /\ window = {} ->
                 Says([x EXCEPT !.windows = @ \cup {[of |-> r.of, before |-> proc[r.of].file]}],
                      "window_started", r.of, <<>>)
            [] r.kind = "end" /\ window # {} ->
                 Says([x EXCEPT !.windows = @ \ window], "observation", r.of,
                      <<(CHOOSE v \in window : TRUE).before, proc[r.of].file>>)
            [] r.kind = "close" -> [x EXCEPT !.main = <<"owner_check", "remove">>]
            [] OTHER -> Raised("observer", x))

RemoveKey ==
  /\ Runs("observer", {"remove"}) /\ key' = FALSE /\ Becomes("observer", Past(proc["observer"]))
  /\ UNCHANGED faults

\* An error anywhere.
Raise(p) ==
  /\ Runs(p, Events \cup {"pause", "loop", "join", "create", "serve"}) /\ UNCHANGED key
  /\ Becomes(p, Raised(p, proc[p])) /\ faults' = faults \cup {"raise"}

\* The interpreter waits for the thread.
Exit(p) ==
  /\ proc[p].alive /\ proc[p].main = <<>> /\ NoThread(proc[p])
  /\ Becomes(p, [proc[p] EXCEPT !.alive = FALSE]) /\ UNCHANGED <<scenario, c, schedule, key, faults>>
-----------------------------------------------------------------------------
(* The controller.                                                         *)

Does(ops) ==
  /\ c.mode = "running" /\ Head(c.todo).op \in ops /\ UNCHANGED <<scenario, key>>

Now == Head(c.todo)

Done == [c EXCEPT !.todo = Tail(@)]

Failed == [c EXCEPT !.mode = "aborting"]

Record(peer, dir, kind, of, n, body) ==
  schedule' = Append(schedule, [peer |-> peer, dir |-> dir, kind |-> kind, of |-> of, n |-> n,
                                body |-> body])

Spawn ==
  /\ Does({"spawn"}) /\ c' = [Done EXCEPT !.peers = Append(@, Now.peer)]
  /\ Becomes(Now.peer, [proc[Now.peer] EXCEPT !.alive = TRUE, !.main = Main(scenario, Now.peer)])
  /\ UNCHANGED <<schedule, faults>>

\* A peer that has ended breaks the pipe, and its unsent bytes stay buffered.
SendTo ==
  /\ Does({"send"}) /\ UNCHANGED faults
  /\ IF proc[Now.peer].alive
     THEN /\ Becomes(Now.peer, [proc[Now.peer] EXCEPT !.in = Append(@, [kind |-> Now.kind, of |-> Now.of])])
          /\ Record(Now.peer, "sent", Now.kind, Now.of, 0, <<>>) /\ c' = Done
     ELSE c' = [Failed EXCEPT !.broken = @ \cup {Now.peer}] /\ UNCHANGED <<proc, schedule>>

Hear ==
  /\ Does({"await"}) /\ proc[Now.peer].out # <<>> /\ UNCHANGED faults
  /\ LET m == Head(proc[Now.peer].out) IN
     /\ Record(Now.peer, "received", m.kind, m.of, m.n, m.body)
     /\ c' = IF m.kind = Now.kind THEN Done ELSE c
  /\ Becomes(Now.peer, [proc[Now.peer] EXCEPT !.out = Tail(@)])

HearEnd ==
  /\ Does({"await"}) /\ proc[Now.peer].out = <<>> /\ ~proc[Now.peer].alive
  /\ c' = Failed /\ UNCHANGED <<proc, schedule, faults>>

\* A wait for a message or for an exit expires.
TimeOut ==
  /\ Does({"await", "finish"}) /\ proc[Now.peer].alive /\ c' = Failed
  /\ faults' = faults \cup {"late"} /\ UNCHANGED <<proc, schedule>>

Reap ==
  /\ Does({"finish", "force"}) /\ ~proc[Now.peer].alive /\ c' = Done
  /\ Record(Now.peer, "cleanup", "exited", Now.of, 0, <<proc[Now.peer].code>>)
  /\ UNCHANGED <<proc, faults>>

Killed(x) == [x EXCEPT !.alive = FALSE, !.main = <<>>, !.code = IF x.alive THEN -9 ELSE @]

Kill ==
  /\ Does({"force"}) /\ proc[Now.peer].alive /\ c' = Done
  /\ Record(Now.peer, "cleanup", "forced", Now.of, 0, <<-9>>)
  /\ Becomes(Now.peer, Killed(proc[Now.peer])) /\ UNCHANGED faults

Save ==
  /\ Does({"save"}) /\ UNCHANGED <<proc, schedule, faults>>
  /\ c' = IF key THEN Failed ELSE [Failed EXCEPT !.saved = TRUE]

\* The finally of capture(): every peer is aborted.  Closing a pipe with
\* unsent bytes raises, which leaves the loop.
Abort ==
  /\ c.mode = "aborting" /\ c.peers # <<>>
  /\ Becomes(Head(c.peers), Killed(proc[Head(c.peers)]))
  /\ c' = IF Head(c.peers) \in c.broken THEN [c EXCEPT !.mode = "over"] ELSE [c EXCEPT !.peers = Tail(@)]
  /\ UNCHANGED <<scenario, key, schedule, faults>>

\* The observer, now gone, is trusted with the key.
LeaveKey ==
  /\ c.mode = "aborting" /\ c.peers = <<>> /\ c' = [c EXCEPT !.mode = "over"]
  /\ UNCHANGED <<scenario, proc, key, schedule, faults>>

Sweep ==
  /\ c.mode = "aborting" /\ c.peers = <<>> /\ c' = [c EXCEPT !.mode = "over"] /\ key' = FALSE
  /\ UNCHANGED <<scenario, proc, schedule, faults>>

Next ==
  \/ \E p \in Peers :
       \/ Emit(p) \/ StartThread(p) \/ ThreadReady(p) \/ ThreadWrite(p) \/ ThreadTell(p)
       \/ ThreadFail(p) \/ ReceivePause(p) \/ Loop(p) \/ JoinThread(p) \/ Raise(p) \/ Exit(p)
  \/ CreateKey \/ Serve \/ RemoveKey
  \/ Spawn \/ SendTo \/ Hear \/ HearEnd \/ TimeOut \/ Reap \/ Kill \/ Save \/ Abort \/ Sweep

Spec == Init /\ [][Next]_vars
=============================================================================
