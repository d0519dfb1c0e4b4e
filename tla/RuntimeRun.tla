----------------------------- MODULE RuntimeRun -----------------------------
(***************************************************************************)
(* One experiment of integrations/langgraph/run.py: collect_run() in the   *)
(* parent p, which orders the experiment by barriers under one deadline,   *)
(* and worker() in a spawned process w, which runs the graph.  They share  *)
(* a control pipe, a telemetry pipe, two barriers and the file of effects. *)
(* Messages and events are their kinds; the one instruction of a run is    *)
(* not spelled out.                                                        *)
(***************************************************************************)
EXTENDS Integers, Sequences

CONSTANTS Scenario,        \* the experiments to run, out of Scenarios
          BusinessSteps    \* steps of the controlled action

Scenarios == {"normal", "stop-before-start", "stop-during-action",
              "receiver-unreachable", "receiver-ignores-stop", "effect-unobserved"}

ASSUME ScenarioAssumption == Scenario \subseteq Scenarios
ASSUME StepsAssumption == BusinessSteps \in Nat \ {0}

VARIABLES
  scenario,
  w,         \* worker: pc ("dead": no process), rows of effects.jsonl, exit
             \* code, its ends of the control and telemetry pipes are open
  p,         \* parent: what it has left to do, events.jsonl, what each read of
             \* the observation found, failure, forced, raised barriers, and
             \* whether its copies of the worker's ends are open
  unread,    \* a stop lies in the control pipe
  queue,     \* telemetry sent and not read
  expired    \* the deadline of the run has passed

vars == <<scenario, w, p, unread, queue, expired>>

Early(s) == s \in {"stop-before-start", "effect-unobserved"}

\* The parent's statements; the awaited kinds stand for until(kind).
Script(s) ==
  <<"start", "close", "worker_ready">>
  \o (CASE Early(s)     -> <<"send", "begin">>
        [] s = "normal" -> <<"begin", "action_barrier_reached", "continue">>
        [] OTHER        -> <<"begin", "action_barrier_reached", "send", "continue">>)
  \o <<"worker_finished", "join">>
  \o (IF s = "effect-unobserved" THEN <<"disable">> ELSE <<"observe", "observe">>)
  \o <<"cleanup">>

Awaited == {"worker_ready", "action_barrier_reached", "worker_finished"}

Init ==
  /\ scenario \in Scenario
  /\ w = [pc |-> "dead", rows |-> 0, code |-> 0, control |-> FALSE, out |-> FALSE]
  /\ p = [todo |-> Script(scenario), events |-> <<>>, seen |-> <<>>, failure |-> "none",
          forced |-> FALSE, barriers |-> {}, copies |-> TRUE]
  /\ unread = FALSE /\ queue = <<>> /\ expired = FALSE
-----------------------------------------------------------------------------
(* The worker.                                                             *)

Worker(pcs, new, kinds) ==
  /\ w.pc \in pcs
  /\ w' = new /\ queue' = queue \o kinds /\ UNCHANGED <<scenario, p, expired>>

Goes(from, to, kinds) == Worker({from}, [w EXCEPT !.pc = to], kinds) /\ UNCHANGED unread

Dead(c) == [w EXCEPT !.pc = "dead", !.code = c, !.control = FALSE, !.out = FALSE]

\* The endpoint is announced as closed, and stays open.
EndpointLeftOpen ==
  Goes("spawned", "announce", IF scenario = "receiver-unreachable"
                              THEN <<"receiver_endpoint_closed">> ELSE <<>>)

CloseEndpoint ==
  IF scenario = "receiver-unreachable"
  THEN /\ Worker({"spawned"}, [w EXCEPT !.pc = "announce", !.control = FALSE],
                 <<"receiver_endpoint_closed">>)
       /\ UNCHANGED unread
  ELSE Goes("spawned", "announce", <<>>)

Announce == Goes("announce", "wait begin", <<"worker_ready">>)

Begin ==
  "begin" \in p.barriers /\ Goes("wait begin", "checkpoint",
                                 <<"graph_invocation_started", "node_entered">>)

Continue == "continue" \in p.barriers /\ Goes("wait continue", "checkpoint", <<>>)

AfterCheckpoint == IF w.rows < BusinessSteps THEN "write" ELSE "complete"

NoStop ==
  /\ scenario = "receiver-unreachable" \/ ~unread
  /\ Goes("checkpoint", AfterCheckpoint, <<>>)

\* interrupt() leaves the node, unless the handler is the disabled one.
ReadStop ==
  LET ignores == scenario = "receiver-ignores-stop" IN
  /\ scenario # "receiver-unreachable" /\ unread /\ unread' = FALSE
  /\ Worker({"checkpoint"},
            [w EXCEPT !.pc = IF ignores THEN AfterCheckpoint ELSE "interrupted"],
            <<"receiver_observed",
              IF ignores THEN "enforcement_unavailable" ELSE "enforcement_requested">>)

WriteStep ==
  /\ Worker({"write"}, [w EXCEPT !.pc = "written", !.rows = @ + 1], <<>>) /\ UNCHANGED unread

TellStep ==
  IF w.rows = 1
  THEN Goes("written", "wait continue", <<"business_step_written", "action_barrier_reached">>)
  ELSE Goes("written", "checkpoint", <<"business_step_written">>)

Conclude ==
  \/ Goes("interrupted", "finally", <<"native_interrupt_observed", "worker_finished">>)
  \/ Goes("complete", "finally", <<"graph_completed", "worker_finished">>)

\* Any statement may raise (an import, the file, the graph), and so does a
\* barrier whose wait expires, never before the parent's deadline.
Raise ==
  /\ Worker({"spawned", "announce", "wait begin", "wait continue", "checkpoint", "write",
             "written", "interrupted", "complete"},
            [w EXCEPT !.pc = "finally", !.code = 1], <<"worker_error">>)
  /\ (w.pc \in {"wait begin", "wait continue"} => expired) /\ UNCHANGED unread

CloseEnds ==
  /\ Worker({"finally"}, [w EXCEPT !.pc = "exit", !.control = FALSE, !.out = FALSE], <<>>)
  /\ UNCHANGED unread

Exit == Goes("exit", "dead", <<>>)

\* The spawned interpreter fails before worker() is entered, in silence.
BootFails == Worker({"spawned"}, Dead(1), <<>>) /\ UNCHANGED unread
-----------------------------------------------------------------------------
(* The parent.                                                             *)

At(phases) == p.todo # <<>> /\ Head(p.todo) \in phases

Parent(phases, new) == At(phases) /\ p' = new /\ UNCHANGED <<scenario, expired>>

Silent == UNCHANGED <<w, unread, queue>>

Done(kinds) == [p EXCEPT !.todo = Tail(@), !.events = @ \o kinds]

Failed(kinds, error) ==
  [p EXCEPT !.todo = <<"cleanup">>, !.failure = error, !.events = @ \o kinds \o <<"harness_error">>]

Start ==
  /\ Parent({"start"}, Done(<<>>)) /\ UNCHANGED <<unread, queue>>
  /\ w' = [w EXCEPT !.pc = "spawned", !.control = TRUE, !.out = TRUE]

StartFails == Parent({"start"}, Failed(<<>>, "not started")) /\ Silent

CloseCopies == Parent({"close"}, [Done(<<>>) EXCEPT !.copies = FALSE]) /\ Silent

\* send_stop(): the pipe takes the bytes while anyone may still read them.
SendStop ==
  LET readable == w.control \/ p.copies IN
  /\ Parent({"send"}, Done(<<"decision_recorded", "control_command_produced",
                             IF readable THEN "issuer_dispatched" ELSE "delivery_failed">>))
  /\ unread' = readable /\ UNCHANGED <<w, queue>>

SetBarrier ==
  Parent({"begin", "continue"}, [Done(<<>>) EXCEPT !.barriers = @ \cup {Head(p.todo)}]) /\ Silent

\* until(kind): one message of the telemetry.
Hear ==
  /\ ~expired /\ queue # <<>> /\ queue' = Tail(queue) /\ UNCHANGED <<w, unread>>
  /\ LET kind == Head(queue) IN
     Parent(Awaited, CASE kind = "worker_error" -> Failed(<<kind>>, kind)
                       [] kind = Head(p.todo)   -> Done(<<kind>>)
                       [] OTHER                 -> [p EXCEPT !.events = Append(@, kind)])

TelemetryEnds ==
  /\ ~expired /\ queue = <<>> /\ ~w.out /\ ~p.copies
  /\ Parent(Awaited, Failed(<<>>, "telemetry ended")) /\ Silent

\* until() polls without a bound.
TimeOutAtJoin ==
  /\ expired /\ w.pc # "dead"
  /\ Parent({"join"}, Failed(<<>>, "timeout")) /\ Silent

TimeOut ==
  /\ expired /\ (At({"join"}) => w.pc # "dead")
  /\ Parent(Awaited \cup {"join"}, Failed(<<>>, "timeout")) /\ Silent

\* A worker that said it finished is taken to have ended.
JoinUnchecked == Parent({"join"}, Done(<<>>)) /\ Silent

Join ==
  /\ w.pc = "dead"
  /\ Parent({"join"}, IF w.code = 0 THEN Done(<<>>) ELSE Failed(<<>>, "exit code")) /\ Silent

Observe ==
  /\ Parent({"observe"}, [Done(IF p.seen = <<>> THEN <<>> ELSE <<"effect_observed">>)
                            EXCEPT !.seen = Append(@, w.rows)])
  /\ Silent

DisableObservation == Parent({"disable"}, Done(<<"observation_disabled">>)) /\ Silent

\* The finally block: terminate, join, kill, join, each join at most two seconds.
Cleanup ==
  /\ Parent({"cleanup"}, [p EXCEPT !.forced = (w.pc # "dead"),
                                   !.todo = <<IF w.pc # "dead" THEN "terminated" ELSE "close all">>])
  /\ Silent

Joined ==
  /\ Parent({"terminated", "killed"},
            [p EXCEPT !.todo = <<IF w.pc # "dead" /\ At({"terminated"}) THEN "killed"
                                 ELSE "close all">>])
  /\ Silent

SignalEnds ==
  At({"terminated", "killed"}) /\ w.pc # "dead" /\ w' = Dead(-15)
  /\ UNCHANGED <<scenario, p, unread, queue, expired>>

CloseAll ==
  /\ Parent({"close all"},
            [Done(<<"cleanup_completed">>) EXCEPT
               !.copies = FALSE,
               !.failure = IF w.pc # "dead" THEN "child remains alive" ELSE @])
  /\ Silent

\* The deadline is one instant for every wait of the run.
Deadline ==
  ~expired /\ p.todo # <<>> /\ expired' = TRUE /\ UNCHANGED <<scenario, w, p, unread, queue>>
-----------------------------------------------------------------------------
WorkerStep ==
  \/ CloseEndpoint \/ Announce \/ Begin \/ Continue \/ NoStop \/ ReadStop
  \/ WriteStep \/ TellStep \/ Conclude \/ Raise \/ CloseEnds \/ Exit \/ BootFails

ParentStep ==
  \/ Start \/ StartFails \/ CloseCopies \/ SendStop \/ SetBarrier \/ Hear \/ TelemetryEnds
  \/ TimeOut \/ Join \/ Observe \/ DisableObservation \/ Cleanup \/ Joined \/ CloseAll

Next == WorkerStep \/ ParentStep \/ SignalEnds \/ Deadline

\* The parent runs and time passes; nothing is asked of the worker.
Spec == Init /\ [][Next]_vars /\ WF_vars(ParentStep) /\ WF_vars(Deadline)
=============================================================================
