--------------------------- MODULE TemporalCapture --------------------------
(***************************************************************************)
(* The captured runs of integrations/langgraph/temporal and their delayed  *)
(* delivery.  capture() in capture.py orders one worker by a pipe of       *)
(* commands and a pipe of telemetry and samples the file of effects;       *)
(* make_inputs() of runtime_report.py captures one run after another on    *)
(* one clock, and replay() hands their reports to the consumer in any      *)
(* selection, repeated or damaged.                                         *)
(*                                                                         *)
(* A clock reading is a tick; writing and sampling take a tick each, and   *)
(* events of the worker share the current one.                             *)
(***************************************************************************)
EXTENDS Integers, Sequences, FiniteSets

CONSTANTS Modes,          \* modes to capture, in order: "pause", "ignore", "unobserved"
          Authored,       \* events written by hand (temporal/fixtures.py)
          MaxDeliveries   \* bound: deliveries of one replay

ASSUME ModesAssumption == Modes \in Seq({"pause", "ignore", "unobserved"})

\* No event written by hand is about a captured run, whose id is fresh.
ASSUME AuthoredAssumption == \A e \in Authored : e.identity[1] \notin DOMAIN Modes

VARIABLES
  c,          \* the run being captured: its number, the statements left to its
              \* worker (work) and to the parent (todo), the two pipes (commands,
              \* telemetry), the control_id of each side (control, scope), and the
              \* samples taken so far: start, rows, end, start, rows, end
  writes,     \* ticks at which lines were written, per run
  now,
  reports,    \* deliveries that can be made
  delivered

vars == <<c, writes, now, reports, delivered>>
-----------------------------------------------------------------------------
(* Sources and their projection (runtime_source.py).                       *)

Sampled(s, tick) ==
  /\ s[1] <= s[3] /\ s[3] <= s[4] /\ s[4] <= s[6] /\ s[6] <= tick
  /\ s[2] <= s[5]

\* RuntimeSourcePolicy.project(), or the source itself where it was authored.
Project(source) ==
  LET Reported(kind, status, window) ==
        {[identity |-> <<source.run, source.control>>, id |-> source, kind |-> kind,
          status |-> status, actor |-> "capture-report", clock |-> "session",
          time |-> window[2], observed |-> source.tick, window |-> window,
          supersedes |-> "original"]}
      instant == <<source.tick, source.tick>>
      s == source.data
  IN
  CASE source.kind = "authored" -> {source.data}
    [] source.kind = "receiver_observed" /\ source.data = source.control ->
         Reported("receipt", "RECEIVED", instant)
    [] source.kind = "handler_ignored" -> Reported("execution", "CONTINUED", instant)
    [] source.kind = "native_interrupt_observed" /\ source.data = source.control ->
         Reported("execution", "PAUSED", instant)
    [] source.kind = "effect_sampled" /\ Sampled(s, source.tick) ->
         Reported("effect", IF s[2] = s[5] THEN "QUIESCENT" ELSE "CONTINUED", <<s[1], s[6]>>)
    [] OTHER -> {}

T == INSTANCE TemporalConsumer

Source(kind, id, tick, data) ==
  [run |-> c.run, control |-> id, kind |-> kind, tick |-> tick, data |-> data]

\* RuntimeReports.delivery(): the projection, bound by a signed decision.
Deliveries(source) == {[source |-> source, event |-> e, signed |-> TRUE] : e \in Project(source)}

AuthoredDelivery(e) ==
  [source |-> [kind |-> "authored", data |-> e], event |-> e, signed |-> TRUE]
-----------------------------------------------------------------------------
\* The worker's statements: emitted kinds, receive_control(), advance(), write.
Work(mode) ==
  <<"ready", "control">> \o
  IF mode \in {"pause", "unobserved"} THEN <<"native_interrupt_observed", "finished">>
  ELSE <<"handler_ignored", "quiet_barrier", "advance", "write", "step_barrier",
         "control", "handler_ignored", "second_control_barrier", "advance", "write", "finished">>

Sample == <<"stamp", "read", "stamp">>

\* The parent's: awaited kinds, commands, samples, observation().
IgnoreScript(letGo) ==
  <<"ready", "pause-1", "quiet_barrier">> \o Sample \o Sample \o <<"observe">>
  \o letGo \o <<"step_barrier">> \o Sample \o <<"observe", "pause-2", "second_control_barrier">>
  \o Sample \o <<"advance", "finished">> \o Sample \o <<"observe", "join">>

PauseScript == <<"ready", "pause-1", "finished">> \o Sample \o Sample \o <<"observe", "join">>

\* The worker is let go before the second window is opened.
LateSample(mode) == IF mode = "ignore" THEN IgnoreScript(<<"advance">> \o Sample) ELSE PauseScript

Script(mode) ==
  CASE mode = "ignore"     -> IgnoreScript(Sample \o <<"advance">>)
    [] mode = "pause"      -> PauseScript
    [] mode = "unobserved" -> <<"ready", "pause-1", "finished", "join">>

Capturing == c.run <= Len(Modes)

\* A run before it starts, and what follows the last one.
Fresh(r) ==
  [run |-> r, commands |-> <<>>, telemetry |-> <<>>, sample |-> <<>>,
   control |-> "pending", scope |-> "pending",
   work |-> IF r <= Len(Modes) THEN Work(Modes[r]) ELSE <<>>,
   todo |-> IF r <= Len(Modes) THEN Script(Modes[r]) ELSE <<>>]

Init ==
  /\ c \in {Fresh(1), Fresh(Len(Modes) + 1)}
  /\ writes = [r \in DOMAIN Modes |-> {}] /\ now = 0 /\ delivered = {}
  /\ reports = IF Capturing THEN {} ELSE {AuthoredDelivery(e) : e \in Authored}
-----------------------------------------------------------------------------
(* The worker.                                                             *)

Says(kind, id, data) == Append(c.telemetry, Source(kind, id, now, data))

Works(statements) ==
  /\ c.work # <<>> /\ Head(c.work) \in statements
  /\ UNCHANGED <<reports, delivered>>

Emitted == {"ready", "handler_ignored", "quiet_barrier", "step_barrier", "second_control_barrier",
            "native_interrupt_observed", "finished"}

Emit ==
  /\ Works(Emitted) /\ UNCHANGED <<writes, now>>
  /\ c' = [c EXCEPT !.work = Tail(@), !.telemetry = Says(Head(c.work), c.control, c.control)]

Sent(command) == c.commands # <<>> /\ Head(c.commands) \in command

ReceiveControl ==
  /\ Works({"control"}) /\ Sent({"pause-1", "pause-2"}) /\ UNCHANGED <<writes, now>>
  /\ LET id == Head(c.commands) IN
     c' = [c EXCEPT !.work = Tail(@), !.commands = Tail(@), !.control = id,
                    !.telemetry = Says("receiver_observed", id, id)]

Advance ==
  /\ Works({"advance"}) /\ Sent({"advance"}) /\ UNCHANGED <<writes, now>>
  /\ c' = [c EXCEPT !.work = Tail(@), !.commands = Tail(@)]

Write ==
  /\ Works({"write"}) /\ now' = now + 1
  /\ writes' = [writes EXCEPT ![c.run] = @ \cup {now + 1}]
  /\ c' = [c EXCEPT !.work = Tail(@)]

\* An error anywhere, or a wait for a command that outlasts its bound.
Raise ==
  /\ c.work # <<>> /\ UNCHANGED <<writes, now, reports, delivered>>
  /\ c' = [c EXCEPT !.work = <<>>, !.telemetry = Says("error", c.control, c.control)]
-----------------------------------------------------------------------------
(* The parent.                                                             *)

Kept(source) ==
  IF source.kind \in {"receiver_observed", "handler_ignored", "native_interrupt_observed",
                      "effect_sampled"}
  THEN Deliveries(source) ELSE {}

Awaited == {"ready", "quiet_barrier", "step_barrier", "second_control_barrier", "finished"}

Does(statements) ==
  /\ c.todo # <<>> /\ Head(c.todo) \in statements
  /\ UNCHANGED <<writes, delivered>>

Hear ==
  /\ Does(Awaited) /\ c.telemetry # <<>> /\ Head(c.telemetry).kind # "error"
  /\ UNCHANGED now /\ reports' = reports \cup Kept(Head(c.telemetry))
  /\ c' = [c EXCEPT !.telemetry = Tail(@), !.scope = Head(c.telemetry).control,
                    !.todo = IF Head(c.telemetry).kind = Head(@) THEN Tail(@) ELSE @]

Command ==
  /\ Does({"pause-1", "pause-2", "advance"}) /\ UNCHANGED <<now, reports>>
  /\ c' = [c EXCEPT !.todo = Tail(@), !.commands = Append(@, Head(c.todo)),
                    !.scope = IF Head(c.todo) = "advance" THEN @ ELSE Head(c.todo)]

TakeSample ==
  /\ Does({"stamp", "read"}) /\ now' = now + 1 /\ UNCHANGED reports
  /\ c' = [c EXCEPT !.todo = Tail(@),
                    !.sample = Append(@, IF Head(c.todo) = "stamp" THEN now + 1
                                         ELSE Cardinality(writes[c.run]))]

Observe ==
  /\ Does({"observe"}) /\ UNCHANGED now
  /\ reports' = reports \cup Kept(Source("effect_sampled", c.scope, now, c.sample))
  /\ c' = [c EXCEPT !.todo = Tail(@), !.sample = <<>>]

\* The run is captured, and the next one begins.
Join ==
  /\ Does({"join"}) /\ c.work = <<>> /\ c' = Fresh(c.run + 1) /\ UNCHANGED <<now, reports>>

\* The worker reports an error, or the deadline passes in a wait: capture()
\* raises, and with it make_inputs().
Abort ==
  /\ Does(Awaited \cup {"join"}) /\ c' = Fresh(Len(Modes) + 1)
  /\ reports' = {} /\ UNCHANGED now
-----------------------------------------------------------------------------
(* Replay.                                                                 *)

Flipped(status) == IF status = "QUIESCENT" THEN "CONTINUED" ELSE "QUIESCENT"

\* As reported, under a damaged signature, or signed for another status.
Variants(d) ==
  {d, [d EXCEPT !.signed = FALSE]}
  \cup {[x EXCEPT !.event.status = Flipped(@)] : x \in {d} \cap {y \in reports : y.event.kind = "effect"}}

Deliver(d) ==
  /\ ~Capturing /\ Cardinality(delivered) < MaxDeliveries /\ d \notin delivered
  /\ delivered' = delivered \cup {d} /\ UNCHANGED <<c, writes, now, reports>>

Next ==
  \/ Emit \/ ReceiveControl \/ Advance \/ Write \/ Raise
  \/ Hear \/ Command \/ TakeSample \/ Observe \/ Join \/ Abort
  \/ \E d \in reports : \E v \in Variants(d) : Deliver(v)

Spec == Init /\ [][Next]_vars
=============================================================================
