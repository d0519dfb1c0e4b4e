--------------------------- MODULE RuntimeReport ----------------------------
(***************************************************************************)
(* project() of integrations/langgraph/run.py: the artifacts reported of   *)
(* the events of a run, finished or not, and what reconcile() says of them.*)
(***************************************************************************)
EXTENDS RuntimeRun, FiniteSets

R == INSTANCE Reconciler WITH
       AnyChain <- "any", Standing <- [by \in {"issuer", "runtime"} |-> "SATISFIED"],
       Independent <- {}

Has(kind) == kind \in {p.events[i] : i \in DOMAIN p.events}

\* A receipt or a request is no execution; execution is what LangGraph stored.
Paused == Has("receiver_observed") /\ Has("enforcement_requested") /\ Has("native_interrupt_observed")

Refused == Has("receiver_observed") /\ Has("enforcement_unavailable")

\* A receipt taken for an execution.
ExecutionOnReceipt ==
  IF Has("receiver_observed") THEN {"executed"} ELSE {}

Execution == (IF Paused THEN {"executed"} ELSE {}) \cup (IF ~Paused /\ Refused THEN {"failed"} ELSE {})

Ref(name) == [id |-> name, chain |-> "any"]

Artifact(name, by, seq, prev, body) ==
  [id |-> name, chain |-> by, by |-> by, seq |-> seq, prev |-> prev, body |-> body, valid |-> TRUE]

Decision == Artifact("decision", "issuer", 0, R!Genesis, [type |-> "decision"])

Control(event, by, side, seq, prev) ==
  Artifact(event, by, seq, prev,
    [type |-> "control", decision |-> Ref("decision"), instr |-> "stop", digest |-> "bytes",
     event |-> event, side |-> side, action |-> "pause"])

Receipt == Control("received", "runtime", "receiver", 0, R!Genesis)

Executed(event) ==
  Artifact("execution", "runtime", 1, Receipt,
    [type |-> "execution", decision |-> Ref("decision"), instr |-> "stop", digest |-> "bytes",
     event |-> event, action |-> IF event = "executed" THEN "pause" ELSE "continue"])

Effect(event) ==
  Artifact("effect", "runtime", 2, Executed(event),
    [type |-> "effect", decision |-> Ref("decision"), exec |-> Ref("execution"),
     observer |-> "same_executor"])

If(condition, reported) == IF condition THEN reported ELSE {}

Artifacts ==
  If(Has("decision_recorded"),
     {Decision}
     \cup If(Has("issuer_dispatched"), {Control("dispatched", "issuer", "issuer", 1, Decision)})
     \cup If(Has("delivery_failed"), {Control("delivery_failed", "issuer", "issuer", 1, Decision)})
     \cup If(Has("receiver_observed"), {Receipt})
     \cup {Executed(event) : event \in Execution}
     \cup If(Has("effect_observed"), {Effect(event) : event \in Execution}))

Checks == R!Checks([a \in Artifacts |-> a])

InState(state) == {c.check : c \in {d \in Checks : d.state = state}}
-----------------------------------------------------------------------------
Finished == p.todo = <<>>

Returned == Finished /\ p.failure = "none"

\* What the README of the experiment and its tests expect of each: business
\* steps in the file, failed checks and missing evidence.
Point(s) ==
  LET Shows(steps, failures, missing) == [rows |-> steps, failures |-> failures, missing |-> missing] IN
  CASE s = "normal"              -> Shows(BusinessSteps, {}, {"evidence_set"})
    [] s = "stop-before-start"   -> Shows(0, {}, {})
    [] s = "stop-during-action"  -> Shows(1, {}, {})
    [] s = "receiver-unreachable" ->
         Shows(BusinessSteps, {"delivery_failure_report"},
               {"issuer_dispatch", "receiver_receipt", "execution_evidence"})
    [] s = "receiver-ignores-stop" -> Shows(BusinessSteps, {"execution_outcome", "toctou"}, {})
    [] s = "effect-unobserved"   -> Shows(0, {}, {"effect_evidence"})

\* Safety.  Whatever the interleaving of the two processes, a run that returns
\* shows what its scenario is for: the steps in the file, and the failed and
\* missing checks of the reconciliation of its report.  In particular no
\* dispatched stop is left unread and no effect is reported before it is final.
ExperimentShowsItsPoint ==
  Returned => Point(scenario) =
    [rows |-> w.rows, failures |-> InState("FAILURE"), missing |-> InState("MISSING")]

\* Action property.  Once the events amount to an executed stop, be it of a run
\* that then fails or is terminated, the action has no further effect.
StopHolds == []["executed" \in Execution => w'.rows = w.rows]_vars

\* Safety.  A run that returns joined a worker that ended by itself; one that
\* fails leaves no worker behind unless it says so.
WorkerReaped ==
  Finished => /\ p.failure = "none" => ~p.forced /\ w.code = 0
              /\ w.pc = "dead" \/ p.failure = "child remains alive"

\* Liveness.  Every run ends, whatever the worker does: stops short, stays
\* silent at a barrier, never exits.
RunEnds == <>Finished
=============================================================================
