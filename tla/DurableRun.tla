----------------------------- MODULE DurableRun -----------------------------
(***************************************************************************)
(* integrations/langgraph/durable: capture() starts one process that runs  *)
(* the graph to its interrupt and another that resumes it from the stored  *)
(* checkpoint, samples the ledger of effects around them, and reports what *)
(* it saw to the temporal consumer with the overlap rule of consumer.py.   *)
(*                                                                         *)
(* An epoch is the phase of its process.  A checkpoint is what it holds.   *)
(* LangGraph, which runs an interrupted node again from its start, and     *)
(* SQLite, whose commits survive, are modelled from their use.             *)
(***************************************************************************)
EXTENDS Integers, Sequences

CONSTANT Mode            \* "idempotent" and "repeat"

ASSUME ModeAssumption == Mode \subseteq {"idempotent", "repeat"}

VARIABLES
  mode,
  w,            \* worker: phase, pc ("dead": none), exit code, checkpoint loaded, events
  checkpoint,   \* checkpoints.sqlite
  ledger,       \* rows of business.sqlite: [key, stage, epoch, tick]
  record,       \* the worker's record file, per phase
  p,            \* parent: todo, sample, sources, epoch in scope, forced phases, failure
  now,
  delivered

vars == <<mode, w, checkpoint, ledger, record, p, now, delivered>>

Phase == {"pause", "resume"}

NoRecord == [loaded |-> "none", terminal |-> "none", events |-> <<>>]

Sample == <<"stamp", "read", "stamp">>

Script ==
  <<"pause", "wait", "checkpoint_paused">> \o Sample \o Sample \o <<"effect-1">>
  \o Sample \o <<"resume", "wait", "resume_completed">> \o Sample \o <<"effect-1">>
  \o Sample \o Sample \o <<"effect-2", "save">>

Init ==
  /\ mode \in Mode
  /\ w = [phase |-> "pause", pc |-> "dead", code |-> 0, loaded |-> "none", events |-> <<>>]
  /\ checkpoint = "none" /\ ledger = <<>> /\ record = [f \in Phase |-> NoRecord]
  /\ p = [todo |-> Script, sample |-> <<>>, sources |-> {}, epoch |-> "pause", forced |-> {},
          failure |-> FALSE]
  /\ now = 0 /\ delivered = {}
-----------------------------------------------------------------------------
(* The worker process.                                                     *)

At(pc) == w.pc = pc /\ UNCHANGED <<mode, p, delivered>>

Went(pc, kinds) == [w EXCEPT !.pc = pc, !.events = @ \o kinds]

\* Opens the checkpoints; the node starts over in either phase.
Enter ==
  /\ At("start") /\ UNCHANGED <<ledger, record, now>>
  /\ w' = [Went("before_interrupt", <<"node_entered">>) EXCEPT !.loaded = checkpoint]
  /\ checkpoint' = IF w.phase = "pause" THEN "input" ELSE checkpoint

\* One key per execution of the node.
KeyPerInvocation(stage) == <<stage, w.phase>>

KeyOf(stage) == IF mode = "idempotent" THEN <<stage>> ELSE <<stage, w.phase>>

\* INSERT OR IGNORE, committed.
Effect(stage, next) ==
  LET row == [key |-> KeyOf(stage), stage |-> stage, epoch |-> w.phase, tick |-> now + 1] IN
  /\ At(stage) /\ now' = now + 1 /\ UNCHANGED <<checkpoint, record>>
  /\ ledger' = IF \E i \in DOMAIN ledger : ledger[i].key = row.key THEN ledger
               ELSE Append(ledger, row)
  /\ w' = Went(next, <<"effect_attempt">>)

EffectBefore == Effect("before_interrupt", IF w.phase = "pause" THEN "interrupt" ELSE "returned")

\* interrupt() stores the checkpoint in one phase and returns in the other.
Interrupt ==
  /\ At("interrupt") /\ checkpoint' = "paused" /\ w' = Went("record", <<>>)
  /\ UNCHANGED <<ledger, record, now>>

Returned ==
  /\ At("returned") /\ w' = Went("after_resume", <<"resume_returned">>)
  /\ UNCHANGED <<checkpoint, ledger, record, now>>

EffectAfter == Effect("after_resume", "complete")

Complete ==
  /\ At("complete") /\ checkpoint' = "completed" /\ w' = Went("record", <<>>)
  /\ UNCHANGED <<ledger, record, now>>

WriteRecord ==
  /\ At("record") /\ w' = Went("exit", <<>>)
  /\ record' = [record EXCEPT ![w.phase] = [loaded |-> w.loaded, terminal |-> checkpoint,
                                            events |-> w.events]]
  /\ UNCHANGED <<checkpoint, ledger, now>>

Exit ==
  /\ At("exit") /\ w' = Went("dead", <<>>) /\ UNCHANGED <<checkpoint, ledger, record, now>>

Fail ==
  /\ w.pc # "dead" /\ w' = [w EXCEPT !.pc = "dead", !.code = 1]
  /\ UNCHANGED <<mode, checkpoint, ledger, record, p, now, delivered>>
-----------------------------------------------------------------------------
(* The parent.                                                             *)

Does(statements) ==
  /\ p.todo # <<>> /\ Head(p.todo) \in statements
  /\ UNCHANGED <<mode, checkpoint, ledger, record, delivered>>

Done == [p EXCEPT !.todo = Tail(@)]

\* The exception leaves capture() without its sources.
Raised == [p EXCEPT !.todo = <<>>, !.sources = {}, !.failure = TRUE]

Spawn ==
  /\ Does(Phase) /\ p' = Done /\ UNCHANGED now
  /\ w' = [phase |-> Head(p.todo), pc |-> "start", code |-> 0, loaded |-> "none", events |-> <<>>]

\* A worker that was killed after its record is taken at its record.
ReapRecorded ==
  /\ Does({"wait"}) /\ w.pc = "dead" /\ UNCHANGED <<w, now>>
  /\ p' = IF record[w.phase] = NoRecord THEN Raised ELSE Done

Reap ==
  /\ Does({"wait"}) /\ w.pc = "dead" /\ UNCHANGED <<w, now>>
  /\ p' = IF w.phase \in p.forced \/ w.code # 0 THEN Raised ELSE Done

\* The wait expires: the worker is killed wherever it is, if it still is.
Timeout ==
  /\ Does({"wait"}) /\ p' = [p EXCEPT !.forced = @ \cup {w.phase}] /\ w.phase \notin p.forced
  /\ w' = IF w.pc = "dead" THEN w ELSE [w EXCEPT !.pc = "dead", !.code = -9]
  /\ UNCHANGED now

TakeSample ==
  /\ Does({"stamp", "read"}) /\ now' = now + 1 /\ UNCHANGED w
  /\ p' = [Done EXCEPT !.sample = Append(@, IF Head(p.todo) = "stamp" THEN now + 1
                                            ELSE Len(ledger))]

Source(epoch, id, data) ==
  [epoch |-> epoch, id |-> id, clock |-> "harness", tick |-> now, data |-> data]

\* The resumed phase reports under the identity of the paused one.
ReportExecutionInOneEpoch ==
  /\ Does({"checkpoint_paused", "resume_completed"}) /\ UNCHANGED <<w, now>>
  /\ p' = [Done EXCEPT !.sources = @ \cup {Source(w.phase, "execution-1", record)}]

\* The first source of a phase names its execution; the second phase must
\* continue the checkpoint of the first, in a new process.
ReportExecution ==
  /\ Does({"checkpoint_paused", "resume_completed"}) /\ UNCHANGED <<w, now>>
  /\ p' = IF w.phase = "resume" /\ record["resume"].loaded # record["pause"].terminal THEN Raised
          ELSE [Done EXCEPT !.epoch = w.phase,
                            !.sources = @ \cup {Source(w.phase, "execution-1", record)}]

ReportEffect ==
  /\ Does({"effect-1", "effect-2"}) /\ UNCHANGED <<w, now>>
  /\ p' = [Done EXCEPT !.sample = <<>>,
                       !.sources = @ \cup {Source(p.epoch, Head(p.todo), p.sample)}]

Save == Does({"save"}) /\ p' = Done /\ UNCHANGED <<w, now>>

\* The authored variants of the resumed epoch's first sample: the same window
\* with no new row, the same on another clock, and a window that starts earlier.
Fixtures ==
  LET Still(data) == [data EXCEPT ![5] = data[2]]
      resumed == {s \in p.sources : s.epoch = "resume" /\ s.id = "effect-1"} IN
  {[s EXCEPT !.id = "fixture-conflict", !.data = Still(s.data)] : s \in resumed}
  \cup {[s EXCEPT !.id = "fixture-unordered", !.clock = "worker", !.data = Still(s.data)] : s \in resumed}
  \cup {[s EXCEPT !.id = "fixture-overlap", !.data = [Still(s.data) EXCEPT ![1] = @ - 1]] : s \in resumed}

Deliver(s) ==
  /\ p.todo = <<>> /\ s \notin delivered
  /\ delivered' = delivered \cup {s} /\ UNCHANGED <<mode, w, checkpoint, ledger, record, p, now>>

Next ==
  \/ Enter \/ EffectBefore \/ Interrupt \/ Returned \/ EffectAfter \/ Complete
  \/ WriteRecord \/ Exit \/ Fail
  \/ Spawn \/ Reap \/ Timeout \/ TakeSample \/ ReportExecution \/ ReportEffect \/ Save
  \/ \E s \in p.sources \cup Fixtures : Deliver(s)

Spec == Init /\ [][Next]_vars
=============================================================================
