--------------------------- MODULE Durable_proofs ---------------------------
(***************************************************************************)
(* However often the worker fails or is killed and the node starts over,   *)
(* the ledger holds each effect once per key, and the key is one per       *)
(* obligation or one per run of the node.                                  *)
(* A capture that is saved nevertheless saw two workers that ended by      *)
(* themselves and every effect: the parent is at a known place of its      *)
(* script, and outside its two waits the last worker had done its part.    *)
(***************************************************************************)
EXTENDS DurableReport, FiniteSetTheorems, SequenceTheorems, TLAPS

Stages == {"before_interrupt", "after_resume"}

Row == [key : {<<stage>> : stage \in Stages} \cup (Stages \X Phase),
        stage : Stages, epoch : Phase, tick : Nat]

\* What the steps of the worker need of it.
WorkerOK ==
  /\ mode \in {"idempotent", "repeat"} /\ now \in Nat
  /\ "phase" \in DOMAIN w /\ w.phase \in Phase

KeyFor(m, stage, epoch) == IF m = "idempotent" THEN <<stage>> ELSE <<stage, epoch>>

\* The key of a row says what it was written for, and no key occurs twice.
KeysOK ==
  /\ ledger \in Seq(Row)
  /\ \A i \in DOMAIN ledger :
       ledger[i].key = KeyFor(mode, ledger[i].stage, ledger[i].epoch)
  /\ \A i, j \in DOMAIN ledger : ledger[i].key = ledger[j].key => i = j

LedgerInv == WorkerOK /\ KeysOK

\* The ledger is empty at the start.
LEMMA InitLedger == Init => LedgerInv
  BY ModeAssumption DEF Init, LedgerInv, WorkerOK, KeysOK, Phase

\* The worker's record stays one.
LEMMA WorkerStays ==
  ASSUME WorkerOK, [Next]_vars
  PROVE  WorkerOK'
<1>1. ASSUME NEW pc, NEW kinds
      PROVE  "phase" \in DOMAIN Went(pc, kinds) /\ Went(pc, kinds).phase = w.phase
  BY DEF WorkerOK, Went
<1>2. CASE Enter
  BY <1>1, <1>2 DEF Enter, At, WorkerOK
<1>3. CASE EffectBefore \/ EffectAfter
  BY <1>1, <1>3 DEF EffectBefore, EffectAfter, Effect, At, WorkerOK
<1>4. CASE Interrupt \/ Returned \/ Complete \/ WriteRecord \/ Exit
  BY <1>1, <1>4 DEF Interrupt, Returned, Complete, WriteRecord, Exit, At, WorkerOK
<1>5. CASE Fail
  BY <1>5 DEF Fail, WorkerOK
<1>6. CASE Spawn
  BY <1>6 DEF Spawn, Does, WorkerOK
<1>7. CASE Reap \/ TakeSample \/ ReportExecution \/ ReportEffect \/ Save
  BY <1>7 DEF Reap, TakeSample, ReportExecution, ReportEffect, Save, Does, WorkerOK
<1>8. CASE Timeout
  BY <1>8 DEF Timeout, Does, WorkerOK
<1>9. ASSUME NEW s, Deliver(s) PROVE WorkerOK'
  BY <1>9 DEF Deliver, WorkerOK
<1>10. CASE UNCHANGED vars
  BY <1>10 DEF vars, WorkerOK
<1>11. QED
  BY <1>2, <1>3, <1>4, <1>5, <1>6, <1>7, <1>8, <1>9, <1>10 DEF Next

\* INSERT OR IGNORE: a row joins the ledger only under a key that is new to it.
LEMMA InsertKeepsKeys ==
  ASSUME LedgerInv, NEW stage \in Stages, NEW next, Effect(stage, next)
  PROVE  KeysOK'
<1> DEFINE row == [key |-> KeyOf(stage), stage |-> stage, epoch |-> w.phase, tick |-> now + 1]
<1>1. /\ w.phase \in Phase /\ mode' = mode
      /\ ledger' = IF \E i \in DOMAIN ledger : ledger[i].key = row.key THEN ledger
                   ELSE Append(ledger, row)
  BY DEF Effect, At, LedgerInv, WorkerOK
<1>2. /\ row.key = KeyFor(mode, stage, w.phase) /\ row.stage = stage /\ row.epoch = w.phase
  BY DEF KeyOf, KeyFor
<1>3. row \in Row
  BY <1>1 DEF KeyOf, Row, LedgerInv, WorkerOK
<1> HIDE DEF row
<1>4. CASE ledger' = ledger
  BY <1>1, <1>4 DEF LedgerInv, KeysOK
<1>5. CASE ledger' = Append(ledger, row) /\ \A i \in DOMAIN ledger : ledger[i].key # row.key
  <2>1. /\ ledger \in Seq(Row) /\ ledger' \in Seq(Row) /\ Len(ledger) \in Nat
        /\ DOMAIN ledger = 1 .. Len(ledger) /\ DOMAIN ledger' = 1 .. (Len(ledger) + 1)
        /\ ledger'[Len(ledger) + 1] = row
        /\ \A i \in DOMAIN ledger : ledger'[i] = ledger[i]
    BY <1>3, <1>5 DEF LedgerInv, KeysOK
  <2>2. \A i \in DOMAIN ledger' : i \in DOMAIN ledger \/ i = Len(ledger) + 1
    BY <2>1
  <2>3. \A i \in DOMAIN ledger' :
          ledger'[i].key = KeyFor(mode', ledger'[i].stage, ledger'[i].epoch)
    BY <1>1, <1>2, <2>1, <2>2 DEF LedgerInv, KeysOK
  <2>4. \A i, j \in DOMAIN ledger' : ledger'[i].key = ledger'[j].key => i = j
    BY <1>5, <2>1, <2>2 DEF LedgerInv, KeysOK
  <2>5. QED
    BY <2>1, <2>3, <2>4 DEF KeysOK
<1>6. QED
  BY <1>1, <1>4, <1>5

\* The ledger's invariant, over every failure, kill and repetition.
LEMMA LedgerStays == Spec => []LedgerInv
<1>1. LedgerInv /\ [Next]_vars => LedgerInv'
  <2> SUFFICES ASSUME LedgerInv, [Next]_vars PROVE LedgerInv'
    OBVIOUS
  <2>1. WorkerOK'
    BY WorkerStays DEF LedgerInv
  <2>2. CASE EffectBefore \/ EffectAfter
    BY <2>1, <2>2, InsertKeepsKeys DEF EffectBefore, EffectAfter, Stages, LedgerInv
  <2>3. CASE ledger' = ledger /\ mode' = mode
    BY <2>1, <2>3 DEF LedgerInv, KeysOK
  <2>4. [Next]_vars => EffectBefore \/ EffectAfter \/ (ledger' = ledger /\ mode' = mode)
    BY DEF Next, vars, Enter, Interrupt, Returned, Complete, WriteRecord, Exit, Fail, At, Spawn,
           Reap, Timeout, TakeSample, ReportExecution, ReportEffect, Save, Does, Deliver
  <2>5. QED
    BY <2>2, <2>3, <2>4
<1>2. QED
  BY <1>1, InitLedger, PTL DEF Spec

\* An obligation is met once in idempotent mode and once per run of the node
\* otherwise, wherever the worker is killed.
THEOREM EffectsHappenOnce == Spec => []EffectsOnce
<1>1. LedgerInv => EffectsOnce
  <2> SUFFICES ASSUME LedgerInv, NEW stage \in Stages
               PROVE  LET rows == {i \in DOMAIN ledger : ledger[i].stage = stage} IN
                      /\ mode = "idempotent" => Cardinality(rows) <= 1
                      /\ \A i, j \in rows : ledger[i].epoch = ledger[j].epoch => i = j
    BY DEF EffectsOnce, Stages
  <2> DEFINE rows == {i \in DOMAIN ledger : ledger[i].stage = stage}
  <2>1. \A i, j \in rows :
          mode = "idempotent" \/ ledger[i].epoch = ledger[j].epoch => i = j
    <3> SUFFICES ASSUME NEW i \in rows, NEW j \in rows,
                        mode = "idempotent" \/ ledger[i].epoch = ledger[j].epoch
                 PROVE  i = j
      OBVIOUS
    <3>1. ledger[i].stage = ledger[j].stage
      OBVIOUS
    <3>2. KeyFor(mode, ledger[i].stage, ledger[i].epoch) = KeyFor(mode, ledger[j].stage, ledger[j].epoch)
      BY <3>1 DEF KeyFor
    <3>3. QED
      BY <3>2 DEF LedgerInv, KeysOK
  <2>2. ASSUME mode = "idempotent" PROVE Cardinality(rows) <= 1
    <3>1. CASE rows = {}
      BY <3>1, FS_EmptySet
    <3>2. ASSUME NEW i \in rows PROVE Cardinality(rows) = 1
      <4>1. rows = {i}
        BY <2>1, <2>2
      <4>2. QED
        BY <4>1, FS_Singleton
    <3>3. QED
      BY <3>1, <3>2
  <2>3. QED
    BY <2>1, <2>2
<1>2. QED
  BY <1>1, LedgerStays, PTL
-----------------------------------------------------------------------------
(* What a saved capture saw.                                               *)

Quiet == {"checkpoint_paused", "resume_completed", "stamp", "read", "effect-1", "effect-2", "save"}

Statement == Phase \cup {"wait"} \cup Quiet

\* The statements of the parent that concern its workers, by their place.
MarkAt(i, st) ==
  /\ i = 1 => st = "pause"
  /\ i \in {2, 15} => st = "wait"
  /\ i = 14 => st = "resume"
  /\ i \notin {1, 2, 14, 15} => st \in Quiet

Marked(q) == q \in Seq(Statement) /\ \A i \in 1 .. Len(q) : MarkAt(i, q[i])

\* A script stays marked if what is appended has its marks where they belong.
LEMMA MarkedThen ==
  ASSUME NEW q \in Seq(Statement), Marked(q), NEW r \in Seq(Statement),
         \A j \in 1 .. Len(r) : MarkAt(Len(q) + j, r[j])
  PROVE  /\ q \o r \in Seq(Statement) /\ Marked(q \o r)
         /\ Len(q \o r) = Len(q) + Len(r)
<1>1. PICK n \in Nat, m \in Nat : n = Len(q) /\ m = Len(r)
  BY DEF Marked
<1>2. PICK c : c = q \o r
  OBVIOUS
<1>3. /\ c \in Seq(Statement) /\ Len(c) = n + m
      /\ \A i \in 1 .. n + m : c[i] = IF i <= n THEN q[i] ELSE r[i - n]
  BY <1>1, <1>2, ConcatProperties DEF Marked
<1>4. ASSUME NEW i \in 1 .. n + m PROVE MarkAt(i, c[i])
  <2>1. CASE i <= n
    BY <1>1, <1>3, <2>1 DEF Marked
  <2>2. CASE i > n
    <3>1. PICK j \in 1 .. m : j = i - n
      BY <2>2
    <3>2. PICK st : st = r[j]
      OBVIOUS
    <3>3. MarkAt(n + j, st)
      BY <1>1, <3>1, <3>2
    <3>4. n + j = i /\ c[i] = st
      BY <1>3, <2>2, <3>1, <3>2
    <3>5. MarkAt(i, st)
      BY <3>3, <3>4 DEF MarkAt
    <3> QED BY <3>4, <3>5 DEF MarkAt
  <2> QED BY <2>1, <2>2
<1> QED BY <1>1, <1>2, <1>3, <1>4 DEF Marked

\* Pieces that concern no worker.
Room(q, r) == Len(q) >= 15 \/ (Len(q) >= 2 /\ Len(q) + Len(r) <= 13)

\* Statements that concern no worker may be appended between the marks.
LEMMA QuietThen ==
  ASSUME NEW q \in Seq(Statement), Marked(q), NEW r \in Seq(Quiet), Room(q, r)
  PROVE  /\ q \o r \in Seq(Statement) /\ Marked(q \o r)
         /\ Len(q \o r) = Len(q) + Len(r)
<1>0. PICK n \in Nat, m \in Nat : n = Len(q) /\ m = Len(r)
  BY DEF Marked
<1>1. r \in Seq(Statement) /\ \A j \in 1 .. m : r[j] \in Quiet
  BY <1>0 DEF Statement
<1>2. \A j \in 1 .. m : n + j \notin {1, 2, 14, 15}
  BY <1>0 DEF Room
<1>3. \A j \in 1 .. m : MarkAt(n + j, r[j])
  BY <1>1, <1>2 DEF MarkAt
<1> QED BY <1>0, <1>1, <1>3, MarkedThen

\* The script of the capture: 28 statements, four of which concern workers.
LEMMA ScriptMarked == Marked(Script) /\ Len(Script) = 28
<1>1. Sample \in Seq(Quiet) /\ Len(Sample) = 3
  BY DEF Sample, Quiet
<1>2. PICK a : a = <<"pause", "wait", "checkpoint_paused">>
  OBVIOUS
<1>3. PICK one : one = <<"effect-1">>
  OBVIOUS
<1>4. PICK b : b = <<"resume", "wait", "resume_completed">>
  OBVIOUS
<1>5. PICK two : two = <<"effect-2", "save">>
  OBVIOUS
<1>6. /\ one \in Seq(Quiet) /\ Len(one) = 1 /\ two \in Seq(Quiet) /\ Len(two) = 2
  BY <1>3, <1>5 DEF Quiet
<1>7. a \in Seq(Statement) /\ Marked(a) /\ Len(a) = 3
  <2>1. a \in Seq(Statement) /\ Len(a) = 3 /\ a[1] = "pause" /\ a[2] = "wait" /\ a[3] \in Quiet
    BY <1>2 DEF Statement, Phase, Quiet
  <2>2. \A i \in 1 .. 3 : i = 1 \/ i = 2 \/ i = 3
    OBVIOUS
  <2> QED BY <2>1, <2>2 DEF Marked, MarkAt
<1>8. /\ b \in Seq(Statement) /\ Len(b) = 3 /\ \A j \in 1 .. 3 : MarkAt(13 + j, b[j])
  <2>1. b \in Seq(Statement) /\ Len(b) = 3 /\ b[1] = "resume" /\ b[2] = "wait" /\ b[3] \in Quiet
    BY <1>4 DEF Statement, Phase, Quiet
  <2>2. \A i \in 1 .. 3 : i = 1 \/ i = 2 \/ i = 3
    OBVIOUS
  <2> QED BY <2>1, <2>2 DEF MarkAt
<1>9. PICK c : c = a \o Sample \o Sample
  OBVIOUS
<1>10. c \in Seq(Statement) /\ Marked(c) /\ Len(c) = 9
  <2>1. PICK d : d = a \o Sample
    OBVIOUS
  <2>2. d \in Seq(Statement) /\ Marked(d) /\ Len(d) = 6
    <3>1. Room(a, Sample)
      BY <1>1, <1>7, <2>1 DEF Room
    <3>2. /\ a \o Sample \in Seq(Statement) /\ Marked(a \o Sample)
          /\ Len(a \o Sample) = Len(a) + Len(Sample)
      BY <1>1, <1>7, <2>1, <3>1, QuietThen, Zenon
    <3> QED BY <1>1, <1>7, <2>1, <3>2
  <2>3. c = d \o Sample
    BY <1>9, <2>1
  <2>4. Room(d, Sample)
    BY <1>1, <2>2 DEF Room
  <2>11. /\ d \o Sample \in Seq(Statement) /\ Marked(d \o Sample)
         /\ Len(d \o Sample) = Len(d) + Len(Sample)
    BY <1>1, <2>2, <2>3, <2>4, QuietThen, Zenon
  <2> QED BY <1>1, <2>2, <2>3, <2>11
<1>11. PICK d : d = c \o one \o Sample \o b
  OBVIOUS
<1>12. d \in Seq(Statement) /\ Marked(d) /\ Len(d) = 16
  <2>1. PICK e : e = c \o one
    OBVIOUS
  <2>2. e \in Seq(Statement) /\ Marked(e) /\ Len(e) = 10
    <3>1. Room(c, one)
      BY <1>6, <1>10, <2>1 DEF Room
    <3>2. /\ c \o one \in Seq(Statement) /\ Marked(c \o one)
          /\ Len(c \o one) = Len(c) + Len(one)
      BY <1>6, <1>10, <2>1, <3>1, QuietThen, Zenon
    <3> QED BY <1>6, <1>10, <2>1, <3>2
  <2>3. PICK f : f = e \o Sample
    OBVIOUS
  <2>4. f \in Seq(Statement) /\ Marked(f) /\ Len(f) = 13
    <3>1. Room(e, Sample)
      BY <1>1, <2>2, <2>3 DEF Room
    <3>2. /\ e \o Sample \in Seq(Statement) /\ Marked(e \o Sample)
          /\ Len(e \o Sample) = Len(e) + Len(Sample)
      BY <1>1, <2>2, <2>3, <3>1, QuietThen, Zenon
    <3> QED BY <1>1, <2>2, <2>3, <3>2
  <2>5. d = f \o b
    BY <1>11, <2>1, <2>3
  <2>6. \A j \in 1 .. Len(b) : MarkAt(Len(f) + j, b[j])
    BY <1>8, <2>4
  <2>11. /\ f \o b \in Seq(Statement) /\ Marked(f \o b)
         /\ Len(f \o b) = Len(f) + Len(b)
    BY <1>8, <2>4, <2>5, <2>6, MarkedThen, Zenon
  <2> QED BY <1>8, <2>4, <2>5, <2>11
<1>13. PICK e : e = d \o Sample \o one \o Sample \o Sample \o two
  OBVIOUS
<1>14. e \in Seq(Statement) /\ Marked(e) /\ Len(e) = 28
  <2>1. PICK f : f = d \o Sample
    OBVIOUS
  <2>2. f \in Seq(Statement) /\ Marked(f) /\ Len(f) = 19
    <3>1. Room(d, Sample)
      BY <1>1, <1>12, <2>1 DEF Room
    <3>2. /\ d \o Sample \in Seq(Statement) /\ Marked(d \o Sample)
          /\ Len(d \o Sample) = Len(d) + Len(Sample)
      BY <1>1, <1>12, <2>1, <3>1, QuietThen, Zenon
    <3> QED BY <1>1, <1>12, <2>1, <3>2
  <2>3. PICK g : g = f \o one
    OBVIOUS
  <2>4. g \in Seq(Statement) /\ Marked(g) /\ Len(g) = 20
    <3>1. Room(f, one)
      BY <1>6, <2>2, <2>3 DEF Room
    <3>2. /\ f \o one \in Seq(Statement) /\ Marked(f \o one)
          /\ Len(f \o one) = Len(f) + Len(one)
      BY <1>6, <2>2, <2>3, <3>1, QuietThen, Zenon
    <3> QED BY <1>6, <2>2, <2>3, <3>2
  <2>5. PICK h : h = g \o Sample
    OBVIOUS
  <2>6. h \in Seq(Statement) /\ Marked(h) /\ Len(h) = 23
    <3>1. Room(g, Sample)
      BY <1>1, <2>4, <2>5 DEF Room
    <3>2. /\ g \o Sample \in Seq(Statement) /\ Marked(g \o Sample)
          /\ Len(g \o Sample) = Len(g) + Len(Sample)
      BY <1>1, <2>4, <2>5, <3>1, QuietThen, Zenon
    <3> QED BY <1>1, <2>4, <2>5, <3>2
  <2>7. PICK i : i = h \o Sample
    OBVIOUS
  <2>8. i \in Seq(Statement) /\ Marked(i) /\ Len(i) = 26
    <3>1. Room(h, Sample)
      BY <1>1, <2>6, <2>7 DEF Room
    <3>2. /\ h \o Sample \in Seq(Statement) /\ Marked(h \o Sample)
          /\ Len(h \o Sample) = Len(h) + Len(Sample)
      BY <1>1, <2>6, <2>7, <3>1, QuietThen, Zenon
    <3> QED BY <1>1, <2>6, <2>7, <3>2
  <2>9. e = i \o two
    BY <1>13, <2>1, <2>3, <2>5, <2>7
  <2>10. Room(i, two)
    BY <1>6, <2>8 DEF Room
  <2>11. /\ i \o two \in Seq(Statement) /\ Marked(i \o two)
         /\ Len(i \o two) = Len(i) + Len(two)
    BY <1>6, <2>8, <2>9, <2>10, QuietThen, Zenon
  <2> QED BY <1>6, <2>8, <2>9, <2>11
<1>15. e = Script
  BY <1>2, <1>3, <1>4, <1>5, <1>9, <1>11, <1>13 DEF Script
<1> QED BY <1>14, <1>15

\* Where the parent is on its script.
Passed == 28 - Len(p.todo)

Held == {"none", "input", "paused", "completed"}

Kinds == {"node_entered", "effect_attempt", "resume_returned"}

Place == {"dead", "start", "before_interrupt", "interrupt", "returned", "after_resume",
          "complete", "record", "exit"}

Worker == [phase : Phase, pc : Place, code : {0, 1, -9}, loaded : Held, events : Seq(Kinds)]

Written == [loaded : Held, terminal : Held, events : Seq(Kinds)]

ShapeOK ==
  /\ w \in Worker /\ checkpoint \in Held /\ record \in [Phase -> Written]
  /\ p = [todo |-> p.todo, sample |-> p.sample, sources |-> p.sources, epoch |-> p.epoch,
          forced |-> p.forced, failure |-> p.failure]
  /\ p.todo \in Seq(Statement) /\ p.forced \subseteq Phase /\ p.failure \in BOOLEAN
  /\ p.failure => p.todo = <<>>

\* The rows of a capture, in the order of their commits.
Total == IF mode = "idempotent" THEN 2 ELSE 3

KeyAt(i) ==
  IF mode = "idempotent" THEN (IF i = 1 THEN <<"before_interrupt">> ELSE <<"after_resume">>)
  ELSE IF i = 1 THEN <<"before_interrupt", "pause">>
       ELSE IF i = 2 THEN <<"before_interrupt", "resume">> ELSE <<"after_resume", "resume">>

Wrote(n) == Len(ledger) = n /\ \A i \in 1 .. n : ledger[i].key = KeyAt(i)

\* What a worker that has not failed has done, by its phase and place.
PauseOK ==
  /\ w.pc \in {"start", "before_interrupt", "interrupt", "record", "exit", "dead"}
  /\ w.pc \in {"start", "before_interrupt"} => Wrote(0)
  /\ w.pc \notin {"start", "before_interrupt"} => Wrote(1)
  /\ w.pc \in {"record", "exit", "dead"} => checkpoint = "paused"
  /\ w.pc \in {"exit", "dead"} => record["pause"].terminal = "paused"

ResumeOK ==
  /\ record["pause"].terminal = "paused"
  /\ w.pc \in {"start", "before_interrupt", "returned", "after_resume", "complete", "record", "exit", "dead"}
  /\ w.pc \in {"start", "before_interrupt"} => Wrote(1)
  /\ w.pc \in {"returned", "after_resume"} => Wrote(Total - 1)
  /\ w.pc \in {"complete", "record", "exit", "dead"} => Wrote(Total)
  /\ w.pc = "start" => checkpoint = "paused"
  /\ w.pc \notin {"start", "exit", "dead"} => w.loaded = "paused"
  /\ w.pc \in {"record", "exit", "dead"} => checkpoint = "completed"
  /\ w.pc \in {"exit", "dead"} => record["resume"].loaded = "paused"

\* Outside its two waits the parent has no worker, and the last one ended by itself.
CaptureOK ==
  /\ Passed \in 0 .. 28 /\ \A i \in 1 .. Len(p.todo) : MarkAt(Passed + i, p.todo[i])
  /\ Passed = 0 => w.pc = "dead" /\ checkpoint = "none" /\ Wrote(0)
  /\ Passed \in 1 .. 13 => w.phase = "pause" /\ (w.code = 0 => PauseOK)
  /\ Passed \in 14 .. 28 => w.phase = "resume" /\ (w.code = 0 => ResumeOK)
  /\ Passed \notin {1, 14} => p.forced = {}
  /\ p.forced \subseteq {w.phase}
  /\ Passed \notin {0, 1, 14} => w.pc = "dead" /\ w.code = 0

CaptureInv == LedgerInv /\ ShapeOK /\ (p.failure \/ CaptureOK)

\* The parent is at the first statement and no worker has started.
LEMMA InitCapture == Init => CaptureInv
<1> SUFFICES ASSUME Init PROVE CaptureInv
  OBVIOUS
<1>1. /\ Script \in Seq(Statement) /\ Len(Script) = 28
      /\ \A i \in 1 .. 28 : MarkAt(i, Script[i])
  BY ScriptMarked DEF Marked
<1>2. /\ p.todo = Script /\ p.forced = {} /\ p.failure = FALSE
      /\ p = [todo |-> p.todo, sample |-> p.sample, sources |-> p.sources, epoch |-> p.epoch,
              forced |-> p.forced, failure |-> p.failure]
  BY DEF Init
<1>3. /\ w \in Worker /\ w.pc = "dead" /\ w.phase = "pause" /\ checkpoint = "none" /\ ledger = <<>>
  BY DEF Init, Worker, Phase, Place, Held
<1>4. record \in [Phase -> Written]
  BY DEF Init, Written, NoRecord, Held
<1>5. ShapeOK
  BY <1>1, <1>2, <1>3, <1>4 DEF ShapeOK, Held
<1>6. Len(p.todo) = 28 /\ Passed = 0 /\ Wrote(0)
  BY <1>1, <1>2, <1>3 DEF Passed, Wrote
<1>7. \A i \in 1 .. Len(p.todo) : MarkAt(Passed + i, p.todo[i])
  <2> SUFFICES ASSUME NEW i \in 1 .. Len(p.todo) PROVE MarkAt(Passed + i, p.todo[i])
    OBVIOUS
  <2>1. i \in 1 .. 28 /\ Passed + i = i
    BY <1>6
  <2>2. PICK st : st = Script[i]
    OBVIOUS
  <2>3. MarkAt(i, st) /\ p.todo[i] = st
    BY <1>1, <1>2, <2>1, <2>2
  <2> QED BY <2>1, <2>3 DEF MarkAt
<1>8. CaptureOK
  BY <1>1, <1>2, <1>3, <1>6, <1>7 DEF CaptureOK
<1> QED BY <1>5, <1>8, InitLedger DEF CaptureInv

-----------------------------------------------------------------------------
(* The worker's steps.                                                      *)

\* A worker that moves on keeps its phase, its code and what it loaded.
LEMMA WentFields ==
  ASSUME w \in Worker, NEW pc \in Place, NEW kinds \in Seq(Kinds)
  PROVE  /\ Went(pc, kinds) \in Worker /\ Went(pc, kinds).pc = pc
         /\ Went(pc, kinds).phase = w.phase /\ Went(pc, kinds).code = w.code
         /\ Went(pc, kinds).loaded = w.loaded
<1>1. PICK es : es = w.events \o kinds
  OBVIOUS
<1>2. es \in Seq(Kinds)
  BY <1>1 DEF Worker
<1>3. Went(pc, kinds) = [w EXCEPT !.pc = pc, !.events = es]
  BY <1>1 DEF Went, Worker
<1>4. PICK v : v = [w EXCEPT !.pc = pc, !.events = es]
  OBVIOUS
<1>5. /\ v \in Worker /\ v.pc = pc /\ v.phase = w.phase /\ v.code = w.code /\ v.loaded = w.loaded
  BY <1>2, <1>4 DEF Worker
<1> QED BY <1>3, <1>4, <1>5

\* A worker that moves keeps its phase, its code and the parent.
Moves == /\ w.pc # "dead" /\ w' \in Worker /\ w'.phase = w.phase /\ w'.code = w.code
         /\ p' = p /\ mode' = mode

WorkerStep ==
  Enter \/ EffectBefore \/ Interrupt \/ Returned \/ EffectAfter \/ Complete \/ WriteRecord \/ Exit

\* A worker that enters its graph loads the checkpoint, and a pause replaces it.
LEMMA EnterMoves ==
  ASSUME ShapeOK, Enter
  PROVE  /\ Moves /\ w.pc = "start" /\ w'.pc = "before_interrupt" /\ w'.loaded = checkpoint
         /\ checkpoint' = (IF w.phase = "pause" THEN "input" ELSE checkpoint)
         /\ ledger' = ledger /\ record' = record
<1>1. PICK g : g = Went("before_interrupt", <<"node_entered">>)
  OBVIOUS
<1>2. "before_interrupt" \in Place /\ <<"node_entered">> \in Seq(Kinds) /\ w \in Worker
  BY DEF Place, Kinds, ShapeOK
<1>3. g \in Worker /\ g.pc = "before_interrupt" /\ g.phase = w.phase /\ g.code = w.code
  BY <1>1, <1>2, WentFields
<1>4. w' = [g EXCEPT !.loaded = checkpoint] /\ checkpoint \in Held
  BY <1>1 DEF Enter, ShapeOK
<1>5. PICK v : v = [g EXCEPT !.loaded = checkpoint]
  OBVIOUS
<1>6. /\ v \in Worker /\ v.pc = "before_interrupt" /\ v.phase = w.phase /\ v.code = w.code
      /\ v.loaded = checkpoint
  BY <1>3, <1>4, <1>5 DEF Worker
<1> QED BY <1>4, <1>5, <1>6 DEF Moves, Enter, At

\* The other steps move the program counter and append events.
LEMMA StepMoves ==
  ASSUME ShapeOK, NEW at \in Place \ {"dead"}, At(at), NEW next \in Place,
         NEW kinds \in Seq(Kinds), w' = Went(next, kinds)
  PROVE  Moves /\ w.pc = at /\ w'.pc = next /\ w'.loaded = w.loaded
<1>1. w \in Worker
  BY DEF ShapeOK
<1>2. /\ w' \in Worker /\ w'.pc = next /\ w'.phase = w.phase /\ w'.code = w.code
      /\ w'.loaded = w.loaded
  BY <1>1, WentFields
<1> QED BY <1>2 DEF Moves, At

\* INSERT OR IGNORE, on the key of the stage and the phase that runs.
LEMMA EffectFields ==
  ASSUME LedgerInv, ShapeOK, NEW stage \in Stages, NEW next \in Place, Effect(stage, next)
  PROVE  /\ Moves /\ w.pc = stage /\ w'.pc = next /\ w'.loaded = w.loaded
         /\ checkpoint' = checkpoint /\ record' = record
         /\ Len(ledger) \in Nat
         /\ IF \E i \in 1 .. Len(ledger) : ledger[i].key = KeyFor(mode, stage, w.phase)
            THEN ledger' = ledger
            ELSE /\ Len(ledger') = Len(ledger) + 1
                 /\ ledger'[Len(ledger) + 1].key = KeyFor(mode, stage, w.phase)
                 /\ \A i \in 1 .. Len(ledger) : ledger'[i] = ledger[i]
<1>1. /\ "effect_attempt" \in Kinds /\ stage \in Place \ {"dead"}
  BY DEF Kinds, Place, Stages
<1>2. At(stage) /\ w' = Went(next, <<"effect_attempt">>) /\ checkpoint' = checkpoint /\ record' = record
  BY DEF Effect
<1>3. <<"effect_attempt">> \in Seq(Kinds)
  BY <1>1
<1>4. Moves /\ w.pc = stage /\ w'.pc = next /\ w'.loaded = w.loaded
  BY <1>1, <1>2, <1>3, StepMoves
<1>5. PICK row : row = [key |-> KeyOf(stage), stage |-> stage, epoch |-> w.phase, tick |-> now + 1]
  OBVIOUS
<1>6. /\ ledger' = IF \E i \in DOMAIN ledger : ledger[i].key = row.key THEN ledger
                   ELSE Append(ledger, row)
  BY <1>5 DEF Effect
<1>7. row.key = KeyFor(mode, stage, w.phase)
  BY <1>5 DEF KeyOf, KeyFor
<1>8. row \in Row
  BY <1>5 DEF KeyOf, Row, LedgerInv, WorkerOK
<1>9. ledger \in Seq(Row) /\ Len(ledger) \in Nat /\ DOMAIN ledger = 1 .. Len(ledger)
  BY DEF LedgerInv, KeysOK
<1>10. CASE \E i \in 1 .. Len(ledger) : ledger[i].key = KeyFor(mode, stage, w.phase)
  BY <1>2, <1>4, <1>6, <1>7, <1>9, <1>10
<1>11. CASE ~ \E i \in 1 .. Len(ledger) : ledger[i].key = KeyFor(mode, stage, w.phase)
  <2>1. ledger' = Append(ledger, row)
    BY <1>6, <1>7, <1>9, <1>11
  <2>2. /\ Len(ledger') = Len(ledger) + 1 /\ ledger'[Len(ledger) + 1] = row
        /\ \A i \in 1 .. Len(ledger) : ledger'[i] = ledger[i]
    BY <1>8, <1>9, <2>1
  <2> QED BY <1>2, <1>4, <1>7, <1>9, <1>11, <2>2
<1> QED BY <1>10, <1>11

\* A row joins in the order of the capture.
LEMMA EffectAppends ==
  ASSUME LedgerInv, ShapeOK, NEW stage \in Stages, NEW next \in Place, Effect(stage, next),
         NEW n \in Nat, Wrote(n), KeyFor(mode, stage, w.phase) = KeyAt(n + 1),
         \A i \in 1 .. n : KeyAt(i) # KeyAt(n + 1)
  PROVE  Wrote(n + 1)'
<1>1. PICK k : k = KeyFor(mode, stage, w.phase)
  OBVIOUS
<1>2. /\ Len(ledger) = n /\ \A i \in 1 .. n : ledger[i].key = KeyAt(i) /\ ledger[i].key # k
  BY <1>1 DEF Wrote
<1>3. ~ \E i \in 1 .. Len(ledger) : ledger[i].key = KeyFor(mode, stage, w.phase)
  BY <1>1, <1>2
<1>4. /\ mode' = mode /\ Len(ledger') = n + 1 /\ ledger'[n + 1].key = KeyAt(n + 1)
      /\ \A i \in 1 .. n : ledger'[i] = ledger[i]
  BY <1>1, <1>2, <1>3, EffectFields DEF Moves
<1>5. ASSUME NEW i \in 1 .. n + 1 PROVE ledger'[i].key = KeyAt(i)
  <2>1. CASE i = n + 1
    BY <1>4, <2>1
  <2>2. CASE i # n + 1
    BY <1>2, <1>4, <2>2
  <2> QED BY <2>1, <2>2
<1>6. \A i \in 1 .. n + 1 : KeyAt(i)' = KeyAt(i)
  BY <1>4 DEF KeyAt
<1> QED BY <1>4, <1>5, <1>6 DEF Wrote

\* An effect whose first row is there already adds none.
LEMMA EffectRepeats ==
  ASSUME LedgerInv, ShapeOK, NEW stage \in Stages, NEW next \in Place, Effect(stage, next),
         Wrote(1), KeyFor(mode, stage, w.phase) = KeyAt(1)
  PROVE  Wrote(1)'
<1>1. \E i \in 1 .. Len(ledger) : ledger[i].key = KeyFor(mode, stage, w.phase)
  BY DEF Wrote
<1>2. ledger' = ledger /\ mode' = mode
  BY <1>1, EffectFields DEF Moves
<1> QED BY <1>2 DEF Wrote, KeyAt

\* The keys of a capture are distinct.
LEMMA KeysAtDiffer ==
  ASSUME mode \in {"idempotent", "repeat"}
  PROVE  /\ KeyAt(1) # KeyAt(2)
         /\ mode = "repeat" => KeyAt(1) # KeyAt(3) /\ KeyAt(2) # KeyAt(3)
<1>1. <<"before_interrupt">> # <<"after_resume">>
  OBVIOUS
<1>2. /\ <<"before_interrupt", "pause">> # <<"before_interrupt", "resume">>
      /\ <<"before_interrupt", "pause">> # <<"after_resume", "resume">>
      /\ <<"before_interrupt", "resume">> # <<"after_resume", "resume">>
  OBVIOUS
<1> QED BY <1>1, <1>2 DEF KeyAt

\* The file of a phase keeps what its worker loaded and where the graph stood.
LEMMA RecordFields ==
  ASSUME ShapeOK, WriteRecord
  PROVE  /\ Moves /\ w.pc = "record" /\ w'.pc = "exit"
         /\ checkpoint' = checkpoint /\ ledger' = ledger
         /\ record' \in [Phase -> Written]
         /\ record'[w.phase].loaded = w.loaded /\ record'[w.phase].terminal = checkpoint
         /\ \A f \in Phase : f # w.phase => record'[f] = record[f]
<1>1. "record" \in Place \ {"dead"} /\ "exit" \in Place /\ <<>> \in Seq(Kinds)
  BY DEF Place
<1>2. /\ At("record") /\ w' = Went("exit", <<>>) /\ checkpoint' = checkpoint /\ ledger' = ledger
  BY DEF WriteRecord
<1>3. Moves /\ w.pc = "record" /\ w'.pc = "exit"
  BY <1>1, <1>2, StepMoves
<1>4. PICK r : r = [loaded |-> w.loaded, terminal |-> checkpoint, events |-> w.events]
  OBVIOUS
<1>5. r \in Written /\ r.loaded = w.loaded /\ r.terminal = checkpoint /\ w.phase \in Phase
  BY <1>4 DEF ShapeOK, Worker, Written
<1>6. record' = [record EXCEPT ![w.phase] = r] /\ record \in [Phase -> Written]
  BY <1>4 DEF WriteRecord, ShapeOK
<1>7. /\ record' \in [Phase -> Written] /\ record'[w.phase] = r
      /\ \A f \in Phase : f # w.phase => record'[f] = record[f]
  BY <1>5, <1>6
<1> QED BY <1>2, <1>3, <1>5, <1>7

\* A worker of the first phase.
LEMMA PauseSteps ==
  ASSUME LedgerInv, ShapeOK, WorkerStep, w.phase = "pause", PauseOK
  PROVE  PauseOK'
<1>1. mode \in {"idempotent", "repeat"} /\ "pause" \in Phase
  BY DEF LedgerInv, WorkerOK, Phase
<1>2. \A n : ledger' = ledger /\ mode' = mode /\ Wrote(n) => Wrote(n)'
  BY DEF Wrote, KeyAt
<1>3. ASSUME Enter PROVE PauseOK'
  <2>1. /\ w.pc = "start" /\ w'.pc = "before_interrupt" /\ ledger' = ledger /\ mode' = mode
    BY <1>3, EnterMoves DEF Moves
  <2> QED BY <1>2, <2>1 DEF PauseOK
<1>4. ASSUME EffectBefore PROVE PauseOK'
  <2>1. Effect("before_interrupt", "interrupt") /\ "before_interrupt" \in Stages /\ "interrupt" \in Place
    BY <1>4 DEF EffectBefore, Stages, Place
  <2>2. w.pc = "before_interrupt" /\ w'.pc = "interrupt"
    BY <2>1, EffectFields
  <2>3. Wrote(0) /\ KeyFor(mode, "before_interrupt", w.phase) = KeyAt(1)
    BY <2>2 DEF PauseOK, KeyFor, KeyAt
  <2>4. Wrote(0 + 1)'
    <3>1. KeyFor(mode, "before_interrupt", w.phase) = KeyAt(0 + 1)
      BY <2>3
    <3>2. \A i \in 1 .. 0 : KeyAt(i) # KeyAt(0 + 1)
      OBVIOUS
    <3> QED BY <2>1, <2>3, <3>1, <3>2, EffectAppends
  <2> QED BY <2>2, <2>4 DEF PauseOK
<1>5. ASSUME Interrupt PROVE PauseOK'
  <2>1. /\ "interrupt" \in Place \ {"dead"} /\ "record" \in Place /\ <<>> \in Seq(Kinds)
        /\ At("interrupt") /\ w' = Went("record", <<>>)
    BY <1>5 DEF Interrupt, Place
  <2>2. w.pc = "interrupt" /\ w'.pc = "record" /\ mode' = mode
    BY <2>1, StepMoves DEF Moves
  <2>3. checkpoint' = "paused" /\ ledger' = ledger
    BY <1>5 DEF Interrupt
  <2> QED BY <1>2, <2>2, <2>3 DEF PauseOK
<1>6. ASSUME WriteRecord PROVE PauseOK'
  <2>1. /\ w.pc = "record" /\ w'.pc = "exit" /\ mode' = mode /\ checkpoint' = checkpoint
        /\ ledger' = ledger /\ record'["pause"].terminal = checkpoint
    BY <1>6, RecordFields DEF Moves
  <2> QED BY <1>2, <2>1 DEF PauseOK
<1>7. ASSUME Exit PROVE PauseOK'
  <2>1. /\ "exit" \in Place \ {"dead"} /\ "dead" \in Place /\ <<>> \in Seq(Kinds)
        /\ At("exit") /\ w' = Went("dead", <<>>)
    BY <1>7 DEF Exit, Place
  <2>2. w.pc = "exit" /\ w'.pc = "dead" /\ mode' = mode
    BY <2>1, StepMoves DEF Moves
  <2>3. checkpoint' = checkpoint /\ ledger' = ledger /\ record' = record
    BY <1>7 DEF Exit
  <2> QED BY <1>2, <2>2, <2>3 DEF PauseOK
<1>8. ~ (Returned \/ EffectAfter \/ Complete)
  BY DEF Returned, EffectAfter, Effect, Complete, At, PauseOK
<1> QED BY <1>3, <1>4, <1>5, <1>6, <1>7, <1>8 DEF WorkerStep

\* A worker of the second phase, from the checkpoint of the first.
LEMMA ResumeSteps ==
  ASSUME LedgerInv, ShapeOK, WorkerStep, w.phase = "resume", ResumeOK
  PROVE  ResumeOK'
<1>1. mode \in {"idempotent", "repeat"} /\ "pause" \in Phase /\ "resume" \in Phase
  BY DEF LedgerInv, WorkerOK, Phase
<1>2. \A n : ledger' = ledger /\ mode' = mode /\ Wrote(n) => Wrote(n)'
  BY DEF Wrote, KeyAt
<1>3. mode' = mode => Total' = Total
  BY DEF Total
<1>4. ASSUME Enter PROVE ResumeOK'
  <2>1. /\ w.pc = "start" /\ w'.pc = "before_interrupt" /\ ledger' = ledger /\ mode' = mode
        /\ record' = record /\ w'.loaded = checkpoint
    BY <1>4, EnterMoves DEF Moves
  <2> QED BY <1>2, <2>1 DEF ResumeOK
<1>5. ASSUME EffectBefore PROVE ResumeOK'
  <2>1. Effect("before_interrupt", "returned") /\ "before_interrupt" \in Stages /\ "returned" \in Place
    BY <1>5 DEF EffectBefore, Stages, Place
  <2>2. /\ w.pc = "before_interrupt" /\ w'.pc = "returned" /\ mode' = mode /\ record' = record
        /\ w'.loaded = w.loaded
    BY <2>1, EffectFields DEF Moves
  <2>3. Wrote(1)
    BY <2>2 DEF ResumeOK
  <2>4. CASE mode = "idempotent"
    <3>1. KeyFor(mode, "before_interrupt", w.phase) = KeyAt(1)
      BY <2>4 DEF KeyFor, KeyAt
    <3>2. Wrote(1)'
      BY <2>1, <2>3, <3>1, EffectRepeats
    <3>3. Wrote(Total - 1)'
      BY <2>2, <2>4, <3>2 DEF Total
    <3> QED BY <2>2, <3>3 DEF ResumeOK
  <2>5. CASE mode = "repeat"
    <3>1. KeyFor(mode, "before_interrupt", w.phase) = KeyAt(1 + 1)
      BY <2>5 DEF KeyFor, KeyAt
    <3>2. \A i \in 1 .. 1 : KeyAt(i) # KeyAt(1 + 1)
      BY <1>1, KeysAtDiffer
    <3>3. Wrote(1 + 1)'
      BY <2>1, <2>3, <3>1, <3>2, EffectAppends
    <3>4. Wrote(Total - 1)'
      BY <2>2, <2>5, <3>3 DEF Total
    <3> QED BY <2>2, <3>4 DEF ResumeOK
  <2> QED BY <1>1, <2>4, <2>5
<1>6. ASSUME Returned PROVE ResumeOK'
  <2>1. /\ "returned" \in Place \ {"dead"} /\ "after_resume" \in Place
        /\ At("returned") /\ w' = Went("after_resume", <<"resume_returned">>)
    BY <1>6 DEF Returned, Place
  <2>2. <<"resume_returned">> \in Seq(Kinds)
    BY DEF Kinds
  <2>3. w.pc = "returned" /\ w'.pc = "after_resume" /\ mode' = mode /\ w'.loaded = w.loaded
    BY <2>1, <2>2, StepMoves DEF Moves
  <2>4. checkpoint' = checkpoint /\ ledger' = ledger /\ record' = record
    BY <1>6 DEF Returned
  <2> QED BY <1>2, <1>3, <2>3, <2>4 DEF ResumeOK
<1>7. ASSUME EffectAfter PROVE ResumeOK'
  <2>1. Effect("after_resume", "complete") /\ "after_resume" \in Stages /\ "complete" \in Place
    BY <1>7 DEF EffectAfter, Stages, Place
  <2>2. /\ w.pc = "after_resume" /\ w'.pc = "complete" /\ mode' = mode /\ record' = record
        /\ w'.loaded = w.loaded
    BY <2>1, EffectFields DEF Moves
  <2>3. PICK n \in {1, 2} : n = Total - 1
    BY <1>1 DEF Total
  <2>4. Wrote(n)
    BY <2>2, <2>3 DEF ResumeOK
  <2>5. KeyFor(mode, "after_resume", w.phase) = KeyAt(n + 1)
    BY <1>1, <2>3 DEF KeyFor, KeyAt, Total
  <2>6. \A i \in 1 .. n : KeyAt(i) # KeyAt(n + 1)
    <3>1. KeyAt(1) # KeyAt(2) /\ (mode = "repeat" => KeyAt(1) # KeyAt(3) /\ KeyAt(2) # KeyAt(3))
      BY <1>1, KeysAtDiffer
    <3>2. CASE mode = "idempotent"
      <4>1. n = 1
        BY <2>3, <3>2 DEF Total
      <4> QED BY <3>1, <4>1
    <3>3. CASE mode = "repeat"
      <4>1. n = 2
        BY <2>3, <3>3 DEF Total
      <4>2. \A i \in 1 .. 2 : i = 1 \/ i = 2
        OBVIOUS
      <4> QED BY <3>1, <3>3, <4>1, <4>2
    <3> QED BY <1>1, <3>2, <3>3
  <2>7. Wrote(n + 1)'
    BY <2>1, <2>3, <2>4, <2>5, <2>6, EffectAppends
  <2>8. Total' = n + 1
    BY <1>1, <2>2, <2>3 DEF Total
  <2>9. Wrote(Total)'
    BY <2>7, <2>8
  <2> QED BY <2>2, <2>9 DEF ResumeOK
<1>8. ASSUME Complete PROVE ResumeOK'
  <2>1. /\ "complete" \in Place \ {"dead"} /\ "record" \in Place /\ <<>> \in Seq(Kinds)
        /\ At("complete") /\ w' = Went("record", <<>>)
    BY <1>8 DEF Complete, Place
  <2>2. w.pc = "complete" /\ w'.pc = "record" /\ mode' = mode /\ w'.loaded = w.loaded
    BY <2>1, StepMoves DEF Moves
  <2>3. checkpoint' = "completed" /\ ledger' = ledger /\ record' = record
    BY <1>8 DEF Complete
  <2> QED BY <1>2, <1>3, <2>2, <2>3 DEF ResumeOK
<1>9. ASSUME WriteRecord PROVE ResumeOK'
  <2>1. /\ w.pc = "record" /\ w'.pc = "exit" /\ mode' = mode /\ checkpoint' = checkpoint
        /\ ledger' = ledger /\ record'["resume"].loaded = w.loaded
        /\ record'["pause"] = record["pause"]
    BY <1>1, <1>9, RecordFields DEF Moves
  <2> QED BY <1>2, <1>3, <2>1 DEF ResumeOK
<1>10. ASSUME Exit PROVE ResumeOK'
  <2>1. /\ "exit" \in Place \ {"dead"} /\ "dead" \in Place /\ <<>> \in Seq(Kinds)
        /\ At("exit") /\ w' = Went("dead", <<>>)
    BY <1>10 DEF Exit, Place
  <2>2. w.pc = "exit" /\ w'.pc = "dead" /\ mode' = mode
    BY <2>1, StepMoves DEF Moves
  <2>3. checkpoint' = checkpoint /\ ledger' = ledger /\ record' = record
    BY <1>10 DEF Exit
  <2> QED BY <1>2, <1>3, <2>2, <2>3 DEF ResumeOK
<1>11. ~ Interrupt
  BY DEF Interrupt, At, ResumeOK
<1> QED BY <1>4, <1>5, <1>6, <1>7, <1>8, <1>9, <1>10, <1>11 DEF WorkerStep

\* Every step of a worker is a move of its phase and keeps the types.
LEMMA WorkerMoves ==
  ASSUME LedgerInv, ShapeOK, WorkerStep
  PROVE  Moves /\ ShapeOK'
<1>1. /\ \A k \in Kinds : <<k>> \in Seq(Kinds)
      /\ <<>> \in Seq(Kinds)
      /\ "node_entered" \in Kinds /\ "effect_attempt" \in Kinds /\ "resume_returned" \in Kinds
  BY DEF Kinds
<1>2. Moves /\ checkpoint' \in Held /\ record' \in [Phase -> Written]
  <2>1. CASE Enter
    <3>1. "input" \in Held
      BY DEF Held
    <3> QED BY <2>1, <3>1, EnterMoves DEF ShapeOK
  <2>2. CASE EffectBefore
    <3>1. PICK next \in Place : Effect("before_interrupt", next)
      <4>1. "interrupt" \in Place /\ "returned" \in Place
        BY DEF Place
      <4> QED BY <2>2, <4>1 DEF EffectBefore
    <3>2. "before_interrupt" \in Stages
      BY DEF Stages
    <3> QED BY <3>1, <3>2, EffectFields DEF ShapeOK
  <2>3. CASE EffectAfter
    <3>1. "after_resume" \in Stages /\ "complete" \in Place /\ Effect("after_resume", "complete")
      BY <2>3 DEF Stages, Place, EffectAfter
    <3> QED BY <3>1, EffectFields DEF ShapeOK
  <2>4. CASE WriteRecord
    BY <2>4, RecordFields DEF ShapeOK
  <2>5. CASE Interrupt
    <3>1. /\ "interrupt" \in Place \ {"dead"} /\ "record" \in Place
          /\ At("interrupt") /\ w' = Went("record", <<>>)
          /\ checkpoint' = "paused" /\ record' = record
      BY <2>5 DEF Interrupt, Place
    <3> QED BY <1>1, <3>1, StepMoves DEF ShapeOK, Held
  <2>6. CASE Returned
    <3>1. /\ "returned" \in Place \ {"dead"} /\ "after_resume" \in Place
          /\ At("returned") /\ w' = Went("after_resume", <<"resume_returned">>)
          /\ checkpoint' = checkpoint /\ record' = record
      BY <2>6 DEF Returned, Place
    <3> QED BY <1>1, <3>1, StepMoves DEF ShapeOK
  <2>7. CASE Complete
    <3>1. /\ "complete" \in Place \ {"dead"} /\ "record" \in Place
          /\ At("complete") /\ w' = Went("record", <<>>)
          /\ checkpoint' = "completed" /\ record' = record
      BY <2>7 DEF Complete, Place
    <3> QED BY <1>1, <3>1, StepMoves DEF ShapeOK, Held
  <2>8. CASE Exit
    <3>1. /\ "exit" \in Place \ {"dead"} /\ "dead" \in Place
          /\ At("exit") /\ w' = Went("dead", <<>>)
          /\ checkpoint' = checkpoint /\ record' = record
      BY <2>8 DEF Exit, Place
    <3> QED BY <1>1, <3>1, StepMoves DEF ShapeOK
  <2> QED BY <2>1, <2>2, <2>3, <2>4, <2>5, <2>6, <2>7, <2>8 DEF WorkerStep
<1>3. p' = p /\ w' \in Worker
  BY <1>2 DEF Moves
<1> QED BY <1>2, <1>3 DEF ShapeOK

\* A step of the worker, whose parent waits for it.
LEMMA WorkerKeeps ==
  ASSUME CaptureInv, LedgerInv', WorkerStep
  PROVE  CaptureInv'
<1>1. /\ LedgerInv /\ ShapeOK /\ (p.failure \/ CaptureOK)
  BY DEF CaptureInv
<1>2. Moves /\ ShapeOK'
  BY <1>1, WorkerMoves
<1>3. p' = p /\ Passed' = Passed /\ w'.phase = w.phase /\ w'.code = w.code /\ w.pc # "dead"
  BY <1>2 DEF Moves, Passed
<1>4. CASE p.failure
  BY <1>2, <1>3, <1>4 DEF CaptureInv
<1>5. CASE CaptureOK
  <2>1. Passed = 1 \/ Passed = 14
    BY <1>3, <1>5 DEF CaptureOK
  <2>2. CASE Passed = 1
    <3>1. w.phase = "pause" /\ (w.code = 0 => PauseOK')
      BY <1>1, <1>5, <2>2, PauseSteps DEF CaptureOK
    <3> QED BY <1>2, <1>3, <1>5, <2>2, <3>1 DEF CaptureOK, CaptureInv
  <2>3. CASE Passed = 14
    <3>1. w.phase = "resume" /\ (w.code = 0 => ResumeOK')
      BY <1>1, <1>5, <2>3, ResumeSteps DEF CaptureOK
    <3> QED BY <1>2, <1>3, <1>5, <2>3, <3>1 DEF CaptureOK, CaptureInv
  <2> QED BY <2>1, <2>2, <2>3
<1> QED BY <1>1, <1>4, <1>5

\* A worker that fails leaves a code that no later step takes back.
LEMMA FailKeeps ==
  ASSUME CaptureInv, LedgerInv', Fail
  PROVE  CaptureInv'
<1>1. /\ LedgerInv /\ ShapeOK /\ (p.failure \/ CaptureOK)
  BY DEF CaptureInv
<1>2. PICK v : v = [w EXCEPT !.pc = "dead", !.code = 1]
  OBVIOUS
<1>3. v \in Worker /\ v.pc = "dead" /\ v.phase = w.phase /\ v.code = 1 /\ w' = v
  BY <1>1, <1>2 DEF ShapeOK, Worker, Place, Fail
<1>4. /\ w.pc # "dead" /\ w' \in Worker /\ w'.pc = "dead" /\ w'.phase = w.phase /\ w'.code # 0
      /\ p' = p /\ Passed' = Passed /\ UNCHANGED <<checkpoint, record>>
  BY <1>3 DEF Fail, Passed
<1>5. ShapeOK'
  BY <1>1, <1>4 DEF ShapeOK
<1>6. CASE p.failure
  BY <1>4, <1>5, <1>6 DEF CaptureInv
<1>7. CASE CaptureOK
  <2>1. Passed = 1 \/ Passed = 14
    BY <1>4, <1>7 DEF CaptureOK
  <2>2. CaptureOK'
    BY <1>4, <1>7, <2>1 DEF CaptureOK
  <2> QED BY <1>5, <2>2 DEF CaptureInv
<1> QED BY <1>1, <1>6, <1>7
-----------------------------------------------------------------------------
(* The parent's steps.                                                      *)

\* A statement that is done: the script is one shorter.
LEMMA Advance ==
  ASSUME ShapeOK, CaptureOK, p.todo # <<>>
  PROVE  /\ Tail(p.todo) \in Seq(Statement) /\ Len(Tail(p.todo)) = Len(p.todo) - 1
         /\ Passed \in 0 .. 27 /\ Len(p.todo) \in 1 .. 28 /\ Len(p.todo) = 28 - Passed
         /\ MarkAt(Passed + 1, Head(p.todo))
         /\ \A i \in 1 .. Len(p.todo) - 1 : MarkAt(Passed + 1 + i, Tail(p.todo)[i])
<1>1. PICK q : q = p.todo
  OBVIOUS
<1>2. PICK n \in 0 .. 28 : n = Passed
  BY DEF CaptureOK
<1>3. q \in Seq(Statement) /\ q # <<>> /\ Len(q) = 28 - n /\ Len(q) \in Nat
  BY <1>1, <1>2 DEF ShapeOK, Passed
<1>4. Len(q) \in 1 .. 28 /\ n \in 0 .. 27
  BY <1>2, <1>3
<1>5. \A i \in 1 .. Len(q) : MarkAt(n + i, q[i])
  BY <1>1, <1>2 DEF CaptureOK
<1>6. PICK t : t = Tail(q)
  OBVIOUS
<1>7. /\ t \in Seq(Statement) /\ Len(t) = Len(q) - 1 /\ Head(q) = q[1]
      /\ \A i \in 1 .. Len(q) - 1 : t[i] = q[i + 1]
  BY <1>3, <1>4, <1>6
<1>8. MarkAt(n + 1, Head(q))
  BY <1>4, <1>5, <1>7
<1>9. ASSUME NEW i \in 1 .. Len(q) - 1 PROVE MarkAt(n + 1 + i, t[i])
  <2>1. PICK j \in 1 .. Len(q) : j = i + 1
    BY <1>3, <1>4
  <2>2. MarkAt(n + j, q[j]) /\ t[i] = q[j]
    BY <1>5, <1>7, <2>1
  <2>3. n + j = n + 1 + i
    BY <1>4, <2>1
  <2> QED BY <2>2, <2>3 DEF MarkAt
<1> QED BY <1>1, <1>2, <1>3, <1>4, <1>6, <1>7, <1>8, <1>9

Parent(r) == r = [todo |-> r.todo, sample |-> r.sample, sources |-> r.sources, epoch |-> r.epoch,
                  forced |-> r.forced, failure |-> r.failure]

Advances ==
  /\ p.todo # <<>> /\ Parent(p)' /\ p'.todo = Tail(p.todo) /\ p'.forced = p.forced
  /\ p'.failure = p.failure /\ UNCHANGED <<mode, checkpoint, ledger, record>>

\* What the parent samples and reports is of no account here.
LEMMA DoneFields ==
  ASSUME ShapeOK, NEW sample, NEW sources, NEW epoch, p.todo # <<>>,
         UNCHANGED <<mode, checkpoint, ledger, record>>,
         p' = [todo |-> Tail(p.todo), sample |-> sample, sources |-> sources, epoch |-> epoch,
               forced |-> p.forced, failure |-> p.failure]
  PROVE  Advances
  BY DEF Advances, Parent

DoneIs ==
  [todo |-> Tail(p.todo), sample |-> p.sample, sources |-> p.sources, epoch |-> p.epoch,
   forced |-> p.forced, failure |-> p.failure]

\* A finished statement changes nothing but what is left to do.
LEMMA DoneShape == ASSUME ShapeOK PROVE Done = DoneIs
<1>1. PICK t : t = Tail(p.todo)
  OBVIOUS
<1>2. PICK q : q = [todo |-> p.todo, sample |-> p.sample, sources |-> p.sources, epoch |-> p.epoch,
                    forced |-> p.forced, failure |-> p.failure]
  OBVIOUS
<1>3. p = q
  BY <1>2 DEF ShapeOK
<1>4. [p EXCEPT !.todo = t] = [q EXCEPT !.todo = t]
  BY <1>3
<1>5. [q EXCEPT !.todo = t] = [todo |-> t, sample |-> p.sample, sources |-> p.sources,
                               epoch |-> p.epoch, forced |-> p.forced, failure |-> p.failure]
  BY <1>2
<1> QED BY <1>1, <1>4, <1>5 DEF Done, DoneIs

\* The exception ends the capture.
Raises ==
  /\ Parent(p)' /\ p'.todo = <<>> /\ p'.forced = p.forced /\ p'.failure = TRUE
  /\ UNCHANGED <<mode, checkpoint, ledger, record, w>>

\* An exception in the script ends it as a failure.
LEMMA RaisedFields ==
  ASSUME ShapeOK, p' = Raised, UNCHANGED <<mode, checkpoint, ledger, record, w>>
  PROVE  Raises
<1>1. PICK q : q = [todo |-> p.todo, sample |-> p.sample, sources |-> p.sources, epoch |-> p.epoch,
                    forced |-> p.forced, failure |-> p.failure]
  OBVIOUS
<1>2. p = q
  BY <1>1 DEF ShapeOK
<1>3. Raised = [q EXCEPT !.todo = <<>>, !.sources = {}, !.failure = TRUE]
  BY <1>2 DEF Raised
<1>4. [q EXCEPT !.todo = <<>>, !.sources = {}, !.failure = TRUE] =
        [todo |-> <<>>, sample |-> p.sample, sources |-> {}, epoch |-> p.epoch,
         forced |-> p.forced, failure |-> TRUE]
  <2>1. PICK q1 : q1 = [q EXCEPT !.todo = <<>>]
    OBVIOUS
  <2>2. q1 = [todo |-> <<>>, sample |-> p.sample, sources |-> p.sources, epoch |-> p.epoch,
              forced |-> p.forced, failure |-> p.failure]
    BY <1>1, <2>1
  <2>3. PICK q2 : q2 = [q1 EXCEPT !.sources = {}]
    OBVIOUS
  <2>4. q2 = [todo |-> <<>>, sample |-> p.sample, sources |-> {}, epoch |-> p.epoch,
              forced |-> p.forced, failure |-> p.failure]
    BY <2>2, <2>3
  <2>5. [q2 EXCEPT !.failure = TRUE] =
          [todo |-> <<>>, sample |-> p.sample, sources |-> {}, epoch |-> p.epoch,
           forced |-> p.forced, failure |-> TRUE]
    <3>1. PICK v : v = TRUE
      OBVIOUS
    <3>2. [q2 EXCEPT !.failure = v] =
            [todo |-> <<>>, sample |-> p.sample, sources |-> {}, epoch |-> p.epoch,
             forced |-> p.forced, failure |-> v]
      BY <2>4
    <3> QED BY <3>1, <3>2, Zenon
  <2> QED BY <2>1, <2>3, <2>5, Zenon
<1> QED BY <1>3, <1>4 DEF Raises, Parent

\* A capture that has failed owes nothing more.
LEMMA RaiseKeeps ==
  ASSUME ShapeOK, LedgerInv', Raises
  PROVE  CaptureInv'
<1>1. /\ p'.todo = <<>> /\ p'.forced = p.forced /\ p'.failure = TRUE /\ Parent(p)'
      /\ p.forced \subseteq Phase /\ <<>> \in Seq(Statement)
  BY DEF ShapeOK, Raises
<1>2. w' \in Worker /\ checkpoint' \in Held /\ record' \in [Phase -> Written]
  BY DEF ShapeOK, Raises
<1>3. ShapeOK'
  BY <1>1, <1>2 DEF ShapeOK, Parent
<1> QED BY <1>3 DEF CaptureInv, Raises

\* A finished statement leaves the marks of the rest where they were.
LEMMA AdvanceShape ==
  ASSUME ShapeOK, CaptureOK, Advances, w' \in Worker
  PROVE  /\ ShapeOK' /\ Passed' = Passed + 1
         /\ Passed' \in 0 .. 28 /\ \A i \in 1 .. Len(p'.todo) : MarkAt(Passed' + i, p'.todo[i])
<1>1. /\ Tail(p.todo) \in Seq(Statement) /\ Len(Tail(p.todo)) = Len(p.todo) - 1
      /\ Passed \in 0 .. 27 /\ Len(p.todo) \in 1 .. 28 /\ Len(p.todo) = 28 - Passed
      /\ \A i \in 1 .. Len(p.todo) - 1 : MarkAt(Passed + 1 + i, Tail(p.todo)[i])
  BY Advance DEF Advances
<1>2. PICK t : t = Tail(p.todo)
  OBVIOUS
<1>3. p'.todo = t /\ Passed' = 28 - Len(t)
  BY <1>2 DEF Advances, Passed
<1>4. Passed' = Passed + 1 /\ Passed' \in 0 .. 28
  <2>1. PICK n \in 0 .. 27 : n = Passed
    BY <1>1
  <2>2. Len(t) = 28 - n - 1
    BY <1>1, <1>2, <2>1
  <2>3. Passed' = n + 1
    BY <1>3, <2>1, <2>2
  <2> QED BY <2>1, <2>3
<1>5. \A i \in 1 .. Len(t) : MarkAt(Passed' + i, t[i])
  <2> SUFFICES ASSUME NEW i \in 1 .. Len(t) PROVE MarkAt(Passed' + i, t[i])
    OBVIOUS
  <2>1. MarkAt(Passed + 1 + i, t[i])
    BY <1>1, <1>2
  <2>2. Passed' + i = Passed + 1 + i
    BY <1>4
  <2> QED BY <2>1, <2>2 DEF MarkAt
<1>6. ShapeOK'
  BY <1>1, <1>2 DEF ShapeOK, Advances, Parent
<1> QED BY <1>3, <1>4, <1>5, <1>6

\* A statement that concerns no worker: the last one ended, and still has.
LEMMA QuietKeeps ==
  ASSUME ShapeOK, CaptureOK, LedgerInv', Advances, Head(p.todo) \in Quiet, w' = w
  PROVE  CaptureInv'
<1>1. MarkAt(Passed + 1, Head(p.todo)) /\ Passed \in 0 .. 27
  BY Advance DEF Advances
<1>2. Passed \notin {0, 1, 13, 14}
  BY <1>1 DEF MarkAt, Quiet
<1>3. /\ ShapeOK' /\ Passed' = Passed + 1
      /\ Passed' \in 0 .. 28 /\ \A i \in 1 .. Len(p'.todo) : MarkAt(Passed' + i, p'.todo[i])
  BY AdvanceShape DEF ShapeOK
<1>4. p.forced = {} /\ p'.forced = {} /\ w.pc = "dead" /\ w.code = 0
  BY <1>2 DEF CaptureOK, Advances
<1>5. PauseOK => PauseOK'
  BY DEF PauseOK, Wrote, KeyAt, Advances
<1>6. ResumeOK => ResumeOK'
  BY DEF ResumeOK, Wrote, KeyAt, Total, Advances
<1>7. Passed' \in 1 .. 13 => w.phase = "pause" /\ PauseOK'
  <2> SUFFICES ASSUME Passed' \in 1 .. 13 PROVE w.phase = "pause" /\ PauseOK'
    OBVIOUS
  <2>1. Passed \in 1 .. 13
    BY <1>1, <1>2, <1>3
  <2> QED BY <1>4, <1>5, <2>1 DEF CaptureOK
<1>8. Passed' \in 14 .. 28 => w.phase = "resume" /\ ResumeOK'
  <2> SUFFICES ASSUME Passed' \in 14 .. 28 PROVE w.phase = "resume" /\ ResumeOK'
    OBVIOUS
  <2>1. Passed \in 14 .. 28
    BY <1>1, <1>2, <1>3
  <2> QED BY <1>4, <1>6, <2>1 DEF CaptureOK
<1>9. Passed' \notin {0, 1, 14}
  BY <1>1, <1>2, <1>3
<1>10. CaptureOK'
  BY <1>3, <1>4, <1>7, <1>8, <1>9 DEF CaptureOK
<1> QED BY <1>3, <1>10 DEF CaptureInv

\* The second process is started on the checkpoint the first one left.
LEMMA SpawnKeeps ==
  ASSUME ShapeOK, CaptureOK, LedgerInv', Spawn
  PROVE  CaptureInv'
<1>1. p.todo # <<>> /\ Head(p.todo) \in Phase /\ p' = Done
      /\ UNCHANGED <<mode, checkpoint, ledger, record>>
  BY DEF Spawn, Does
<1>2. Advances
  BY <1>1, DoneShape, DoneFields DEF DoneIs
<1>3. MarkAt(Passed + 1, Head(p.todo)) /\ Passed \in 0 .. 27
  BY <1>1, Advance
<1>4. (Passed = 0 /\ Head(p.todo) = "pause") \/ (Passed = 13 /\ Head(p.todo) = "resume")
  BY <1>1, <1>3 DEF MarkAt, Quiet, Phase
<1>5. w' = [phase |-> Head(p.todo), pc |-> "start", code |-> 0, loaded |-> "none", events |-> <<>>]
  BY DEF Spawn
<1>6. w' \in Worker /\ w'.phase = Head(p.todo) /\ w'.pc = "start" /\ w'.code = 0
  BY <1>1, <1>5 DEF Worker, Place, Held
<1>7. /\ ShapeOK' /\ Passed' = Passed + 1
      /\ Passed' \in 0 .. 28 /\ \A i \in 1 .. Len(p'.todo) : MarkAt(Passed' + i, p'.todo[i])
  BY <1>2, <1>6, AdvanceShape
<1>8. p.forced = {} /\ p'.forced = {}
  BY <1>2, <1>4 DEF CaptureOK, Advances
<1>9. CASE Passed = 0 /\ Head(p.todo) = "pause"
  <2>1. Wrote(0)'
    BY <1>1, <1>9 DEF CaptureOK, Wrote
  <2>2. PauseOK'
    BY <1>6, <2>1 DEF PauseOK
  <2>3. Passed' = 1
    BY <1>7, <1>9
  <2>4. CaptureOK'
    BY <1>6, <1>7, <1>8, <1>9, <2>2, <2>3 DEF CaptureOK
  <2> QED BY <1>7, <2>4 DEF CaptureInv
<1>10. CASE Passed = 13 /\ Head(p.todo) = "resume"
  <2>1. PauseOK /\ w.pc = "dead"
    BY <1>10 DEF CaptureOK
  <2>2. Wrote(1) /\ checkpoint = "paused" /\ record["pause"].terminal = "paused"
    BY <2>1 DEF PauseOK
  <2>3. Wrote(1)'
    BY <1>1, <2>2 DEF Wrote, KeyAt
  <2>4. ResumeOK'
    BY <1>1, <1>6, <2>2, <2>3 DEF ResumeOK
  <2>5. Passed' = 14
    BY <1>7, <1>10
  <2>6. CaptureOK'
    BY <1>6, <1>7, <1>8, <1>10, <2>4, <2>5 DEF CaptureOK
  <2> QED BY <1>7, <2>6 DEF CaptureInv
<1> QED BY <1>4, <1>9, <1>10

\* A worker that was killed or failed ends the capture.
LEMMA ReapKeeps ==
  ASSUME ShapeOK, CaptureOK, LedgerInv', Reap
  PROVE  CaptureInv'
<1>1. /\ p.todo # <<>> /\ Head(p.todo) = "wait" /\ w.pc = "dead"
      /\ UNCHANGED <<mode, checkpoint, ledger, record, w>>
      /\ p' = IF w.phase \in p.forced \/ w.code # 0 THEN Raised ELSE Done
  BY DEF Reap, Does
<1>2. CASE w.phase \in p.forced \/ w.code # 0
  BY <1>1, <1>2, RaisedFields, RaiseKeeps
<1>3. CASE w.phase \notin p.forced /\ w.code = 0
  <2>1. Advances
    BY <1>1, <1>3, DoneShape, DoneFields DEF DoneIs
  <2>2. MarkAt(Passed + 1, Head(p.todo)) /\ Passed \in 0 .. 27
    BY <1>1, Advance
  <2>3. Passed = 1 \/ Passed = 14
    BY <1>1, <2>2 DEF MarkAt, Quiet
  <2>4. /\ ShapeOK' /\ Passed' = Passed + 1
        /\ Passed' \in 0 .. 28 /\ \A i \in 1 .. Len(p'.todo) : MarkAt(Passed' + i, p'.todo[i])
    BY <1>1, <2>1, AdvanceShape DEF ShapeOK
  <2>5. p.forced = {} /\ p'.forced = {}
    BY <1>3, <2>1 DEF CaptureOK, Advances
  <2>6. CASE Passed = 1
    <3>1. w.phase = "pause" /\ PauseOK'
      BY <1>1, <1>3, <2>6 DEF CaptureOK, PauseOK, Wrote, KeyAt
    <3>2. Passed' = 2
      BY <2>4, <2>6
    <3>3. CaptureOK'
      BY <1>1, <1>3, <2>4, <2>5, <3>1, <3>2 DEF CaptureOK
    <3> QED BY <2>4, <3>3 DEF CaptureInv
  <2>7. CASE Passed = 14
    <3>1. w.phase = "resume" /\ ResumeOK'
      BY <1>1, <1>3, <2>7 DEF CaptureOK, ResumeOK, Wrote, KeyAt, Total
    <3>2. Passed' = 15
      BY <2>4, <2>7
    <3>3. CaptureOK'
      BY <1>1, <1>3, <2>4, <2>5, <3>1, <3>2 DEF CaptureOK
    <3> QED BY <2>4, <3>3 DEF CaptureInv
  <2> QED BY <2>3, <2>6, <2>7
<1> QED BY <1>2, <1>3

\* The wait expires; what the worker has written stays.
LEMMA TimeoutKeeps ==
  ASSUME ShapeOK, CaptureOK, LedgerInv', Timeout
  PROVE  CaptureInv'
<1>1. /\ p.todo # <<>> /\ Head(p.todo) = "wait"
      /\ UNCHANGED <<mode, checkpoint, ledger, record>>
  BY DEF Timeout, Does
<1>2. MarkAt(Passed + 1, Head(p.todo)) /\ Passed \in 0 .. 27
  BY <1>1, Advance
<1>3. Passed = 1 \/ Passed = 14
  BY <1>1, <1>2 DEF MarkAt, Quiet
<1>4. PICK fs : fs = p.forced \cup {w.phase}
  OBVIOUS
<1>5. fs \subseteq {w.phase} /\ fs \subseteq Phase
  BY <1>4 DEF CaptureOK, ShapeOK, Worker
<1>6. p' = [p EXCEPT !.forced = fs]
  BY <1>4 DEF Timeout
<1>7. Parent(p)' /\ p'.todo = p.todo /\ p'.failure = p.failure /\ p'.forced = fs
  <2>1. PICK q : q = [todo |-> p.todo, sample |-> p.sample, sources |-> p.sources, epoch |-> p.epoch,
                      forced |-> p.forced, failure |-> p.failure]
    OBVIOUS
  <2>2. p' = [q EXCEPT !.forced = fs]
    BY <1>6, <2>1 DEF ShapeOK
  <2>3. [q EXCEPT !.forced = fs] =
          [todo |-> p.todo, sample |-> p.sample, sources |-> p.sources, epoch |-> p.epoch,
           forced |-> fs, failure |-> p.failure]
    BY <2>1
  <2> QED BY <2>2, <2>3 DEF Parent
<1>8. w' \in Worker /\ w'.phase = w.phase /\ (w' = w \/ w'.code # 0)
  <2>1. PICK v : v = [w EXCEPT !.pc = "dead", !.code = -9]
    OBVIOUS
  <2>2. v \in Worker /\ v.phase = w.phase /\ v.code = -9
    BY <2>1 DEF ShapeOK, Worker, Place
  <2>3. w' = w \/ w' = v
    BY <2>1 DEF Timeout
  <2> QED BY <2>2, <2>3 DEF ShapeOK
<1>9. Passed' = Passed /\ p'.todo = p.todo
  BY <1>7 DEF Passed
<1>10. ShapeOK'
  BY <1>1, <1>5, <1>7, <1>8 DEF ShapeOK, Parent
<1>11. (PauseOK /\ w' = w => PauseOK') /\ (ResumeOK /\ w' = w => ResumeOK')
  BY <1>1 DEF PauseOK, ResumeOK, Wrote, KeyAt, Total
<1>12. CaptureOK'
  BY <1>3, <1>5, <1>7, <1>8, <1>9, <1>11 DEF CaptureOK
<1> QED BY <1>10, <1>12 DEF CaptureInv

\* Samples and reports advance, and a report of a second worker that did not
\* start from the checkpoint of the first raises.
LEMMA OthersKeep ==
  ASSUME ShapeOK, CaptureOK, LedgerInv', TakeSample \/ ReportExecution \/ ReportEffect \/ Save
  PROVE  CaptureInv'
<1>1. /\ p.todo # <<>> /\ Head(p.todo) \in Quiet
      /\ UNCHANGED <<mode, checkpoint, ledger, record, w>>
  BY DEF TakeSample, ReportExecution, ReportEffect, Save, Does, Quiet
<1>2. ASSUME p' # Raised PROVE Advances
  <2>1. PICK d : d = DoneIs
    OBVIOUS
  <2>2. Done = d
    BY <2>1, DoneShape
  <2>3. PICK t : t = Tail(p.todo)
    OBVIOUS
  <2>4. d = [todo |-> t, sample |-> p.sample, sources |-> p.sources, epoch |-> p.epoch,
             forced |-> p.forced, failure |-> p.failure]
    BY <2>1, <2>3 DEF DoneIs
  <2>5. CASE TakeSample
    <3>1. PICK x : p' = [d EXCEPT !.sample = x]
      <4>1. PICK x : x = Append(Done.sample, IF Head(p.todo) = "stamp" THEN now + 1 ELSE Len(ledger))
        OBVIOUS
      <4> QED BY <2>2, <2>5, <4>1 DEF TakeSample
    <3>2. [d EXCEPT !.sample = x] =
            [todo |-> t, sample |-> x, sources |-> p.sources, epoch |-> p.epoch,
             forced |-> p.forced, failure |-> p.failure]
      BY <2>4
    <3> QED BY <1>1, <2>3, <3>1, <3>2, DoneFields
  <2>6. CASE ReportExecution
    <3>1. PICK x : p' = [d EXCEPT !.epoch = w.phase, !.sources = x]
      <4>1. PICK x : x = Done.sources \cup {Source(w.phase, "execution-1", record)}
        OBVIOUS
      <4>2. p' = [Done EXCEPT !.epoch = w.phase,
                              !.sources = @ \cup {Source(w.phase, "execution-1", record)}]
        BY <1>2, <2>6 DEF ReportExecution
      <4> QED BY <2>2, <4>1, <4>2
    <3>2. PICK q : q = [d EXCEPT !.epoch = w.phase]
      OBVIOUS
    <3>3. q = [todo |-> t, sample |-> p.sample, sources |-> p.sources,
               epoch |-> w.phase, forced |-> p.forced, failure |-> p.failure]
      BY <2>4, <3>2
    <3>4. [q EXCEPT !.sources = x] =
            [todo |-> t, sample |-> p.sample, sources |-> x, epoch |-> w.phase,
             forced |-> p.forced, failure |-> p.failure]
      BY <3>3
    <3>5. p' = [q EXCEPT !.sources = x]
      BY <3>1, <3>2, Zenon
    <3> QED BY <1>1, <2>3, <3>4, <3>5, DoneFields
  <2>7. CASE ReportEffect
    <3>1. PICK x : p' = [d EXCEPT !.sample = <<>>, !.sources = x]
      <4>1. PICK x : x = Done.sources \cup {Source(p.epoch, Head(p.todo), p.sample)}
        OBVIOUS
      <4> QED BY <2>2, <2>7, <4>1 DEF ReportEffect
    <3>2. PICK q : q = [d EXCEPT !.sample = <<>>]
      OBVIOUS
    <3>3. q = [todo |-> t, sample |-> <<>>, sources |-> p.sources,
               epoch |-> p.epoch, forced |-> p.forced, failure |-> p.failure]
      BY <2>4, <3>2
    <3>4. [q EXCEPT !.sources = x] =
            [todo |-> t, sample |-> <<>>, sources |-> x, epoch |-> p.epoch,
             forced |-> p.forced, failure |-> p.failure]
      BY <3>3
    <3>5. p' = [q EXCEPT !.sources = x]
      BY <3>1, <3>2, Zenon
    <3> QED BY <1>1, <2>3, <3>4, <3>5, DoneFields
  <2>8. CASE Save
    BY <1>1, <2>1, <2>2, <2>8, DoneFields DEF Save, DoneIs
  <2> QED BY <2>5, <2>6, <2>7, <2>8
<1>3. CASE p' = Raised
  BY <1>1, <1>3, RaisedFields, RaiseKeeps
<1>4. CASE p' # Raised
  BY <1>1, <1>2, <1>4, QuietKeeps
<1> QED BY <1>3, <1>4
-----------------------------------------------------------------------------
\* The invariant of the capture holds in every run.
LEMMA CaptureStays == Spec => []CaptureInv
<1>1. CaptureInv /\ LedgerInv' /\ [Next]_vars => CaptureInv'
  <2> SUFFICES ASSUME CaptureInv, LedgerInv', [Next]_vars PROVE CaptureInv'
    OBVIOUS
  <2>1. LedgerInv /\ ShapeOK /\ (p.failure \/ CaptureOK)
    BY DEF CaptureInv
  <2>2. CASE WorkerStep
    BY <2>2, WorkerKeeps
  <2>3. CASE Fail
    BY <2>3, FailKeeps
  <2>4. CASE Spawn \/ Reap \/ Timeout \/ TakeSample \/ ReportExecution \/ ReportEffect \/ Save
    <3>1. p.todo # <<>>
      BY <2>4 DEF Spawn, Reap, Timeout, TakeSample, ReportExecution, ReportEffect, Save, Does
    <3>2. CaptureOK
      BY <2>1, <3>1 DEF ShapeOK
    <3>3. CASE Spawn \/ Reap \/ Timeout
      BY <2>1, <3>2, <3>3, SpawnKeeps, ReapKeeps, TimeoutKeeps
    <3>4. CASE TakeSample \/ ReportExecution \/ ReportEffect \/ Save
      BY <2>1, <3>2, <3>4, OthersKeep
    <3> QED BY <2>4, <3>3, <3>4
  <2>5. CASE UNCHANGED <<mode, w, checkpoint, ledger, record, p>>
    BY <2>1, <2>5 DEF CaptureInv, ShapeOK, CaptureOK, PauseOK, ResumeOK, Wrote, KeyAt, Total, Passed
  <2>6. ASSUME NEW s, Deliver(s) PROVE CaptureInv'
    BY <2>5, <2>6 DEF Deliver
  <2>7. CASE UNCHANGED vars
    BY <2>5, <2>7 DEF vars
  <2> QED BY <2>2, <2>3, <2>4, <2>6, <2>7 DEF Next, WorkerStep
<1>2. QED
  BY <1>1, InitCapture, LedgerStays, PTL DEF Spec

\* A capture that was saved is of two workers that ended by themselves, the
\* second from the checkpoint of the first, and of every effect of the node,
\* wherever a worker failed, was killed or the wait for it ran out before.
THEOREM SavedCapturesAreWhole == Spec => []SavedIsWhole
<1>1. CaptureInv => SavedIsWhole
  <2> SUFFICES ASSUME CaptureInv, ~Capturing, ~p.failure
               PROVE  /\ p.forced = {} /\ checkpoint = "completed"
                      /\ record["pause"].terminal = "paused" /\ record["resume"].loaded = "paused"
                      /\ Len(ledger) = IF mode = "idempotent" THEN 2 ELSE 3
    BY DEF SavedIsWhole
  <2>1. CaptureOK /\ p.todo = <<>>
    BY DEF CaptureInv, Capturing
  <2>2. Passed = 28
    BY <2>1 DEF Passed
  <2>3. p.forced = {} /\ w.pc = "dead" /\ ResumeOK
    BY <2>1, <2>2 DEF CaptureOK
  <2> QED BY <2>3 DEF ResumeOK, Wrote, Total
<1>2. QED
  BY <1>1, CaptureStays, PTL
-----------------------------------------------------------------------------
(* What the consumer makes of reports that disagree.                        *)

\* The event of a delivery is the one that its source stands for, and no report
\* of a capture supersedes another.
LEMMA ProjectOne ==
  ASSUME NEW src, NEW e \in Project(src)
  PROVE  Delivery(src).event = e /\ Delivery(src).source = src /\ e.supersedes = "original"
<1>1. PICK v : Project(src) = {v} /\ v.supersedes = "original"
  BY DEF Project
<1>2. (CHOOSE x \in Project(src) : TRUE) = v
  BY <1>1
<1> QED BY <1>1, <1>2 DEF Delivery

\* The consumer admits events that conform and supersede nothing.
LEMMA AdmittedEvents ==
  ASSUME NEW D
  PROVE  \A e \in T!Events(D) : T!Conforms(e) /\ e.supersedes = "original"
<1> SUFFICES ASSUME NEW d \in D \ T!Errors(D)
             PROVE  T!Conforms(d.event) /\ d.event.supersedes = "original"
  BY DEF T!Events
<1>1. T!Conforms(d.event) /\ d.event \in Project(d.source)
  BY DEF T!Errors, T!Admissible
<1> QED BY <1>1, ProjectOne

\* What is selected of them is active.
LEMMA SelectedIsActive ==
  ASSUME NEW D, NEW q
  PROVE  T!Active(T!Events(D), q) = T!Selected(T!Events(D), q)
<1> DEFINE E == T!Events(D)
<1>1. T!Revisions(E, q) = {}
  BY AdmittedEvents DEF T!Revisions, T!Selected, T!Relevant, T!Original
<1> QED BY <1>1 DEF T!Active, T!Superseded

\* Two windows overlap when neither is empty and each starts before the other
\* ends.
LEMMA OverlapIs ==
  ASSUME NEW v, NEW u, v[1] \in Nat, v[2] \in Nat, u[1] \in Nat, u[2] \in Nat
  PROVE  Overlap(v, u) <=> v[1] < v[2] /\ v[1] < u[2] /\ u[1] < v[2] /\ u[1] < u[2]
<1>1. ASSUME NEW a \in Nat, NEW b \in Nat
      PROVE  /\ Max({a, b}) \in {a, b} /\ a <= Max({a, b}) /\ b <= Max({a, b})
             /\ Min({a, b}) \in {a, b} /\ Min({a, b}) <= a /\ Min({a, b}) <= b
  <2>1. \E x \in {a, b} : \A y \in {a, b} : x >= y
    BY <1>1
  <2>2. \E x \in {a, b} : \A y \in {a, b} : x =< y
    BY <1>1
  <2> QED BY <2>1, <2>2 DEF Max, Min
<1>2. PICK m : m = Max({v[1], u[1]})
  OBVIOUS
<1>3. PICK n : n = Min({v[2], u[2]})
  OBVIOUS
<1>4. /\ m \in {v[1], u[1]} /\ v[1] <= m /\ u[1] <= m
      /\ n \in {v[2], u[2]} /\ n <= v[2] /\ n <= u[2]
  BY <1>1, <1>2, <1>3
<1>5. Overlap(v, u) <=> m < n
  BY <1>2, <1>3 DEF Overlap
<1> QED BY <1>4, <1>5

\* Two reports of one identity that were admitted and whose windows overlap are
\* both among the reports that the rule of consumer.py compares.
LEMMA BothOverlap ==
  ASSUME NEW D, NEW e \in T!Events(D), NEW f \in T!Events(D), NEW q, NEW o \in {e, f},
         e.kind = "effect", f.kind = "effect", e.identity = f.identity,
         q.identity = e.identity, q.window = e.window, ~T!WrongClock(T!Events(D), q),
         q.cutoff \in Nat, e.observed <= q.cutoff, f.observed <= q.cutoff,
         Overlap(e.window, f.window)
  PROVE  o \in T!OfKind(T!Events(D), q, "effect") /\ o \in Overlapping(D, q)
<1>1. T!Conforms(e) /\ T!Conforms(f)
  BY AdmittedEvents
<1>2. /\ o.time \in Nat /\ o.observed \in Nat /\ o.time <= o.observed /\ o.observed <= q.cutoff
      /\ o.kind = "effect" /\ o.identity = q.identity /\ o \in T!Events(D)
  BY <1>1 DEF T!Conforms, T!Tick
<1>3. o.clock = q.clock
  BY <1>2 DEF T!WrongClock, T!Relevant
<1>4. o \in T!Selected(T!Events(D), q)
  BY <1>2, <1>3 DEF T!Selected, T!Relevant
<1>5. o \in T!OfKind(T!Events(D), q, "effect")
  BY <1>2, <1>4, SelectedIsActive DEF T!OfKind
<1>6. /\ e.window[1] \in Nat /\ e.window[2] \in Nat /\ f.window[1] \in Nat /\ f.window[2] \in Nat
  BY <1>1 DEF T!Conforms, T!Window, T!Tick
<1>7. /\ e.window[1] < e.window[2] /\ e.window[1] < f.window[2]
      /\ f.window[1] < e.window[2] /\ f.window[1] < f.window[2]
  BY <1>6, OverlapIs
<1>8. Overlap(e.window, e.window) /\ Overlap(f.window, e.window)
  BY <1>6, <1>7, OverlapIs
<1> QED BY <1>5, <1>8 DEF Overlapping

\* A signed report that says otherwise of the same or of an overlapping window is
\* never outvoted, whichever reports arrived and whatever they hold.
THEOREM DisputesAreSeen == Spec => []DisputeIsSeen
<1>1. DisputeIsSeen
  <2> SUFFICES ASSUME NEW e \in Sampled(delivered), NEW f \in Sampled(delivered),
                      e.identity = f.identity, e.status # f.status, Overlap(e.window, f.window),
                      NEW q, q = [QueryFor(e) EXCEPT !.cutoff = Max({e.observed, f.observed})]
               PROVE  Stage(Deliveries, q, "effect") = "INDETERMINATE"
    BY DEF DisputeIsSeen
  <2> DEFINE D == Deliveries
             E == T!Events(D)
  <2>1. T!Stage(D, q, "effect") = "INDETERMINATE" => Stage(D, q, "effect") = "INDETERMINATE"
    BY DEF Stage
  <2>2. CASE T!Errors(D) # {} \/ T!WrongClock(E, q)
    BY <2>1, <2>2 DEF T!Stage
  <2>3. CASE T!Errors(D) = {} /\ ~T!WrongClock(E, q)
    <3>1. PICK s1 \in delivered : e \in Project(s1) /\ IsEffect(s1)
      BY DEF Sampled
    <3>2. PICK s2 \in delivered : f \in Project(s2) /\ IsEffect(s2)
      BY DEF Sampled
    <3>3. e \in E /\ f \in E
      <4>1. Delivery(s1) \in D /\ Delivery(s2) \in D
        BY DEF Deliveries
      <4> QED BY <2>3, <3>1, <3>2, <4>1, ProjectOne DEF T!Events
    <3>4. e.kind = "effect" /\ f.kind = "effect"
      BY <3>1, <3>2 DEF Project
    <3>5. T!Conforms(e) /\ T!Conforms(f)
      BY <3>3, AdmittedEvents
    <3>6. /\ q.identity = e.identity /\ q.window = e.window
          /\ q.cutoff \in Nat /\ e.observed <= q.cutoff /\ f.observed <= q.cutoff
      <4>1. q.identity = e.identity /\ q.window = e.window /\ q.cutoff = Max({e.observed, f.observed})
        BY DEF QueryFor
      <4>2. e.observed \in Nat /\ f.observed \in Nat
        BY <3>5 DEF T!Conforms, T!Tick
      <4>3. \E x \in {e.observed, f.observed} : \A y \in {e.observed, f.observed} : x >= y
        BY <4>2
      <4> QED BY <4>1, <4>2, <4>3 DEF Max
    <3>7. /\ e \in T!OfKind(E, q, "effect") /\ e \in Overlapping(D, q)
          /\ f \in T!OfKind(E, q, "effect") /\ f \in Overlapping(D, q)
      BY <2>3, <3>3, <3>4, <3>6, BothOverlap
    <3>8. CASE f.window = e.window
      <4>1. e \in T!Rows(E, q, "effect") /\ f \in T!Rows(E, q, "effect")
        BY <3>6, <3>7, <3>8 DEF T!Rows
      <4>2. T!Stage(D, q, "effect") = "INDETERMINATE"
        BY <4>1 DEF T!Stage
      <4> QED BY <2>1, <4>2
    <3>9. CASE f.window # e.window
      <4>1. PICK U : U = {o.status : o \in Overlapping(D, q)}
        OBVIOUS
      <4>2. U \subseteq {"QUIESCENT", "CONTINUED"}
        <5> SUFFICES ASSUME NEW o \in Overlapping(D, q) PROVE o.status \in {"QUIESCENT", "CONTINUED"}
          BY <4>1
        <5>1. o \in E /\ o.kind = "effect"
          BY DEF Overlapping, T!OfKind, T!Active, T!Selected, T!Relevant
        <5> QED BY <5>1, AdmittedEvents DEF T!Conforms, T!States
      <4>3. e.status \in U /\ f.status \in U
        BY <3>7, <4>1
      <4>4. U = {"QUIESCENT", "CONTINUED"}
        BY <4>2, <4>3
      <4>5. Cardinality(U) = 2
        <5>1. IsFiniteSet({"CONTINUED"}) /\ Cardinality({"CONTINUED"}) = 1 /\ "QUIESCENT" \notin {"CONTINUED"}
          BY FS_Singleton
        <5>2. PICK S : S = {"CONTINUED"}
          OBVIOUS
        <5>3. IsFiniteSet(S) /\ Cardinality(S) = 1 /\ "QUIESCENT" \notin S
          BY <5>1, <5>2
        <5>4. Cardinality(S \cup {"QUIESCENT"}) = Cardinality(S) + 1
          BY <5>3, FS_AddElement
        <5>5. U = S \cup {"QUIESCENT"}
          BY <4>4, <5>2
        <5> QED BY <5>3, <5>4, <5>5
      <4>6. RequiresReconciliation(D, q)
        BY <3>6, <3>7, <3>9, <4>1, <4>5 DEF RequiresReconciliation
      <4> QED BY <4>6 DEF Stage
    <3> QED BY <3>8, <3>9
  <2> QED BY <2>2, <2>3
<1>2. QED
  BY <1>1, PTL
=============================================================================
