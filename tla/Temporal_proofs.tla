-------------------------- MODULE Temporal_proofs ---------------------------
(***************************************************************************)
(* For captured and authored reports of any content, replayed in any       *)
(* number and order: what a cutoff, a late report and one more sample      *)
(* cannot do to an answer, and that an answer about a captured run is so   *)
(* of what its worker wrote.                                               *)
(***************************************************************************)
EXTENDS MCTemporal, FiniteSetTheorems, TLAPS

\* What was admitted keeps the contract of an event.
LEMMA AdmittedConforms ==
  ASSUME NEW D
  PROVE  \A e \in T!Events(D) : T!Conforms(e)
  BY DEF T!Events, T!Errors, T!Admissible

\* A revision is later than what it revises in both times, so that a moment that
\* knows it knows the other.
LEMMA RevisedIsSelected ==
  ASSUME NEW E, \A e \in E : T!Conforms(e), NEW q, T!Answerable(q),
         NEW later, T!Answerable(later),
         q.identity = later.identity, q.clock = later.clock, q.authorities = later.authorities,
         NEW e \in T!Selected(E, q), NEW old \in T!Selected(E, later), T!Revises(e, old, later)
  PROVE  old \in T!Selected(E, q) /\ T!Revises(e, old, q)
<1>1. e \in E /\ old \in E
  BY DEF T!Selected, T!Relevant
<1>2. /\ e.time \in Nat /\ e.observed \in Nat /\ old.time \in Nat /\ old.observed \in Nat
      /\ q.cutoff \in Nat
  BY <1>1 DEF T!Conforms, T!Answerable, T!Tick
<1>3. old.time <= q.cutoff /\ old.observed <= q.cutoff
  BY <1>2 DEF T!Selected, T!Revises, T!MayRevise
<1>4. QED
  BY <1>3 DEF T!Selected, T!Relevant, T!Revises, T!MayRevise

\* A cutoff never parts a revision from what it revises, for reports of any
\* content.
THEOREM CutoffsPartNothing == Spec => []RevisionsSurviveCutoff
<1>1. RevisionsSurviveCutoff
  <2> SUFFICES ASSUME NEW q \in Asked, NEW later \in Asked,
                      q.cutoff <= later.cutoff, q = [later EXCEPT !.cutoff = q.cutoff],
                      NEW e \in T!RevisionErrors(T!Events(delivered), q)
               PROVE  e \in T!RevisionErrors(T!Events(delivered), later)
    BY DEF RevisionsSurviveCutoff
  <2> DEFINE E == T!Events(delivered)
  <2>1. /\ T!Answerable(q) /\ T!Answerable(later)
        /\ \A x \in E : T!Conforms(x)
        /\ q.identity = later.identity /\ q.clock = later.clock /\ q.authorities = later.authorities
    BY AdmittedConforms DEF Asked
  <2>2. e \in T!Revisions(E, q)
    BY DEF T!RevisionErrors
  <2>3. e \in T!Selected(E, q)
    BY <2>2 DEF T!Revisions
  <2>4. e \in T!Revisions(E, later)
    <3>1. e \in E
      BY <2>3 DEF T!Selected, T!Relevant
    <3>2. e.time \in Nat /\ e.observed \in Nat /\ q.cutoff \in Nat /\ later.cutoff \in Nat
      BY <2>1, <3>1 DEF T!Conforms, T!Answerable, T!Tick
    <3>3. e.time <= later.cutoff /\ e.observed <= later.cutoff
      BY <2>3, <3>2 DEF T!Selected
    <3>4. QED
      BY <2>1, <2>2, <2>3, <3>3 DEF T!Revisions, T!Selected, T!Relevant
  <2>5. ASSUME NEW old \in T!Selected(E, later), T!Revises(e, old, later) PROVE FALSE
    <3>1. old \in T!Selected(E, q) /\ T!Revises(e, old, q)
      BY <2>1, <2>3, <2>5, RevisedIsSelected
    <3>2. QED
      BY <3>1 DEF T!RevisionErrors
  <2>6. QED
    BY <2>4, <2>5 DEF T!RevisionErrors
<1>2. QED
  BY <1>1, PTL
-----------------------------------------------------------------------------
\* Deliveries only accumulate.
LEMMA DeliveriesStay ==
  ASSUME [Next]_vars
  PROVE  delivered \subseteq delivered'
  BY DEF Next, vars, Emit, ReceiveControl, Advance, Write, Raise, Hear, Command, TakeSample,
         Observe, Join, Abort, Deliver, Works, Does

\* Reports that are all foreign to a question leave its answer as it was.
LEMMA ForeignIsInert ==
  ASSUME delivered \subseteq delivered', NEW q \in Asked, \A d \in New : Foreign(d, q),
         NEW kind \in T!Kinds
  PROVE  T!Stage(delivered', q, kind) = T!Stage(delivered, q, kind)
<1> DEFINE E == T!Events(delivered)
           F == T!Events(delivered')
<1>1. T!Errors(delivered') = T!Errors(delivered)
  BY DEF T!Errors, New, Foreign
<1>2. /\ E \subseteq F
      /\ \A e \in F \ E : \E d \in New : e = d.event
  BY <1>1 DEF T!Events, T!Errors, New
<1>3. T!Conflict(F, q) = T!Conflict(E, q)
  <2>1. T!Conflict(E, q) => T!Conflict(F, q)
    BY <1>2 DEF T!Conflict, T!Relevant
  <2>2. ASSUME T!Conflict(F, q) PROVE T!Conflict(E, q)
    <3>1. \A d \in New : d.event.identity # q.identity
      BY <2>2 DEF Foreign
    <3>2. T!Relevant(F, q) = T!Relevant(E, q)
      BY <1>2, <3>1 DEF T!Relevant
    <3>3. QED
      BY <2>2, <3>2 DEF T!Conflict
  <2>3. QED
    BY <2>1, <2>2 DEF T!Conflict
<1>4. T!WrongClock(F, q) = T!WrongClock(E, q)
  BY <1>2 DEF T!WrongClock, T!Relevant, Foreign
<1>5. T!Selected(F, q) = T!Selected(E, q)
  <2>1. T!Selected(E, q) \subseteq T!Selected(F, q)
    BY <1>2 DEF T!Selected, T!Relevant
  <2>2. ASSUME NEW e \in T!Selected(F, q), e \notin E PROVE FALSE
    <3>1. PICK d \in New : e = d.event
      BY <1>2, <2>2 DEF T!Selected, T!Relevant
    <3>2. e.observed > q.cutoff
      BY <3>1, <2>2 DEF Foreign, T!Selected, T!Relevant
    <3>3. e.observed \in Nat /\ q.cutoff \in Nat
      BY <3>1 DEF Foreign, T!Admissible, T!Conforms, T!Tick, Asked, T!Answerable
    <3>4. QED
      BY <2>2, <3>2, <3>3 DEF T!Selected
  <2>3. QED
    BY <2>1, <2>2 DEF T!Selected, T!Relevant
<1>6. /\ T!Revisions(F, q) = T!Revisions(E, q)
      /\ T!RevisionErrors(F, q) = T!RevisionErrors(E, q)
      /\ T!Superseded(F, q) = T!Superseded(E, q)
  BY <1>5 DEF T!Revisions, T!RevisionErrors, T!Superseded
<1>7. T!Rows(F, q, kind) = T!Rows(E, q, kind)
  BY <1>5, <1>6 DEF T!Rows, T!OfKind, T!Active
<1>8. QED
  BY <1>1, <1>3, <1>4, <1>6, <1>7 DEF T!Stage

\* Late and foreign evidence is never taken for present evidence, for reports of
\* any content and any number of deliveries.
THEOREM LateEvidenceIsInert == Spec => LateIsInert
<1>1. [Next]_vars =>
        [\A q \in Asked : (\A d \in New : Foreign(d, q)) =>
           \A kind \in T!Kinds : T!Stage(delivered', q, kind) = T!Stage(delivered, q, kind)]_delivered
  BY DeliveriesStay, ForeignIsInert
<1>2. QED
  BY <1>1, PTL DEF Spec, LateIsInert
-----------------------------------------------------------------------------
\* What a settled effect says of the reports it is made from.
LEMMA SettledEffect ==
  ASSUME NEW D, NEW q, Effect(D, q) \in Settled
  PROVE  LET E == T!Events(D) IN
         /\ T!RevisionErrors(E, q) = {}
         /\ T!Rows(E, q, "effect") # {}
         /\ \A e \in T!Rows(E, q, "effect") : e.status = Effect(D, q)
<1> DEFINE E == T!Events(D)
           rows == T!Rows(E, q, "effect")
           statuses == {e.status : e \in rows}
           open == \/ T!Errors(D) # {} \/ T!Conflict(E, q) \/ T!WrongClock(E, q)
                   \/ T!RevisionErrors(E, q) # {} \/ \E s, t \in statuses : s # t
<1>1. Effect(D, q) = IF open THEN "INDETERMINATE"
                     ELSE IF statuses = {} THEN "MISSING" ELSE CHOOSE s \in statuses : TRUE
  BY DEF Effect, T!Stage
<1>2. Effect(D, q) \notin {"INDETERMINATE", "MISSING"}
  BY DEF Settled
<1>3. ~open /\ statuses # {} /\ Effect(D, q) \in statuses
  BY <1>1, <1>2
<1>4. QED
  BY <1>3

\* A settled effect is overturned by an accepted revision and by nothing else,
\* for reports of any content and any number of deliveries.
THEOREM OnlyRevisionsOverturn == Spec => FlipsAreRevisions
<1>1. ASSUME delivered \subseteq delivered', NEW q \in Asked,
             {Effect(delivered, q), Effect(delivered', q)} \subseteq Settled,
             Effect(delivered, q) # Effect(delivered', q)
      PROVE  \E d \in New : /\ d.event.supersedes # "original" /\ d.event.actor \in q.authorities
                            /\ d.event.window = q.window
  <2> DEFINE E == T!Events(delivered)
             F == T!Events(delivered')
  <2>1. /\ \A e \in T!Rows(E, q, "effect") : e.status = Effect(delivered, q)
        /\ \A e \in T!Rows(F, q, "effect") : e.status = Effect(delivered', q)
        /\ T!Rows(E, q, "effect") # {}
    BY <1>1, SettledEffect
  <2>2. PICK old \in T!Rows(E, q, "effect") : old.status # Effect(delivered', q)
    BY <1>1, <2>1
  <2>3. /\ E \subseteq F
        /\ \A e \in F \ E : \E d \in New : e = d.event
    BY <1>1 DEF T!Events, T!Errors, New
  <2>4. /\ old \in T!Selected(F, q) /\ old \notin T!Superseded(E, q)
        /\ old.kind = "effect" /\ old.window = q.window
    BY <2>2, <2>3 DEF T!Rows, T!OfKind, T!Active, T!Selected, T!Relevant
  <2>5. old \in T!Superseded(F, q)
    BY <2>1, <2>2, <2>4 DEF T!Rows, T!OfKind, T!Active
  <2>6. PICK e \in T!Revisions(F, q) : T!Revises(e, old, q)
    BY <2>5 DEF T!Superseded
  <2>7. e \notin E
    BY <2>2, <2>4, <2>6 DEF T!Superseded, T!Revisions, T!Selected, T!Relevant, T!Rows, T!OfKind,
                            T!Active
  <2>8. PICK d \in New : e = d.event
    BY <2>3, <2>6, <2>7 DEF T!Revisions, T!Selected, T!Relevant
  <2>9. QED
    BY <2>4, <2>6, <2>8 DEF T!Revisions, T!Original, T!Revises, T!MayRevise
<1>2. [Next]_vars =>
        [\A q \in Asked :
           (/\ {Effect(delivered, q), Effect(delivered', q)} \subseteq Settled
            /\ Effect(delivered, q) # Effect(delivered', q)) =>
             \E d \in New : /\ d.event.supersedes # "original" /\ d.event.actor \in q.authorities
                            /\ d.event.window = q.window]_delivered
  BY <1>1, DeliveriesStay
<1>3. QED
  BY <1>2, PTL DEF Spec, FlipsAreRevisions
-----------------------------------------------------------------------------
(* What a captured run has done, by what is left of its scripts.            *)

\* The statements of each mode, one by one.
Mode == {"pause", "ignore", "unobserved"}

Ignores(m) == m = "ignore"

IgnoreDoes ==
  <<"ready", "control", "handler_ignored", "quiet_barrier", "advance", "write", "step_barrier",
    "control", "handler_ignored", "second_control_barrier", "advance", "write", "finished">>

PauseDoes == <<"ready", "control", "native_interrupt_observed", "finished">>

WorkOf(m) == IF Ignores(m) THEN IgnoreDoes ELSE PauseDoes

IgnoreTodo ==
  <<"ready", "pause-1", "quiet_barrier", "stamp", "read", "stamp", "stamp", "read", "stamp",
    "observe", "stamp", "read", "stamp", "advance", "step_barrier", "stamp", "read", "stamp",
    "observe", "pause-2", "second_control_barrier", "stamp", "read", "stamp", "advance",
    "finished", "stamp", "read", "stamp", "observe", "join">>

PauseTodo ==
  <<"ready", "pause-1", "finished", "stamp", "read", "stamp", "stamp", "read", "stamp",
    "observe", "join">>

UnobservedTodo == <<"ready", "pause-1", "finished", "join">>

TodoOf(m) ==
  IF Ignores(m) THEN IgnoreTodo ELSE IF m = "pause" THEN PauseTodo ELSE UnobservedTodo

\* How much of a sample has been taken before each statement.
IgnoreSampled ==
  <<0, 0, 0, 0, 1, 2, 3, 4, 5, 6, 0, 1, 2, 3, 3, 3, 4, 5, 6, 0, 0, 0, 1, 2, 3, 3, 3, 4, 5, 6, 0>>

PauseSampled == <<0, 0, 0, 0, 1, 2, 3, 4, 5, 6, 0>>

SamplesOf(m) == IF Ignores(m) THEN IgnoreSampled ELSE PauseSampled

Statement ==
  {"ready", "handler_ignored", "quiet_barrier", "step_barrier", "second_control_barrier",
   "native_interrupt_observed", "finished", "control", "advance", "write", "pause-1", "pause-2",
   "stamp", "read", "observe", "join"}

Prefix(s, t) == /\ s \in Seq(Statement) /\ Len(s) <= Len(t)
                /\ \A i \in 1 .. Len(s) : s[i] = t[i]

Follows(r, s, t) == /\ r \in Seq(Statement) /\ Len(s) + Len(r) <= Len(t)
                    /\ \A i \in 1 .. Len(r) : r[i] = t[Len(s) + i]

\* A prefix of a table, and what follows it there, is a longer prefix.
LEMMA PrefixThen ==
  ASSUME NEW s, NEW r, NEW t \in Seq(Statement), Prefix(s, t), Follows(r, s, t)
  PROVE  Prefix(s \o r, t) /\ Len(s \o r) = Len(s) + Len(r)
<1> DEFINE q == s \o r
<1>1. /\ s \in Seq(Statement) /\ r \in Seq(Statement) /\ Len(s) \in Nat /\ Len(r) \in Nat
      /\ Len(t) \in Nat
  BY DEF Prefix, Follows
<1>2. /\ q \in Seq(Statement) /\ Len(q) = Len(s) + Len(r)
      /\ \A i \in 1 .. Len(s) : q[i] = s[i]
      /\ \A i \in 1 .. Len(r) : q[Len(s) + i] = r[i]
  BY <1>1
<1>3. \A i \in 1 .. Len(q) : i \in 1 .. Len(s) \/ \E j \in 1 .. Len(r) : i = Len(s) + j
  <2> SUFFICES ASSUME NEW i \in 1 .. Len(q), i \notin 1 .. Len(s)
               PROVE \E j \in 1 .. Len(r) : i = Len(s) + j
    OBVIOUS
  <2>1. i - Len(s) \in 1 .. Len(r) /\ i = Len(s) + (i - Len(s))
    BY <1>1, <1>2
  <2> QED BY <2>1
<1>4. \A i \in 1 .. Len(q) : q[i] = t[i]
  BY <1>2, <1>3 DEF Prefix, Follows
<1> QED BY <1>1, <1>2, <1>4 DEF Prefix, Follows

\* A sample is a stamp, a read and a stamp.
LEMMA SampleTaken ==
  /\ Sample \in Seq(Statement) /\ Len(Sample) = 3
  /\ Sample[1] = "stamp" /\ Sample[2] = "read" /\ Sample[3] = "stamp"
  BY DEF Sample, Statement

\* n statements of the table t, and a sample.
Grows(n, t) ==
  /\ n \in Nat /\ n + 3 <= Len(t)
  /\ t[n + 1] = "stamp" /\ t[n + 2] = "read" /\ t[n + 3] = "stamp"

\* A prefix that a sample follows in the table grows by it ...
LEMMA SampleFollows ==
  ASSUME NEW s, NEW t \in Seq(Statement), Prefix(s, t), Grows(Len(s), t),
         NEW q, q = s \o Sample
  PROVE  Prefix(q, t) /\ Len(q) = Len(s) + 3
<1>1. Follows(Sample, s, t)
  <2>1. \A i \in 1 .. 3 : i = 1 \/ i = 2 \/ i = 3
    OBVIOUS
  <2> QED BY <2>1, SampleTaken DEF Follows, Grows
<1> QED BY <1>1, PrefixThen, SampleTaken

\* ... and the statements r.
LEMMA RestFollows ==
  ASSUME NEW s, NEW t \in Seq(Statement), Prefix(s, t), NEW r, Follows(r, s, t),
         NEW q, q = s \o r
  PROVE  Prefix(q, t) /\ Len(q) = Len(s) + Len(r)
  BY PrefixThen

\* A prefix as long as the table is the table.
LEMMA PrefixIsWhole ==
  ASSUME NEW s, NEW t \in Seq(Statement), Prefix(s, t), Len(s) = Len(t)
  PROVE  s = t
  BY DEF Prefix

\* The scripts are those of the tables.
LEMMA PauseIsTable == PauseScript = PauseTodo
<1> DEFINE t == PauseTodo
<1>1. t \in Seq(Statement) /\ Len(t) = 11
  BY DEF PauseTodo, Statement
<1>2. PICK q1 : q1 = <<"ready", "pause-1", "finished">>
  OBVIOUS
<1>3. Prefix(q1, t) /\ Len(q1) = 3
  <2>1. \A i \in 1 .. 3 : i = 1 \/ i = 2 \/ i = 3
    OBVIOUS
  <2> QED BY <1>1, <1>2, <2>1 DEF Prefix, PauseTodo, Statement
<1>4. PICK q2 : q2 = q1 \o Sample
  OBVIOUS
<1>5. Prefix(q2, t) /\ Len(q2) = 6
  <2>1. Grows(Len(q1), t)
    BY <1>1, <1>3 DEF Grows, PauseTodo
  <2> HIDE DEF t
  <2>2. Prefix(q2, t) /\ Len(q2) = Len(q1) + 3
    BY <1>1, <1>3, <1>4, <2>1, SampleFollows, Zenon
  <2> QED BY <1>3, <2>2
<1>6. PICK q3 : q3 = q2 \o Sample
  OBVIOUS
<1>7. Prefix(q3, t) /\ Len(q3) = 9
  <2>1. Grows(Len(q2), t)
    BY <1>1, <1>5 DEF Grows, PauseTodo
  <2> HIDE DEF t
  <2>2. Prefix(q3, t) /\ Len(q3) = Len(q2) + 3
    BY <1>1, <1>5, <1>6, <2>1, SampleFollows, Zenon
  <2> QED BY <1>5, <2>2
<1>8. PICK r8 : r8 = <<"observe", "join">>
  OBVIOUS
<1>9. PICK q4 : q4 = q3 \o r8
  OBVIOUS
<1>10. Prefix(q4, t) /\ Len(q4) = 11
  <2>1. \A i \in 1 .. 2 : i = 1 \/ i = 2
    OBVIOUS
  <2>2. Follows(r8, q3, t) /\ Len(r8) = 2
    BY <1>1, <1>7, <1>8, <2>1 DEF Follows, PauseTodo, Statement
  <2> HIDE DEF t
  <2>3. Prefix(q4, t) /\ Len(q4) = Len(q3) + Len(r8)
    BY <1>1, <1>7, <1>9, <2>2, RestFollows, Zenon
  <2> QED BY <1>7, <2>2, <2>3
<1>11. PauseScript = q4
  BY <1>2, <1>4, <1>6, <1>8, <1>9 DEF PauseScript
<1> HIDE DEF t
<1>12. q4 = t
  BY <1>1, <1>10, PrefixIsWhole
<1> QED BY <1>11, <1>12 DEF t

\* ... that of the run that ignores its pauses, a sample at a time ...
LEMMA IgnoreIsTable == Script("ignore") = IgnoreTodo
<1> DEFINE t == IgnoreTodo
<1>1. t \in Seq(Statement) /\ Len(t) = 31
  BY DEF IgnoreTodo, Statement
<1>2. PICK go : go = Sample \o <<"advance">>
  OBVIOUS
<1>3. /\ go \in Seq(Statement) /\ Len(go) = 4
      /\ go[1] = "stamp" /\ go[2] = "read" /\ go[3] = "stamp" /\ go[4] = "advance"
  BY <1>2 DEF Sample, Statement
<1>4. PICK q1 : q1 = <<"ready", "pause-1", "quiet_barrier">>
  OBVIOUS
<1>5. Prefix(q1, t) /\ Len(q1) = 3
  <2>1. \A i \in 1 .. 3 : i = 1 \/ i = 2 \/ i = 3
    OBVIOUS
  <2> QED BY <1>1, <1>4, <2>1 DEF Prefix, IgnoreTodo, Statement
<1>6. PICK q2 : q2 = q1 \o Sample
  OBVIOUS
<1>7. Prefix(q2, t) /\ Len(q2) = 6
  <2>1. Grows(Len(q1), t)
    BY <1>1, <1>5 DEF Grows, IgnoreTodo
  <2> HIDE DEF t
  <2>2. Prefix(q2, t) /\ Len(q2) = Len(q1) + 3
    BY <1>1, <1>5, <1>6, <2>1, SampleFollows, Zenon
  <2> QED BY <1>5, <2>2
<1>8. PICK q3 : q3 = q2 \o Sample
  OBVIOUS
<1>9. Prefix(q3, t) /\ Len(q3) = 9
  <2>1. Grows(Len(q2), t)
    BY <1>1, <1>7 DEF Grows, IgnoreTodo
  <2> HIDE DEF t
  <2>2. Prefix(q3, t) /\ Len(q3) = Len(q2) + 3
    BY <1>1, <1>7, <1>8, <2>1, SampleFollows, Zenon
  <2> QED BY <1>7, <2>2
<1>10. PICK r4 : r4 = <<"observe">>
  OBVIOUS
<1>11. PICK q4 : q4 = q3 \o r4
  OBVIOUS
<1>12. Prefix(q4, t) /\ Len(q4) = 10
  <2>1. \A i \in 1 .. 1 : i = 1
    OBVIOUS
  <2>2. Follows(r4, q3, t) /\ Len(r4) = 1
    BY <1>1, <1>9, <1>10, <2>1 DEF Follows, IgnoreTodo, Statement
  <2> HIDE DEF t
  <2>3. Prefix(q4, t) /\ Len(q4) = Len(q3) + Len(r4)
    BY <1>1, <1>9, <1>11, <2>2, RestFollows, Zenon
  <2> QED BY <1>9, <2>2, <2>3
<1>13. PICK q5 : q5 = q4 \o go
  OBVIOUS
<1>14. Prefix(q5, t) /\ Len(q5) = 14
  <2>1. \A i \in 1 .. 4 : i = 1 \/ i = 2 \/ i = 3 \/ i = 4
    OBVIOUS
  <2>2. Follows(go, q4, t) /\ Len(go) = 4
    BY <1>1, <1>12, <1>3, <2>1 DEF Follows, IgnoreTodo, Statement
  <2> HIDE DEF t
  <2>3. Prefix(q5, t) /\ Len(q5) = Len(q4) + Len(go)
    BY <1>1, <1>12, <1>13, <2>2, RestFollows, Zenon
  <2> QED BY <1>12, <2>2, <2>3
<1>15. PICK r6 : r6 = <<"step_barrier">>
  OBVIOUS
<1>16. PICK q6 : q6 = q5 \o r6
  OBVIOUS
<1>17. Prefix(q6, t) /\ Len(q6) = 15
  <2>1. \A i \in 1 .. 1 : i = 1
    OBVIOUS
  <2>2. Follows(r6, q5, t) /\ Len(r6) = 1
    BY <1>1, <1>14, <1>15, <2>1 DEF Follows, IgnoreTodo, Statement
  <2> HIDE DEF t
  <2>3. Prefix(q6, t) /\ Len(q6) = Len(q5) + Len(r6)
    BY <1>1, <1>14, <1>16, <2>2, RestFollows, Zenon
  <2> QED BY <1>14, <2>2, <2>3
<1>18. PICK q7 : q7 = q6 \o Sample
  OBVIOUS
<1>19. Prefix(q7, t) /\ Len(q7) = 18
  <2>1. Grows(Len(q6), t)
    BY <1>1, <1>17 DEF Grows, IgnoreTodo
  <2> HIDE DEF t
  <2>2. Prefix(q7, t) /\ Len(q7) = Len(q6) + 3
    BY <1>1, <1>17, <1>18, <2>1, SampleFollows, Zenon
  <2> QED BY <1>17, <2>2
<1>20. PICK r8 : r8 = <<"observe", "pause-2", "second_control_barrier">>
  OBVIOUS
<1>21. PICK q8 : q8 = q7 \o r8
  OBVIOUS
<1>22. Prefix(q8, t) /\ Len(q8) = 21
  <2>1. \A i \in 1 .. 3 : i = 1 \/ i = 2 \/ i = 3
    OBVIOUS
  <2>2. Follows(r8, q7, t) /\ Len(r8) = 3
    BY <1>1, <1>19, <1>20, <2>1 DEF Follows, IgnoreTodo, Statement
  <2> HIDE DEF t
  <2>3. Prefix(q8, t) /\ Len(q8) = Len(q7) + Len(r8)
    BY <1>1, <1>19, <1>21, <2>2, RestFollows, Zenon
  <2> QED BY <1>19, <2>2, <2>3
<1>23. PICK q9 : q9 = q8 \o Sample
  OBVIOUS
<1>24. Prefix(q9, t) /\ Len(q9) = 24
  <2>1. Grows(Len(q8), t)
    BY <1>1, <1>22 DEF Grows, IgnoreTodo
  <2> HIDE DEF t
  <2>2. Prefix(q9, t) /\ Len(q9) = Len(q8) + 3
    BY <1>1, <1>22, <1>23, <2>1, SampleFollows, Zenon
  <2> QED BY <1>22, <2>2
<1>25. PICK r10 : r10 = <<"advance", "finished">>
  OBVIOUS
<1>26. PICK q10 : q10 = q9 \o r10
  OBVIOUS
<1>27. Prefix(q10, t) /\ Len(q10) = 26
  <2>1. \A i \in 1 .. 2 : i = 1 \/ i = 2
    OBVIOUS
  <2>2. Follows(r10, q9, t) /\ Len(r10) = 2
    BY <1>1, <1>24, <1>25, <2>1 DEF Follows, IgnoreTodo, Statement
  <2> HIDE DEF t
  <2>3. Prefix(q10, t) /\ Len(q10) = Len(q9) + Len(r10)
    BY <1>1, <1>24, <1>26, <2>2, RestFollows, Zenon
  <2> QED BY <1>24, <2>2, <2>3
<1>28. PICK q11 : q11 = q10 \o Sample
  OBVIOUS
<1>29. Prefix(q11, t) /\ Len(q11) = 29
  <2>1. Grows(Len(q10), t)
    BY <1>1, <1>27 DEF Grows, IgnoreTodo
  <2> HIDE DEF t
  <2>2. Prefix(q11, t) /\ Len(q11) = Len(q10) + 3
    BY <1>1, <1>27, <1>28, <2>1, SampleFollows, Zenon
  <2> QED BY <1>27, <2>2
<1>30. PICK r12 : r12 = <<"observe", "join">>
  OBVIOUS
<1>31. PICK q12 : q12 = q11 \o r12
  OBVIOUS
<1>32. Prefix(q12, t) /\ Len(q12) = 31
  <2>1. \A i \in 1 .. 2 : i = 1 \/ i = 2
    OBVIOUS
  <2>2. Follows(r12, q11, t) /\ Len(r12) = 2
    BY <1>1, <1>29, <1>30, <2>1 DEF Follows, IgnoreTodo, Statement
  <2> HIDE DEF t
  <2>3. Prefix(q12, t) /\ Len(q12) = Len(q11) + Len(r12)
    BY <1>1, <1>29, <1>31, <2>2, RestFollows, Zenon
  <2> QED BY <1>29, <2>2, <2>3
<1>33. Script("ignore") = q12
  BY <1>2, <1>4, <1>6, <1>8, <1>10, <1>11, <1>13, <1>15, <1>16, <1>18, <1>20,
     <1>21, <1>23, <1>25, <1>26, <1>28, <1>30, <1>31 DEF Script, IgnoreScript
<1> HIDE DEF t
<1>34. q12 = t
  BY <1>1, <1>32, PrefixIsWhole
<1> QED BY <1>33, <1>34 DEF t

\* ... and those of the workers.
LEMMA IgnoreWorkIsTable ==
  ASSUME NEW m, m = "ignore"
  PROVE  Work(m) = IgnoreDoes
<1> DEFINE t == IgnoreDoes
<1>1. t \in Seq(Statement) /\ Len(t) = 13
  BY DEF IgnoreDoes, Statement
<1>2. PICK a : a = <<"ready", "control">>
  OBVIOUS
<1>3. Prefix(a, t) /\ Len(a) = 2
  <2>1. \A i \in 1 .. 2 : i = 1 \/ i = 2
    OBVIOUS
  <2> QED BY <1>1, <1>2, <2>1 DEF Prefix, IgnoreDoes, Statement
<1>4. PICK r : r = <<"handler_ignored", "quiet_barrier", "advance", "write", "step_barrier",
                     "control", "handler_ignored", "second_control_barrier", "advance", "write",
                     "finished">>
  OBVIOUS
<1>5. Follows(r, a, t) /\ Len(r) = 11
  <2>1. \A i \in 1 .. 11 : \/ i = 1 \/ i = 2 \/ i = 3 \/ i = 4 \/ i = 5 \/ i = 6
                           \/ i = 7 \/ i = 8 \/ i = 9 \/ i = 10 \/ i = 11
    OBVIOUS
  <2> QED BY <1>1, <1>3, <1>4, <2>1 DEF Follows, IgnoreDoes, Statement
<1>6. Work(m) = a \o r
  BY <1>2, <1>4 DEF Work
<1> HIDE DEF t
<1>7. Prefix(Work(m), t) /\ Len(Work(m)) = Len(a) + Len(r)
  BY <1>1, <1>3, <1>5, <1>6, RestFollows, Zenon
<1>8. Work(m) = t
  BY <1>1, <1>3, <1>5, <1>7, PrefixIsWhole
<1> QED BY <1>8 DEF t

LEMMA PauseWorkIsTable ==
  ASSUME NEW m, m \in {"pause", "unobserved"}
  PROVE  Work(m) = PauseDoes
<1> DEFINE t == PauseDoes
<1>1. t \in Seq(Statement) /\ Len(t) = 4
  BY DEF PauseDoes, Statement
<1>2. PICK a : a = <<"ready", "control">>
  OBVIOUS
<1>3. Prefix(a, t) /\ Len(a) = 2
  <2>1. \A i \in 1 .. 2 : i = 1 \/ i = 2
    OBVIOUS
  <2> QED BY <1>1, <1>2, <2>1 DEF Prefix, PauseDoes, Statement
<1>4. PICK r : r = <<"native_interrupt_observed", "finished">>
  OBVIOUS
<1>5. Follows(r, a, t) /\ Len(r) = 2
  <2>1. \A i \in 1 .. 2 : i = 1 \/ i = 2
    OBVIOUS
  <2> QED BY <1>1, <1>3, <1>4, <2>1 DEF Follows, PauseDoes, Statement
<1>6. Work(m) = a \o r
  BY <1>2, <1>4 DEF Work
<1> HIDE DEF t
<1>7. Prefix(Work(m), t) /\ Len(Work(m)) = Len(a) + Len(r)
  BY <1>1, <1>3, <1>5, <1>6, RestFollows, Zenon
<1>8. Work(m) = t
  BY <1>1, <1>3, <1>5, <1>7, PrefixIsWhole
<1> QED BY <1>8 DEF t

\* For every mode.
LEMMA ScriptsAreTables ==
  ASSUME NEW m \in Mode
  PROVE  Script(m) = TodoOf(m) /\ Work(m) = WorkOf(m)
<1>1. CASE m = "ignore"
  <2>1. Script(m) = TodoOf(m) /\ WorkOf(m) = IgnoreDoes
    BY <1>1, IgnoreIsTable DEF TodoOf, Ignores, WorkOf
  <2> QED BY <1>1, <2>1, IgnoreWorkIsTable
<1>2. CASE m \in {"pause", "unobserved"}
  <2>1. Script(m) = TodoOf(m) /\ WorkOf(m) = PauseDoes
    BY <1>2, PauseIsTable DEF Script, TodoOf, UnobservedTodo, WorkOf, Ignores
  <2> QED BY <1>2, <2>1, PauseWorkIsTable
<1> QED BY <1>1, <1>2 DEF Mode

-----------------------------------------------------------------------------
(* What a capture reports is so.                                            *)

Captured == {"receiver_observed", "error"} \cup Emitted

Control == Statement \cup {"pending"}

\* What the worker tells of a run.
Told == [run : Nat, control : Control, kind : Captured, tick : Nat, data : Control]

ShapeOK ==
  /\ c = [run |-> c.run, commands |-> c.commands, telemetry |-> c.telemetry,
          sample |-> c.sample, control |-> c.control, scope |-> c.scope,
          work |-> c.work, todo |-> c.todo]
  /\ c.run \in 1 .. (Len(Modes) + 1)
  /\ c.commands \in Seq(Statement) /\ c.telemetry \in Seq(Told) /\ c.sample \in Seq(Nat)
  /\ c.control \in Control /\ c.scope \in Control
  /\ c.work \in Seq(Statement) /\ c.todo \in Seq(Statement) /\ now \in Nat
  /\ ~Capturing => c.work = <<>> /\ c.todo = <<>>

\* s is what is left of the table t.
Left(s, t) ==
  /\ s \in Seq(Statement) /\ Len(s) <= Len(t)
  /\ \A i \in 1 .. Len(s) : s[i] = t[Len(t) - Len(s) + i]

\* Commands sent before statement p of the parent, and taken before statement j
\* of the worker, in a run that ignores its pauses.
SentBefore(p)  == IF p <= 2 THEN 0 ELSE IF p <= 14 THEN 1 ELSE IF p <= 20 THEN 2
                  ELSE IF p <= 25 THEN 3 ELSE 4
TakenBefore(j) == IF j <= 2 THEN 0 ELSE IF j <= 5 THEN 1 ELSE IF j <= 8 THEN 2
                  ELSE IF j <= 11 THEN 3 ELSE 4

\* The statements that the parent and the worker of that run stand at.
ParentAt == 32 - Len(c.todo)
WorkerAt == 14 - Len(c.work)

\* The pipe holds what was sent and not taken; what was heard was done.
OrderOK ==
  /\ c.work # <<>> => /\ TakenBefore(WorkerAt) <= SentBefore(ParentAt)
                      /\ Len(c.commands) = SentBefore(ParentAt) - TakenBefore(WorkerAt)
  /\ ParentAt >= 16 => WorkerAt >= 8
  /\ ParentAt >= 27 => WorkerAt = 14
  /\ \A i \in 1 .. Len(c.telemetry) :
       /\ c.telemetry[i].kind = "step_barrier" => WorkerAt >= 8
       /\ c.telemetry[i].kind = "finished" => WorkerAt = 14

PlaceOK ==
  Capturing =>
    /\ Left(c.work, WorkOf(Modes[c.run])) /\ Left(c.todo, TodoOf(Modes[c.run])) /\ c.todo # <<>>
    /\ Len(c.sample) = SamplesOf(Modes[c.run])[Len(TodoOf(Modes[c.run])) - Len(c.todo) + 1]
    /\ Ignores(Modes[c.run]) => OrderOK
    /\ \A i \in 1 .. Len(c.telemetry) :
         /\ c.telemetry[i].run = c.run
         /\ c.telemetry[i].kind = "native_interrupt_observed" => ~Ignores(Modes[c.run])

\* Only a run that ignores its pauses writes.
WritesOK ==
  /\ writes \in [DOMAIN Modes -> SUBSET Nat]
  /\ \A r \in DOMAIN Modes :
       /\ IsFiniteSet(writes[r]) /\ \A t \in writes[r] : t <= now
       /\ ~Ignores(Modes[r]) => writes[r] = {}

Earlier(W, tick) == {t \in W : t < tick}

\* A first read counts what was written before its sample, a second one counts
\* all that has been written so far.
SampleOK ==
  Capturing =>
    LET W == writes[c.run]
        s == c.sample
    IN
    /\ Len(s) >= 1 => s[1] <= now
    /\ Len(s) = 1 => \A t \in W : t < s[1]
    /\ Len(s) >= 2 => s[2] = Cardinality(Earlier(W, s[1]))
    /\ Len(s) >= 4 => s[4] <= now /\ \A t \in W : t < s[4]
    /\ Len(s) >= 5 => s[5] = Cardinality(W)
    /\ Len(s) >= 6 => s[4] <= s[6] /\ s[6] <= now

\* A source of a delivery tells the truth of its run.
Tells(s) ==
  \/ s.kind = "authored" /\ s.data \in Authored
  \/ s.kind \in {"receiver_observed", "handler_ignored"}
  \/ s.kind = "native_interrupt_observed" /\ s.run \in DOMAIN Modes /\ ~Ignores(Modes[s.run])
  \/ /\ s.kind = "effect_sampled" /\ s.run \in DOMAIN Modes
     /\ s.data[1] \in Nat /\ s.data[6] \in Nat /\ s.data[6] <= now
     /\ (s.data[2] = s.data[5]) <=> (writes[s.run] \cap (s.data[1] .. s.data[6]) = {})

TalesOK ==
  /\ \A d \in reports : d = [source |-> d.source, event |-> d.event, signed |-> d.signed]
  /\ \A d \in reports \cup delivered : Tells(d.source)

TellInv == ShapeOK /\ PlaceOK /\ WritesOK /\ SampleOK /\ TalesOK

-----------------------------------------------------------------------------
\* What is left after a statement.
LEMMA LeftTail ==
  ASSUME NEW s, NEW t \in Seq(Statement), Left(s, t), s # <<>>
  PROVE  /\ Left(Tail(s), t) /\ Len(Tail(s)) = Len(s) - 1 /\ Len(s) >= 1
         /\ Head(s) = t[Len(t) - Len(s) + 1] /\ Head(s) \in Statement
<1>1. s \in Seq(Statement) /\ Len(s) \in Nat /\ Len(t) \in Nat /\ Len(s) >= 1
  BY DEF Left
<1>2. PICK r : r = Tail(s)
  OBVIOUS
<1>3. r \in Seq(Statement) /\ Len(r) = Len(s) - 1 /\ \A i \in 1 .. Len(r) : r[i] = s[i + 1]
  BY <1>1, <1>2
<1>4. \A i \in 1 .. Len(r) : i + 1 \in 1 .. Len(s) /\ Len(t) - Len(s) + (i + 1) = Len(t) - Len(r) + i
  BY <1>1, <1>3
<1>5. Left(r, t)
  BY <1>1, <1>3, <1>4 DEF Left
<1>6. Head(s) = s[1] /\ 1 \in 1 .. Len(s) /\ s[1] \in Statement
  BY <1>1
<1> QED BY <1>1, <1>2, <1>3, <1>5, <1>6 DEF Left

\* What the tables say, statement by statement.
LEMMA TablesAreScripts ==
  ASSUME NEW m \in Mode, NEW n, n = Len(WorkOf(m)), NEW k, k = Len(TodoOf(m))
  PROVE  /\ WorkOf(m) \in Seq(Statement) /\ TodoOf(m) \in Seq(Statement)
         /\ n \in Nat /\ k \in Nat
         /\ Ignores(m) => n = 13 /\ k = 31
         /\ ~Ignores(m) => n = 4 /\ (k = 4 \/ k = 11)
<1>1. IgnoreDoes \in Seq(Statement) /\ Len(IgnoreDoes) = 13
  BY DEF IgnoreDoes, Statement
<1>2. IgnoreTodo \in Seq(Statement) /\ Len(IgnoreTodo) = 31
  BY DEF IgnoreTodo, Statement
<1>3. PauseTodo \in Seq(Statement) /\ Len(PauseTodo) = 11
  BY DEF PauseTodo, Statement
<1>4. UnobservedTodo \in Seq(Statement) /\ Len(UnobservedTodo) = 4
  BY DEF UnobservedTodo, Statement
<1>5. PauseDoes \in Seq(Statement) /\ Len(PauseDoes) = 4
  BY DEF PauseDoes, Statement
<1>6. CASE Ignores(m)
  <2>1. WorkOf(m) = IgnoreDoes /\ TodoOf(m) = IgnoreTodo
    BY <1>6 DEF WorkOf, TodoOf
  <2>2. n = 13 /\ k = 31
    BY <1>1, <1>2, <2>1
  <2> QED BY <1>1, <1>2, <1>6, <2>1, <2>2
<1>7. CASE ~Ignores(m)
  <2>1. WorkOf(m) = PauseDoes /\ TodoOf(m) \in {PauseTodo, UnobservedTodo}
    BY <1>7 DEF WorkOf, TodoOf
  <2>2. n = 4 /\ (k = 4 \/ k = 11)
    BY <1>3, <1>4, <1>5, <2>1
  <2> QED BY <1>3, <1>4, <1>5, <1>7, <2>1, <2>2
<1> QED BY <1>6, <1>7

\* What a worker that ignores its pauses does at each statement ...
LEMMA IgnoreWork ==
  ASSUME NEW j \in 1 .. 13, NEW x, x = IgnoreDoes[j]
  PROVE  /\ x = "write" => j \in {6, 12}
         /\ x = "step_barrier" => j = 7
         /\ x = "finished" => j = 13
         /\ x \in {"control", "advance"} => TakenBefore(j + 1) = TakenBefore(j) + 1
         /\ x \notin {"control", "advance"} => TakenBefore(j + 1) = TakenBefore(j)
         /\ x # "native_interrupt_observed"
<1>1. \/ j = 1 \/ j = 2 \/ j = 3 \/ j = 4 \/ j = 5 \/ j = 6 \/ j = 7
      \/ j = 8 \/ j = 9 \/ j = 10 \/ j = 11 \/ j = 12 \/ j = 13
  OBVIOUS
<1> QED BY <1>1 DEF IgnoreDoes, TakenBefore

\* ... and one that does not: it never writes.
LEMMA PauseWork ==
  ASSUME NEW j \in 1 .. 4
  PROVE  PauseDoes[j] # "write"
<1>1. j = 1 \/ j = 2 \/ j = 3 \/ j = 4
  OBVIOUS
<1> QED BY <1>1 DEF PauseDoes

Commands == {"pause-1", "pause-2", "advance"}

\* The parent that runs it: where it sends, awaits and samples.
LEMMA IgnoreOrder ==
  ASSUME NEW p \in 1 .. 31, NEW x, x = IgnoreTodo[p]
  PROVE  /\ x = "step_barrier" <=> p = 15
         /\ x = "finished" <=> p = 26
         /\ x = "join" <=> p = 31
         /\ x \in Commands => SentBefore(p + 1) = SentBefore(p) + 1
         /\ x \notin Commands => SentBefore(p + 1) = SentBefore(p)
<1>1. \/ p = 1 \/ p = 2 \/ p = 3 \/ p = 4 \/ p = 5 \/ p = 6 \/ p = 7 \/ p = 8 \/ p = 9
      \/ p = 10 \/ p = 11 \/ p = 12 \/ p = 13 \/ p = 14 \/ p = 15 \/ p = 16 \/ p = 17
      \/ p = 18 \/ p = 19 \/ p = 20 \/ p = 21 \/ p = 22 \/ p = 23 \/ p = 24 \/ p = 25
      \/ p = 26 \/ p = 27 \/ p = 28 \/ p = 29 \/ p = 30 \/ p = 31
  OBVIOUS
<1> QED BY <1>1 DEF IgnoreTodo, SentBefore, Commands

\* What a statement x does to a sample of n readings, of which it leaves k.
Takes(x, n, k) ==
  /\ x \in {"stamp", "read"} => k = n + 1
  /\ x = "read" => n \in {1, 4}
  /\ x = "stamp" => n \in {0, 2, 3, 5}
  /\ x = "observe" => n = 6 /\ k = 0
  /\ x \in Awaited \cup Commands => k = n

LEMMA IgnoreSamples ==
  ASSUME NEW p \in 1 .. 30
  PROVE  /\ IgnoreSampled[p] \in Nat /\ IgnoreSampled[p + 1] \in Nat
         /\ Takes(IgnoreTodo[p], IgnoreSampled[p], IgnoreSampled[p + 1])
<1>1. \/ p = 1 \/ p = 2 \/ p = 3 \/ p = 4 \/ p = 5 \/ p = 6 \/ p = 7 \/ p = 8 \/ p = 9
      \/ p = 10 \/ p = 11 \/ p = 12 \/ p = 13 \/ p = 14 \/ p = 15 \/ p = 16 \/ p = 17
      \/ p = 18 \/ p = 19 \/ p = 20 \/ p = 21 \/ p = 22 \/ p = 23 \/ p = 24 \/ p = 25
      \/ p = 26 \/ p = 27 \/ p = 28 \/ p = 29 \/ p = 30
  OBVIOUS
<1> QED BY <1>1 DEF IgnoreTodo, IgnoreSampled, Takes, Commands, Awaited

LEMMA PauseSamples ==
  ASSUME NEW p \in 1 .. 10
  PROVE  /\ PauseSampled[p] \in Nat /\ PauseSampled[p + 1] \in Nat
         /\ Takes(PauseTodo[p], PauseSampled[p], PauseSampled[p + 1])
         /\ p <= 3 => Takes(UnobservedTodo[p], PauseSampled[p], PauseSampled[p + 1])
<1>1. \/ p = 1 \/ p = 2 \/ p = 3 \/ p = 4 \/ p = 5 \/ p = 6 \/ p = 7 \/ p = 8 \/ p = 9 \/ p = 10
  OBVIOUS
<1> QED BY <1>1 DEF PauseTodo, UnobservedTodo, PauseSampled, Takes, Commands, Awaited

\* Each script ends where it joins the worker, and not before.
LEMMA ScriptTakes ==
  ASSUME NEW m \in Mode, NEW p \in 1 .. Len(TodoOf(m)), TodoOf(m)[p] # "join"
  PROVE  /\ p < Len(TodoOf(m))
         /\ SamplesOf(m)[p] \in Nat /\ SamplesOf(m)[p + 1] \in Nat
         /\ Takes(TodoOf(m)[p], SamplesOf(m)[p], SamplesOf(m)[p + 1])
<1>1. /\ IgnoreTodo[31] = "join" /\ PauseTodo[11] = "join" /\ UnobservedTodo[4] = "join"
      /\ Len(IgnoreTodo) = 31 /\ Len(PauseTodo) = 11 /\ Len(UnobservedTodo) = 4
  BY DEF IgnoreTodo, PauseTodo, UnobservedTodo
<1>2. CASE Ignores(m)
  <2>1. TodoOf(m) = IgnoreTodo /\ SamplesOf(m) = IgnoreSampled
    BY <1>2 DEF TodoOf, SamplesOf
  <2>2. p \in 1 .. 31 /\ p # 31
    BY <1>1, <2>1, Zenon
  <2>3. p \in 1 .. 30 /\ p < 31
    BY <2>2
  <2> QED BY <1>1, <2>1, <2>3, IgnoreSamples, Zenon
<1>3. CASE ~Ignores(m)
  <2>1. TodoOf(m) \in {PauseTodo, UnobservedTodo} /\ SamplesOf(m) = PauseSampled
    BY <1>3 DEF TodoOf, SamplesOf
  <2>2. CASE TodoOf(m) = PauseTodo
    <3>1. p \in 1 .. 11 /\ p # 11
      BY <1>1, <2>2, Zenon
    <3>2. p \in 1 .. 10 /\ p < 11
      BY <3>1
    <3> QED BY <1>1, <2>1, <2>2, <3>2, PauseSamples, Zenon
  <2>3. CASE TodoOf(m) = UnobservedTodo
    <3>1. p \in 1 .. 4 /\ p # 4
      BY <1>1, <2>3, Zenon
    <3>2. p \in 1 .. 10 /\ p <= 3 /\ p < 4
      BY <3>1
    <3> QED BY <1>1, <2>1, <2>3, <3>2, PauseSamples, Zenon
  <2> QED BY <2>1, <2>2, <2>3
<1> QED BY <1>2, <1>3

-----------------------------------------------------------------------------
(* Places.                                                                  *)

LEMMA ModeOfRun ==
  ASSUME ShapeOK, Capturing
  PROVE  c.run \in DOMAIN Modes /\ Modes[c.run] \in Mode
  BY ModesAssumption DEF ShapeOK, Capturing, Mode

LEMMA LeftAll ==
  ASSUME NEW t \in Seq(Statement)
  PROVE  Left(t, t)
<1>1. Len(t) \in Nat /\ \A i \in 1 .. Len(t) : Len(t) - Len(t) + i = i
  OBVIOUS
<1> QED BY <1>1 DEF Left

\* A run that starts is at the start of its scripts; there is none after the last.
LEMMA FreshPlace ==
  ASSUME NEW r \in 1 .. (Len(Modes) + 1), c = Fresh(r), now \in Nat
  PROVE  /\ ShapeOK /\ PlaceOK /\ SampleOK
<1>1. Len(Modes) \in Nat /\ \A q \in 1 .. Len(Modes) : Modes[q] \in Mode
  BY ModesAssumption DEF Mode
<1>2. PICK w, t : /\ c = [run |-> r, commands |-> <<>>, telemetry |-> <<>>, sample |-> <<>>,
                           control |-> "pending", scope |-> "pending", work |-> w, todo |-> t]
                  /\ w = IF r <= Len(Modes) THEN Work(Modes[r]) ELSE <<>>
                  /\ t = IF r <= Len(Modes) THEN Script(Modes[r]) ELSE <<>>
  BY DEF Fresh
<1>3. CASE r <= Len(Modes)
  <2>1. PICK m : m = Modes[r]
    OBVIOUS
  <2>2. m \in Mode /\ w = WorkOf(m) /\ t = TodoOf(m)
    <3>1. r \in 1 .. Len(Modes)
      BY <1>1, <1>3
    <3>2. m \in Mode
      BY <1>1, <2>1, <3>1
    <3> QED BY <1>2, <1>3, <2>1, <3>2, ScriptsAreTables
  <2>3. PICK n, k : n = Len(w) /\ k = Len(t)
    OBVIOUS
  <2>4. /\ w \in Seq(Statement) /\ t \in Seq(Statement) /\ n \in Nat /\ k \in Nat
        /\ Ignores(m) => n = 13 /\ k = 31
        /\ ~Ignores(m) => n = 4 /\ (k = 4 \/ k = 11)
    BY <2>2, <2>3, TablesAreScripts, Zenon
  <2>5. Left(w, WorkOf(m)) /\ Left(t, TodoOf(m)) /\ t # <<>>
    <3>1. Left(w, w) /\ Left(t, t)
      BY <2>4, LeftAll
    <3>2. k # 0
      BY <2>4
    <3> QED BY <2>2, <2>3, <3>1, <3>2
  <2>6. SamplesOf(m)[1] = 0 /\ Len(TodoOf(m)) - Len(t) + 1 = 1
    <3>1. SamplesOf(m) = IgnoreSampled \/ SamplesOf(m) = PauseSampled
      BY DEF SamplesOf
    <3>2. IgnoreSampled[1] = 0 /\ PauseSampled[1] = 0
      BY DEF IgnoreSampled, PauseSampled
    <3>3. k - k + 1 = 1
      BY <2>4
    <3> QED BY <2>2, <2>3, <3>1, <3>2, <3>3
  <2>7. ShapeOK
    BY <1>1, <1>2, <1>3, <2>4 DEF ShapeOK, Capturing, Control
  <2>8. Ignores(m) => OrderOK
    <3> SUFFICES ASSUME Ignores(m) PROVE OrderOK
      OBVIOUS
    <3>1. /\ c.todo = t /\ c.work = w /\ Len(c.telemetry) = 0 /\ Len(c.commands) = 0
      BY <1>2
    <3>2. n = 13 /\ k = 31
      BY <2>4
    <3>3. ParentAt = 1 /\ WorkerAt = 1
      BY <2>3, <3>1, <3>2 DEF ParentAt, WorkerAt
    <3>4. SentBefore(1) = 0 /\ TakenBefore(1) = 0 /\ \A i \in 1 .. 0 : FALSE
      BY DEF SentBefore, TakenBefore
    <3> QED BY <3>1, <3>3, <3>4 DEF OrderOK
  <2>9. PlaceOK
    <3>1. /\ c.run = r /\ c.todo = t /\ c.work = w /\ Len(c.telemetry) = 0 /\ Len(c.sample) = 0
      BY <1>2
    <3>2. \A i \in 1 .. Len(c.telemetry) : FALSE
      BY <3>1
    <3> QED BY <2>1, <2>5, <2>6, <2>8, <3>1, <3>2 DEF PlaceOK
  <2>10. SampleOK
    BY <1>2 DEF SampleOK
  <2> QED BY <2>7, <2>9, <2>10
<1>4. CASE ~(r <= Len(Modes))
  <2>1. ~Capturing /\ w = <<>> /\ t = <<>>
    BY <1>1, <1>2, <1>4 DEF Capturing
  <2>2. ShapeOK
    <3>1. c = [run |-> r, commands |-> <<>>, telemetry |-> <<>>, sample |-> <<>>,
                control |-> "pending", scope |-> "pending", work |-> <<>>, todo |-> <<>>]
      BY <1>2, <2>1
    <3>2. /\ c.run = r /\ c.commands = <<>> /\ c.telemetry = <<>> /\ c.sample = <<>>
          /\ c.control = "pending" /\ c.scope = "pending" /\ c.work = <<>> /\ c.todo = <<>>
      BY <3>1
    <3>3. /\ <<>> \in Seq(Statement) /\ <<>> \in Seq(Told) /\ <<>> \in Seq(Nat)
          /\ "pending" \in Control
      BY DEF Control
    <3>4. c = [run |-> c.run, commands |-> c.commands, telemetry |-> c.telemetry,
                sample |-> c.sample, control |-> c.control, scope |-> c.scope,
                work |-> c.work, todo |-> c.todo]
      BY <3>1, <3>2, Zenon
    <3> QED BY <2>1, <3>2, <3>3, <3>4, Zenon DEF ShapeOK
  <2> QED BY <2>1, <2>2 DEF PlaceOK, SampleOK
<1> QED BY <1>3, <1>4

FreshRunIsPlaced ==
  \A r \in 1 .. (Len(Modes) + 1) :
    c = Fresh(r) /\ now \in Nat => ShapeOK /\ PlaceOK /\ SampleOK

LEMMA FreshIsPlaced == FreshRunIsPlaced
  BY FreshPlace DEF FreshRunIsPlaced

\* ... and so is the run that comes next.
LEMMA NextIsPlaced ==
  ASSUME NEW r \in 1 .. (Len(Modes) + 1), c' = Fresh(r), now' \in Nat
  PROVE  ShapeOK' /\ PlaceOK' /\ SampleOK'
<1>1. FreshRunIsPlaced'
  BY FreshIsPlaced, PTL
<1> QED BY <1>1 DEF FreshRunIsPlaced

\* The worker does the statement it stands at.
WorkerMoves ==
  /\ Capturing /\ c.work # <<>> /\ c'.work = Tail(c.work)
  /\ c'.run = c.run /\ c'.todo = c.todo /\ c'.sample = c.sample
  /\ Head(c.work) \in {"control", "advance"} => Len(c'.commands) = Len(c.commands) - 1
  /\ Head(c.work) \notin {"control", "advance"} => c'.commands = c.commands
  /\ \/ c'.telemetry = c.telemetry
     \/ \E m \in Told : /\ m.run = c.run /\ m.kind \in {"receiver_observed", Head(c.work)}
                        /\ c'.telemetry = Append(c.telemetry, m)

\* A statement of the worker.
LEMMA WorkerKeepsPlace ==
  ASSUME ShapeOK, PlaceOK, WorkerMoves
  PROVE  PlaceOK'
<1>1. PICK m \in Mode : m = Modes[c.run] /\ c.run \in DOMAIN Modes
  BY ModeOfRun DEF WorkerMoves
<1>2. /\ Left(c.work, WorkOf(m)) /\ Left(c.todo, TodoOf(m)) /\ c.todo # <<>>
      /\ Len(c.sample) = SamplesOf(m)[Len(TodoOf(m)) - Len(c.todo) + 1]
      /\ Ignores(m) => OrderOK
      /\ \A i \in 1 .. Len(c.telemetry) :
           /\ c.telemetry[i].run = c.run
           /\ c.telemetry[i].kind = "native_interrupt_observed" => ~Ignores(m)
  BY <1>1 DEF PlaceOK, WorkerMoves
<1>3. PICK x : x = Head(c.work)
  OBVIOUS
<1>4. PICK w : w = Tail(c.work)
  OBVIOUS
<1>5. PICK n, k : n = Len(WorkOf(m)) /\ k = Len(TodoOf(m))
  OBVIOUS
<1>6. /\ WorkOf(m) \in Seq(Statement) /\ TodoOf(m) \in Seq(Statement) /\ n \in Nat /\ k \in Nat
      /\ Ignores(m) => n = 13 /\ k = 31
  BY <1>5, TablesAreScripts, Zenon
<1>7. /\ Left(w, WorkOf(m)) /\ Len(w) = Len(c.work) - 1 /\ Len(c.work) >= 1
      /\ x = WorkOf(m)[Len(WorkOf(m)) - Len(c.work) + 1]
  BY <1>2, <1>3, <1>4, <1>6, LeftTail DEF WorkerMoves
<1>8. Len(c.work) \in Nat /\ Len(c.work) <= Len(WorkOf(m)) /\ Len(c.telemetry) \in Nat
      /\ Len(c.todo) \in Nat
      /\ Len(c.commands) \in Nat /\ Len(c.todo) <= Len(TodoOf(m)) /\ Len(c.todo) >= 1
  BY <1>2 DEF ShapeOK, Left
<1>9. PICK l \in Nat : l = Len(c.work) /\ l >= 1 /\ l <= n /\ Len(w) = l - 1
  BY <1>5, <1>7, <1>8
<1>10. \A i \in 1 .. Len(c'.telemetry) :
        \/ i \in 1 .. Len(c.telemetry) /\ c'.telemetry[i] = c.telemetry[i]
        \/ c'.telemetry[i].run = c.run /\ c'.telemetry[i].kind \in {"receiver_observed", x}
  <2>1. c.telemetry \in Seq(Told)
    BY DEF ShapeOK
  <2>2. CASE c'.telemetry = c.telemetry
    BY <2>2
  <2>3. ASSUME NEW note \in Told, note.run = c.run, note.kind \in {"receiver_observed", Head(c.work)},
               c'.telemetry = Append(c.telemetry, note)
        PROVE  \A i \in 1 .. Len(c'.telemetry) :
                 \/ i \in 1 .. Len(c.telemetry) /\ c'.telemetry[i] = c.telemetry[i]
                 \/ c'.telemetry[i].run = c.run /\ c'.telemetry[i].kind \in {"receiver_observed", x}
    <3>1. PICK q : q = Append(c.telemetry, note)
      OBVIOUS
    <3>2. /\ Len(q) = Len(c.telemetry) + 1 /\ q[Len(c.telemetry) + 1] = note
          /\ \A i \in 1 .. Len(c.telemetry) : q[i] = c.telemetry[i]
      BY <2>1, <3>1
    <3>3. \A i \in 1 .. Len(q) : i \in 1 .. Len(c.telemetry) \/ i = Len(c.telemetry) + 1
      BY <1>8, <3>2
    <3> QED BY <1>3, <2>3, <3>1, <3>2, <3>3
  <2> QED BY <2>2, <2>3 DEF WorkerMoves
<1>11. Ignores(m) => OrderOK'
  <2> SUFFICES ASSUME Ignores(m) PROVE OrderOK'
    OBVIOUS
  <2>1. WorkerAt \in 1 .. 13 /\ x = IgnoreDoes[WorkerAt] /\ WorkerAt' = WorkerAt + 1
    <3>1. n = 13 /\ Len(WorkOf(m)) = 13 /\ WorkOf(m) = IgnoreDoes
      BY <1>5, <1>6 DEF WorkOf
    <3>2. n = 13 /\ l >= 1 /\ l <= n
      BY <1>6, <1>9
    <3>3. l \in 1 .. 13
      BY <3>2
    <3>4. Len(c'.work) = l - 1
      BY <1>4, <1>9 DEF WorkerMoves
    <3>5. x = IgnoreDoes[13 - l + 1]
      BY <1>7, <1>9, <3>1
    <3>6. Len(c'.work) = l - 1 /\ l \in 1 .. 13 /\ x = IgnoreDoes[13 - l + 1]
      BY <3>3, <3>4, <3>5
    <3>7. 13 - l + 1 = 14 - l /\ 14 - l \in 1 .. 13 /\ 14 - (l - 1) = 14 - l + 1
      BY <3>6
    <3> QED BY <1>9, <3>6, <3>7 DEF WorkerAt
  <2>2. PICK j \in 1 .. 13 : j = WorkerAt /\ x = IgnoreDoes[j] /\ WorkerAt' = j + 1
    BY <2>1
  <2>3. /\ x = "write" => j \in {6, 12}
        /\ x = "step_barrier" => j = 7
        /\ x = "finished" => j = 13
        /\ x \in {"control", "advance"} => TakenBefore(j + 1) = TakenBefore(j) + 1
        /\ x \notin {"control", "advance"} => TakenBefore(j + 1) = TakenBefore(j)
    BY <2>2, IgnoreWork
  <2>4. ParentAt \in Int /\ ParentAt' = ParentAt
    BY <1>8 DEF ParentAt, WorkerMoves
  <2>5. PICK p \in Int : p = ParentAt /\ ParentAt' = p
    BY <2>4
  <2>6. /\ TakenBefore(j) <= SentBefore(p) /\ Len(c.commands) = SentBefore(p) - TakenBefore(j)
        /\ p >= 16 => j >= 8
        /\ p >= 27 => j = 14
        /\ \A i \in 1 .. Len(c.telemetry) :
             /\ c.telemetry[i].kind = "step_barrier" => j >= 8
             /\ c.telemetry[i].kind = "finished" => j = 14
    BY <1>2, <2>2, <2>5 DEF OrderOK, WorkerMoves
  <2>7. SentBefore(p) \in Nat /\ TakenBefore(j) \in Nat
    BY DEF SentBefore, TakenBefore
  <2>8. /\ TakenBefore(j + 1) <= SentBefore(p)
        /\ Len(c'.commands) = SentBefore(p) - TakenBefore(j + 1)
    <3>1. CASE x \in {"control", "advance"}
      <4>1. Len(c'.commands) = Len(c.commands) - 1 /\ Len(c'.commands) >= 0
        BY <1>3, <3>1 DEF WorkerMoves
      <4> QED BY <2>3, <2>6, <2>7, <3>1, <4>1
    <3>2. CASE x \notin {"control", "advance"}
      BY <1>3, <2>3, <2>6, <3>2 DEF WorkerMoves
    <3> QED BY <3>1, <3>2
  <2>9. \A i \in 1 .. Len(c'.telemetry) :
          /\ c'.telemetry[i].kind = "step_barrier" => j + 1 >= 8
          /\ c'.telemetry[i].kind = "finished" => j + 1 = 14
    BY <1>10, <2>3, <2>6
  <2> QED BY <2>2, <2>5, <2>6, <2>8, <2>9 DEF OrderOK
<1>12. \A i \in 1 .. Len(c'.telemetry) :
         /\ c'.telemetry[i].run = c'.run
         /\ c'.telemetry[i].kind = "native_interrupt_observed" => ~Ignores(m)
  <2>1. x = "native_interrupt_observed" => ~Ignores(m)
    <3> SUFFICES ASSUME Ignores(m) PROVE x # "native_interrupt_observed"
      OBVIOUS
    <3>1. n = 13 /\ Len(WorkOf(m)) = 13 /\ WorkOf(m) = IgnoreDoes
      BY <1>5, <1>6 DEF WorkOf
    <3>2. n = 13 /\ l >= 1 /\ l <= n
      BY <1>6, <1>9
    <3>3. 13 - l + 1 \in 1 .. 13
      BY <3>2
    <3>4. 13 - l + 1 \in 1 .. 13 /\ x = IgnoreDoes[13 - l + 1]
      BY <1>7, <1>9, <3>1, <3>3
    <3>5. PICK j \in 1 .. 13 : x = IgnoreDoes[j]
      BY <3>4
    <3> QED BY <3>5, IgnoreWork
  <2> QED BY <1>2, <1>10, <2>1 DEF WorkerMoves
<1> QED BY <1>1, <1>2, <1>4, <1>7, <1>11, <1>12 DEF PlaceOK, WorkerMoves

\* The parent does the statement it stands at, which is not the last.
ParentMoves ==
  /\ Capturing /\ c.todo # <<>> /\ c'.todo = Tail(c.todo) /\ c'.run = c.run /\ c'.work = c.work
  /\ Head(c.todo) \in {"stamp", "read", "observe"} \cup Awaited \cup Commands
  /\ Head(c.todo) \in {"stamp", "read"} => Len(c'.sample) = Len(c.sample) + 1
  /\ Head(c.todo) = "observe" => Len(c'.sample) = 0
  /\ Head(c.todo) \in Awaited \cup Commands => c'.sample = c.sample
  /\ Head(c.todo) \in Commands => Len(c'.commands) = Len(c.commands) + 1
  /\ Head(c.todo) \notin Commands => c'.commands = c.commands
  /\ Head(c.todo) \in Awaited => /\ c.telemetry # <<>> /\ Head(c.telemetry).kind = Head(c.todo)
                                 /\ c'.telemetry = Tail(c.telemetry)
  /\ Head(c.todo) \notin Awaited => c'.telemetry = c.telemetry

\* Where the parent stands in its script.
LEMMA ParentStands ==
  ASSUME ShapeOK, PlaceOK, Capturing
  PROVE  \E m \in Mode, p \in Nat, k \in Nat, x \in Statement :
           /\ m = Modes[c.run] /\ k = Len(TodoOf(m)) /\ p \in 1 .. k
           /\ p = k - Len(c.todo) + 1 /\ Len(c.todo) = k - p + 1
           /\ x = Head(c.todo) /\ x = TodoOf(m)[p]
           /\ Len(c.sample) = SamplesOf(m)[p]
           /\ Ignores(m) => k = 31 /\ ParentAt = p /\ x = IgnoreTodo[p]
           /\ Left(Tail(c.todo), TodoOf(m)) /\ Len(Tail(c.todo)) = Len(c.todo) - 1
<1>1. PICK m \in Mode : m = Modes[c.run] /\ c.run \in DOMAIN Modes
  BY ModeOfRun
<1>2. PICK n, k : n = Len(WorkOf(m)) /\ k = Len(TodoOf(m))
  OBVIOUS
<1>3. /\ TodoOf(m) \in Seq(Statement) /\ k \in Nat
      /\ Ignores(m) => n = 13 /\ k = 31
  BY <1>2, TablesAreScripts, Zenon
<1>4. /\ Left(c.todo, TodoOf(m)) /\ c.todo # <<>>
      /\ Len(c.sample) = SamplesOf(m)[Len(TodoOf(m)) - Len(c.todo) + 1]
  BY <1>1 DEF PlaceOK
<1>5. PICK x, t : x = Head(c.todo) /\ t = Tail(c.todo)
  OBVIOUS
<1>6. /\ Left(t, TodoOf(m)) /\ Len(t) = Len(c.todo) - 1 /\ Len(c.todo) >= 1
      /\ x = TodoOf(m)[Len(TodoOf(m)) - Len(c.todo) + 1] /\ x \in Statement
  BY <1>3, <1>4, <1>5, LeftTail
<1>7. PICK l \in Nat : l = Len(c.todo) /\ l >= 1 /\ l <= k
  BY <1>2, <1>4, <1>6 DEF ShapeOK, Left
<1>8. PICK p \in Nat : p = k - l + 1 /\ p \in 1 .. k /\ l = k - p + 1
  <2>1. k - l + 1 \in Nat /\ k - l + 1 \in 1 .. k /\ l = k - (k - l + 1) + 1
    BY <1>3, <1>7
  <2> QED BY <2>1
<1>9. x = TodoOf(m)[p] /\ Len(c.sample) = SamplesOf(m)[p]
  BY <1>2, <1>4, <1>6, <1>7, <1>8
<1>10. Ignores(m) => k = 31 /\ ParentAt = p /\ x = IgnoreTodo[p]
  <2> SUFFICES ASSUME Ignores(m) PROVE k = 31 /\ ParentAt = p /\ x = IgnoreTodo[p]
    OBVIOUS
  <2>1. k = 31
    BY <1>3
  <2>2. TodoOf(m) = IgnoreTodo
    BY DEF TodoOf
  <2>3. 32 - l = p
    BY <1>7, <1>8, <2>1
  <2> QED BY <1>7, <1>9, <2>1, <2>2, <2>3 DEF ParentAt
<1> QED BY <1>1, <1>2, <1>3, <1>5, <1>6, <1>7, <1>8, <1>9, <1>10

LEMMA TailIs ==
  ASSUME NEW S, NEW q \in Seq(S), q # <<>>, NEW r, r = Tail(q)
  PROVE  /\ r \in Seq(S) /\ Len(r) \in Nat /\ 1 \in 1 .. Len(q) /\ Head(q) = q[1] /\ Head(q) \in S
         /\ \A i \in 1 .. Len(r) : i + 1 \in 1 .. Len(q) /\ r[i] = q[i + 1]
  OBVIOUS

\* A statement of the parent.
LEMMA ParentKeepsPlace ==
  ASSUME ShapeOK, PlaceOK, ParentMoves
  PROVE  PlaceOK'
<1>1. PICK m \in Mode, p \in Nat, k \in Nat, x \in Statement :
           /\ m = Modes[c.run] /\ k = Len(TodoOf(m)) /\ p \in 1 .. k
           /\ p = k - Len(c.todo) + 1 /\ Len(c.todo) = k - p + 1
           /\ x = Head(c.todo) /\ x = TodoOf(m)[p]
           /\ Len(c.sample) = SamplesOf(m)[p]
           /\ Ignores(m) => k = 31 /\ ParentAt = p /\ x = IgnoreTodo[p]
           /\ Left(Tail(c.todo), TodoOf(m)) /\ Len(Tail(c.todo)) = Len(c.todo) - 1
  BY ParentStands DEF ParentMoves
<1>2. /\ Left(c.work, WorkOf(m))
      /\ Ignores(m) => OrderOK
      /\ \A i \in 1 .. Len(c.telemetry) :
           /\ c.telemetry[i].run = c.run
           /\ c.telemetry[i].kind = "native_interrupt_observed" => ~Ignores(m)
  BY <1>1 DEF PlaceOK, ParentMoves
<1>3. x # "join"
  BY <1>1 DEF ParentMoves, Awaited, Commands
<1>4. /\ p < k /\ SamplesOf(m)[p] \in Nat /\ SamplesOf(m)[p + 1] \in Nat
      /\ Takes(x, SamplesOf(m)[p], SamplesOf(m)[p + 1])
  BY <1>1, <1>3, ScriptTakes, Zenon
<1>5. PICK t : t = Tail(c.todo)
  OBVIOUS
<1>6. c'.todo = t /\ Left(t, TodoOf(m)) /\ Len(t) = k - p /\ t # <<>> /\ k - Len(t) + 1 = p + 1
  <2>1. c'.todo = t /\ Left(t, TodoOf(m)) /\ Len(t) = k - p
    BY <1>1, <1>5 DEF ParentMoves
  <2>2. k \in Nat /\ p \in Nat /\ p < k
    BY <1>1, <1>4
  <2>3. k - p # 0 /\ k - (k - p) + 1 = p + 1
    BY <2>2
  <2>4. Len(t) # 0 /\ k - Len(t) + 1 = p + 1
    BY <2>1, <2>3
  <2> QED BY <2>1, <2>4
<1>7. Len(c'.sample) = SamplesOf(m)[p + 1]
  <2>1. CASE x \in {"stamp", "read"}
    BY <1>1, <1>4, <2>1 DEF ParentMoves, Takes
  <2>2. CASE x = "observe"
    BY <1>1, <1>4, <2>2 DEF ParentMoves, Takes
  <2>3. CASE x \in Awaited \cup Commands
    BY <1>1, <1>4, <2>3 DEF ParentMoves, Takes
  <2> QED BY <1>1, <2>1, <2>2, <2>3 DEF ParentMoves
<1>8. /\ \A i \in 1 .. Len(c'.telemetry) : \E j \in 1 .. Len(c.telemetry) : c'.telemetry[i] = c.telemetry[j]
      /\ x \in Awaited => \E j \in 1 .. Len(c.telemetry) : c.telemetry[j].kind = x
  <2>1. c.telemetry \in Seq(Told)
    BY DEF ShapeOK
  <2>2. CASE x \in Awaited
    <3>1. PICK q : q = Tail(c.telemetry)
      OBVIOUS
    <3>2. /\ c.telemetry # <<>> /\ Head(c.telemetry).kind = x /\ c'.telemetry = q
      BY <1>1, <2>2, <3>1 DEF ParentMoves
    <3>3. /\ 1 \in 1 .. Len(c.telemetry) /\ Head(c.telemetry) = c.telemetry[1]
          /\ \A i \in 1 .. Len(q) : i + 1 \in 1 .. Len(c.telemetry) /\ q[i] = c.telemetry[i + 1]
      BY <2>1, <3>1, <3>2, TailIs
    <3> QED BY <3>2, <3>3
  <2>3. CASE x \notin Awaited
    BY <1>1, <2>3 DEF ParentMoves
  <2> QED BY <2>2, <2>3
<1>9. Ignores(m) => OrderOK'
  <2> SUFFICES ASSUME Ignores(m) PROVE OrderOK'
    OBVIOUS
  <2>1. k = 31 /\ ParentAt = p /\ x = IgnoreTodo[p] /\ OrderOK
    BY <1>1, <1>2
  <2>2. p \in 1 .. 31 /\ p \in Int
    BY <1>1, <2>1
  <2>3. ParentAt' = p + 1
    <3>1. Len(t) = 31 - p
      BY <1>6, <2>1
    <3>2. 32 - (31 - p) = p + 1
      BY <2>2
    <3> QED BY <1>6, <3>1, <3>2 DEF ParentAt
  <2>4. /\ x = "step_barrier" <=> p = 15
        /\ x = "finished" <=> p = 26
        /\ x \in Commands => SentBefore(p + 1) = SentBefore(p) + 1
        /\ x \notin Commands => SentBefore(p + 1) = SentBefore(p)
    BY <2>1, <2>2, IgnoreOrder
  <2>5. PICK j : j = WorkerAt /\ WorkerAt' = j
    BY DEF WorkerAt, ParentMoves
  <2>6. /\ c.work # <<>> => /\ TakenBefore(j) <= SentBefore(p)
                            /\ Len(c.commands) = SentBefore(p) - TakenBefore(j)
        /\ p >= 16 => j >= 8
        /\ p >= 27 => j = 14
        /\ \A i \in 1 .. Len(c.telemetry) :
             /\ c.telemetry[i].kind = "step_barrier" => j >= 8
             /\ c.telemetry[i].kind = "finished" => j = 14
    BY <2>1, <2>5 DEF OrderOK
  <2>7. SentBefore(p) \in Nat /\ TakenBefore(j) \in Nat
    BY DEF SentBefore, TakenBefore
  <2>8. c'.work # <<>> => /\ TakenBefore(j) <= SentBefore(p + 1)
                          /\ Len(c'.commands) = SentBefore(p + 1) - TakenBefore(j)
    <3> SUFFICES ASSUME c.work # <<>>
                 PROVE  /\ TakenBefore(j) <= SentBefore(p + 1)
                        /\ Len(c'.commands) = SentBefore(p + 1) - TakenBefore(j)
      BY DEF ParentMoves
    <3>1. CASE x \in Commands
      <4>1. Len(c'.commands) = Len(c.commands) + 1
        BY <1>1, <3>1 DEF ParentMoves
      <4> QED BY <2>4, <2>6, <2>7, <3>1, <4>1
    <3>2. CASE x \notin Commands
      BY <1>1, <2>4, <2>6, <3>2 DEF ParentMoves
    <3> QED BY <3>1, <3>2
  <2>9. p + 1 >= 16 => j >= 8
    <3>1. p = 15 => j >= 8
      BY <1>8, <2>4, <2>6 DEF Awaited
    <3> QED BY <2>2, <2>6, <3>1
  <2>10. p + 1 >= 27 => j = 14
    <3>1. p = 26 => j = 14
      BY <1>8, <2>4, <2>6 DEF Awaited
    <3> QED BY <2>2, <2>6, <3>1
  <2>11. \A i \in 1 .. Len(c'.telemetry) :
           /\ c'.telemetry[i].kind = "step_barrier" => j >= 8
           /\ c'.telemetry[i].kind = "finished" => j = 14
    BY <1>8, <2>6
  <2> QED BY <2>3, <2>5, <2>8, <2>9, <2>10, <2>11 DEF OrderOK
<1> QED BY <1>1, <1>2, <1>6, <1>7, <1>8, <1>9 DEF PlaceOK, ParentMoves

\* A message that is not awaited is dropped.
LEMMA DropKeepsPlace ==
  ASSUME ShapeOK, PlaceOK, c.telemetry # <<>>, c'.telemetry = Tail(c.telemetry),
         c'.run = c.run, c'.work = c.work, c'.todo = c.todo, c'.sample = c.sample,
         c'.commands = c.commands
  PROVE  PlaceOK'
<1>1. PICK q : q = Tail(c.telemetry)
  OBVIOUS
<1>2. \A i \in 1 .. Len(q) : i + 1 \in 1 .. Len(c.telemetry) /\ q[i] = c.telemetry[i + 1]
  BY <1>1, TailIs DEF ShapeOK
<1>3. ParentAt' = ParentAt /\ WorkerAt' = WorkerAt
  BY DEF ParentAt, WorkerAt
<1>4. OrderOK => OrderOK'
  BY <1>1, <1>2, <1>3 DEF OrderOK
<1>5. ASSUME Capturing
      PROVE  \A i \in 1 .. Len(c'.telemetry) :
               /\ c'.telemetry[i].run = c.run
               /\ c'.telemetry[i].kind = "native_interrupt_observed" => ~Ignores(Modes[c.run])
  BY <1>1, <1>2, <1>5 DEF PlaceOK
<1>6. Capturing' = Capturing
  BY DEF Capturing
<1> QED BY <1>4, <1>5, <1>6 DEF PlaceOK

\* A worker that raises is done.
LEMMA RaiseKeepsPlace ==
  ASSUME ShapeOK, PlaceOK, NEW n \in Told, n.kind = "error", n.run = c.run,
         c'.telemetry = Append(c.telemetry, n),
         c'.run = c.run, c'.work = <<>>, c'.todo = c.todo, c'.sample = c.sample
  PROVE  PlaceOK'
<1>1. PICK q : q = Append(c.telemetry, n)
  OBVIOUS
<1>2. /\ Len(q) = Len(c.telemetry) + 1 /\ Len(c.telemetry) \in Nat /\ q[Len(c.telemetry) + 1] = n
      /\ \A i \in 1 .. Len(c.telemetry) : q[i] = c.telemetry[i]
  BY <1>1 DEF ShapeOK
<1>3. \A i \in 1 .. Len(q) : (i \in 1 .. Len(c.telemetry) /\ q[i] = c.telemetry[i]) \/ q[i] = n
  <2>1. \A i \in 1 .. Len(q) : i \in 1 .. Len(c.telemetry) \/ i = Len(c.telemetry) + 1
    BY <1>2
  <2> QED BY <1>2, <2>1
<1>4. ParentAt' = ParentAt /\ WorkerAt' = 14
  BY DEF ParentAt, WorkerAt
<1>5. OrderOK'
  BY <1>4 DEF OrderOK
<1>6. ASSUME Capturing PROVE Left(<<>>, WorkOf(Modes[c.run]))
  <2>1. PICK m \in Mode : m = Modes[c.run]
    BY <1>6, ModeOfRun
  <2>2. WorkOf(m) \in Seq(Statement)
    BY TablesAreScripts
  <2>3. <<>> \in Seq(Statement) /\ Len(<<>>) = 0 /\ Len(WorkOf(m)) \in Nat /\ \A i \in 1 .. 0 : FALSE
    BY <2>2
  <2> QED BY <2>1, <2>3 DEF Left
<1> QED BY <1>1, <1>3, <1>5, <1>6 DEF PlaceOK, Capturing

\* A worker is let to write only between the samples.
LEMMA WorkerIsHeld ==
  ASSUME ShapeOK, PlaceOK, Capturing, c.work # <<>>, Head(c.work) = "write"
  PROVE  Ignores(Modes[c.run]) /\ Len(c.sample) = 3
<1>1. PICK m \in Mode, p \in Nat, k \in Nat, x \in Statement :
           /\ m = Modes[c.run] /\ k = Len(TodoOf(m)) /\ p \in 1 .. k
           /\ Len(c.sample) = SamplesOf(m)[p]
           /\ Ignores(m) => k = 31 /\ ParentAt = p /\ x = IgnoreTodo[p]
  BY ParentStands
<1>2. PICK n, kk : n = Len(WorkOf(m)) /\ kk = Len(TodoOf(m))
  OBVIOUS
<1>3. /\ WorkOf(m) \in Seq(Statement) /\ n \in Nat
      /\ Ignores(m) => n = 13 /\ kk = 31
      /\ ~Ignores(m) => n = 4 /\ (kk = 4 \/ kk = 11)
  BY <1>2, TablesAreScripts, Zenon
<1>4. Left(c.work, WorkOf(m))
  BY <1>1 DEF PlaceOK
<1>5. PICK l : l = Len(c.work)
  OBVIOUS
<1>6. "write" = WorkOf(m)[n - l + 1] /\ l \in Nat /\ l >= 1 /\ l <= n
  <2>1. /\ Len(c.work) >= 1
        /\ Head(c.work) = WorkOf(m)[Len(WorkOf(m)) - Len(c.work) + 1]
    BY <1>3, <1>4, LeftTail
  <2>2. Len(c.work) \in Nat /\ Len(c.work) <= Len(WorkOf(m))
    BY <1>4 DEF ShapeOK, Left
  <2> QED BY <1>2, <1>5, <2>1, <2>2
<1>7. CASE ~Ignores(m)
  <2>1. n = 4 /\ WorkOf(m) = PauseDoes
    BY <1>3, <1>7 DEF WorkOf
  <2>2. n - l + 1 \in 1 .. 4
    BY <1>6, <2>1
  <2> QED BY <1>6, <2>1, <2>2, PauseWork, Zenon
<1>8. CASE Ignores(m)
  <2>1. n = 13 /\ k = 31 /\ ParentAt = p
    BY <1>1, <1>3, <1>8
  <2>2. WorkOf(m) = IgnoreDoes /\ SamplesOf(m) = IgnoreSampled
    BY <1>8 DEF WorkOf, SamplesOf
  <2>3. PICK j \in 1 .. 13 : j = 14 - l
    <3>1. 14 - l \in 1 .. 13
      BY <1>6, <2>1
    <3> QED BY <3>1
  <2>4. WorkerAt = j /\ n - l + 1 = j
    BY <1>5, <1>6, <2>1, <2>3 DEF WorkerAt
  <2>5. "write" = IgnoreDoes[j]
    BY <1>6, <2>2, <2>4
  <2>6. j \in {6, 12}
    BY <2>5, IgnoreWork
  <2>7. TakenBefore(j) <= SentBefore(p) /\ (p >= 16 => j >= 8) /\ (p >= 27 => j = 14)
    BY <1>1, <1>8, <2>1, <2>4 DEF PlaceOK, OrderOK
  <2>8. p \in 1 .. 31
    BY <1>1, <2>1
  <2>9. p = 15 \/ p = 26
    BY <2>6, <2>7, <2>8 DEF TakenBefore, SentBefore
  <2>10. IgnoreSampled[15] = 3 /\ IgnoreSampled[26] = 3
    BY DEF IgnoreSampled
  <2> QED BY <1>1, <1>8, <2>2, <2>9, <2>10
<1> QED BY <1>7, <1>8

-----------------------------------------------------------------------------
(* Steps.                                                                   *)

\* What the parent and the worker tell each other leaves what is known as it is.
LEMMA TalkKeeps ==
  ASSUME WritesOK, SampleOK, TalesOK, c'.run = c.run, c'.sample = c.sample,
         UNCHANGED <<writes, now, delivered>>
  PROVE  /\ WritesOK' /\ SampleOK' /\ \A s : Tells(s) => Tells(s)'
         /\ reports' = reports => TalesOK'
<1>1. WritesOK'
  BY DEF WritesOK
<1>2. SampleOK'
  BY DEF SampleOK, Capturing
<1>3. \A s : Tells(s) => Tells(s)'
  BY DEF Tells
<1>4. reports' = reports => TalesOK'
  BY <1>3 DEF TalesOK
<1> QED BY <1>1, <1>2, <1>3, <1>4

LEMMA AppendIs ==
  ASSUME NEW S, NEW q \in Seq(S), NEW e \in S, NEW r, r = Append(q, e)
  PROVE  /\ r \in Seq(S) /\ Len(r) = Len(q) + 1 /\ r[Len(q) + 1] = e /\ Len(q) \in Nat
         /\ \A i \in 1 .. Len(q) : r[i] = q[i]
  OBVIOUS

\* The worker's statements that write nothing.
LEMMA EmitKeeps ==
  ASSUME TellInv, Emit
  PROVE  TellInv'
<1> USE DEF TellInv
<1>1. PICK x, w : x = Head(c.work) /\ w = Tail(c.work)
  OBVIOUS
<1>2. c.work # <<>> /\ x \in Emitted /\ Capturing
  BY <1>1 DEF Emit, Works, ShapeOK
<1>3. PICK m : m = Source(x, c.control, now, c.control)
  OBVIOUS
<1>4. m \in Told /\ m.run = c.run /\ m.kind = x
  BY <1>2, <1>3 DEF Source, Told, Captured, ShapeOK
<1>5. PICK q : q = Append(c.telemetry, m)
  OBVIOUS
<1>6. c' = [c EXCEPT !.work = w, !.telemetry = q]
  BY <1>1, <1>3, <1>5 DEF Emit, Says
<1>7. /\ c'.work = w /\ c'.telemetry = q /\ c'.run = c.run /\ c'.todo = c.todo /\ c'.scope = c.scope
      /\ c'.sample = c.sample /\ c'.commands = c.commands /\ c'.control = c.control
      /\ c' = [run |-> c'.run, commands |-> c'.commands, telemetry |-> c'.telemetry,
               sample |-> c'.sample, control |-> c'.control, scope |-> c'.scope,
               work |-> c'.work, todo |-> c'.todo]
  BY <1>6 DEF ShapeOK
<1>8. q \in Seq(Told) /\ w \in Seq(Statement)
  BY <1>1, <1>2, <1>4, <1>5, AppendIs, TailIs DEF ShapeOK
<1>9. ShapeOK'
  BY <1>2, <1>7, <1>8 DEF ShapeOK, Emit, Capturing
<1>10. WorkerMoves
  BY <1>1, <1>2, <1>4, <1>5, <1>7 DEF WorkerMoves, Emitted
<1> QED BY <1>7, <1>9, <1>10, WorkerKeepsPlace, TalkKeeps DEF Emit, Works

\* The worker takes a command.
LEMMA ReceiveKeeps ==
  ASSUME TellInv, ReceiveControl
  PROVE  TellInv'
<1> USE DEF TellInv
<1>1. PICK x, w, id, l : /\ x = Head(c.work) /\ w = Tail(c.work)
                         /\ id = Head(c.commands) /\ l = Tail(c.commands)
  OBVIOUS
<1>2. c.work # <<>> /\ x = "control" /\ Capturing /\ c.commands # <<>> /\ id \in Statement
  BY <1>1 DEF ReceiveControl, Works, Sent, ShapeOK, Statement
<1>3. PICK m : m = Source("receiver_observed", id, now, id)
  OBVIOUS
<1>4. m \in Told /\ m.run = c.run /\ m.kind = "receiver_observed"
  BY <1>2, <1>3 DEF Source, Told, Captured, ShapeOK, Control
<1>5. PICK q : q = Append(c.telemetry, m)
  OBVIOUS
<1>6. c' = [c EXCEPT !.work = w, !.commands = l, !.control = id, !.telemetry = q]
  BY <1>1, <1>3, <1>5 DEF ReceiveControl, Says
<1>7. /\ c'.work = w /\ c'.telemetry = q /\ c'.run = c.run /\ c'.todo = c.todo /\ c'.scope = c.scope
      /\ c'.sample = c.sample /\ c'.commands = l /\ c'.control = id
      /\ c' = [run |-> c'.run, commands |-> c'.commands, telemetry |-> c'.telemetry,
               sample |-> c'.sample, control |-> c'.control, scope |-> c'.scope,
               work |-> c'.work, todo |-> c'.todo]
  BY <1>6 DEF ShapeOK
<1>8. q \in Seq(Told) /\ w \in Seq(Statement) /\ l \in Seq(Statement) /\ Len(l) = Len(c.commands) - 1
  BY <1>1, <1>2, <1>4, <1>5, AppendIs, TailIs DEF ShapeOK
<1>9. ShapeOK'
  BY <1>2, <1>7, <1>8 DEF ShapeOK, ReceiveControl, Capturing, Control
<1>10. WorkerMoves
  BY <1>1, <1>2, <1>4, <1>5, <1>7, <1>8 DEF WorkerMoves
<1> QED BY <1>7, <1>9, <1>10, WorkerKeepsPlace, TalkKeeps DEF ReceiveControl, Works

\* The worker waits to be told to advance, and is.
LEMMA AdvanceKeeps ==
  ASSUME TellInv, Advance
  PROVE  TellInv'
<1> USE DEF TellInv
<1>1. PICK x, w, l : x = Head(c.work) /\ w = Tail(c.work) /\ l = Tail(c.commands)
  OBVIOUS
<1>2. c.work # <<>> /\ x = "advance" /\ Capturing /\ c.commands # <<>>
  BY <1>1 DEF Advance, Works, Sent, ShapeOK
<1>3. c' = [c EXCEPT !.work = w, !.commands = l]
  BY <1>1 DEF Advance
<1>4. /\ c'.work = w /\ c'.telemetry = c.telemetry /\ c'.run = c.run /\ c'.todo = c.todo
      /\ c'.scope = c.scope /\ c'.sample = c.sample /\ c'.commands = l /\ c'.control = c.control
      /\ c' = [run |-> c'.run, commands |-> c'.commands, telemetry |-> c'.telemetry,
               sample |-> c'.sample, control |-> c'.control, scope |-> c'.scope,
               work |-> c'.work, todo |-> c'.todo]
  BY <1>3 DEF ShapeOK
<1>5. w \in Seq(Statement) /\ l \in Seq(Statement) /\ Len(l) = Len(c.commands) - 1
  BY <1>1, <1>2, TailIs DEF ShapeOK
<1>6. ShapeOK'
  BY <1>2, <1>4, <1>5 DEF ShapeOK, Advance, Capturing
<1>7. WorkerMoves
  BY <1>1, <1>2, <1>4, <1>5 DEF WorkerMoves
<1> QED BY <1>4, <1>6, <1>7, WorkerKeepsPlace, TalkKeeps DEF Advance, Works

\* The worker raises.
LEMMA RaiseKeeps ==
  ASSUME TellInv, Raise
  PROVE  TellInv'
<1> USE DEF TellInv
<1>1. c.work # <<>> /\ Capturing
  BY DEF Raise, ShapeOK
<1>2. PICK m : m = Source("error", c.control, now, c.control)
  OBVIOUS
<1>3. m \in Told /\ m.run = c.run /\ m.kind = "error"
  BY <1>1, <1>2 DEF Source, Told, Captured, ShapeOK
<1>4. PICK q : q = Append(c.telemetry, m)
  OBVIOUS
<1>5. c' = [c EXCEPT !.work = <<>>, !.telemetry = q]
  BY <1>2, <1>4 DEF Raise, Says
<1>6. /\ c'.work = <<>> /\ c'.telemetry = q /\ c'.run = c.run /\ c'.todo = c.todo /\ c'.scope = c.scope
      /\ c'.sample = c.sample /\ c'.commands = c.commands /\ c'.control = c.control
      /\ c' = [run |-> c'.run, commands |-> c'.commands, telemetry |-> c'.telemetry,
               sample |-> c'.sample, control |-> c'.control, scope |-> c'.scope,
               work |-> c'.work, todo |-> c'.todo]
  BY <1>5 DEF ShapeOK
<1>7. q \in Seq(Told) /\ <<>> \in Seq(Statement)
  BY <1>3, <1>4, AppendIs DEF ShapeOK
<1>8. ShapeOK'
  BY <1>1, <1>6, <1>7 DEF ShapeOK, Raise, Capturing
<1> QED BY <1>3, <1>4, <1>6, <1>8, RaiseKeepsPlace, TalkKeeps DEF Raise

LEMMA ElementsAre ==
  ASSUME NEW S, NEW q \in Seq(S)
  PROVE  /\ Len(q) >= 1 => q[1] \in S
         /\ Len(q) >= 4 => q[4] \in S
         /\ Len(q) >= 6 => q[6] \in S
<1>1. \A i \in 1 .. Len(q) : q[i] \in S
  OBVIOUS
<1>2. Len(q) \in Nat
  OBVIOUS
<1>3. /\ Len(q) >= 1 => 1 \in 1 .. Len(q)
      /\ Len(q) >= 4 => 4 \in 1 .. Len(q)
      /\ Len(q) >= 6 => 6 \in 1 .. Len(q)
  BY <1>2
<1> QED BY <1>1, <1>3

\* What is written now is not in a window that was sampled before.
LEMMA WriteKeeps ==
  ASSUME TellInv, Write
  PROVE  TellInv'
<1> USE DEF TellInv
<1>1. PICK x, w : x = Head(c.work) /\ w = Tail(c.work)
  OBVIOUS
<1>2. c.work # <<>> /\ x = "write" /\ Capturing
  BY <1>1 DEF Write, Works, ShapeOK
<1>3. c' = [c EXCEPT !.work = w]
  BY <1>1 DEF Write
<1>4. /\ c'.work = w /\ c'.telemetry = c.telemetry /\ c'.run = c.run /\ c'.todo = c.todo
      /\ c'.scope = c.scope /\ c'.sample = c.sample /\ c'.commands = c.commands
      /\ c'.control = c.control
      /\ c' = [run |-> c'.run, commands |-> c'.commands, telemetry |-> c'.telemetry,
               sample |-> c'.sample, control |-> c'.control, scope |-> c'.scope,
               work |-> c'.work, todo |-> c'.todo]
  BY <1>3 DEF ShapeOK
<1>5. w \in Seq(Statement) /\ now \in Nat /\ now' = now + 1 /\ now' \in Nat
  BY <1>1, <1>2, TailIs DEF ShapeOK, Write
<1>6. ShapeOK'
  BY <1>2, <1>4, <1>5 DEF ShapeOK, Capturing
<1>7. WorkerMoves
  BY <1>1, <1>2, <1>4 DEF WorkerMoves
<1>8. PICK r : r = c.run
  OBVIOUS
<1>9. r \in DOMAIN Modes /\ Ignores(Modes[r]) /\ Len(c.sample) = 3
  BY <1>1, <1>2, <1>8, ModeOfRun, WorkerIsHeld
<1>10. /\ writes' \in [DOMAIN Modes -> SUBSET Nat]
       /\ \A q \in DOMAIN Modes : writes'[q] = IF q = r THEN writes[q] \cup {now + 1} ELSE writes[q]
  BY <1>5, <1>8 DEF Write, WritesOK
<1>11. WritesOK'
  <2> SUFFICES ASSUME NEW q \in DOMAIN Modes
               PROVE  /\ IsFiniteSet(writes'[q]) /\ \A t \in writes'[q] : t <= now'
                      /\ ~Ignores(Modes[q]) => writes'[q] = {}
    BY <1>10 DEF WritesOK
  <2>1. /\ IsFiniteSet(writes[q]) /\ writes[q] \subseteq Nat /\ \A t \in writes[q] : t <= now
        /\ ~Ignores(Modes[q]) => writes[q] = {}
    BY DEF WritesOK
  <2>2. \A t \in writes[q] : t <= now'
    BY <1>5, <2>1
  <2>3. CASE q = r
    <3>1. writes'[q] = writes[q] \cup {now + 1} /\ IsFiniteSet(writes[q] \cup {now + 1})
      BY <1>10, <2>1, <2>3, FS_AddElement
    <3>2. now + 1 <= now'
      BY <1>5
    <3> QED BY <1>9, <2>2, <2>3, <3>1, <3>2
  <2>4. CASE q # r
    BY <1>10, <2>1, <2>2, <2>4
  <2> QED BY <2>3, <2>4
<1>12. SampleOK'
  <2>1. PICK s, W : s = c.sample /\ W = writes[r]
    OBVIOUS
  <2>2. /\ s \in Seq(Nat) /\ Len(s) = 3 /\ s[1] \in Nat /\ s[1] <= now
        /\ s[2] = Cardinality(Earlier(W, s[1]))
    <3>1. s \in Seq(Nat) /\ Len(s) = 3
      BY <1>9, <2>1 DEF ShapeOK
    <3>2. s[1] <= now /\ s[2] = Cardinality(Earlier(W, s[1]))
      BY <1>2, <1>8, <2>1, <3>1 DEF SampleOK
    <3>3. s[1] \in Nat
      <4>1. Len(s) >= 1
        BY <3>1
      <4> QED BY <3>1, <4>1, ElementsAre
    <3> QED BY <3>1, <3>2, <3>3
  <2>3. writes'[r] = W \cup {now + 1} /\ W \subseteq Nat
    BY <1>9, <1>10, <2>1 DEF WritesOK
  <2>4. Earlier(W \cup {now + 1}, s[1]) = Earlier(W, s[1])
    BY <1>5, <2>2, <2>3 DEF Earlier
  <2>5. s[1] <= now'
    BY <1>5, <2>2
  <2> QED BY <1>4, <1>8, <2>1, <2>2, <2>3, <2>4, <2>5 DEF SampleOK
<1>13. \A s : Tells(s) => Tells(s)'
  <2> SUFFICES ASSUME NEW s, Tells(s), s.kind = "effect_sampled", s.run \in DOMAIN Modes,
                      s.data[1] \in Nat, s.data[6] \in Nat, s.data[6] <= now,
                      (s.data[2] = s.data[5]) <=> (writes[s.run] \cap (s.data[1] .. s.data[6]) = {})
               PROVE  /\ s.data[6] <= now'
                      /\ (s.data[2] = s.data[5]) <=> (writes'[s.run] \cap (s.data[1] .. s.data[6]) = {})
    BY DEF Tells
  <2>1. s.data[6] <= now' /\ now + 1 \notin (s.data[1] .. s.data[6])
    BY <1>5
  <2>2. writes'[s.run] \cap (s.data[1] .. s.data[6]) = writes[s.run] \cap (s.data[1] .. s.data[6])
    BY <1>10, <2>1
  <2> QED BY <2>1, <2>2
<1>14. TalesOK'
  BY <1>13 DEF TalesOK, Write, Works
<1> QED BY <1>6, <1>7, <1>11, <1>12, <1>14, WorkerKeepsPlace

\* What is heard of a run is so.
LEMMA KeptTells ==
  ASSUME NEW s, Tells(s)
  PROVE  \A d \in Kept(s) : /\ d = [source |-> d.source, event |-> d.event, signed |-> d.signed]
                            /\ Tells(d.source)
<1> SUFFICES ASSUME NEW d \in Deliveries(s)
             PROVE  /\ d = [source |-> d.source, event |-> d.event, signed |-> d.signed]
                    /\ Tells(d.source)
  BY DEF Kept
<1>1. PICK e \in Project(s) : d = [source |-> s, event |-> e, signed |-> TRUE]
  BY DEF Deliveries
<1>2. d.source = s
  BY <1>1
<1>3. d = [source |-> d.source, event |-> d.event, signed |-> d.signed]
  BY <1>1
<1> QED BY <1>2, <1>3

\* The parent reads a message: what it awaits, or one it drops.
LEMMA HearKeeps ==
  ASSUME TellInv, Hear
  PROVE  TellInv'
<1> USE DEF TellInv
<1>1. PICK x, t, m, q : /\ x = Head(c.todo) /\ t = Tail(c.todo)
                        /\ m = Head(c.telemetry) /\ q = Tail(c.telemetry)
  OBVIOUS
<1>2. c.todo # <<>> /\ x \in Awaited /\ Capturing /\ c.telemetry # <<>>
  BY <1>1 DEF Hear, Does, ShapeOK
<1>3. /\ m \in Told /\ m = c.telemetry[1] /\ 1 \in 1 .. Len(c.telemetry)
      /\ q \in Seq(Told) /\ t \in Seq(Statement)
  BY <1>1, <1>2, TailIs DEF ShapeOK
<1>4. m.control \in Control /\ m.kind \in Captured
  BY <1>3 DEF Told
<1>5. PICK todo : todo = IF m.kind = x THEN t ELSE c.todo
  OBVIOUS
<1>6. c' = [c EXCEPT !.telemetry = q, !.scope = m.control, !.todo = todo]
  BY <1>1, <1>5 DEF Hear
<1>7. /\ c'.work = c.work /\ c'.telemetry = q /\ c'.run = c.run /\ c'.todo = todo
      /\ c'.scope = m.control /\ c'.sample = c.sample /\ c'.commands = c.commands
      /\ c'.control = c.control
      /\ c' = [run |-> c'.run, commands |-> c'.commands, telemetry |-> c'.telemetry,
               sample |-> c'.sample, control |-> c'.control, scope |-> c'.scope,
               work |-> c'.work, todo |-> c'.todo]
  BY <1>6 DEF ShapeOK
<1>8. todo \in Seq(Statement)
  BY <1>3, <1>5 DEF ShapeOK
<1>9. ShapeOK'
  BY <1>2, <1>3, <1>4, <1>7, <1>8 DEF ShapeOK, Hear, Capturing
<1>10. PlaceOK'
  <2>1. CASE m.kind = x
    <3>1. todo = t
      BY <1>5, <2>1
    <3>2. ParentMoves
      BY <1>1, <1>2, <1>7, <2>1, <3>1 DEF ParentMoves, Awaited, Commands
    <3> QED BY <3>2, ParentKeepsPlace
  <2>2. CASE m.kind # x
    <3>1. todo = c.todo
      BY <1>5, <2>2
    <3> QED BY <1>1, <1>2, <1>7, <3>1, DropKeepsPlace
  <2> QED BY <2>1, <2>2
<1>11. WritesOK' /\ SampleOK' /\ \A s : Tells(s) => Tells(s)'
  BY <1>7, TalkKeeps DEF Hear, Does
<1>12. \A d \in Kept(m) : /\ d = [source |-> d.source, event |-> d.event, signed |-> d.signed]
                          /\ Tells(d.source)
  <2>1. CASE Tells(m)
    BY <2>1, KeptTells
  <2>2. CASE ~Tells(m)
    <3>1. m.run = c.run /\ c.run \in DOMAIN Modes
          /\ (m.kind = "native_interrupt_observed" => ~Ignores(Modes[c.run]))
      BY <1>2, <1>3, ModeOfRun DEF PlaceOK
    <3>2. m.kind \notin {"receiver_observed", "handler_ignored", "native_interrupt_observed"}
      BY <2>2, <3>1 DEF Tells
    <3>3. m.kind # "effect_sampled"
      BY <1>4 DEF Captured, Emitted
    <3> QED BY <3>2, <3>3 DEF Kept
  <2> QED BY <2>1, <2>2
<1>13. TalesOK'
  BY <1>1, <1>11, <1>12 DEF TalesOK, Hear, Does
<1> QED BY <1>9, <1>10, <1>11, <1>13

\* The parent sends a command.
LEMMA CommandKeeps ==
  ASSUME TellInv, Command
  PROVE  TellInv'
<1> USE DEF TellInv
<1>1. PICK x, t, l : x = Head(c.todo) /\ t = Tail(c.todo) /\ l = Append(c.commands, x)
  OBVIOUS
<1>2. c.todo # <<>> /\ x \in Commands /\ x \in Statement /\ Capturing
  BY <1>1 DEF Command, Does, ShapeOK, Commands, Statement
<1>3. PICK scope : scope = IF x = "advance" THEN c.scope ELSE x
  OBVIOUS
<1>4. scope \in Control
  BY <1>2, <1>3 DEF ShapeOK, Control
<1>5. c' = [c EXCEPT !.todo = t, !.commands = l, !.scope = scope]
  BY <1>1, <1>3 DEF Command
<1>6. /\ c'.work = c.work /\ c'.telemetry = c.telemetry /\ c'.run = c.run /\ c'.todo = t
      /\ c'.scope = scope /\ c'.sample = c.sample /\ c'.commands = l
      /\ c'.control = c.control
      /\ c' = [run |-> c'.run, commands |-> c'.commands, telemetry |-> c'.telemetry,
               sample |-> c'.sample, control |-> c'.control, scope |-> c'.scope,
               work |-> c'.work, todo |-> c'.todo]
  BY <1>5 DEF ShapeOK
<1>7. t \in Seq(Statement) /\ l \in Seq(Statement) /\ Len(l) = Len(c.commands) + 1
  BY <1>1, <1>2, TailIs, AppendIs DEF ShapeOK
<1>8. ShapeOK'
  BY <1>2, <1>4, <1>6, <1>7 DEF ShapeOK, Command, Capturing
<1>9. ParentMoves
  BY <1>1, <1>2, <1>6, <1>7 DEF ParentMoves, Awaited, Commands
<1> QED BY <1>6, <1>8, <1>9, ParentKeepsPlace, TalkKeeps DEF Command, Does

\* What the next statement of the parent does to the sample.
LEMMA NextTakes ==
  ASSUME ShapeOK, PlaceOK, Capturing, Head(c.todo) # "join"
  PROVE  \E k : Takes(Head(c.todo), Len(c.sample), k)
<1>1. PICK m \in Mode, p \in Nat, k \in Nat, x \in Statement :
           /\ m = Modes[c.run] /\ k = Len(TodoOf(m)) /\ p \in 1 .. k
           /\ x = Head(c.todo) /\ x = TodoOf(m)[p]
           /\ Len(c.sample) = SamplesOf(m)[p]
  BY ParentStands
<1>2. Takes(x, SamplesOf(m)[p], SamplesOf(m)[p + 1])
  BY <1>1, ScriptTakes, Zenon
<1> QED BY <1>1, <1>2

LEMMA EarlierIsAll ==
  ASSUME NEW W, NEW tick, \A t \in W : t < tick
  PROVE  Earlier(W, tick) = W
  BY DEF Earlier

\* The parent stamps or reads: a first read is of what was written before its stamp.
LEMMA TakeKeeps ==
  ASSUME TellInv, TakeSample
  PROVE  TellInv'
<1> USE DEF TellInv
<1>1. PICK x, t, v : /\ x = Head(c.todo) /\ t = Tail(c.todo)
                     /\ v = IF x = "stamp" THEN now + 1 ELSE Cardinality(writes[c.run])
  OBVIOUS
<1>2. c.todo # <<>> /\ x \in {"stamp", "read"} /\ Capturing /\ now \in Nat /\ now' = now + 1
  BY <1>1 DEF TakeSample, Does, ShapeOK
<1>3. PICK r : r = c.run
  OBVIOUS
<1>4. PICK s, W, q : s = c.sample /\ W = writes[r] /\ q = Append(s, v)
  OBVIOUS
<1>5. r \in DOMAIN Modes /\ W \subseteq Nat /\ IsFiniteSet(W) /\ \A a \in W : a <= now
  BY <1>2, <1>3, <1>4, ModeOfRun DEF WritesOK
<1>6. v \in Nat
  <2>1. Cardinality(W) \in Nat /\ now + 1 \in Nat
    BY <1>2, <1>5, FS_CardinalityType
  <2> QED BY <1>1, <1>3, <1>4, <2>1
<1>7. /\ q \in Seq(Nat) /\ s \in Seq(Nat) /\ Len(q) = Len(s) + 1 /\ q[Len(s) + 1] = v
      /\ Len(s) \in Nat /\ \A i \in 1 .. Len(s) : q[i] = s[i]
  <2>1. s \in Seq(Nat)
    BY <1>4 DEF ShapeOK
  <2> QED BY <1>4, <1>6, <2>1, AppendIs
<1>8. c' = [c EXCEPT !.todo = t, !.sample = q]
  BY <1>1, <1>3, <1>4 DEF TakeSample
<1>9. /\ c'.work = c.work /\ c'.telemetry = c.telemetry /\ c'.run = c.run /\ c'.todo = t
      /\ c'.scope = c.scope /\ c'.sample = q /\ c'.commands = c.commands
      /\ c'.control = c.control
      /\ c' = [run |-> c'.run, commands |-> c'.commands, telemetry |-> c'.telemetry,
               sample |-> c'.sample, control |-> c'.control, scope |-> c'.scope,
               work |-> c'.work, todo |-> c'.todo]
  BY <1>8 DEF ShapeOK
<1>10. t \in Seq(Statement) /\ now' \in Nat
  BY <1>1, <1>2, TailIs DEF ShapeOK
<1>11. ShapeOK'
  BY <1>2, <1>7, <1>9, <1>10 DEF ShapeOK, Capturing
<1>12. ParentMoves
  BY <1>1, <1>2, <1>4, <1>7, <1>9 DEF ParentMoves, Awaited, Commands
<1>13. writes' = writes /\ reports' = reports /\ delivered' = delivered
  BY DEF TakeSample, Does
<1>14. WritesOK'
  <2>1. \A a \in Nat : a <= now => a <= now'
    BY <1>2
  <2> QED BY <1>13, <2>1 DEF WritesOK
<1>15. \A d : Tells(d) => Tells(d)'
  <2>1. \A a \in Nat : a <= now => a <= now'
    BY <1>2
  <2> QED BY <1>13, <2>1 DEF Tells
<1>16. TalesOK'
  BY <1>13, <1>15 DEF TalesOK
<1>17. \E k : Takes(x, Len(s), k)
  <2>1. x # "join"
    BY <1>2
  <2> QED BY <1>1, <1>2, <1>4, <2>1, NextTakes
<1>18. PICK n \in Nat : n = Len(s) /\ Len(q) = n + 1 /\ q[n + 1] = v
  BY <1>7
<1>19. /\ x = "read" => n \in {1, 4}
       /\ x = "stamp" => n \in {0, 2, 3, 5}
  BY <1>17, <1>18 DEF Takes
<1>20. n \in 0 .. 5
  BY <1>2, <1>19
<1>21. /\ Len(s) >= 1 => s[1] \in Nat /\ s[1] <= now
       /\ Len(s) = 1 => \A a \in W : a < s[1]
       /\ Len(s) >= 2 => s[2] = Cardinality(Earlier(W, s[1]))
       /\ Len(s) >= 4 => s[4] \in Nat /\ s[4] <= now /\ \A a \in W : a < s[4]
       /\ Len(s) >= 5 => s[5] = Cardinality(W)
  <2>1. /\ Len(s) >= 1 => s[1] \in Nat
        /\ Len(s) >= 4 => s[4] \in Nat
    BY <1>7, ElementsAre
  <2> QED BY <1>2, <1>3, <1>4, <2>1 DEF SampleOK
<1>22. /\ Len(q) >= 1 => q[1] <= now'
       /\ Len(q) = 1 => \A a \in W : a < q[1]
       /\ Len(q) >= 2 => q[2] = Cardinality(Earlier(W, q[1]))
       /\ Len(q) >= 4 => q[4] <= now' /\ \A a \in W : a < q[4]
       /\ Len(q) >= 5 => q[5] = Cardinality(W)
       /\ Len(q) >= 6 => q[4] <= q[6] /\ q[6] <= now'
  <2>1. \A a \in W : a < now + 1
    BY <1>2, <1>5
  <2>2. x = "stamp" => v = now' /\ v = now + 1
    BY <1>1, <1>2
  <2>3. x = "read" => v = Cardinality(W)
    BY <1>1, <1>3, <1>4
  <2>4. CASE n = 0
    <3>1. x = "stamp" /\ q[1] = v /\ Len(q) = 1
      BY <1>2, <1>19, <1>20, <1>18, <2>4
    <3> QED BY <1>2, <2>1, <2>2, <3>1
  <2>5. CASE n = 1
    <3>1. x = "read" /\ q[2] = v /\ Len(q) = 2 /\ q[1] = s[1]
      BY <1>2, <1>7, <1>19, <1>20, <1>18, <2>5
    <3>2. s[1] \in Nat /\ s[1] <= now /\ \A a \in W : a < s[1]
      BY <1>21, <1>20, <1>18, <2>5
    <3>3. Earlier(W, s[1]) = W
      BY <3>2, EarlierIsAll
    <3> QED BY <1>2, <2>3, <3>1, <3>2, <3>3
  <2>6. CASE n \in {2, 3}
    <3>1. 1 \in 1 .. n /\ 2 \in 1 .. n
      BY <2>6
    <3>2. q[1] = s[1] /\ q[2] = s[2]
      BY <1>7, <1>18, <3>1
    <3>3. x = "stamp"
      BY <1>2, <1>19, <2>6
    <3>4. x = "stamp" /\ q[1] = s[1] /\ q[2] = s[2]
      BY <3>2, <3>3
    <3>5. s[1] \in Nat /\ s[1] <= now /\ s[2] = Cardinality(Earlier(W, s[1]))
      BY <1>21, <1>20, <1>18, <2>6
    <3>6. CASE n = 2
      <4>1. Len(q) = 3
        BY <1>20, <1>18, <3>6
      <4> QED BY <1>2, <3>4, <3>5, <4>1
    <3>7. CASE n = 3
      <4>1. Len(q) = 4 /\ q[4] = v
        BY <1>20, <1>18, <3>7
      <4> QED BY <1>2, <2>1, <2>2, <3>4, <3>5, <4>1
    <3> QED BY <2>6, <3>6, <3>7
  <2>7. CASE n \in {4, 5}
    <3>1. q[1] = s[1] /\ q[2] = s[2] /\ q[4] = s[4]
      BY <1>7, <1>20, <1>18, <2>7
    <3>2. /\ s[1] \in Nat /\ s[1] <= now /\ s[2] = Cardinality(Earlier(W, s[1]))
          /\ s[4] \in Nat /\ s[4] <= now /\ \A a \in W : a < s[4]
      BY <1>21, <1>20, <1>18, <2>7
    <3>3. CASE n = 4
      <4>1. Len(q) = 5 /\ q[5] = v /\ x = "read"
        BY <1>2, <1>19, <1>20, <1>18, <3>3
      <4> QED BY <1>2, <2>3, <3>1, <3>2, <4>1
    <3>4. CASE n = 5
      <4>1. Len(q) = 6 /\ q[6] = v /\ x = "stamp" /\ q[5] = s[5]
        BY <1>2, <1>7, <1>19, <1>20, <1>18, <3>4
      <4>2. s[5] = Cardinality(W)
        BY <1>21, <1>20, <1>18, <3>4
      <4>3. s[1] <= now' /\ s[4] <= now' /\ q[6] = now' /\ now' <= now'
        BY <1>2, <2>2, <3>2, <4>1
      <4>4. q[4] <= q[6]
        BY <3>1, <3>2, <4>1, <4>3
      <4>5. q[1] <= now' /\ q[4] <= now' /\ q[6] <= now'
        BY <3>1, <4>3
      <4>6. q[2] = Cardinality(Earlier(W, q[1])) /\ \A a \in W : a < q[4]
        BY <3>1, <3>2
      <4>7. q[5] = Cardinality(W)
        BY <4>1, <4>2
      <4>8. Len(q) # 1
        BY <4>1
      <4> QED BY <4>4, <4>5, <4>6, <4>7, <4>8
    <3> QED BY <2>7, <3>3, <3>4
  <2>8. n = 0 \/ n = 1 \/ n \in {2, 3} \/ n \in {4, 5}
    BY <1>20
  <2> QED BY <2>4, <2>5, <2>6, <2>7, <2>8
<1>23. SampleOK'
  BY <1>3, <1>4, <1>9, <1>13, <1>22 DEF SampleOK
<1> QED BY <1>11, <1>12, <1>14, <1>16, <1>23, ParentKeepsPlace

\* A sample that is reported is of a window in which nothing can be written any more.
LEMMA SampleTells ==
  ASSUME NEW W \in SUBSET Nat, IsFiniteSet(W), NEW s \in Seq(Nat), Len(s) = 6,
         s[2] = Cardinality(Earlier(W, s[1])), s[5] = Cardinality(W),
         \A t \in W : t < s[4], s[4] <= s[6]
  PROVE  (s[2] = s[5]) <=> (W \cap (s[1] .. s[6]) = {})
<1>1. s[1] \in Nat /\ s[4] \in Nat /\ s[6] \in Nat
  <2>1. Len(s) >= 1 /\ Len(s) >= 4 /\ Len(s) >= 6
    OBVIOUS
  <2> QED BY <2>1, ElementsAre
<1>2. Earlier(W, s[1]) \subseteq W
  BY DEF Earlier
<1>3. ASSUME s[2] = s[5] PROVE W \cap (s[1] .. s[6]) = {}
  <2>1. Earlier(W, s[1]) = W
    BY <1>2, <1>3, FS_Subset
  <2>2. \A t \in W : t \in Nat /\ t < s[1]
    BY <2>1 DEF Earlier
  <2> QED BY <1>1, <2>2
<1>4. ASSUME W \cap (s[1] .. s[6]) = {} PROVE s[2] = s[5]
  <2>1. ASSUME NEW t \in W PROVE t < s[1]
    <3>1. t \in Nat /\ t < s[4] /\ t <= s[6]
      BY <1>1, <2>1
    <3>2. t \notin (s[1] .. s[6])
      BY <1>4
    <3> QED BY <1>1, <3>1, <3>2
  <2>2. Earlier(W, s[1]) = W
    BY <2>1, EarlierIsAll
  <2> QED BY <2>2
<1> QED BY <1>3, <1>4

\* The parent reports a sample and drops it.
LEMMA ObserveKeeps ==
  ASSUME TellInv, Observe
  PROVE  TellInv'
<1> USE DEF TellInv
<1>1. PICK x, t : x = Head(c.todo) /\ t = Tail(c.todo)
  OBVIOUS
<1>2. c.todo # <<>> /\ x = "observe" /\ Capturing
  BY <1>1 DEF Observe, Does, ShapeOK
<1>3. c' = [c EXCEPT !.todo = t, !.sample = <<>>]
  BY <1>1 DEF Observe
<1>4. /\ c'.work = c.work /\ c'.telemetry = c.telemetry /\ c'.run = c.run /\ c'.todo = t
      /\ c'.scope = c.scope /\ c'.sample = <<>> /\ c'.commands = c.commands
      /\ c'.control = c.control
      /\ c' = [run |-> c'.run, commands |-> c'.commands, telemetry |-> c'.telemetry,
               sample |-> c'.sample, control |-> c'.control, scope |-> c'.scope,
               work |-> c'.work, todo |-> c'.todo]
  BY <1>3 DEF ShapeOK
<1>5. t \in Seq(Statement) /\ <<>> \in Seq(Nat) /\ Len(<<>>) = 0
  BY <1>1, <1>2, TailIs DEF ShapeOK
<1>6. ShapeOK'
  BY <1>2, <1>4, <1>5 DEF ShapeOK, Observe, Capturing
<1>7. ParentMoves
  BY <1>1, <1>2, <1>4, <1>5 DEF ParentMoves, Awaited, Commands
<1>8. writes' = writes /\ now' = now /\ delivered' = delivered
  BY DEF Observe, Does
<1>9. WritesOK'
  BY <1>8 DEF WritesOK
<1>10. SampleOK'
  BY <1>4, <1>5 DEF SampleOK
<1>11. \A d : Tells(d) => Tells(d)'
  BY <1>8 DEF Tells
<1>12. PICK r, s, W, m : /\ r = c.run /\ s = c.sample /\ W = writes[r]
                         /\ m = Source("effect_sampled", c.scope, now, s)
  OBVIOUS
<1>13. Len(s) = 6 /\ s \in Seq(Nat)
  <2>1. \E k : Takes(x, Len(s), k)
    BY <1>1, <1>2, <1>12, NextTakes
  <2> QED BY <1>2, <1>12, <2>1 DEF Takes, ShapeOK
<1>14. r \in DOMAIN Modes /\ W \in SUBSET Nat /\ IsFiniteSet(W)
  BY <1>2, <1>12, ModeOfRun DEF WritesOK
<1>15. /\ s[2] = Cardinality(Earlier(W, s[1])) /\ s[5] = Cardinality(W)
       /\ (\A a \in W : a < s[4]) /\ s[4] <= s[6] /\ s[6] <= now
  BY <1>2, <1>12, <1>13 DEF SampleOK
<1>16. (s[2] = s[5]) <=> (W \cap (s[1] .. s[6]) = {})
  BY <1>13, <1>14, <1>15, SampleTells
<1>17. m.kind = "effect_sampled" /\ m.run = r /\ m.data = s
  BY <1>12 DEF Source
<1>18. s[1] \in Nat /\ s[6] \in Nat
  <2>1. Len(s) >= 1 /\ Len(s) >= 6
    BY <1>13
  <2> QED BY <1>13, <2>1, ElementsAre
<1>19. Tells(m)
  BY <1>12, <1>14, <1>15, <1>16, <1>17, <1>18 DEF Tells
<1>20. \A d \in Kept(m) : /\ d = [source |-> d.source, event |-> d.event, signed |-> d.signed]
                          /\ Tells(d.source)
  BY <1>19, KeptTells
<1>21. reports' = reports \cup Kept(m)
  BY <1>12 DEF Observe
<1>22. TalesOK'
  BY <1>8, <1>11, <1>20, <1>21 DEF TalesOK
<1> QED BY <1>6, <1>7, <1>9, <1>10, <1>22, ParentKeepsPlace

\* The parent joins the worker, and the next run starts.
LEMMA JoinKeeps ==
  ASSUME TellInv, Join
  PROVE  TellInv'
<1> USE DEF TellInv
<1>1. PICK r : r = c.run + 1
  OBVIOUS
<1>2. r \in 1 .. (Len(Modes) + 1) /\ c' = Fresh(r) /\ now' \in Nat
  <2>1. Capturing
    BY DEF Join, Does, ShapeOK
  <2>2. Len(Modes) \in Nat /\ c.run \in 1 .. (Len(Modes) + 1) /\ c.run <= Len(Modes)
    BY <2>1, ModesAssumption DEF ShapeOK, Capturing
  <2> QED BY <1>1, <2>2 DEF Join, ShapeOK
<1>3. ShapeOK' /\ PlaceOK' /\ SampleOK'
  BY <1>2, NextIsPlaced
<1>4. writes' = writes /\ now' = now /\ delivered' = delivered /\ reports' = reports
  BY DEF Join, Does
<1>5. WritesOK' /\ TalesOK'
  BY <1>4 DEF WritesOK, TalesOK, Tells
<1> QED BY <1>3, <1>5

\* A capture that fails reports nothing, and none runs after it.
LEMMA AbortKeeps ==
  ASSUME TellInv, Abort
  PROVE  TellInv'
<1> USE DEF TellInv
<1>1. PICK r : r = Len(Modes) + 1
  OBVIOUS
<1>2. r \in 1 .. (Len(Modes) + 1) /\ c' = Fresh(r) /\ now' \in Nat
  <2>1. Len(Modes) \in Nat
    BY ModesAssumption
  <2> QED BY <1>1, <2>1 DEF Abort, ShapeOK
<1>3. ShapeOK' /\ PlaceOK' /\ SampleOK'
  BY <1>2, NextIsPlaced
<1>4. writes' = writes /\ now' = now /\ delivered' = delivered /\ reports' = {}
  BY DEF Abort, Does
<1>5. WritesOK' /\ TalesOK'
  BY <1>4 DEF WritesOK, TalesOK, Tells
<1> QED BY <1>3, <1>5

\* Damage changes a delivery and not the source it is about.
LEMMA DeliverKeeps ==
  ASSUME TellInv, NEW d \in reports, NEW v \in Variants(d), Deliver(v)
  PROVE  TellInv'
<1> USE DEF TellInv
<1>1. c' = c /\ writes' = writes /\ now' = now /\ reports' = reports
  BY DEF Deliver
<1>2. ShapeOK' /\ PlaceOK' /\ WritesOK' /\ SampleOK'
  <2>1. ShapeOK'
    BY <1>1 DEF ShapeOK, Capturing
  <2>2. OrderOK' = OrderOK
    BY <1>1 DEF OrderOK, ParentAt, WorkerAt
  <2>3. PlaceOK'
    BY <1>1, <2>2 DEF PlaceOK, Capturing
  <2> QED BY <1>1, <2>1, <2>3 DEF WritesOK, SampleOK, Capturing
<1>3. v.source = d.source
  <2>1. d = [source |-> d.source, event |-> d.event, signed |-> d.signed]
    BY DEF TalesOK
  <2>2. \/ v = d \/ v = [d EXCEPT !.signed = FALSE]
        \/ v = [d EXCEPT !.event.status = Flipped(@)]
    BY DEF Variants
  <2>3. v = [d EXCEPT !.signed = FALSE] => v.source = d.source
    BY <2>1
  <2>4. v = [d EXCEPT !.event.status = Flipped(@)] => v.source = d.source
    BY <2>1
  <2> QED BY <2>2, <2>3, <2>4
<1>4. Tells(v.source)
  BY <1>3 DEF TalesOK
<1>5. delivered' = delivered \cup {v}
  BY DEF Deliver
<1>6. TalesOK'
  BY <1>1, <1>4, <1>5 DEF TalesOK, Tells
<1> QED BY <1>2, <1>6

\* An event written by hand is what it says, of a run that was not captured.
LEMMA AuthoredTells ==
  ASSUME NEW d \in {AuthoredDelivery(e) : e \in Authored}
  PROVE  /\ d = [source |-> d.source, event |-> d.event, signed |-> d.signed]
         /\ Tells(d.source)
<1>1. PICK e \in Authored :
        d = [source |-> [kind |-> "authored", data |-> e], event |-> e, signed |-> TRUE]
  BY DEF AuthoredDelivery
<1>2. d.source.kind = "authored" /\ d.source.data = e
  BY <1>1
<1>3. d = [source |-> d.source, event |-> d.event, signed |-> d.signed]
  BY <1>1
<1> QED BY <1>2, <1>3 DEF Tells

\* The invariant holds when nothing has run ...
LEMMA InitTells == Init => TellInv
<1> SUFFICES ASSUME Init PROVE TellInv
  OBVIOUS
<1>1. Len(Modes) \in Nat
  BY ModesAssumption
<1>2. PICK r \in 1 .. (Len(Modes) + 1) : c = Fresh(r)
  BY <1>1 DEF Init
<1>3. now = 0 /\ delivered = {} /\ writes = [q \in DOMAIN Modes |-> {}]
  BY DEF Init
<1>4. ShapeOK /\ PlaceOK /\ SampleOK
  BY <1>2, <1>3, FreshPlace
<1>5. WritesOK
  BY <1>3, FS_EmptySet DEF WritesOK
<1>6. reports = {} \/ reports = {AuthoredDelivery(e) : e \in Authored}
  BY DEF Init
<1>7. TalesOK
  BY <1>3, <1>6, AuthoredTells DEF TalesOK
<1> QED BY <1>4, <1>5, <1>7 DEF TellInv

\* ... and every step keeps it.
LEMMA StepTells == TellInv /\ [Next]_vars => TellInv'
<1> SUFFICES ASSUME TellInv, [Next]_vars PROVE TellInv'
  OBVIOUS
<1>1. CASE Emit \/ ReceiveControl \/ Advance \/ Write \/ Raise
  BY <1>1, EmitKeeps, ReceiveKeeps, AdvanceKeeps, WriteKeeps, RaiseKeeps
<1>2. CASE Hear \/ Command \/ TakeSample \/ Observe \/ Join \/ Abort
  BY <1>2, HearKeeps, CommandKeeps, TakeKeeps, ObserveKeeps, JoinKeeps, AbortKeeps
<1>3. CASE \E d \in reports : \E v \in Variants(d) : Deliver(v)
  BY <1>3, DeliverKeeps
<1>4. CASE UNCHANGED vars
  <2>1. OrderOK' = OrderOK
    BY <1>4 DEF vars, OrderOK, ParentAt, WorkerAt
  <2>2. ShapeOK' /\ PlaceOK'
    BY <1>4, <2>1 DEF vars, TellInv, ShapeOK, PlaceOK, Capturing
  <2>3. WritesOK' /\ SampleOK' /\ TalesOK'
    BY <1>4 DEF vars, TellInv, WritesOK, SampleOK, TalesOK, Tells, Capturing
  <2> QED BY <2>2, <2>3 DEF TellInv
<1> QED BY <1>1, <1>2, <1>3, <1>4 DEF Next

\* A stage that is settled rests on an admitted report of it.
LEMMA SettledRestsOn ==
  ASSUME NEW D, NEW q, NEW kind, NEW status, T!Stage(D, q, kind) = status,
         status \notin {"INDETERMINATE", "MISSING"}
  PROVE  \E e \in T!Events(D) : /\ e.identity = q.identity /\ e.kind = kind /\ e.status = status
                                /\ kind = "effect" => e.window = q.window
<1> DEFINE E == T!Events(D)
           statuses == {e.status : e \in T!Rows(E, q, kind)}
           open == \/ T!Errors(D) # {} \/ T!Conflict(E, q) \/ T!WrongClock(E, q)
                   \/ T!RevisionErrors(E, q) # {} \/ \E s, t \in statuses : s # t
<1>1. T!Stage(D, q, kind) = IF open THEN "INDETERMINATE"
                            ELSE IF statuses = {} THEN "MISSING" ELSE CHOOSE s \in statuses : TRUE
  BY DEF T!Stage
<1>2. status \in statuses
  <2> HIDE DEF statuses, open
  <2>1. ~open /\ statuses # {}
    BY <1>1
  <2> QED BY <1>1, <2>1
<1>3. PICK e \in T!Rows(E, q, kind) : e.status = status
  BY <1>2
<1>4. e \in T!OfKind(E, q, kind) /\ (kind = "effect" => e.window = q.window)
  BY DEF T!Rows, T!Latest
<1>5. e \in E /\ e.identity = q.identity /\ e.kind = kind
  BY <1>4 DEF T!OfKind, T!Active, T!Selected, T!Relevant
<1> QED BY <1>3, <1>4, <1>5

\* What a source that tells the truth is projected to is so.
LEMMA ProjectedIsSo ==
  ASSUME TellInv, NEW s, Tells(s), NEW e \in Project(s), e.identity[1] \in DOMAIN Modes
  PROVE  LET W == writes[e.identity[1]] IN
         /\ e.kind = "effect" =>
              (e.status = "QUIESCENT" <=> W \cap (e.window[1] .. e.window[2]) = {})
         /\ e.kind = "execution" /\ e.status = "PAUSED" => W = {}
<1>1. CASE s.kind = "authored" /\ s.data \in Authored
  <2>1. e = s.data
    BY <1>1 DEF Project
  <2> QED BY <1>1, <2>1, AuthoredAssumption
<1>2. CASE s.kind = "receiver_observed"
  BY <1>2 DEF Project
<1>3. CASE s.kind = "handler_ignored"
  BY <1>3 DEF Project
<1>4. CASE s.kind = "native_interrupt_observed" /\ s.run \in DOMAIN Modes /\ ~Ignores(Modes[s.run])
  <2>1. e.kind = "execution" /\ e.identity = <<s.run, s.control>>
    BY <1>4 DEF Project
  <2>2. writes[s.run] = {}
    BY <1>4 DEF TellInv, WritesOK
  <2> QED BY <2>1, <2>2
<1>5. CASE /\ s.kind = "effect_sampled" /\ s.run \in DOMAIN Modes
           /\ s.data[1] \in Nat /\ s.data[6] \in Nat /\ s.data[6] <= now
           /\ (s.data[2] = s.data[5]) <=> (writes[s.run] \cap (s.data[1] .. s.data[6]) = {})
  <2>1. /\ e.kind = "effect" /\ e.identity = <<s.run, s.control>>
        /\ e.status = (IF s.data[2] = s.data[5] THEN "QUIESCENT" ELSE "CONTINUED")
        /\ e.window = <<s.data[1], s.data[6]>>
    BY <1>5 DEF Project
  <2> QED BY <1>5, <2>1
<1> QED BY <1>1, <1>2, <1>3, <1>4, <1>5 DEF Tells

\* What a query is answered rests on sources that tell the truth.
LEMMA TalesAreTrue == TellInv => WindowsTellTruth
<1> SUFFICES ASSUME TellInv, NEW q \in Asked, q.identity[1] \in DOMAIN writes
             PROVE  LET inside == writes[q.identity[1]] \cap (q.window[1] .. q.window[2]) IN
                    /\ Effect(delivered, q) = "QUIESCENT" => inside = {}
                    /\ Effect(delivered, q) = "CONTINUED" => inside # {}
                    /\ T!Stage(delivered, q, "execution") = "PAUSED" => writes[q.identity[1]] = {}
  BY DEF WindowsTellTruth
<1>1. q.identity[1] \in DOMAIN Modes
  BY DEF TellInv, WritesOK
<1>2. ASSUME NEW e \in T!Events(delivered) PROVE \E s : Tells(s) /\ e \in Project(s)
  BY <1>2 DEF T!Events, T!Errors, T!Admissible, TellInv, TalesOK
<1>3. ASSUME NEW status \in {"QUIESCENT", "CONTINUED"}, Effect(delivered, q) = status
      PROVE  status = "QUIESCENT" <=> writes[q.identity[1]] \cap (q.window[1] .. q.window[2]) = {}
  <2>1. T!Stage(delivered, q, "effect") = status /\ status \notin {"INDETERMINATE", "MISSING"}
    BY <1>3 DEF Effect
  <2>2. PICK e \in T!Events(delivered) :
          e.identity = q.identity /\ e.kind = "effect" /\ e.status = status /\ e.window = q.window
    BY <2>1, SettledRestsOn
  <2>3. PICK s : Tells(s) /\ e \in Project(s)
    BY <1>2
  <2> QED BY <1>1, <2>2, <2>3, ProjectedIsSo
<1>4. ASSUME T!Stage(delivered, q, "execution") = "PAUSED" PROVE writes[q.identity[1]] = {}
  <2>1. "PAUSED" \notin {"INDETERMINATE", "MISSING"}
    OBVIOUS
  <2>2. PICK e \in T!Events(delivered) :
          e.identity = q.identity /\ e.kind = "execution" /\ e.status = "PAUSED"
    BY <1>4, <2>1, SettledRestsOn
  <2>3. PICK s : Tells(s) /\ e \in Project(s)
    BY <1>2
  <2> QED BY <1>1, <2>2, <2>3, ProjectedIsSo
<1>5. Effect(delivered, q) = "QUIESCENT" => writes[q.identity[1]] \cap (q.window[1] .. q.window[2]) = {}
  BY <1>3
<1>6. Effect(delivered, q) = "CONTINUED" => writes[q.identity[1]] \cap (q.window[1] .. q.window[2]) # {}
  BY <1>3
<1> QED BY <1>4, <1>5, <1>6

\* What the consumer settles about a captured run is so, for any sequence of
\* captures and any number of deliveries, damaged or signed for something else.
THEOREM WindowsAlwaysTellTruth == Spec => []WindowsTellTruth
  BY InitTells, StepTells, TalesAreTrue, PTL DEF Spec
=============================================================================
