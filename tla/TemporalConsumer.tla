-------------------------- MODULE TemporalConsumer --------------------------
(***************************************************************************)
(* admit() and evaluate() of integrations/langgraph/temporal/core.py, as   *)
(* operators on a set of deliveries.                                       *)
(*                                                                         *)
(* An event is [identity, id, kind, status, actor, clock, time, observed,  *)
(* window, supersedes].  A delivery is [source, event, signed]: the source *)
(* bytes, the event that claims to project them, and whether a native      *)
(* artifact of the event's actor verifies and binds both.  Bytes are what  *)
(* they say, so that equal hashes are equal records.  Boundary, predicate  *)
(* and arrival, which the result never depends on here, are left out, and  *)
(* so is the order of the deliveries, which the code sorts away.           *)
(***************************************************************************)
EXTENDS Integers

CONSTANT Project(_)   \* the events a source stands for: one, or none if refused

Original == "original"   \* supersedes nothing

States == [receipt |-> {"RECEIVED"}, execution |-> {"PAUSED", "CONTINUED"},
           effect |-> {"QUIESCENT", "CONTINUED"}]

Kinds == DOMAIN States

\* tick(), whose upper bound no clock reaches.
Tick == Nat

\* window()
Window(v) == v[1] \in Tick /\ v[2] \in Tick /\ v[1] <= v[2]

\* The closed contract of an event.
Conforms(e) ==
  /\ e.kind \in Kinds /\ e.status \in States[e.kind]
  /\ e.time \in Tick /\ e.observed \in Tick /\ Window(e.window)
  /\ e.time <= e.observed
  /\ e.window[2] <= e.observed

Admissible(d) == d.signed /\ Conforms(d.event) /\ d.event \in Project(d.source)

Errors(D) == {d \in D : ~Admissible(d)}

Events(D) == {d.event : d \in D \ Errors(D)}
-----------------------------------------------------------------------------
(* A query is [identity, window, clock, cutoff, authorities].              *)

\* What evaluate() answers; it raises otherwise.
Answerable(q) == Window(q.window) /\ q.cutoff \in Tick /\ q.window[2] <= q.cutoff

Relevant(E, q) == {e \in E : e.identity = q.identity}

\* Everything of the identity that the query's clock knows, early or late.
SelectedAnyTime(E, q) == {e \in Relevant(E, q) : e.clock = q.clock}

Selected(E, q) ==
  {e \in Relevant(E, q) : e.clock = q.clock /\ e.time <= q.cutoff /\ e.observed <= q.cutoff}

\* Two events of one identity and event_id.
Conflict(E, q) == \E e, f \in Relevant(E, q) : e.id = f.id /\ e # f

WrongClock(E, q) == \E e \in Relevant(E, q) : e.clock # q.clock

Revisions(E, q) == {e \in Selected(E, q) : e.supersedes # Original}

\* Revision e may correct the earlier report of the same stage and window.
MayRevise(e, old, q) ==
  /\ e.supersedes = old.id /\ e.actor \in q.authorities
  /\ e.kind = old.kind /\ e.window = old.window /\ e.actor = old.actor
  /\ e.time > old.time

\* ... and was observed no earlier.  Reports that share an event_id make every
\* stage indeterminate, whichever of them by_id holds.
Revises(e, old, q) == MayRevise(e, old, q) /\ e.observed >= old.observed

Superseded(E, q) ==
  {old \in Selected(E, q) : \E e \in Revisions(E, q) : Revises(e, old, q)}

RevisionErrors(E, q) ==
  {e \in Revisions(E, q) : ~ \E old \in Selected(E, q) : Revises(e, old, q)}

Active(E, q) == Selected(E, q) \ Superseded(E, q)

Latest(S) == {e \in S : \A f \in S : f.time <= e.time}

OfKind(E, q, kind) == {e \in Active(E, q) : e.kind = kind}

\* The latest sample, whichever window it is about.
RowsAnyWindow(E, q, kind) == Latest(OfKind(E, q, kind))

Rows(E, q, kind) ==
  IF kind = "effect" THEN {e \in OfKind(E, q, kind) : e.window = q.window}
  ELSE Latest(OfKind(E, q, kind))

\* What evaluate() reports of one stage.
Stage(D, q, kind) ==
  LET E        == Events(D)
      statuses == {e.status : e \in Rows(E, q, kind)}
  IN
  IF \/ Errors(D) # {} \/ Conflict(E, q) \/ WrongClock(E, q)
     \/ RevisionErrors(E, q) # {} \/ \E s, t \in statuses : s # t
  THEN "INDETERMINATE"
  ELSE IF statuses = {} THEN "MISSING" ELSE CHOOSE s \in statuses : TRUE
=============================================================================
