---------------------------- MODULE DurableReport ----------------------------
(***************************************************************************)
(* What the durable consumer answers about the deliveries of a capture:    *)
(* the projection of source.py and the overlap rule of consumer.py, on the *)
(* core of the temporal consumer.                                          *)
(***************************************************************************)
EXTENDS DurableRun, FiniteSets, FiniteSetsExt

IsEffect(s) == s.id \notin {"execution-1"}

\* rows() and the order of two samples: histories only grow.
Ordered(s) == s.data[3] <= s.data[4] /\ s.data[6] <= s.tick /\ s.data[2] <= s.data[5]

Began == <<"node_entered", "effect_attempt">>

Paused(r) == r.loaded = "none" /\ r.terminal = "paused" /\ r.events = Began

Resumed(r, prior) ==
  /\ Paused(prior) /\ r.loaded = prior.terminal /\ r.terminal = "completed"
  /\ r.events = Began \o <<"resume_returned", "effect_attempt">>

Genuine(s) ==
  IF IsEffect(s) THEN Ordered(s)
  ELSE IF s.epoch = "pause" THEN Paused(s.data["pause"])
       ELSE Resumed(s.data["resume"], s.data["pause"])

\* DurablePolicy.project: the event a source stands for, or none.
Project(s) ==
  LET window == IF IsEffect(s) THEN <<s.data[1], s.data[6]>> ELSE <<s.tick, s.tick>>
      status == IF IsEffect(s) THEN (IF s.data[2] = s.data[5] THEN "QUIESCENT" ELSE "CONTINUED")
                ELSE IF s.epoch = "pause" THEN "PAUSED" ELSE "CONTINUED"
  IN
  IF ~Genuine(s) THEN {}
  ELSE {[identity |-> s.epoch, id |-> s.id, kind |-> IF IsEffect(s) THEN "effect" ELSE "execution",
         status |-> status, actor |-> "capture", clock |-> s.clock, time |-> window[2],
         observed |-> s.tick, window |-> window, supersedes |-> "original"]}

T == INSTANCE TemporalConsumer

\* query_for: about the report itself, when it was made.
QueryFor(e) ==
  [identity |-> e.identity, window |-> e.window, clock |-> e.clock, cutoff |-> e.observed,
   authorities |-> {}]

Delivery(s) == [source |-> s, event |-> CHOOSE e \in Project(s) : TRUE, signed |-> TRUE]

Overlap(v, u) == Max({v[1], u[1]}) < Min({v[2], u[2]})

Overlapping(D, q) ==
  {e \in T!OfKind(T!Events(D), q, "effect") : Overlap(e.window, q.window)}

\* Samples of other windows that overlap this one and say something else.
RequiresReconciliation(D, q) ==
  /\ \E e \in Overlapping(D, q) : e.window # q.window
  /\ Cardinality({e.status : e \in Overlapping(D, q)}) > 1

\* The core alone: another window is another question.
StageOfCore(D, q, kind) == T!Stage(D, q, kind)

Stage(D, q, kind) ==
  IF kind = "effect" /\ RequiresReconciliation(D, q) THEN "INDETERMINATE" ELSE T!Stage(D, q, kind)
-----------------------------------------------------------------------------
Capturing == p.todo # <<>>

Sampled(S) == UNION {Project(s) : s \in {x \in S : IsEffect(x)}}

Deliveries == {Delivery(s) : s \in delivered}

\* Safety.  An obligation is met once in idempotent mode and once per run of the
\* node in repeat mode, whenever the worker is killed and wherever the node
\* starts over.
EffectsOnce ==
  \A stage \in {"before_interrupt", "after_resume"} :
    LET rows == {i \in DOMAIN ledger : ledger[i].stage = stage} IN
    /\ mode = "idempotent" => Cardinality(rows) <= 1
    /\ \A i, j \in rows : ledger[i].epoch = ledger[j].epoch => i = j

\* Safety.  A capture that was saved is of two workers that ended by themselves,
\* the second from the checkpoint of the first, and of every effect of the node;
\* a killed worker is never reported as a pause.
SavedIsWhole ==
  (~Capturing /\ ~p.failure) =>
    /\ p.forced = {} /\ checkpoint = "completed"
    /\ record["pause"].terminal = "paused" /\ record["resume"].loaded = "paused"
    /\ Len(ledger) = IF mode = "idempotent" THEN 2 ELSE 3

\* Safety.  Whichever reports of a capture arrive, each question about a sampled
\* window that did arrive is answered, and rightly: continued if and only if a
\* row was committed in it, although event ids are used again in the second
\* epoch; and the execution is what the reports of that epoch say.
HonestIsSettled ==
  delivered \subseteq p.sources =>
    \A e \in Sampled(delivered) :
      LET q == QueryFor(e)
          written == \E i \in DOMAIN ledger : ledger[i].tick \in e.window[1] .. e.window[2]
          reported == \E s \in delivered : ~IsEffect(s) /\ s.epoch = e.identity
      IN
      /\ Stage(Deliveries, q, "effect") = IF written THEN "CONTINUED" ELSE "QUIESCENT"
      /\ Stage(Deliveries, q, "execution") =
           IF ~reported THEN "MISSING" ELSE IF e.identity = "pause" THEN "PAUSED" ELSE "CONTINUED"

\* Safety.  A signed report that says otherwise of the same or of an overlapping
\* window is never outvoted: the effect is left open, whichever arrived first.
DisputeIsSeen ==
  \A e \in Sampled(delivered) : \A f \in Sampled(delivered) :
    (e.identity = f.identity /\ e.status # f.status /\ Overlap(e.window, f.window)) =>
      LET q == [QueryFor(e) EXCEPT !.cutoff = Max({e.observed, f.observed})] IN
      Stage(Deliveries, q, "effect") = "INDETERMINATE"
=============================================================================
