----------------------------- MODULE MCTemporal -----------------------------
(***************************************************************************)
(* What replays of captured and of authored reports promise, and authored  *)
(* reports that revise one another.                                        *)
(***************************************************************************)
EXTENDS TemporalCapture

Effects == {d.event : d \in {x \in reports : x.event.kind = "effect"}}

\* Questions about any reported identity, sampled window and moment.
Asked ==
  {q \in {[identity |-> e.identity, window |-> f.window, clock |-> e.clock,
           cutoff |-> g.observed, authorities |-> {"reviser"}] : e, f, g \in Effects} :
     T!Answerable(q)}

Effect(D, q) == T!Stage(D, q, "effect")

Settled == {"QUIESCENT", "CONTINUED", "PAUSED", "RECEIVED"}

\* Safety.  What the consumer settles about a captured run is so: no line was
\* written in a window it calls quiescent, one was in a window it calls
\* continued, and a run it calls paused never wrote; whichever reports arrive,
\* damaged or signed for something else than was captured.
WindowsTellTruth ==
  \A q \in Asked : q.identity[1] \in DOMAIN writes =>
    LET inside == writes[q.identity[1]] \cap (q.window[1] .. q.window[2]) IN
    /\ Effect(delivered, q) = "QUIESCENT" => inside = {}
    /\ Effect(delivered, q) = "CONTINUED" => inside # {}
    /\ T!Stage(delivered, q, "execution") = "PAUSED" => writes[q.identity[1]] = {}

New == delivered' \ delivered

\* The report is genuine, and of another run or of a later moment.
Foreign(d, q) ==
  /\ T!Admissible(d)
  /\ d.event.identity # q.identity
     \/ (d.event.observed > q.cutoff /\ d.event.clock = q.clock /\ ~T!Conflict(T!Events(delivered'), q))

\* Action property.  A genuine report of another run, another control or a
\* later moment changes nothing in the answer to a question: late evidence is
\* not taken for present evidence.
LateIsInert ==
  [][\A q \in Asked : (\A d \in New : Foreign(d, q)) =>
       \A kind \in T!Kinds : T!Stage(delivered', q, kind) = T!Stage(delivered, q, kind)]_delivered

\* Action property.  A settled effect turns into the opposite one only by a
\* revision that the query accepts, never by one more sample.
FlipsAreRevisions ==
  [][\A q \in Asked :
       (/\ {Effect(delivered, q), Effect(delivered', q)} \subseteq Settled
        /\ Effect(delivered, q) # Effect(delivered', q)) =>
         \E d \in New : /\ d.event.supersedes # "original" /\ d.event.actor \in q.authorities
                        /\ d.event.window = q.window]_delivered

\* Safety.  A cutoff never parts a revision from what it revises: a revision in
\* order at some moment is in order at every earlier one that selects it.
RevisionsSurviveCutoff ==
  \A q, later \in Asked :
    (q.cutoff <= later.cutoff /\ q = [later EXCEPT !.cutoff = q.cutoff]) =>
      LET E == T!Events(delivered) IN
      T!RevisionErrors(E, q) \subseteq T!RevisionErrors(E, later)
-----------------------------------------------------------------------------
Report(id, status, time, observed, supersedes, actor) ==
  [identity |-> <<8, "pause-2">>, id |-> id, kind |-> "effect", status |-> status,
   actor |-> actor, clock |-> "session", time |-> time, observed |-> observed,
   window |-> <<1, 3>>, supersedes |-> supersedes]

First == Report("first", "QUIESCENT", 3, 7, "original", "reviser")

\* Revisions in order, of a revision, observed too early, unauthorised, of
\* nothing; a second report of one id; another clock, run, window and stage.
MCAuthored ==
  {First,
   Report("second", "CONTINUED", 4, 8, "first", "reviser"),
   Report("third", "QUIESCENT", 5, 9, "second", "reviser"),
   Report("early", "CONTINUED", 4, 6, "first", "reviser"),
   Report("usurper", "CONTINUED", 6, 9, "first", "stranger"),
   Report("first", "CONTINUED", 3, 7, "original", "reviser"),
   [First EXCEPT !.id = "clock", !.clock = "other"],
   [First EXCEPT !.id = "run", !.identity = <<9, "pause-2">>],
   [First EXCEPT !.id = "window", !.window = <<0, 1>>, !.status = "CONTINUED"],
   [First EXCEPT !.id = "receipt", !.kind = "receipt", !.status = "RECEIVED"]}

MCModes == <<"pause", "ignore", "unobserved">>
=============================================================================
