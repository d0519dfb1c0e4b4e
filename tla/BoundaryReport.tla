--------------------------- MODULE BoundaryReport ---------------------------
(***************************************************************************)
(* consumer.py of integrations/langgraph/boundaries: what a signed         *)
(* schedule S is admitted as, given the targets the consumer expects; and  *)
(* what that verdict may say of the run.                                   *)
(***************************************************************************)
EXTENDS BoundaryRun

Rows(S, peer, dir, kind) ==
  {i \in DOMAIN S : S[i].peer = peer /\ S[i].dir = dir /\ S[i].kind = kind}

From(S, peer, kind) == Rows(S, peer, "received", kind)
To(S, peer, kind)   == Rows(S, peer, "sent", kind)

AllFrom(S, peer) == {i \in DOMAIN S : S[i].peer = peer /\ S[i].dir = "received"}

One(X)       == Cardinality(X) = 1
AtMostOne(X) == Cardinality(X) <= 1
The(X)       == CHOOSE i \in X : TRUE

\* Every row of X comes before every row of Y.
Precede(X, Y) == \A i \in X : \A j \in Y : i < j

About(S, X, t) == {i \in X : S[i].of = t}

Started(S, t)  == About(S, To(S, "observer", "start"), t)
Ended(S, t)    == About(S, To(S, "observer", "end"), t)
Observed(S, t) == About(S, From(S, "observer", "observation"), t)

\* One window per observation, with its barriers in order.
ObserverOk(S, targets) ==
  /\ One(From(S, "observer", "ready")) /\ One(From(S, "observer", "owner_check"))
  /\ \A i \in To(S, "observer", "start") : One(Started(S, S[i].of))
  /\ \A i \in From(S, "observer", "observation") :
       LET t == S[i].of
           ack == About(S, From(S, "observer", "window_started"), t)
       IN
       /\ One(Started(S, t)) /\ One(ack) /\ One(Ended(S, t)) /\ One(Observed(S, t)) /\ t \in targets
       /\ Precede(Started(S, t), ack) /\ Precede(ack, Ended(S, t)) /\ Precede(Ended(S, t), {i})

Cleanup(S, t) == {i \in DOMAIN S : S[i].peer = t /\ S[i].dir = "cleanup"}

Forced(S, t) == S[The(Cleanup(S, t))].kind = "forced"

\* A receipt needs its command, a pause its receipt, a commit its release.
TargetOk(S, t) ==
  LET Got(kind) == From(S, t, kind)
      command   == To(S, t, "pause")
      release   == To(S, t, "release_effect")
      handled   == Got("native_paused") \cup Got("ignored")
      committed == Got("effect_committed")
  IN
  /\ One(Got("ready")) /\ Precede(Got("ready"), AllFrom(S, t) \ Got("ready"))
  /\ \A i \in AllFrom(S, t) : S[i].n = Cardinality({j \in AllFrom(S, t) : j <= i})
  /\ \A X \in {command, release, Got("receipt"), handled, Got("inflight_ready"), committed} : AtMostOne(X)
  /\ Got("receipt") # {} => command # {} /\ Precede(command, Got("receipt"))
  /\ handled # {} => Got("receipt") # {} /\ Precede(Got("receipt"), handled)
  /\ One(Got("authority_probe"))
  /\ One(Cleanup(S, t)) /\ Precede(AllFrom(S, t), Cleanup(S, t))
  /\ Forced(S, t) <=> S[The(Cleanup(S, t))].body # <<0>>
  /\ Precede(Observed(S, t), Cleanup(S, t))
  /\ Observed(S, t) # {} => Precede(handled, Started(S, t))
  /\ committed # {} => /\ Got("inflight_ready") # {} /\ release # {}
                       /\ Precede(Got("inflight_ready"), release) /\ Precede(release, committed)
  /\ (committed # {} /\ Observed(S, t) # {}) =>
       Precede(Started(S, t), release) /\ Precede(committed, Ended(S, t))

Receipt(S, t) == IF From(S, t, "receipt") # {} THEN "RECEIVED" ELSE "MISSING"

Execution(S, t) ==
  IF From(S, t, "native_paused") # {} THEN "PAUSED"
  ELSE IF From(S, t, "ignored") # {} THEN "CONTINUED" ELSE "MISSING"

Effect(S, t) ==
  IF Observed(S, t) = {} THEN "MISSING"
  ELSE LET b == S[The(Observed(S, t))].body IN IF b[1] = b[2] THEN "QUIESCENT" ELSE "CONTINUED"

Authority(S, t) == S[The(From(S, t, "authority_probe"))].body = <<>>

\* Whatever the observer saw.
BoundedUnobserved(S, t) ==
  Receipt(S, t) = "RECEIVED" /\ Execution(S, t) = "PAUSED" /\ ~Forced(S, t)

Bounded(S, t) ==
  /\ Receipt(S, t) = "RECEIVED" /\ Execution(S, t) = "PAUSED" /\ Effect(S, t) = "QUIESCENT"
  /\ ~Forced(S, t)

\* effect_commit_after_native_pause
AfterPause(S, t) ==
  From(S, t, "effect_committed") # {} /\ From(S, t, "native_paused") # {}
  /\ Precede(From(S, t, "inflight_ready"), From(S, t, "receipt"))
  /\ Precede(From(S, t, "native_paused"), To(S, t, "release_effect"))

\* The intent that the source states does not narrow the expected one.
Verdict(S, stated, expected) ==
  IF \/ stated # expected \/ {S[i].peer : i \in DOMAIN S} \ (expected \cup {"observer"}) # {}
     \/ ~ObserverOk(S, expected) \/ \E t \in expected : ~TargetOk(S, t)
  THEN "NO_MATCH"
  ELSE CASE \E t \in expected : ~Authority(S, t)           -> "BOUNDARY_NOT_ESTABLISHED"
         [] \A t \in expected : Bounded(S, t)              -> "ALL_TARGETS_BOUNDED_PAUSE"
         [] \E t \in expected : Bounded(S, t)              -> "PARTIAL"
         [] \E t \in expected : Forced(S, t)               -> "CLEANUP_TERMINATED"
         [] \E t \in expected : Effect(S, t) = "CONTINUED" -> "EFFECT_CONTINUED"
         [] OTHER                                          -> "UNESTABLISHED"
-----------------------------------------------------------------------------
Intended == ToSet(Targets(scenario))

Expected == [both_paused |-> "ALL_TARGETS_BOUNDED_PAUSE", one_unknown |-> "PARTIAL",
             inflight |-> "EFFECT_CONTINUED", timeout |-> "CLEANUP_TERMINATED"]

Over == c.mode = "over"

\* Safety.  A capture in which nothing failed and no wait expired is saved and is
\* admitted as the experiment it was written to show; in particular the observer
\* is never asked about a window it does not hold, and the effect in flight is
\* committed after the native pause and inside the window.
CaptureShowsItsPoint ==
  (Over /\ faults = {}) =>
    /\ c.saved /\ Verdict(schedule, Intended, Intended) = Expected[scenario]
    /\ scenario = "inflight" => AfterPause(schedule, "A")

Without(S, X) == FlattenSeq([i \in DOMAIN S |-> IF i \in X THEN <<>> ELSE <<S[i]>>])

Swapped(S, i) == [S EXCEPT ![i] = S[i + 1], ![i + 1] = S[i]]

\* The schedule with up to two rows left out, two rows exchanged, every row of a
\* target left out, or a probe that failed.
Edited(S) ==
  {Without(S, {i, j}) : i, j \in DOMAIN S}
  \cup {Swapped(S, i) : i \in 1 .. (Len(S) - 1)}
  \cup {Without(S, {i \in DOMAIN S : S[i].peer = t \/ S[i].of = t}) : t \in Intended}
  \cup {[S EXCEPT ![i].body = <<1>>] : i \in UNION {From(S, t, "authority_probe") : t \in Intended}}

TrulyPaused(t) == proc[t].state = "paused" /\ proc[t].file = 0 /\ proc[t].code = 0

\* Safety.  A saved schedule says that all targets paused only if every intended
\* one did, wrote nothing and left by itself; and no edit of it, signed by its
\* author, makes it say so of a run where that is not the case.
AllMeansAll ==
  (Over /\ c.saved) =>
    \A S \in Edited(schedule) \cup {schedule} : \A stated \in SUBSET Intended :
      Verdict(S, stated, Intended) = "ALL_TARGETS_BOUNDED_PAUSE" => \A t \in Intended : TrulyPaused(t)

CleanedUp == ~key /\ \A p \in Peers : ~proc[p].alive

\* Safety.  Whatever fails, capture() leaves no process and no key behind, unless
\* it failed in sending to a peer that had ended.
CleanUnlessPipeBroke == (Over /\ c.broken = {}) => CleanedUp

\* Safety, as the README states it: keys are removed before capture returns,
\* including failures.
KeysRemoved == Over => ~key
=============================================================================
