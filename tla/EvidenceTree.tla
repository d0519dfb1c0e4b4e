---------------------------- MODULE EvidenceTree ----------------------------
(***************************************************************************)
(* What one-shot emit commands promise together, without any lock: a set   *)
(* of artifacts that only grows, each attached to one already there or     *)
(* opening a chain.  It is a tree, not a list: a fork is possible.  Only   *)
(* the artifacts of Loose, the producers whose Chain object outlives a     *)
(* failed write, may follow on one that was lost.                          *)
(***************************************************************************)
EXTENDS Integers

CONSTANTS Genesis, Loose

VARIABLE stored

Attached(r) ==
  \/ r.prev = Genesis /\ r.seq = 0
  \/ r.prev \in stored /\ r.chain = r.prev.chain /\ r.seq = r.prev.seq + 1
     /\ r.id # r.prev.id

TInit == stored = {}

Grow ==
  \E r \in stored' : (r.by \in Loose \/ Attached(r)) /\ stored' = stored \cup {r}

TSpec == TInit /\ [][Grow]_stored
=============================================================================
