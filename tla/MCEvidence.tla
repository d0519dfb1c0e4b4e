----------------------------- MODULE MCEvidence -----------------------------
(***************************************************************************)
(* A small instance of EvidenceChain: writers of one chain, one payload.   *)
(***************************************************************************)
EXTENDS EvidenceProperties, TLC

CONSTANTS w1, w2, w3, p1, p2, p3, r1, r2, c1

MCWriter == {w1, w2, w3}
MCSession == {w3}
MCChainId == {c1}
MCPath == {p1, p2, p3}
MCRecordId == {r1, r2}
MCBody == {[type |-> "decision"]}
MCStanding == [w \in MCWriter |-> "SATISFIED"]
MCIndependent == {}

\* The commands, the paths and the identities are alike.
Alike == Permutations({w1, w2}) \cup Permutations(MCPath) \cup Permutations(MCRecordId)
=============================================================================
