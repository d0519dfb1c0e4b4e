------------------------- MODULE EvidenceProperties -------------------------
(***************************************************************************)
(* What the writers of EvidenceChain guarantee together, and what a reader *)
(* may conclude from chain checks over any part of what they stored.       *)
(***************************************************************************)
EXTENDS EvidenceChain

\* An artifact some writer emitted.
Emitted(r) ==
  /\ r.id \in RecordId /\ r.chain \in ChainId /\ r.by \in Writer
  /\ r.seq \in 0..MaxSeq /\ r.valid

\* Type invariant: files and cursors are of their kinds, complete files hold
\* emitted artifacts, and a cursor stands on one or before the first.
TypeOK ==
  /\ disk = [p \in Path |-> File(disk[p].state, disk[p].record)]
  /\ \A p \in Path : /\ disk[p].state \in {"absent", "torn", "whole"}
                     /\ disk[p].state = "whole" => Emitted(disk[p].record)
  /\ cursor = [w \in Writer |-> Cursor(cursor[w].pc, cursor[w].chain, cursor[w].previous,
                                       cursor[w].ids, cursor[w].out)]
  /\ \A w \in Writer :
       LET c == cursor[w] IN
       /\ c.pc \in {"closed", "open", "emitted", "writing"}
       /\ c.pc = "writing" <=> c.out \in Path
       /\ c.ids \subseteq RecordId
       /\ c.pc # "closed" => c.chain \in ChainId
       /\ c.pc \in {"emitted", "writing"} => Emitted(c.previous)
       /\ c.previous # Genesis => Emitted(c.previous)

\* Safety.  A file being written has one writer: whoever created it.  So the
\* artifact that ends up in it is the one its writer emitted, however many
\* commands were given the same --out.
OneOwner ==
  \A w \in Writer : cursor[w].pc = "writing" =>
    /\ disk[cursor[w].out].state = "torn"
    /\ \A v \in Writer \ {w} : cursor[v].pc = "writing" => cursor[v].out # cursor[w].out

\* Action property.  A complete artifact is never overwritten, truncated or
\* removed, by any writer, crash or retry with the same --out.
WrittenOnce ==
  [][\A p \in Path : disk[p].state = "whole" => disk'[p] = disk[p]]_vars

Tree == INSTANCE EvidenceTree WITH stored <- Stored, Loose <- Session

\* Refinement.  One-shot commands continue only what is on disk: every artifact
\* they store is attached to a stored one or opens a chain, whatever crashes,
\* races for a path, refusals or sessions beside them happened in between.
OneShotTree == Tree!TSpec

\* The artifact, its predecessor, its predecessor's predecessor, ...
LineOf(r) ==
  LET back[n \in 0..MaxSeq + 1] ==
        IF n = 0 THEN r ELSE IF back[n - 1] = Genesis THEN Genesis ELSE back[n - 1].prev
  IN {back[n] : n \in 0..MaxSeq + 1} \ {Genesis}

Line == UNION {LineOf(r) : r \in Stored}

\* Safety.  Every predecessor of a stored artifact, stored or lost, was accepted
\* by check_core: an exception in emit() leaves the cursor where it was.
AncestorsAdmissible == \A r \in Line : r.valid

\* Two artifacts hold one position of a chain.
Fork == \E r, q \in Line : r # q /\ r.chain = q.chain /\ r.seq = q.seq

\* What a reader may be given: any part of the stored artifacts.
Parts == {[r \in part |-> r] : part \in SUBSET Stored}

\* Safety.  Between honest writers a chain_link FAILURE, over any part of what
\* they stored, is evidence of a fork: artifacts that are lost, unread, or not
\* yet written never look like a contradiction.
FailureMeansFork ==
  \A A \in Parts : \A i \in DOMAIN A :
    (/\ Position(A, i.chain, i.seq) = {i} /\ LinkState(A, i) = "FAILURE") => Fork
=============================================================================
