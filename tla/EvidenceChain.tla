--------------------------- MODULE EvidenceChain ----------------------------
(***************************************************************************)
(* Writers of evidence: Chain of tools/airep_v02/producer.py, and the      *)
(* emit commands of tools/airep_v02/__main__.py.  A command opens a cursor *)
(* on the file of an earlier artifact or on a new chain, emits once,       *)
(* writes the artifact to a new file and exits.  A library session keeps   *)
(* its cursor and emits again, whether or not its file could be written.   *)
(* Nothing serialises the writers: two may continue the same artifact.     *)
(***************************************************************************)
EXTENDS Reconciler

CONSTANTS
  Writer,    \* processes, each the only holder of its producer's key
  Session,   \* those that are library sessions
  ChainId, RecordId, Path,
  Body,      \* payloads: a family with its fields
  MaxSeq     \* bound on the model: the last sequence emitted

ASSUME SessionAssumption == Session \subseteq Writer
ASSUME PathAssumption == "none" \notin Path
ASSUME MaxSeqAssumption == MaxSeq \in Nat

VARIABLES
  disk,      \* per path: whether the file is absent, torn or whole; its artifact
  cursor     \* per writer: what it is doing, and its Chain object

vars == <<disk, cursor>>

\* An artifact; check_core accepts it or not.
Record(id, chain, prev, by, body, accepted) ==
  [id |-> id, chain |-> chain, seq |-> prev.seq + 1, prev |-> prev, by |-> by,
   body |-> body, valid |-> accepted]

\* A Chain object: its chain, its last artifact and the identities it has used.
Cursor(pc, chain, previous, ids, out) ==
  [pc |-> pc, chain |-> chain, previous |-> previous, ids |-> ids, out |-> out]

Closed == Cursor("closed", "none", Genesis, {}, "none")

File(state, record) == [state |-> state, record |-> record]

Init ==
  /\ disk = [p \in Path |-> File("absent", Genesis)]
  /\ cursor = [w \in Writer |-> Closed]

Stored == {disk[p].record : p \in {q \in Path : disk[q].state = "whole"}}
-----------------------------------------------------------------------------
\* A cursor on a new chain.
OpenGenesis(w, c) ==
  /\ cursor[w].pc = "closed"
  /\ cursor' = [cursor EXCEPT ![w] = Cursor("open", c, Genesis, {}, "none")]
  /\ UNCHANGED disk

\* A cursor on the artifact of an earlier command: a whole file that check_core
\* accepts, whose record_id alone it remembers as used.
OpenPrevious(w, p) ==
  LET r == disk[p].record IN
  /\ cursor[w].pc = "closed" /\ disk[p].state = "whole" /\ r.valid
  /\ cursor' = [cursor EXCEPT ![w] = Cursor("open", r.chain, r, {r.id}, "none")]
  /\ UNCHANGED disk

\* A failure that leaves the file to write behind.
AfterFailureStale(c, w) == Cursor("open", c.chain, c.previous, c.ids, c.out)

\* A command that keeps its cursor after a failure.
AfterFailureGoOn(c, w) == Cursor("open", c.chain, c.previous, c.ids, "none")

\* After a failure a command is over and a session catches the exception.
AfterFailure(c, w) ==
  IF w \in Session THEN Cursor("open", c.chain, c.previous, c.ids, "none") ELSE Closed

\* A session that did not write its last artifact may emit the next.
Ready(w) == cursor[w].pc = "open" \/ (w \in Session /\ cursor[w].pc = "emitted")

\* A cursor that moves before check_core has accepted the record.
EmitEagerly(w, id, body, accepted) ==
  LET c == cursor[w]
      r == Record(id, c.chain, c.previous, w, body, accepted)
      moved == Cursor("emitted", c.chain, r, c.ids \cup {id}, "none")
  IN
  /\ Ready(w) /\ c.previous.seq < MaxSeq
  /\ cursor' = [cursor EXCEPT ![w] =
                  IF accepted /\ id \notin c.ids THEN moved ELSE AfterFailure(moved, w)]
  /\ UNCHANGED disk

\* emit(): a record that is refused, for an identity used before or by
\* check_core, consumes no position.
Emit(w, id, body, accepted) ==
  LET c == cursor[w]
      r == Record(id, c.chain, c.previous, w, body, accepted)
  IN
  /\ Ready(w) /\ c.previous.seq < MaxSeq
  /\ cursor' = [cursor EXCEPT ![w] =
                  IF accepted /\ id \notin c.ids
                  THEN Cursor("emitted", c.chain, r, c.ids \cup {id}, "none")
                  ELSE AfterFailure(c, w)]
  /\ UNCHANGED disk

\* The file is open for writing.
Begun(w, p) ==
  LET c == cursor[w] IN
  /\ disk' = [disk EXCEPT ![p] = File("torn", Genesis)]
  /\ cursor' = [cursor EXCEPT ![w] = Cursor("writing", c.chain, c.previous, c.ids, p)]

\* write() that opens and truncates a file that exists.
CreateOrTruncate(w, p) == cursor[w].pc = "emitted" /\ Begun(w, p)

\* write(): the file is created by this call or the command fails.
Create(w, p) ==
  /\ cursor[w].pc = "emitted"
  /\ \/ disk[p].state = "absent" /\ Begun(w, p)
     \/ /\ disk[p].state # "absent"
        /\ cursor' = [cursor EXCEPT ![w] = AfterFailure(cursor[w], w)]
        /\ UNCHANGED disk

\* The file is complete; a command exits, a session goes on.
Complete(w) ==
  LET c == cursor[w] IN
  /\ c.pc = "writing"
  /\ disk' = [disk EXCEPT ![c.out] = File("whole", c.previous)]
  /\ cursor' = [cursor EXCEPT ![w] = AfterFailure(c, w)]

\* A writer dies anywhere; what it wrote so far stays.
Crash(w) ==
  /\ cursor[w].pc # "closed"
  /\ cursor' = [cursor EXCEPT ![w] = Closed]
  /\ UNCHANGED disk

Step(w) ==
  \/ \E c \in ChainId : OpenGenesis(w, c)
  \/ \E id \in RecordId, body \in Body, accepted \in BOOLEAN : Emit(w, id, body, accepted)
  \/ \E p \in Path : OpenPrevious(w, p) \/ Create(w, p)
  \/ Complete(w)
  \/ Crash(w)

Next == \E w \in Writer : Step(w)

Spec == Init /\ [][Next]_vars
=============================================================================
