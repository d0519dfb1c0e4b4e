-------------------------- MODULE Evidence_proofs ---------------------------
(***************************************************************************)
(* For any number of writers, sessions, files and identities: complete     *)
(* artifacts are never touched again, one-shot commands grow a tree, and   *)
(* what a reader takes for a contradiction is a fork.                      *)
(***************************************************************************)
EXTENDS EvidenceProperties, FiniteSetTheorems, WellFoundedInduction, TLAPS

\* OneOwner is inductive together with the kinds of files and cursors.
OwnerInv == TypeOK /\ OneOwner

\* A cursor as TypeOK has them.
CursorOK(c) ==
  /\ c = Cursor(c.pc, c.chain, c.previous, c.ids, c.out)
  /\ c.pc \in {"closed", "open", "emitted", "writing"}
  /\ c.pc = "writing" <=> c.out \in Path
  /\ c.ids \subseteq RecordId
  /\ c.pc # "closed" => c.chain \in ChainId
  /\ c.pc \in {"emitted", "writing"} => Emitted(c.previous)
  /\ c.previous # Genesis => Emitted(c.previous)

\* The three things a step of writer w may do: leave the files alone and hold
\* none, create one, complete its own.
Moves(w) ==
  /\ cursor' = [cursor EXCEPT ![w] = cursor'[w]]
  /\ CursorOK(cursor'[w])

Quiet(w) == disk' = disk /\ Moves(w) /\ cursor'[w].pc # "writing"

Begins(w, p) ==
  /\ disk[p].state = "absent"
  /\ disk' = [disk EXCEPT ![p] = File("torn", Genesis)]
  /\ Moves(w) /\ cursor'[w].out = p

Completes(w) ==
  /\ cursor[w].pc = "writing"
  /\ disk' = [disk EXCEPT ![cursor[w].out] = File("whole", cursor[w].previous)]
  /\ Moves(w) /\ cursor'[w].pc # "writing"

\* Every cursor of the type invariant is one.
LEMMA CursorsOK == TypeOK => \A w \in Writer : CursorOK(cursor[w])
  BY DEF TypeOK, CursorOK, Cursor

\* The Chain object of a process that is over.
LEMMA ClosedOK == CursorOK(Closed)
  BY PathAssumption DEF CursorOK, Closed, Cursor

\* A cursor that an exception leaves open, or closes.
LEMMA AfterFailureOK ==
  ASSUME NEW c, NEW w, CursorOK(c), c.pc # "closed"
  PROVE  CursorOK(AfterFailure(c, w)) /\ AfterFailure(c, w).pc # "writing"
<1>1. CursorOK(Cursor("open", c.chain, c.previous, c.ids, "none"))
  BY PathAssumption DEF CursorOK, Cursor
<1>2. QED
  BY <1>1, ClosedOK DEF AfterFailure, Closed, Cursor

\* An assignment to one writer's cursor.
LEMMA MovesTo ==
  ASSUME TypeOK, NEW w \in Writer, NEW c, CursorOK(c),
         cursor' = [cursor EXCEPT ![w] = c]
  PROVE  Moves(w) /\ cursor'[w] = c
  BY DEF TypeOK, Moves

\* Every step of a writer is of one of the three kinds.
LEMMA StepKinds ==
  ASSUME OwnerInv, NEW w \in Writer, Step(w)
  PROVE  Quiet(w) \/ (\E p \in Path : Begins(w, p)) \/ Completes(w)
<1>0. TypeOK /\ CursorOK(cursor[w])
  BY CursorsOK DEF OwnerInv
<1>1. ASSUME NEW c \in ChainId, OpenGenesis(w, c) PROVE Quiet(w)
  <2> DEFINE n == Cursor("open", c, Genesis, {}, "none")
  <2>1. CursorOK(n) /\ n.pc # "writing"
    BY PathAssumption DEF CursorOK, Cursor
  <2>2. disk' = disk /\ cursor' = [cursor EXCEPT ![w] = n]
    BY <1>1 DEF OpenGenesis
  <2> HIDE DEF n
  <2>3. QED
    BY <1>0, <2>1, <2>2, MovesTo DEF Quiet
<1>2. ASSUME NEW p \in Path, OpenPrevious(w, p) PROVE Quiet(w)
  <2> DEFINE r == disk[p].record
             n == Cursor("open", r.chain, r, {r.id}, "none")
  <2>1. Emitted(r)
    BY <1>0, <1>2 DEF OpenPrevious, TypeOK
  <2>2. CursorOK(n) /\ n.pc # "writing"
    BY <2>1, PathAssumption DEF CursorOK, Cursor, Emitted
  <2>3. disk' = disk /\ cursor' = [cursor EXCEPT ![w] = n]
    BY <1>2 DEF OpenPrevious
  <2> HIDE DEF n
  <2>4. QED
    BY <1>0, <2>2, <2>3, MovesTo DEF Quiet
<1>3. ASSUME NEW id \in RecordId, NEW body \in Body, NEW accepted \in BOOLEAN,
             Emit(w, id, body, accepted)
      PROVE  Quiet(w)
  <2> DEFINE c == cursor[w]
             r == Record(id, c.chain, c.previous, w, body, accepted)
             moved == Cursor("emitted", c.chain, r, c.ids \cup {id}, "none")
             n == IF accepted /\ id \notin c.ids THEN moved ELSE AfterFailure(c, w)
  <2>1. c.pc # "closed" /\ c.previous.seq < MaxSeq
    BY <1>3 DEF Emit, Ready
  <2>2. disk' = disk /\ cursor' = [cursor EXCEPT ![w] = n]
    BY <1>3 DEF Emit
  <2>3. ASSUME accepted PROVE CursorOK(moved) /\ moved.pc # "writing"
    <3>1. c.previous.seq \in -1..MaxSeq
      BY <1>0, MaxSeqAssumption DEF CursorOK, Emitted, Genesis
    <3>2. r.seq \in 0..MaxSeq
      BY <2>1, <3>1, MaxSeqAssumption DEF Record
    <3>3. Emitted(r)
      BY <1>0, <2>1, <2>3, <3>2 DEF CursorOK, Emitted, Record
    <3>4. c.ids \cup {id} \subseteq RecordId /\ c.chain \in ChainId
      BY <1>0, <2>1 DEF CursorOK
    <3> HIDE DEF r, c
    <3>5. QED
      BY <3>3, <3>4, PathAssumption DEF CursorOK, Cursor
  <2>4. CursorOK(AfterFailure(c, w)) /\ AfterFailure(c, w).pc # "writing"
    BY <1>0, <2>1, AfterFailureOK
  <2> HIDE DEF moved, c
  <2>5. CursorOK(n) /\ n.pc # "writing"
    BY <2>3, <2>4
  <2> HIDE DEF n
  <2>6. QED
    BY <1>0, <2>2, <2>5, MovesTo DEF Quiet
<1>4. ASSUME NEW p \in Path, Create(w, p) PROVE Quiet(w) \/ Begins(w, p)
  <2> DEFINE c == cursor[w]
             n == Cursor("writing", c.chain, c.previous, c.ids, p)
  <2>1. CASE disk[p].state = "absent" /\ Begun(w, p)
    <3>1. CursorOK(n) /\ n.out = p
      BY <1>0, <1>4 DEF CursorOK, Cursor, Create
    <3>2. disk' = [disk EXCEPT ![p] = File("torn", Genesis)] /\ cursor' = [cursor EXCEPT ![w] = n]
      BY <2>1 DEF Begun
    <3> HIDE DEF n
    <3>3. QED
      BY <1>0, <2>1, <3>1, <3>2, MovesTo DEF Begins
  <2>2. CASE disk' = disk /\ cursor' = [cursor EXCEPT ![w] = AfterFailure(c, w)]
    <3>1. CursorOK(AfterFailure(c, w)) /\ AfterFailure(c, w).pc # "writing"
      BY <1>0, <1>4, AfterFailureOK DEF Create
    <3>2. QED
      BY <1>0, <2>2, <3>1, MovesTo DEF Quiet
  <2>3. QED
    BY <1>4, <2>1, <2>2 DEF Create
<1>5. ASSUME Complete(w) PROVE Completes(w)
  <2> DEFINE n == AfterFailure(cursor[w], w)
  <2>1. CursorOK(n) /\ n.pc # "writing"
    BY <1>0, <1>5, AfterFailureOK DEF Complete
  <2>2. /\ cursor[w].pc = "writing"
        /\ disk' = [disk EXCEPT ![cursor[w].out] = File("whole", cursor[w].previous)]
        /\ cursor' = [cursor EXCEPT ![w] = n]
    BY <1>5 DEF Complete
  <2> HIDE DEF n
  <2>3. QED
    BY <1>0, <2>1, <2>2, MovesTo DEF Completes
<1>6. ASSUME Crash(w) PROVE Quiet(w)
  <2>1. Closed.pc # "writing"
    BY DEF Closed, Cursor
  <2>2. QED
    BY <1>0, <1>6, <2>1, ClosedOK, MovesTo DEF Crash, Quiet
<1>7. QED
  BY <1>1, <1>2, <1>3, <1>4, <1>5, <1>6 DEF Step

\* A step of one writer keeps the type invariant and the ownership of files.
LEMMA StepInv ==
  ASSUME OwnerInv, NEW w \in Writer, Step(w)
  PROVE  OwnerInv'
<1>0. TypeOK /\ OneOwner /\ \A v \in Writer : CursorOK(cursor[v])
  BY CursorsOK DEF OwnerInv
<1>1. Moves(w)
  BY StepKinds DEF Quiet, Begins, Completes
<1>2. \A v \in Writer : v # w => cursor'[v] = cursor[v]
  BY <1>0, <1>1 DEF Moves, TypeOK
<1>3. \A v \in Writer : CursorOK(cursor'[v])
  BY <1>0, <1>1, <1>2 DEF Moves
<1>4. cursor' = [v \in Writer |-> cursor'[v]]
  BY <1>0, <1>1 DEF Moves, TypeOK
<1>5. cursor' = [v \in Writer |-> Cursor(cursor'[v].pc, cursor'[v].chain, cursor'[v].previous,
                                        cursor'[v].ids, cursor'[v].out)]
  BY <1>3, <1>4 DEF CursorOK
<1>6. SUFFICES ASSUME TRUE
      PROVE  /\ disk' = [p \in Path |-> File(disk'[p].state, disk'[p].record)]
             /\ \A p \in Path : /\ disk'[p].state \in {"absent", "torn", "whole"}
                                /\ disk'[p].state = "whole" => Emitted(disk'[p].record)
             /\ OneOwner'
  BY <1>3, <1>5 DEF OwnerInv, TypeOK, CursorOK, Emitted
<1>7. CASE Quiet(w)
  <2>1. disk' = disk /\ cursor'[w].pc # "writing"
    BY <1>7 DEF Quiet
  <2>2. OneOwner'
    BY <1>0, <1>2, <2>1 DEF OneOwner
  <2>3. QED
    BY <1>0, <2>1, <2>2 DEF TypeOK
<1>8. ASSUME NEW p \in Path, Begins(w, p)
      PROVE  /\ disk' = [q \in Path |-> File(disk'[q].state, disk'[q].record)]
             /\ \A q \in Path : /\ disk'[q].state \in {"absent", "torn", "whole"}
                                /\ disk'[q].state = "whole" => Emitted(disk'[q].record)
             /\ OneOwner'
  <2>1. \A q \in Path : disk'[q] = IF q = p THEN File("torn", Genesis) ELSE disk[q]
    BY <1>0, <1>8 DEF Begins, TypeOK
  <2>2. disk' = [q \in Path |-> disk'[q]]
    BY <1>0, <1>8 DEF Begins, TypeOK
  <2>3. disk[p].state = "absent" /\ cursor'[w].out = p
    BY <1>8 DEF Begins
  <2>4. OneOwner'
    BY <1>0, <1>2, <2>1, <2>3 DEF OneOwner, File, CursorOK
  <2>5. QED
    BY <1>0, <2>1, <2>2, <2>4 DEF TypeOK, File
<1>9. CASE Completes(w)
  <2> DEFINE p == cursor[w].out
  <2>1. p \in Path /\ Emitted(cursor[w].previous) /\ cursor'[w].pc # "writing"
    BY <1>0, <1>9 DEF Completes, CursorOK
  <2>2. \A q \in Path : disk'[q] = IF q = p THEN File("whole", cursor[w].previous) ELSE disk[q]
    BY <1>0, <1>9, <2>1 DEF Completes, TypeOK
  <2>3. disk' = [q \in Path |-> disk'[q]]
    BY <1>0, <1>9, <2>1 DEF Completes, TypeOK
  <2>4. OneOwner'
    BY <1>0, <1>2, <1>9, <2>1, <2>2 DEF OneOwner, Completes, CursorOK
  <2>5. QED
    BY <1>0, <2>1, <2>2, <2>3, <2>4 DEF TypeOK, File
<1>10. QED
  BY <1>7, <1>8, <1>9, StepKinds

\* No file exists and no cursor is open at the start.
LEMMA InitInv == Init => OwnerInv
  BY PathAssumption DEF Init, OwnerInv, TypeOK, OneOwner, Closed, Cursor, File

\* The type invariant and OneOwner hold in every run of any writers.
THEOREM Ownership == Spec => [](TypeOK /\ OneOwner)
<1>1. OwnerInv /\ [Next]_vars => OwnerInv'
  <2>1. ASSUME OwnerInv, UNCHANGED vars PROVE OwnerInv'
    BY <2>1 DEF OwnerInv, TypeOK, OneOwner, vars, Emitted
  <2>2. QED
    BY <2>1, StepInv DEF Next
<1>2. QED
  BY <1>1, InitInv, PTL DEF Spec, OwnerInv

\* The state of every file and cursor stays of its kind, and what a file holds is
\* an artifact that some writer emitted.
THEOREM ArtifactsAreTyped == Spec => []TypeOK
<1>1. TypeOK /\ OneOwner => TypeOK
  OBVIOUS
<1>2. QED
  BY <1>1, Ownership, PTL

\* A complete artifact is never overwritten: for every number of writers,
\* commands and sessions, and every choice of output files.
THEOREM NeverOverwritten == Spec => WrittenOnce
<1>1. ASSUME OwnerInv, [Next]_vars, NEW p \in Path, disk[p].state = "whole"
      PROVE  disk'[p] = disk[p]
  <2>1. CASE UNCHANGED vars
    BY <2>1 DEF vars
  <2>2. ASSUME NEW w \in Writer, Step(w) PROVE disk'[p] = disk[p]
    <3>1. CASE Quiet(w)
      BY <3>1 DEF Quiet
    <3>2. ASSUME NEW q \in Path, Begins(w, q) PROVE disk'[p] = disk[p]
      BY <1>1, <3>2 DEF Begins, OwnerInv, TypeOK
    <3>3. CASE Completes(w)
      BY <1>1, <3>3 DEF Completes, OwnerInv, TypeOK, OneOwner
    <3>4. QED
      BY <1>1, <2>2, <3>1, <3>2, <3>3, StepKinds
  <2>3. QED
    BY <1>1, <2>1, <2>2 DEF Next
<1>2. OwnerInv /\ [Next]_vars =>
        [\A p \in Path : disk[p].state = "whole" => disk'[p] = disk[p]]_vars
  BY <1>1
<1>3. QED
  BY <1>2, Ownership, PTL DEF WrittenOnce, Spec, OwnerInv
-----------------------------------------------------------------------------
(* One-shot commands grow a tree.                                          *)

\* An open command stands on a stored artifact of its chain, or before the
\* first one; what it has emitted is attached to what is stored.  What a
\* session has emitted is its own.
CommandOK(w, c) ==
  /\ c.pc = "open" =>
       \/ w \in Session \/ c.previous = Genesis
       \/ /\ c.previous \in Stored /\ c.chain = c.previous.chain
          /\ c.previous.id \in c.ids
  /\ c.pc \in {"emitted", "writing"} =>
       IF w \in Session THEN c.previous.by = w ELSE Tree!Attached(c.previous)

TreeInv == OwnerInv /\ \A w \in Writer : CommandOK(w, cursor[w])

\* What is stored after a step of each kind.
LEMMA StoredAfter ==
  ASSUME OwnerInv, NEW w \in Writer
  PROVE  /\ Quiet(w) => Stored' = Stored
         /\ \A p \in Path : Begins(w, p) => Stored' = Stored
         /\ Completes(w) => Stored' = Stored \cup {cursor[w].previous}
<1>1. Quiet(w) => Stored' = Stored
  BY DEF Quiet, Stored
<1>2. ASSUME NEW p \in Path, Begins(w, p) PROVE Stored' = Stored
  <2>1. \A q \in Path : disk'[q] = IF q = p THEN File("torn", Genesis) ELSE disk[q]
    BY <1>2 DEF Begins, OwnerInv, TypeOK
  <2>2. \A q \in Path : disk'[q].state = "whole" <=> disk[q].state = "whole"
    BY <1>2, <2>1 DEF Begins, File
  <2>3. \A q \in Path : disk[q].state = "whole" => disk'[q] = disk[q]
    BY <1>2, <2>1 DEF Begins
  <2>4. QED
    BY <2>2, <2>3 DEF Stored
<1>3. ASSUME Completes(w) PROVE Stored' = Stored \cup {cursor[w].previous}
  <2> DEFINE p == cursor[w].out
  <2>1. p \in Path /\ disk[p].state = "torn"
    BY <1>3 DEF Completes, OwnerInv, TypeOK, OneOwner
  <2>2. \A q \in Path : disk'[q] = IF q = p THEN File("whole", cursor[w].previous) ELSE disk[q]
    BY <1>3 DEF Completes, OwnerInv, TypeOK
  <2>3. disk'[p].state = "whole" /\ disk'[p].record = cursor[w].previous
    BY <2>1, <2>2 DEF File
  <2> HIDE DEF p
  <2>4. \A q \in Path : disk'[q].state = "whole" <=> (q = p \/ disk[q].state = "whole")
    BY <2>2, <2>3
  <2>5. \A q \in Path : q # p => disk'[q] = disk[q]
    BY <2>2
  <2>6. QED
    BY <2>1, <2>3, <2>4, <2>5 DEF Stored
<1>4. QED
  BY <1>1, <1>2, <1>3

\* A step of a command keeps every cursor on what is stored.
LEMMA CommandStep ==
  ASSUME TreeInv, NEW w \in Writer, Step(w), Stored \subseteq Stored'
  PROVE  CommandOK(w, cursor[w])'
<1> DEFINE c == cursor[w]
<1>0. TypeOK /\ CommandOK(w, c)
  BY DEF TreeInv, OwnerInv
<1>1. ASSUME cursor' = [cursor EXCEPT ![w] = Closed] PROVE CommandOK(w, cursor[w])'
  BY <1>0, <1>1 DEF TypeOK, CommandOK, Closed, Cursor
<1>2. ASSUME cursor' = [cursor EXCEPT ![w] = AfterFailure(c, w)]
      PROVE  CommandOK(w, cursor[w])'
  <2>1. CASE w \in Session
    BY <1>0, <1>2, <2>1 DEF TypeOK, CommandOK, AfterFailure, Cursor
  <2>2. CASE w \notin Session
    BY <1>1, <1>2, <2>2 DEF AfterFailure
  <2>3. QED
    BY <2>1, <2>2
<1>3. ASSUME NEW k \in ChainId, OpenGenesis(w, k) PROVE CommandOK(w, cursor[w])'
  BY <1>0, <1>3 DEF OpenGenesis, TypeOK, CommandOK, Cursor
<1>4. ASSUME NEW p \in Path, OpenPrevious(w, p) PROVE CommandOK(w, cursor[w])'
  <2> DEFINE r == disk[p].record
             n == Cursor("open", r.chain, r, {r.id}, "none")
  <2>1. r \in Stored'
    BY <1>4 DEF OpenPrevious, Stored
  <2>2. cursor'[w] = n
    BY <1>0, <1>4 DEF OpenPrevious, TypeOK
  <2>3. n.pc = "open" /\ n.chain = r.chain /\ n.previous = r /\ r.id \in n.ids
    BY DEF Cursor
  <2> HIDE DEF n, r
  <2>4. QED
    BY <2>1, <2>2, <2>3 DEF CommandOK
<1>5. ASSUME NEW id \in RecordId, NEW body \in Body, NEW accepted \in BOOLEAN,
             Emit(w, id, body, accepted)
      PROVE  CommandOK(w, cursor[w])'
  <2> DEFINE r == Record(id, c.chain, c.previous, w, body, accepted)
             moved == Cursor("emitted", c.chain, r, c.ids \cup {id}, "none")
  <2>1. w \notin Session => c.pc = "open"
    BY <1>5 DEF Emit, Ready
  <2>2. CASE accepted /\ id \notin c.ids
    <3>1. r.prev = c.previous /\ r.chain = c.chain /\ r.id = id /\ r.seq = c.previous.seq + 1
          /\ r.by = w
      BY DEF Record
    <3>2. c.previous = Genesis => r.seq = 0
      BY <3>1 DEF Genesis
    <3>3. cursor'[w] = moved
      BY <1>0, <1>5, <2>2 DEF Emit, TypeOK
    <3>4. moved.pc = "emitted" /\ moved.previous = r
      BY DEF Cursor
    <3> HIDE DEF r, moved
    <3>5. \/ w \in Session \/ c.previous = Genesis
          \/ /\ c.previous \in Stored' /\ c.chain = c.previous.chain
             /\ c.previous.id \in c.ids
      BY <1>0, <2>1 DEF CommandOK
    <3> HIDE DEF c
    <3>6. \/ w \in Session
          \/ r.prev = Genesis /\ r.seq = 0
          \/ /\ r.prev \in Stored' /\ r.chain = r.prev.chain
             /\ r.seq = r.prev.seq + 1 /\ r.id # r.prev.id
      BY <2>2, <3>1, <3>2, <3>5
    <3>7. QED
      BY <3>1, <3>3, <3>4, <3>6 DEF CommandOK, Tree!Attached
  <2>3. CASE ~(accepted /\ id \notin c.ids)
    BY <1>2, <1>5, <2>3 DEF Emit
  <2>4. QED
    BY <2>2, <2>3
<1>6. ASSUME NEW p \in Path, Create(w, p) PROVE CommandOK(w, cursor[w])'
  <2> DEFINE n == Cursor("writing", c.chain, c.previous, c.ids, p)
  <2>1. CASE Begun(w, p)
    <3>1. cursor'[w] = n
      BY <1>0, <2>1 DEF Begun, TypeOK
    <3>2. n.pc = "writing" /\ n.previous = c.previous
      BY DEF Cursor
    <3>3. IF w \in Session THEN c.previous.by = w ELSE Tree!Attached(c.previous)
      BY <1>0, <1>6 DEF Create, CommandOK
    <3> HIDE DEF n
    <3>4. QED
      BY <3>1, <3>2, <3>3 DEF CommandOK, Tree!Attached
  <2>2. CASE cursor' = [cursor EXCEPT ![w] = AfterFailure(c, w)]
    BY <1>2, <2>2
  <2>3. QED
    BY <1>6, <2>1, <2>2 DEF Create
<1>7. ASSUME Complete(w) PROVE CommandOK(w, cursor[w])'
  BY <1>2, <1>7 DEF Complete
<1>8. ASSUME Crash(w) PROVE CommandOK(w, cursor[w])'
  BY <1>1, <1>8 DEF Crash
<1>9. QED
  BY <1>3, <1>4, <1>5, <1>6, <1>7, <1>8 DEF Step

\* A step of a command keeps the invariant and grows the tree, or stutters.
LEMMA TreeStep ==
  ASSUME TreeInv, NEW w \in Writer, Step(w)
  PROVE  TreeInv' /\ (Tree!Grow \/ Stored' = Stored)
<1>0. OwnerInv /\ OwnerInv' /\ TypeOK
  BY StepInv DEF TreeInv, OwnerInv
<1>1. Stored' = Stored \/ (Completes(w) /\ Stored' = Stored \cup {cursor[w].previous})
  BY <1>0, StepKinds, StoredAfter
<1>2. Moves(w)
  BY <1>0, StepKinds DEF Quiet, Begins, Completes
<1>3. \A v \in Writer : v # w => cursor'[v] = cursor[v]
  BY <1>0, <1>2 DEF Moves, TypeOK
<1>4. Stored \subseteq Stored'
  BY <1>1
<1>5. ASSUME NEW v \in Writer PROVE CommandOK(v, cursor[v])'
  <2>1. CASE v = w
    BY <1>4, <2>1, CommandStep
  <2>2. CASE v # w
    BY <1>3, <1>4, <2>2 DEF TreeInv, CommandOK, Tree!Attached
  <2>3. QED
    BY <2>1, <2>2
<1>6. ASSUME Completes(w), Stored' = Stored \cup {cursor[w].previous} PROVE Tree!Grow
  BY <1>6 DEF TreeInv, Completes, CommandOK, Tree!Grow
<1>7. QED
  BY <1>0, <1>1, <1>5, <1>6 DEF TreeInv

\* The commands implement the abstract tree: whatever number of them run at
\* once, crash or fail, what is stored only grows, one attached artifact at a
\* time.
THEOREM CommandsGrowTree == Spec => OneShotTree
<1>1. Init => TreeInv /\ Tree!TInit
  <2>1. Init => Stored = {}
    BY DEF Init, Stored, File
  <2>2. Init => \A w \in Writer : CommandOK(w, cursor[w])
    BY DEF Init, CommandOK, Closed, Cursor
  <2>3. QED
    BY <2>1, <2>2, InitInv DEF TreeInv, Tree!TInit
<1>2. TreeInv /\ [Next]_vars => TreeInv' /\ [Tree!Grow]_Stored
  <2>1. ASSUME TreeInv, UNCHANGED vars PROVE TreeInv' /\ Stored' = Stored
    <3>1. Stored' = Stored
      BY <2>1 DEF vars, Stored
    <3>2. OwnerInv'
      BY <2>1 DEF TreeInv, OwnerInv, TypeOK, OneOwner, vars, Emitted
    <3>3. \A w \in Writer : CommandOK(w, cursor[w])'
      BY <2>1, <3>1 DEF TreeInv, CommandOK, Tree!Attached, vars
    <3>4. QED
      BY <3>1, <3>2, <3>3 DEF TreeInv
  <2>2. QED
    BY <2>1, TreeStep DEF Next
<1>3. QED
  BY <1>1, <1>2, PTL DEF Spec, OneShotTree, Tree!TSpec
-----------------------------------------------------------------------------
(* What lies before a stored artifact, and what a failed link means.        *)

\* A set of naturals has a least member.
LEMMA LeastNumber ==
  ASSUME NEW T, T \subseteq Nat, T # {}
  PROVE  \E n \in T : \A m \in T : n <= m
<1> DEFINE R == OpToRel(<, Nat)
<1>1. IsWellFoundedOn(R, Nat)
  BY NatLessThanWellFounded
<1>2. \A m, n \in Nat : m < n => <<m, n>> \in R
  BY DEF OpToRel
<1> HIDE DEF R
<1>3. PICK n \in T : \A m \in T : ~(<<m, n>> \in R)
  BY <1>1, WFMin
<1>4. ASSUME NEW m \in T PROVE n <= m
  <2>1. m \in Nat /\ n \in Nat /\ <<m, n>> \notin R
    BY <1>3
  <2>2. ~(m < n)
    BY <1>2, <2>1
  <2>3. QED
    BY <2>1, <2>2
<1>5. QED
  BY <1>4

\* The walk back from an artifact that LineOf takes, one predecessor at a time.
Reach == 0..MaxSeq + 1

Before(b, r, n) == IF n = 0 THEN r ELSE IF b[n - 1] = Genesis THEN Genesis ELSE b[n - 1].prev

Back(r) == CHOOSE b : b = [n \in Reach |-> Before(b, r, n)]

\* A line is what the walk meets.
LEMMA LineIs == ASSUME NEW r PROVE LineOf(r) = {Back(r)[n] : n \in Reach} \ {Genesis}
  BY DEF LineOf, Back, Before, Reach

\* The recursion is defined: of the lengths at which no walk exists there is no
\* least one.
LEMMA BackIs ==
  ASSUME NEW r
  PROVE  Back(r) = [n \in Reach |-> Before(Back(r), r, n)]
<1> DEFINE Walk(b, m) == b = [n \in 0..m |-> Before(b, r, n)]
           T == {m \in Nat : ~\E b : Walk(b, m)}
<1>1. T = {}
  <2> SUFFICES ASSUME T # {} PROVE FALSE
    OBVIOUS
  <2>1. PICK m \in T : \A k \in T : m <= k
    BY LeastNumber
  <2>2. m # 0
    <3> DEFINE b == [n \in 0..0 |-> r]
    <3>1. b = [n \in 0..0 |-> Before(b, r, n)]
      BY DEF Before
    <3>2. QED
      BY <3>1
  <2>3. m \in Nat /\ m - 1 \in Nat /\ m - 1 \notin T
    BY <2>1, <2>2
  <2>4. PICK b : Walk(b, m - 1)
    BY <2>3
  <2> DEFINE v == IF b[m - 1] = Genesis THEN Genesis ELSE b[m - 1].prev
             c == [n \in 0..m |-> IF n = m THEN v ELSE b[n]]
  <2>5. ASSUME NEW n \in 0..m PROVE c[n] = Before(c, r, n)
    <3>1. CASE n = m
      <4>1. c[n] = v /\ c[n - 1] = b[n - 1] /\ n # 0
        BY <2>2, <2>3, <3>1
      <4>2. QED
        BY <3>1, <4>1 DEF Before
    <3>2. CASE n = 0
      BY <2>2, <2>3, <2>4, <3>2 DEF Before
    <3>3. CASE n # 0 /\ n # m
      <4>1. n \in 0..(m - 1) /\ n - 1 \in 0..m /\ n - 1 # m
        BY <2>3, <3>3
      <4>2. c[n] = b[n] /\ c[n - 1] = b[n - 1] /\ b[n] = Before(b, r, n)
        BY <2>4, <3>3, <4>1
      <4> HIDE DEF c
      <4>3. QED
        BY <3>3, <4>2 DEF Before
    <3>4. QED
      BY <3>1, <3>2, <3>3
  <2>6. Walk(c, m)
    <3>1. c = [n \in 0..m |-> c[n]]
      OBVIOUS
    <3> HIDE DEF c
    <3>2. QED
      BY <2>5, <3>1
  <2>7. QED
    BY <2>1, <2>6
<1>2. \E b : Walk(b, MaxSeq + 1)
  <2> HIDE DEF T
  <2>1. MaxSeq + 1 \in Nat /\ MaxSeq + 1 \notin T
    BY <1>1, MaxSeqAssumption
  <2>2. QED
    BY <2>1 DEF T
<1>3. \E b : b = [n \in Reach |-> Before(b, r, n)]
  BY <1>2 DEF Reach
<1>4. QED
  BY <1>3 DEF Back

\* A line is no more than its artifact and the line of the predecessor.
LEMMA LineGrows ==
  ASSUME NEW r, r # Genesis
  PROVE  LineOf(r) \subseteq {r} \cup (IF r.prev = Genesis THEN {} ELSE LineOf(r.prev))
<1> DEFINE b == Back(r)
           p == Back(r.prev)
           T == {n \in Nat : n + 1 \in Reach /\ b[n + 1] # p[n]}
<1>1. \A n \in Reach : b[n] = Before(b, r, n) /\ p[n] = Before(p, r.prev, n)
  BY BackIs
<1>2. T = {}
  <2> SUFFICES ASSUME T # {} PROVE FALSE
    OBVIOUS
  <2>1. PICK n \in T : \A k \in T : n <= k
    BY LeastNumber
  <2>2. n \in Nat /\ n + 1 \in Reach /\ n \in Reach /\ b[n + 1] # p[n]
    BY <2>1, MaxSeqAssumption DEF Reach
  <2> HIDE DEF b, p
  <2>3. CASE n = 0
    <3>1. 0 \in Reach /\ 1 \in Reach
      BY <2>2, <2>3
    <3>2. b[0] = r /\ b[1] = r.prev /\ p[0] = r.prev
      BY <1>1, <3>1 DEF Before
    <3>3. QED
      BY <2>2, <2>3, <3>2
  <2>4. CASE n # 0
    <3>1. n - 1 \in Nat /\ n - 1 \in Reach /\ ~(n <= n - 1) /\ (n - 1) + 1 = n
      BY <2>2, <2>4, MaxSeqAssumption DEF Reach
    <3>2. b[n] = p[n - 1]
      BY <2>1, <2>2, <3>1
    <3>3. b[n + 1] = IF b[n] = Genesis THEN Genesis ELSE b[n].prev
      BY <1>1, <2>2 DEF Before
    <3>4. p[n] = IF p[n - 1] = Genesis THEN Genesis ELSE p[n - 1].prev
      BY <1>1, <2>2, <2>4 DEF Before
    <3>5. QED
      BY <2>2, <3>2, <3>3, <3>4
  <2>5. QED
    BY <2>3, <2>4
<1> HIDE DEF b, p
<1>3. ASSUME r.prev = Genesis, NEW n \in Reach PROVE p[n] = Genesis
  <2> DEFINE U == {k \in Reach : p[k] # Genesis}
  <2> SUFFICES ASSUME U # {} PROVE FALSE
    OBVIOUS
  <2>1. U \subseteq Nat
    BY DEF Reach
  <2> HIDE DEF U
  <2>2. PICK k \in U : \A j \in U : k <= j
    BY <2>1, LeastNumber
  <2> USE DEF U
  <2>3. k # 0
    BY <1>1, <1>3, <2>2 DEF Before
  <2>4. k - 1 \in Reach /\ ~(k <= k - 1)
    BY <2>3, MaxSeqAssumption DEF Reach
  <2>5. QED
    BY <1>1, <2>2, <2>3, <2>4 DEF Before
<1>4. ASSUME NEW n \in Reach, n # 0 PROVE n - 1 \in Reach /\ b[n] = p[n - 1]
  <2>1. n - 1 \in Nat /\ n - 1 \in Reach /\ (n - 1) + 1 = n
    BY <1>4, MaxSeqAssumption DEF Reach
  <2>2. n - 1 \notin T
    BY <1>2
  <2> HIDE DEF b, p
  <2>3. QED
    BY <1>4, <2>1, <2>2
<1>5. b[0] = r
  BY <1>1, MaxSeqAssumption DEF Reach, Before
<1>6. LineOf(r) = {b[n] : n \in Reach} \ {Genesis}
  BY LineIs DEF b
<1>7. LineOf(r.prev) = {p[n] : n \in Reach} \ {Genesis}
  BY LineIs DEF p
<1>8. QED
  BY <1>3, <1>4, <1>5, <1>6, <1>7

\* An artifact is of its own line, and so is its predecessor.
LEMMA LineHas ==
  ASSUME NEW r, r # Genesis
  PROVE  r \in LineOf(r) /\ (r.prev # Genesis => r.prev \in LineOf(r))
<1> DEFINE b == Back(r)
<1>1. 0 \in Reach /\ 1 \in Reach
  BY MaxSeqAssumption DEF Reach
<1>2. \A n \in Reach : b[n] = Before(b, r, n)
  BY BackIs
<1>3. LineOf(r) = {b[n] : n \in Reach} \ {Genesis}
  BY LineIs
<1> HIDE DEF b
<1>4. b[0] = r /\ b[1] = r.prev
  BY <1>1, <1>2 DEF Before
<1>5. QED
  BY <1>1, <1>3, <1>4

\* An artifact follows an emitted one of its chain, or opens the chain.
Linked(r) ==
  \/ r.prev = Genesis /\ r.seq = 0
  \/ r.prev # Genesis /\ Emitted(r.prev) /\ r.prev.chain = r.chain /\ r.seq = r.prev.seq + 1

\* An artifact of an honest writer: linked, and accepted with all before it.
Rightful(r) == Emitted(r) /\ Linked(r) /\ \A q \in LineOf(r) : q.valid

\* A Chain object stands before the first artifact or on one of its chain.
StandsOK(c) == c.previous # Genesis => Rightful(c.previous) /\ c.chain = c.previous.chain

LineInv ==
  /\ OwnerInv
  /\ \A p \in Path : disk[p].state = "whole" => Rightful(disk[p].record)
  /\ \A w \in Writer : StandsOK(cursor[w])

\* An emitted artifact is not the absence of one.
LEMMA EmittedIs == ASSUME NEW r, Emitted(r) PROVE r # Genesis
  BY MaxSeqAssumption DEF Emitted, Genesis

\* What emit() returns after an accepted artifact, or at the start of a chain.
LEMMA EmitsRightful ==
  ASSUME NEW c, NEW w \in Writer, NEW id \in RecordId, NEW body,
         CursorOK(c), StandsOK(c), c.pc # "closed", c.previous.seq < MaxSeq
  PROVE  LET r == Record(id, c.chain, c.previous, w, body, TRUE)
         IN  Rightful(r) /\ r.chain = c.chain
<1> DEFINE r == Record(id, c.chain, c.previous, w, body, TRUE)
<1>1. r.id = id /\ r.chain = c.chain /\ r.prev = c.previous /\ r.by = w /\ r.valid
      /\ r.seq = c.previous.seq + 1
  BY DEF Record
<1> HIDE DEF r
<1>2. c.chain \in ChainId /\ c.previous.seq \in -1..MaxSeq
  BY MaxSeqAssumption DEF CursorOK, Emitted, Genesis
<1>3. Emitted(r)
  BY <1>1, <1>2, MaxSeqAssumption DEF Emitted
<1>4. Linked(r)
  BY <1>1 DEF Linked, StandsOK, Rightful, Genesis
<1>5. \A q \in LineOf(r) : q.valid
  <2>1. LineOf(r) \subseteq {r} \cup (IF r.prev = Genesis THEN {} ELSE LineOf(r.prev))
    BY <1>3, EmittedIs, LineGrows
  <2>2. QED
    BY <1>1, <2>1 DEF StandsOK, Rightful
<1>6. QED
  BY <1>1, <1>3, <1>4, <1>5 DEF Rightful, r

\* A step leaves every Chain object on an artifact of an honest writer.
LEMMA StandsStep ==
  ASSUME LineInv, NEW w \in Writer, Step(w)
  PROVE  StandsOK(cursor'[w])
<1> DEFINE c == cursor[w]
<1>0. TypeOK /\ CursorOK(c) /\ StandsOK(c)
  BY CursorsOK DEF LineInv, OwnerInv
<1>1. StandsOK(Closed) /\ StandsOK(AfterFailure(c, w))
  BY <1>0 DEF StandsOK, Closed, AfterFailure, Cursor
<1>2. ASSUME NEW k \in ChainId, OpenGenesis(w, k) PROVE StandsOK(cursor'[w])
  BY <1>0, <1>2 DEF OpenGenesis, TypeOK, StandsOK, Cursor
<1>3. ASSUME NEW p \in Path, OpenPrevious(w, p) PROVE StandsOK(cursor'[w])
  <2> DEFINE r == disk[p].record
             n == Cursor("open", r.chain, r, {r.id}, "none")
  <2>1. Rightful(r)
    BY <1>3 DEF OpenPrevious, LineInv
  <2>2. cursor'[w] = n
    BY <1>0, <1>3 DEF OpenPrevious, TypeOK
  <2>3. n.previous = r /\ n.chain = r.chain
    BY DEF Cursor
  <2> HIDE DEF n, r
  <2>4. QED
    BY <2>1, <2>2, <2>3 DEF StandsOK
<1>4. ASSUME NEW id \in RecordId, NEW body \in Body, NEW accepted \in BOOLEAN,
             Emit(w, id, body, accepted)
      PROVE  StandsOK(cursor'[w])
  <2>1. c.pc # "closed" /\ c.previous.seq < MaxSeq
    BY <1>4 DEF Emit, Ready
  <2>2. CASE accepted /\ id \notin c.ids
    <3> DEFINE r == Record(id, c.chain, c.previous, w, body, TRUE)
               n == Cursor("emitted", c.chain, r, c.ids \cup {id}, "none")
    <3>1. accepted = TRUE
      BY <2>2
    <3>2. cursor'[w] = n
      BY <1>0, <1>4, <2>2, <3>1 DEF Emit, TypeOK
    <3>3. Rightful(r) /\ r.chain = c.chain
      BY <1>0, <2>1, EmitsRightful
    <3>4. n.previous = r /\ n.chain = c.chain
      BY DEF Cursor
    <3> HIDE DEF n, r, c
    <3>5. QED
      BY <3>2, <3>3, <3>4 DEF StandsOK
  <2>3. CASE ~(accepted /\ id \notin c.ids)
    BY <1>0, <1>1, <1>4, <2>3 DEF Emit, TypeOK
  <2>4. QED
    BY <2>2, <2>3
<1>5. ASSUME NEW p \in Path, Create(w, p) PROVE StandsOK(cursor'[w])
  BY <1>0, <1>1, <1>5 DEF Create, Begun, TypeOK, StandsOK, Cursor
<1>6. ASSUME Complete(w) PROVE StandsOK(cursor'[w])
  BY <1>0, <1>1, <1>6 DEF Complete, TypeOK
<1>7. ASSUME Crash(w) PROVE StandsOK(cursor'[w])
  BY <1>0, <1>1, <1>7 DEF Crash, TypeOK
<1>8. QED
  BY <1>2, <1>3, <1>4, <1>5, <1>6, <1>7 DEF Step

\* What is stored, or held by a writer, is rightful in every run.
LEMMA LineStays == Spec => []LineInv
<1>1. Init => LineInv
  <2>1. ASSUME Init PROVE \A w \in Writer : StandsOK(cursor[w])
    BY <2>1 DEF Init, Closed, Cursor, StandsOK
  <2>2. QED
    BY <2>1, InitInv DEF Init, LineInv, File
<1>2. ASSUME LineInv, NEW w \in Writer, Step(w) PROVE LineInv'
  <2>0. TypeOK /\ OwnerInv'
    BY <1>2, StepInv DEF LineInv, OwnerInv
  <2>1. Moves(w)
    BY <1>2, StepKinds DEF Quiet, Begins, Completes, LineInv
  <2>2. \A v \in Writer : v # w => cursor'[v] = cursor[v]
    BY <2>0, <2>1 DEF Moves, TypeOK
  <2>3. \A v \in Writer : StandsOK(cursor'[v])
    BY <1>2, <2>2, StandsStep DEF LineInv
  <2>4. ASSUME NEW p \in Path, disk'[p].state = "whole" PROVE Rightful(disk'[p].record)
    <3>1. CASE Quiet(w)
      BY <1>2, <2>4, <3>1 DEF Quiet, LineInv
    <3>2. ASSUME NEW q \in Path, Begins(w, q) PROVE Rightful(disk'[p].record)
      <4>1. p # q /\ disk'[p] = disk[p]
        BY <2>0, <2>4, <3>2 DEF Begins, TypeOK, File
      <4>2. QED
        BY <1>2, <2>4, <4>1 DEF LineInv
    <3>3. CASE Completes(w)
      <4>1. cursor[w].previous # Genesis /\ cursor[w].out \in Path
        BY <2>0, <3>3, EmittedIs DEF Completes, TypeOK
      <4>2. disk'[p] = IF p = cursor[w].out THEN File("whole", cursor[w].previous) ELSE disk[p]
        BY <2>0, <3>3, <4>1 DEF Completes, TypeOK
      <4>3. QED
        BY <1>2, <2>4, <4>1, <4>2 DEF LineInv, StandsOK, File
    <3>4. QED
      BY <1>2, <3>1, <3>2, <3>3, StepKinds DEF LineInv
  <2>5. \A v \in Writer : StandsOK(cursor[v])'
    BY <2>3 DEF StandsOK, Rightful, Emitted, Linked, LineOf
  <2>6. \A p \in Path : (disk[p].state = "whole" => Rightful(disk[p].record))'
    BY <2>4 DEF Rightful, Emitted, Linked, LineOf
  <2>7. QED
    BY <2>0, <2>5, <2>6 DEF LineInv
<1>3. ASSUME LineInv, UNCHANGED vars PROVE LineInv'
  <2>1. disk' = disk /\ cursor' = cursor
    BY <1>3 DEF vars
  <2>2. OwnerInv'
    BY <1>3, <2>1 DEF LineInv, OwnerInv, TypeOK, OneOwner, Emitted
  <2>3. QED
    BY <1>3, <2>1, <2>2 DEF LineInv, StandsOK, Rightful, Emitted, Linked, LineOf
<1>4. LineInv /\ [Next]_vars => LineInv'
  BY <1>2, <1>3 DEF Next
<1>5. QED
  BY <1>1, <1>4, PTL DEF Spec

\* No predecessor of a stored artifact, stored or lost, was refused by
\* check_core: emit() moves the cursor only past what was accepted.
THEOREM AncestorsAccepted == Spec => []AncestorsAdmissible
<1>1. LineInv => AncestorsAdmissible
  BY DEF LineInv, Rightful, AncestorsAdmissible, Line, Stored
<1>2. QED
  BY <1>1, LineStays, PTL

\* Between honest writers a failed link is evidence of a fork, whatever part of
\* the stored artifacts a reader was given: the record supplied at the position
\* before is then another than the predecessor, which somebody emitted.
THEOREM FailuresAreForks == Spec => []FailureMeansFork
<1>1. ASSUME LineInv, NEW A \in Parts, NEW i \in DOMAIN A, LinkState(A, i) = "FAILURE"
      PROVE  Fork
  <2>1. PICK part \in SUBSET Stored : A = [r \in part |-> r]
    BY DEF Parts
  <2>2. \A r \in part : A[r] = r /\ Rightful(r)
    BY <1>1, <2>1 DEF LineInv, Stored
  <2>3. \A k : ChainOf(A, k) = {r \in part : r.chain = k}
    BY <2>1, <2>2 DEF ChainOf, Admitted, Rightful, Emitted
  <2> DEFINE chain == {r \in part : r.chain = i.chain}
             matches == {j \in chain : A[j] = A[i].prev}
             adjacent == {j \in chain : A[j].seq = A[i].seq - 1}
  <2>4. i \in part /\ A[i] = i /\ i \in chain
    BY <2>1
  <2>5. ChainOf(A, A[i].chain) = chain /\ Position(A, A[i].chain, A[i].seq - 1) = adjacent
    BY <2>3, <2>4 DEF Position
  <2>6. \A r \in part : r.seq \in 0..MaxSeq
    BY <2>2 DEF Rightful, Emitted
  <2>7. i.prev # Genesis
    <3>1. SUFFICES ASSUME i.prev = Genesis PROVE FALSE
      OBVIOUS
    <3>2. i.seq = 0
      BY <2>2, <2>4, <3>1 DEF Rightful, Linked
    <3>3. \A j \in chain : A[j].seq >= A[i].seq
      BY <2>2, <2>4, <2>6, <3>2, MaxSeqAssumption
    <3>4. LinkState(A, i) = "SATISFIED"
      BY <2>4, <2>5, <3>1, <3>3 DEF LinkState, Verdict
    <3>5. QED
      BY <1>1, <3>4
  <2>8. /\ Emitted(i.prev) /\ i.prev.chain = i.chain /\ i.seq = i.prev.seq + 1
        /\ i.prev.seq \in 0..MaxSeq
    BY <2>2, <2>4, <2>7 DEF Rightful, Linked, Emitted
  <2>9. CASE i.prev \in part
    <3>1. matches = {i.prev}
      BY <2>2, <2>4, <2>8, <2>9
    <3>2. Cardinality(matches) = 1
      BY <3>1, FS_Singleton
    <3>3. Increases(A, i, i.prev)
      <4>1. A[i.prev] = i.prev
        BY <2>2, <2>9
      <4>2. \A k \in chain : A[k].seq \in 0..MaxSeq
        BY <2>2, <2>6
      <4>3. \A k \in chain : ~(A[i.prev].seq < A[k].seq /\ A[k].seq < A[i].seq)
        BY <2>4, <2>8, <4>1, <4>2, MaxSeqAssumption
      <4>4. QED
        BY <2>4, <2>5, <2>8, <4>1, <4>3, MaxSeqAssumption DEF Increases
    <3>4. \E j \in matches : Increases(A, i, j)
      BY <3>1, <3>3
    <3>5. LinkState(A, i) = "SATISFIED"
      BY <2>4, <2>5, <2>7, <3>2, <3>4 DEF LinkState, Verdict
    <3>6. QED
      BY <1>1, <3>5
  <2>10. CASE i.prev \notin part
    <3>1. matches = {}
      BY <2>2, <2>4, <2>10
    <3>2. Cardinality(matches) = 0
      BY <3>1, FS_EmptySet
    <3>3. i.seq # 0
      BY <2>8, MaxSeqAssumption
    <3>4. Cardinality(adjacent) = 1
      <4>1. Cardinality(matches) # 1 /\ ~(Cardinality(matches) > 1)
        BY <3>2
      <4> HIDE DEF matches, adjacent
      <4>2. LinkState(A, i) = CASE Cardinality(adjacent) = 1 -> "FAILURE"
                                [] Cardinality(adjacent) > 1 -> "NOT_EVALUATED"
                                [] OTHER -> "MISSING"
        BY <2>4, <2>5, <2>7, <3>3, <4>1 DEF LinkState, matches
      <4>3. QED
        BY <1>1, <4>2
    <3>5. PICK j \in adjacent : TRUE
      <4> HIDE DEF adjacent
      <4>1. QED
        BY <3>4, FS_EmptySet
    <3>6. j \in part /\ j.chain = i.chain /\ j.seq = i.seq - 1
      BY <2>2, <2>4, <3>5
    <3>7. j # i.prev /\ j.chain = i.prev.chain /\ j.seq = i.prev.seq
      BY <2>8, <2>10, <3>6, MaxSeqAssumption
    <3>8. j # Genesis /\ i # Genesis
      BY <2>2, <2>4, <3>6, EmittedIs DEF Rightful
    <3>9. j \in LineOf(j) /\ i.prev \in LineOf(i)
      BY <2>7, <3>8, LineHas
    <3>10. j \in Line /\ i.prev \in Line
      BY <2>4, <3>6, <3>9 DEF Line
    <3>11. QED
      BY <3>7, <3>10 DEF Fork
  <2>11. QED
    BY <2>9, <2>10
<1>2. LineInv => FailureMeansFork
  BY <1>1 DEF FailureMeansFork
<1>3. QED
  BY <1>2, LineStays, PTL
=============================================================================
