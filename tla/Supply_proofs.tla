--------------------------- MODULE Supply_proofs ----------------------------
(***************************************************************************)
(* For any artifacts supplied in any number, by anyone: what satisfied     *)
(* links and an assessment "independent" mean.                             *)
(***************************************************************************)
EXTENDS Supply, FiniteSetTheorems, TLAPS

\* The list is finite and its artifacts have natural sequences.
SupplyInv == IsFiniteSet(supply) /\ \A o \in supply : o[1].seq \in Nat

\* The invariant of the supply.
LEMMA SupplyStays == Spec => []SupplyInv
<1>1. Init => SupplyInv
  BY FS_EmptySet DEF Init, SupplyInv
<1>2. SupplyInv /\ [Next]_supply => SupplyInv'
  <2>1. ASSUME SupplyInv, NEW pool \in Pools, NEW artifact \in pool.artifacts,
               NEW copy \in 1..pool.copies, Add(artifact, copy)
        PROVE  SupplyInv'
    <3>1. artifact.seq \in Nat
      BY SequenceAssumption
    <3>2. IsFiniteSet(supply \cup {<<artifact, copy>>})
      BY <2>1, FS_AddElement DEF SupplyInv
    <3>3. QED
      BY <2>1, <3>1, <3>2 DEF SupplyInv, Add
  <2>2. QED
    BY <2>1 DEF SupplyInv, Next
<1>3. QED
  BY <1>1, <1>2, PTL DEF Spec

\* What A is: a function on the occurrences, with natural sequences.
LEMMA SupplyIs ==
  ASSUME SupplyInv
  PROVE  DOMAIN A = supply /\ \A i \in supply : A[i].seq \in Nat
  BY DEF SupplyInv, A, List

\* A link is satisfied in two ways only.
LEMMA SatisfiedLink ==
  ASSUME NEW i, LinkState(A, i) = "SATISFIED"
  PROVE  \/ A[i].prev = Genesis /\ \A j \in ChainOf(A, A[i].chain) : A[j].seq >= A[i].seq
         \/ \E j \in ChainOf(A, A[i].chain) : A[j] = A[i].prev /\ Increases(A, i, j)
<1> DEFINE matches == {j \in ChainOf(A, A[i].chain) : A[j] = A[i].prev}
           n == Cardinality(matches)
           rest == CASE A[i].seq = 0 -> "FAILURE"
                     [] Cardinality(Position(A, A[i].chain, A[i].seq - 1)) = 1 -> "FAILURE"
                     [] Cardinality(Position(A, A[i].chain, A[i].seq - 1)) > 1 -> "NOT_EVALUATED"
                     [] OTHER -> "MISSING"
<1>1. CASE A[i].prev = Genesis
  BY <1>1 DEF LinkState, Verdict
<1>2. CASE A[i].prev # Genesis /\ n = 1
  BY <1>2 DEF LinkState, Verdict
<1>3. CASE A[i].prev # Genesis /\ n # 1 /\ n > 1
  BY <1>3 DEF LinkState
<1>4. CASE A[i].prev # Genesis /\ n # 1 /\ ~(n > 1)
  <2>1. LinkState(A, i) = rest
    BY <1>4 DEF LinkState
  <2>2. rest # "SATISFIED"
    OBVIOUS
  <2>3. QED
    BY <2>1, <2>2
<1>5. QED
  BY <1>1, <1>2, <1>3, <1>4

\* Where chain_link is satisfied for every supplied position, so is each link.
LEMMA LinksSatisfied ==
  ASSUME \A c \in Checks(A) : c.check = "chain_link" => c.state = "SATISFIED",
         NEW i \in Admitted(A)
  PROVE  LinkState(A, i) = "SATISFIED"
<1> DEFINE subject == <<A[i].chain, A[i].seq>>
<1>1. \A c \in PositionChecks(A, i) : c.check = "chain_link" => c.state = "SATISFIED"
  BY DEF Checks, ChainChecks
<1>2. Position(A, A[i].chain, A[i].seq) = {i}
  <2>1. SUFFICES ASSUME Position(A, A[i].chain, A[i].seq) # {i} PROVE FALSE
    OBVIOUS
  <2>2. Check("chain_link", subject, "NOT_EVALUATED") \in PositionChecks(A, i)
    BY <2>1 DEF PositionChecks
  <2>3. QED
    BY <1>1, <2>2 DEF Check
<1>3. LinkState(A, i) # "MISSING"
  <2>1. SUFFICES ASSUME LinkState(A, i) = "MISSING" PROVE FALSE
    OBVIOUS
  <2>2. Check("chain_link", subject, "NOT_EVALUATED") \in PositionChecks(A, i)
    BY <1>2, <2>1 DEF PositionChecks
  <2>3. QED
    BY <1>1, <2>2 DEF Check
<1>4. Check("chain_link", subject, LinkState(A, i)) \in PositionChecks(A, i)
  BY <1>2, <1>3 DEF PositionChecks
<1>5. QED
  BY <1>1, <1>4 DEF Check

\* Satisfied links order every chain totally, whoever wrote it: for all
\* artifacts, in any number.
THEOREM LinksOrderEveryChain == Spec => []LinksOrderChain
<1>1. ASSUME SupplyInv PROVE LinksOrderChain
  <2> SUFFICES
        ASSUME \A c \in Checks(A) : c.check = "chain_link" => c.state = "SATISFIED",
               NEW i \in Admitted(A)
        PROVE  LET before == {j \in ChainOf(A, A[i].chain) : A[j].seq < A[i].seq} IN
               IF before = {} THEN A[i].prev = Genesis
               ELSE \E j \in before : A[i].prev = A[j] /\ \A k \in before : A[k].seq <= A[j].seq
    BY DEF LinksOrderChain
  <2> DEFINE chain == ChainOf(A, A[i].chain)
             before == {j \in chain : A[j].seq < A[i].seq}
  <2>1. \A j \in chain : A[j].seq \in Nat
    BY <1>1, SupplyIs DEF ChainOf, Admitted
  <2>2. A[i].seq \in Nat
    BY <1>1, SupplyIs DEF Admitted
  <2>3. LinkState(A, i) = "SATISFIED"
    BY LinksSatisfied
  <2>4. CASE A[i].prev = Genesis /\ \A j \in chain : A[j].seq >= A[i].seq
    <3>1. before = {}
      BY <2>1, <2>2, <2>4
    <3>2. QED
      BY <2>4, <3>1
  <2>5. ASSUME NEW j \in chain, A[j] = A[i].prev, Increases(A, i, j)
        PROVE  j \in before /\ A[i].prev = A[j] /\ \A k \in before : A[k].seq <= A[j].seq
    BY <2>1, <2>2, <2>5 DEF Increases
  <2>6. QED
    BY <2>3, <2>4, <2>5, SatisfiedLink
<1>2. QED
  BY <1>1, SupplyStays, PTL

\* "independent" is assessed only against the one execution that both resolvers
\* find, and never by a producer of itself.
THEOREM IndependenceAlwaysProven == Spec => []IndependenceProven
<1>1. IndependenceProven
  <2> SUFFICES ASSUME NEW i \in OfFamily(A, "effect"), Assessed(A, i) = "independent"
               PROVE  /\ Resolved(A, A[i].body.exec, "execution") = "SATISFIED"
                      /\ \A j \in SameId(A, A[i].body.exec.id) : A[j].by # A[i].by
    BY DEF IndependenceProven
  <2> DEFINE x == A[i].body.exec
  <2>1. PICK j \in ActualExecution(A, i) : {A[i].by, A[j].by} \in Independent
    BY DEF Assessed
  <2>2. /\ A[j].body.type = "execution" /\ x.chain \in {AnyChain, A[j].chain}
        /\ SameId(A, x.id) = {j}
    BY <2>1 DEF ActualExecution, EngineExecution, SameId
  <2>3. Cardinality(SameId(A, x.id)) = 1
    BY <2>2, FS_Singleton
  <2>4. Resolved(A, x, "execution") = "SATISFIED"
    BY <2>2, <2>3 DEF Resolved, Verdict
  <2>5. A[j].by # A[i].by
    BY <2>1, IndependentAssumption
  <2>6. QED
    BY <2>2, <2>4, <2>5
<1>2. QED
  BY <1>1, PTL
-----------------------------------------------------------------------------
(* What it means that every check but coverage is satisfied.               *)

\* Such a check is satisfied.
LEMMA SettledCheck ==
  ASSUME Settled, NEW c \in Checks(A), c.check # "intended_target_coverage"
  PROVE  c.state = "SATISFIED"
  BY DEF Settled, Open, Failures

\* Every supplied artifact is admitted, and the only one of its identity.
LEMMA SettledUnique ==
  ASSUME Settled
  PROVE  Admitted(A) = DOMAIN A /\ Unique(A) = DOMAIN A
<1>1. AdmissionChecks(A) \subseteq Checks(A)
  BY DEF Checks
<1>2. ASSUME NEW i \in DOMAIN A PROVE i \in Admitted(A)
  <2>1. SUFFICES ASSUME i \notin Admitted(A) PROVE FALSE
    OBVIOUS
  <2>2. Check("artifact_admission", <<i>>, "FAILURE") \in Checks(A)
    BY <1>1, <2>1 DEF AdmissionChecks
  <2>3. QED
    BY <2>2, SettledCheck DEF Check
<1>3. ASSUME NEW i \in Admitted(A) PROVE i \in Unique(A)
  <2>1. Check("record_identity", <<A[i].id>>, Verdict(i \in Unique(A), "INDETERMINATE")) \in Checks(A)
    BY <1>1 DEF AdmissionChecks
  <2>2. QED
    BY <2>1, SettledCheck DEF Check, Verdict
<1>4. QED
  BY <1>2, <1>3 DEF Admitted, Unique

\* Every artifact that refers to a decision is decided by the one it names.
LEMMA SettledDecided ==
  ASSUME Settled, NEW i \in DOMAIN A, A[i].body.type # "decision"
  PROVE  DecidedBy(A, i, A[i].body.decision.id)
<1> DEFINE state == Resolved(A, A[i].body.decision, "decision")
<1>1. i \in Unique(A) \ OfFamily(A, "decision")
  BY SettledUnique DEF OfFamily
<1>2. Check("decision_reference", RefOf(A[i]), state) \in Checks(A)
  <2>1. Check("decision_reference", RefOf(A[i]), state) \in ReferenceChecks(A, i)
    BY DEF ReferenceChecks
  <2>2. QED
    BY <1>1, <2>1 DEF Checks, CorrelationChecks
<1>3. state = "SATISFIED"
  BY <1>2, SettledCheck DEF Check
<1>4. QED
  BY <1>1, <1>3 DEF DecidedBy

\* There is exactly one decision of that identity.
LEMMA SettledOneDecision ==
  ASSUME Settled, NEW i \in DOMAIN A, A[i].body.type # "decision"
  PROVE  Cardinality({d \in Supplied("decision") : d.id = A[i].body.decision.id}) = 1
<1> DEFINE ref == A[i].body.decision
<1>1. Resolved(A, ref, "decision") = "SATISFIED"
  BY SettledDecided DEF DecidedBy
<1>2. SameId(A, ref.id) # {}
  BY <1>1 DEF Resolved
<1>3. PICK j \in SameId(A, ref.id) : TRUE
  BY <1>2
<1>4. j \in DOMAIN A /\ A[j].id = ref.id /\ SameId(A, ref.id) = {j}
  BY <1>3, SettledUnique DEF SameId, Unique, Admitted
<1>5. A[j].body.type = "decision"
  <2>1. Cardinality(SameId(A, ref.id)) = 1
    BY <1>4, FS_Singleton
  <2>2. QED
    BY <1>1, <1>2, <1>4, <2>1 DEF Resolved, Verdict
<1>6. {d \in Supplied("decision") : d.id = ref.id} = {A[j]}
  BY <1>4, <1>5, SettledUnique DEF Supplied, SameId
<1>7. QED
  BY <1>6, FS_Singleton

\* A set of which one image is all there is.
LEMMA OneImage ==
  ASSUME NEW S, IsFiniteSet(S), NEW f, DOMAIN f = S, Cardinality({f[s] : s \in S}) = 1,
         NEW s \in S, NEW t \in S
  PROVE  f[s] = f[t]
<1> DEFINE T == {f[u] : u \in S}
           g == [u \in S |-> f[u]]
<1>1. g \in Surjection(S, T)
  BY DEF Surjection
<1>2. IsFiniteSet(T)
  BY <1>1, FS_Surjection
<1>3. PICK x : T = {x}
  BY <1>2, FS_Singleton
<1>4. f[s] \in T /\ f[t] \in T
  OBVIOUS
<1>5. QED
  BY <1>3, <1>4

\* What the group of a settled execution has to say.
LEMMA SettledGroup ==
  ASSUME SupplyInv, Settled, NEW i \in DOMAIN A, A[i].body.type = "execution"
  PROVE  /\ A[i].body.event = "executed"
         /\ \E c \in DOMAIN A :
              /\ A[c].body.type = "control" /\ SameInstruction(A[c], A[i])
              /\ A[c].body.event = "received" /\ A[c].body.side = "receiver"
         /\ \A c \in DOMAIN A :
              A[c].body.type = "control" /\ SameInstruction(A[c], A[i]) =>
                A[c].body.action = A[i].body.action /\ A[c].body.digest = A[i].body.digest
<1> DEFINE d == A[i].body.decision.id
           instr == A[i].body.instr
           group == Group(A, d, instr)
           controls == group \cap OfFamily(A, "control")
           executions == group \cap OfFamily(A, "execution")
           receipts == {c \in controls : A[c].body.event = "received" /\ A[c].body.side = "receiver"}
           digests == {A[k].body.digest : k \in group}
<1>1. i \in Steps(A) /\ DecidedBy(A, i, d)
  BY SettledUnique, SettledDecided DEF Steps, OfFamily
<1>2. GroupChecks(A, d, instr) \subseteq Checks(A)
  BY <1>1 DEF Checks
<1>3. i \in executions
  BY <1>1 DEF Group, OfFamily, Steps, DecidedBy
<1>4. A[i].body.event = "executed"
  <2>1. Check("execution_outcome", RefOf(A[i]), Verdict(A[i].body.event = "executed", "FAILURE"))
          \in GroupChecks(A, d, instr)
    BY <1>3, SMTT(20) DEF GroupChecks
  <2>2. QED
    BY <1>2, <2>1, SettledCheck DEF Check, Verdict
<1>5. receipts # {}
  <2>1. Check("receiver_receipt", <<d, instr>>, Verdict(receipts # {}, "MISSING"))
          \in GroupChecks(A, d, instr)
    BY DEF GroupChecks
  <2>2. QED
    BY <1>2, <2>1, SettledCheck DEF Check, Verdict
<1>6. Cardinality(digests) = 1
  <2>1. Check("instruction_digest_agreement", <<d, instr>>,
              Verdict(Cardinality(digests) = 1, "FAILURE")) \in GroupChecks(A, d, instr)
    BY DEF GroupChecks
  <2>2. QED
    BY <1>2, <2>1, SettledCheck DEF Check, Verdict
<1>7. AllAgree(A, controls, executions)
  <2>1. controls # {} /\ executions # {}
    BY <1>3, <1>5
  <2>2. Check("toctou", <<d, instr>>, Verdict(AllAgree(A, controls, executions), "FAILURE"))
          \in GroupChecks(A, d, instr)
    BY <2>1 DEF GroupChecks
  <2>3. QED
    BY <1>2, <2>2, SettledCheck DEF Check, Verdict
<1>8. ASSUME NEW c \in DOMAIN A, A[c].body.type = "control", SameInstruction(A[c], A[i])
      PROVE  c \in controls
  <2>1. DecidedBy(A, c, A[c].body.decision.id)
    BY <1>8, SettledDecided
  <2>2. QED
    BY <1>8, <2>1, SettledUnique DEF SameInstruction, Group, Steps, OfFamily
<1>9. ASSUME NEW c \in controls PROVE A[c].body.digest = A[i].body.digest
  <2> DEFINE f == [k \in group |-> A[k].body.digest]
  <2>1. IsFiniteSet(group)
    <3>1. group \subseteq supply
      BY SupplyIs DEF Group, Steps, OfFamily, Unique, Admitted
    <3>2. QED
      BY <3>1, FS_Subset DEF SupplyInv
  <2>2. digests = {f[k] : k \in group}
    OBVIOUS
  <2>3. c \in group /\ i \in group /\ DOMAIN f = group
    BY <1>3
  <2>4. f[c] = f[i]
    <3>1. Cardinality({f[k] : k \in group}) = 1
      BY <1>6, <2>2
    <3> HIDE DEF f, group
    <3>2. QED
      BY <2>1, <2>3, <3>1, OneImage
  <2>5. QED
    BY <2>3, <2>4
<1>10. PICK c \in receipts : TRUE
  BY <1>5
<1>11. c \in DOMAIN A /\ A[c].body.type = "control" /\ SameInstruction(A[c], A[i])
       /\ A[c].body.event = "received" /\ A[c].body.side = "receiver"
  BY <1>10 DEF Group, DecidedBy, OfFamily, Unique, Admitted, SameInstruction
<1>12. QED
  BY <1>3, <1>4, <1>7, <1>8, <1>9, <1>11 DEF AllAgree

\* A settled execution has an effect that is bound to it.
LEMMA SettledEffect ==
  ASSUME Settled, NEW i \in DOMAIN A, A[i].body.type = "execution"
  PROVE  \E e \in Supplied("effect") : /\ e.body.exec.id = A[i].id
                                       /\ e.body.decision.id = A[i].body.decision.id
<1>1. i \in OfFamily(A, "execution")
  BY SettledUnique DEF OfFamily
<1>2. EffectEvidence(A, i) \in Checks(A)
  <2>1. EffectEvidence(A, i) \in {EffectEvidence(A, k) : k \in OfFamily(A, "execution")}
    BY <1>1
  <2>2. EffectEvidence(A, i) \in EffectChecks(A)
    BY <2>1 DEF EffectChecks
  <2>3. QED
    BY <2>2 DEF Checks
<1>3. PICK k \in OfFamily(A, "effect") : A[k].body.exec.id = A[i].id /\ BindingState(A, k) = "SATISFIED"
  BY <1>2, SettledCheck DEF EffectEvidence, Check, Verdict
<1>4. i \in SameId(A, A[k].body.exec.id)
  BY <1>3, SettledUnique DEF SameId
<1>5. A[i].body.decision.id = A[k].body.decision.id
  BY <1>3, <1>4 DEF BindingState, Verdict
<1>6. QED
  BY <1>3, <1>5 DEF Supplied, OfFamily, Unique, Admitted

\* What reconciliation leaves nothing open about was authorised: for every list
\* of artifacts, of any length and any origin.
THEOREM SettledMeansAuthorised == Spec => []NothingUnauthorised
<1>1. ASSUME SupplyInv PROVE NothingUnauthorised
  <2> SUFFICES ASSUME Settled, NEW x \in Supplied("execution")
               PROVE
        LET controls == {c \in Supplied("control") : SameInstruction(c, x)} IN
        /\ x.body.event = "executed"
        /\ Cardinality({d \in Supplied("decision") : d.id = x.body.decision.id}) = 1
        /\ \E c \in controls : <<c.body.event, c.body.side>> = <<"received", "receiver">>
        /\ \A c \in controls : c.body.action = x.body.action /\ c.body.digest = x.body.digest
        /\ \E e \in Supplied("effect") : /\ e.body.exec.id = x.id
                                         /\ e.body.decision.id = x.body.decision.id
    BY DEF NothingUnauthorised
  <2>1. PICK i \in DOMAIN A : x = A[i] /\ A[i].body.type = "execution"
    BY DEF Supplied
  <2>2. QED
    BY <1>1, <2>1, SettledGroup, SettledEffect, SettledOneDecision DEF Supplied
<1>2. QED
  BY <1>1, SupplyStays, PTL
-----------------------------------------------------------------------------
(* Evidence that is supplied later, under an identity of its own.          *)

\* Q is P and one artifact more.
Later(P, Q, o) ==
  /\ IsFiniteSet(DOMAIN P) /\ o \notin DOMAIN P /\ DOMAIN Q = DOMAIN P \cup {o}
  /\ \A i \in DOMAIN P : Q[i] = P[i]
  /\ SameId(P, Q[o].id) = {}

\* An identity that was in use is used no more often.
LEMMA LaterSameId ==
  ASSUME NEW P, NEW Q, NEW o, Later(P, Q, o)
  PROVE  /\ \A i \in DOMAIN P : i \in Admitted(Q) <=> i \in Admitted(P)
         /\ \A rid : SameId(P, rid) # {} => SameId(Q, rid) = SameId(P, rid)
<1>1. \A i \in DOMAIN P : i \in Admitted(Q) <=> i \in Admitted(P)
  BY DEF Later, Admitted
<1>2. ASSUME NEW rid, SameId(P, rid) # {}
      PROVE  SameId(Q, rid) = SameId(P, rid)
  <2>1. Q[o].id # rid
    BY <1>2 DEF Later
  <2>2. \A i \in Admitted(Q) : i = o \/ i \in DOMAIN P
    BY DEF Later, Admitted
  <2>3. \A i \in Admitted(P) : i \in DOMAIN P
    BY DEF Admitted
  <2>4. \A i \in DOMAIN P : Q[i] = P[i]
    BY DEF Later
  <2> QED BY <1>1, <2>1, <2>2, <2>3, <2>4 DEF SameId
<1> QED BY <1>1, <1>2

\* What was unique stays so, and of its family.
LEMMA LaterUnique ==
  ASSUME NEW P, NEW Q, NEW o, Later(P, Q, o)
  PROVE  /\ \A i \in Unique(P) : i \in DOMAIN P /\ i \in Unique(Q) /\ Q[i] = P[i]
         /\ \A family : OfFamily(P, family) \subseteq OfFamily(Q, family)
         /\ Steps(P) \subseteq Steps(Q)
<1>1. ASSUME NEW i \in Unique(P)
      PROVE  i \in DOMAIN P /\ i \in Unique(Q) /\ Q[i] = P[i]
  <2>1. i \in Admitted(P) /\ SameId(P, P[i].id) = {i} /\ i \in DOMAIN P
    BY DEF Unique, Admitted
  <2>2. Q[i] = P[i] /\ i \in Admitted(Q)
    BY <2>1, LaterSameId DEF Later
  <2>3. SameId(Q, P[i].id) = {i}
    BY <2>1, LaterSameId
  <2> QED BY <2>1, <2>2, <2>3 DEF Unique
<1>2. \A family : OfFamily(P, family) \subseteq OfFamily(Q, family)
  BY <1>1 DEF OfFamily
<1> QED BY <1>1, <1>2 DEF Steps

\* A reference that came to something comes to the same.
LEMMA LaterResolved ==
  ASSUME NEW P, NEW Q, NEW o, Later(P, Q, o), NEW ref, NEW family,
         Resolved(P, ref, family) # "MISSING"
  PROVE  Resolved(Q, ref, family) = Resolved(P, ref, family)
<1>1. SameId(P, ref.id) # {}
  <2> SUFFICES ASSUME SameId(P, ref.id) = {} PROVE FALSE
    OBVIOUS
  <2>1. ~(Cardinality(SameId(P, ref.id)) > 1)
    BY FS_EmptySet
  <2> QED BY <2>1 DEF Resolved
<1>2. SameId(Q, ref.id) = SameId(P, ref.id)
  BY <1>1, LaterSameId
<1>3. \A i \in SameId(P, ref.id) : Q[i] = P[i]
  BY DEF SameId, Admitted, Later
<1>4. (\A i \in SameId(P, ref.id) : P[i].body.type = family /\ ref.chain \in {AnyChain, P[i].chain})
      <=> (\A i \in SameId(Q, ref.id) : Q[i].body.type = family /\ ref.chain \in {AnyChain, Q[i].chain})
  BY <1>2, <1>3
<1> QED BY <1>2, <1>4 DEF Resolved, Verdict

\* Who was decided stays so, and the groups grow.
LEMMA LaterGroup ==
  ASSUME NEW P, NEW Q, NEW o, Later(P, Q, o)
  PROVE  /\ \A i, d : DecidedBy(P, i, d) => DecidedBy(Q, i, d)
         /\ \A d, n : Group(P, d, n) \subseteq Group(Q, d, n)
         /\ \A d, n : \A i \in Group(P, d, n) : Q[i] = P[i] /\ i \in DOMAIN P
<1>1. ASSUME NEW i, NEW d, DecidedBy(P, i, d)
      PROVE  DecidedBy(Q, i, d)
  <2>1. i \in Unique(P) /\ P[i].body.type # "decision" /\ P[i].body.decision.id = d
        /\ Resolved(P, P[i].body.decision, "decision") = "SATISFIED"
    BY <1>1 DEF DecidedBy
  <2>2. i \in Unique(Q) /\ Q[i] = P[i]
    BY <2>1, LaterUnique
  <2>3. Resolved(Q, P[i].body.decision, "decision") = "SATISFIED"
    BY <2>1, LaterResolved
  <2> QED BY <2>1, <2>2, <2>3 DEF DecidedBy
<1>2. \A d, n : \A i \in Group(P, d, n) : i \in Unique(P)
  BY DEF Group, DecidedBy
<1>3. \A d, n : \A i \in Group(P, d, n) : Q[i] = P[i] /\ i \in DOMAIN P
  BY <1>2, LaterUnique
<1>4. \A d, n : Group(P, d, n) \subseteq Group(Q, d, n)
  BY <1>1, <1>3, LaterUnique DEF Group
<1> QED BY <1>1, <1>3, <1>4

\* What fails of a group.
GroupFailure(P, d, n, c) ==
  LET group      == Group(P, d, n)
      controls   == group \cap OfFamily(P, "control")
      executions == group \cap OfFamily(P, "execution")
      mixed      == Cardinality({P[i].body.digest : i \in group}) # 1
      Failed(name) == c = Check(name, <<d, n>>, "FAILURE")
  IN
  \/ Failed("instruction_digest_agreement") /\ mixed
  \/ \E i \in controls :
       /\ <<P[i].body.event, P[i].body.side>> \in
            {<<"dispatched", "receiver">>, <<"received", "issuer">>}
       /\ c = Check("control_boundary", RefOf(P[i]), "FAILURE")
  \/ Failed("delivery_failure_report") /\ \E i \in controls : P[i].body.event = "delivery_failed"
  \/ \E i \in executions :
       /\ P[i].body.event # "executed" /\ c = Check("execution_outcome", RefOf(P[i]), "FAILURE")
  \/ /\ Failed("authorization_agreement")
     /\ \E i, j \in controls : P[i].body.action # P[j].body.action
  \/ /\ Failed("toctou")
     /\ \E i \in controls, j \in executions : P[i].body.action # P[j].body.action
  \/ Failed("execution_instruction_binding") /\ controls # {} /\ executions # {} /\ mixed

\* The checks of a group that can fail, and when they do.
LEMMA GroupFailures ==
  ASSUME NEW P, NEW d, NEW n, NEW c, c.state = "FAILURE"
  PROVE  c \in GroupChecks(P, d, n) <=> GroupFailure(P, d, n, c)
<1> DEFINE group      == Group(P, d, n)
           controls   == group \cap OfFamily(P, "control")
           executions == group \cap OfFamily(P, "execution")
           digests    == {P[i].body.digest : i \in group}
<1>1. \A name, subject, state : Check(name, subject, state).state = state
  BY DEF Check
<1> QED BY SMTT(30), <1>1 DEF GroupChecks, GroupFailure, Verdict, AllAgree

\* A set of images that is not one cannot become one.
LEMMA StaysMixed ==
  ASSUME NEW P, NEW Q, NEW o, Later(P, Q, o), NEW d, NEW n, Group(P, d, n) # {},
         Cardinality({P[i].body.digest : i \in Group(P, d, n)}) # 1
  PROVE  Cardinality({Q[i].body.digest : i \in Group(Q, d, n)}) # 1
<1> DEFINE S == {P[i].body.digest : i \in Group(P, d, n)}
           T == {Q[i].body.digest : i \in Group(Q, d, n)}
<1>1. S # {} /\ S \subseteq T
  BY LaterGroup
<1>2. IsFiniteSet(T)
  <2>1. Group(Q, d, n) \subseteq DOMAIN Q /\ IsFiniteSet(DOMAIN Q)
    <3>1. Group(Q, d, n) \subseteq DOMAIN Q
      BY DEF Group, Steps, OfFamily, Unique, Admitted
    <3>2. IsFiniteSet(DOMAIN P \cup {o})
      BY FS_AddElement DEF Later
    <3> QED BY <3>1, <3>2 DEF Later
  <2>2. IsFiniteSet(Group(Q, d, n))
    BY <2>1, FS_Subset
  <2> DEFINE g == [i \in Group(Q, d, n) |-> Q[i].body.digest]
  <2>3. g \in Surjection(Group(Q, d, n), T)
    BY DEF Surjection
  <2> QED BY <2>2, <2>3, FS_Surjection
<1> HIDE DEF S, T
<1>3. ASSUME Cardinality(T) = 1 PROVE Cardinality(S) = 1
  <2>1. PICK x : T = {x}
    BY <1>2, <1>3, FS_Singleton
  <2>2. S = {x}
    BY <1>1, <2>1
  <2> QED BY <2>2, FS_Singleton
<1> QED BY <1>3 DEF S, T

\* A group that fails goes on failing.
LEMMA LaterGroupFails ==
  ASSUME NEW P, NEW Q, NEW o, Later(P, Q, o), NEW d, NEW n, NEW c, Group(P, d, n) # {},
         GroupFailure(P, d, n, c)
  PROVE  GroupFailure(Q, d, n, c)
<1> DEFINE controls(X) == Group(X, d, n) \cap OfFamily(X, "control")
           executions(X) == Group(X, d, n) \cap OfFamily(X, "execution")
           mixed(X) == Cardinality({X[i].body.digest : i \in Group(X, d, n)}) # 1
<1>1. mixed(P) => mixed(Q)
  BY StaysMixed
<1>2. /\ controls(P) \subseteq controls(Q) /\ \A i \in controls(P) : Q[i] = P[i]
      /\ executions(P) \subseteq executions(Q) /\ \A i \in executions(P) : Q[i] = P[i]
  BY LaterGroup, LaterUnique
<1> HIDE DEF controls, executions, mixed
<1>3. \A X : GroupFailure(X, d, n, c) <=>
        \/ c = Check("instruction_digest_agreement", <<d, n>>, "FAILURE") /\ mixed(X)
        \/ \E i \in controls(X) :
             /\ <<X[i].body.event, X[i].body.side>> \in
                  {<<"dispatched", "receiver">>, <<"received", "issuer">>}
             /\ c = Check("control_boundary", RefOf(X[i]), "FAILURE")
        \/ /\ c = Check("delivery_failure_report", <<d, n>>, "FAILURE")
           /\ \E i \in controls(X) : X[i].body.event = "delivery_failed"
        \/ \E i \in executions(X) :
             /\ X[i].body.event # "executed"
             /\ c = Check("execution_outcome", RefOf(X[i]), "FAILURE")
        \/ /\ c = Check("authorization_agreement", <<d, n>>, "FAILURE")
           /\ \E i, j \in controls(X) : X[i].body.action # X[j].body.action
        \/ /\ c = Check("toctou", <<d, n>>, "FAILURE")
           /\ \E i \in controls(X), j \in executions(X) : X[i].body.action # X[j].body.action
        \/ /\ c = Check("execution_instruction_binding", <<d, n>>, "FAILURE")
           /\ controls(X) # {} /\ executions(X) # {} /\ mixed(X)
  BY DEF GroupFailure, controls, executions, mixed
<1> QED BY <1>1, <1>2, <1>3

\* A binding that fails goes on failing.
LEMMA LaterBinding ==
  ASSUME NEW P, NEW Q, NEW o, Later(P, Q, o), NEW i \in Unique(P), BindingState(P, i) = "FAILURE"
  PROVE  BindingState(Q, i) = "FAILURE"
<1> DEFINE x == P[i].body.exec
           targets(X) == SameId(X, x.id)
           decided(X) == {j \in targets(X) \cup {i} : DecidedBy(X, j, X[j].body.decision.id)}
<1>1. /\ Resolved(P, x, "execution") = "SATISFIED" /\ decided(P) = targets(P) \cup {i}
      /\ ~(\A j \in targets(P) : P[j].body.decision.id = P[i].body.decision.id)
  BY DEF BindingState, Verdict
<1>2. Q[i] = P[i] /\ Resolved(Q, x, "execution") = "SATISFIED"
  BY <1>1, LaterUnique, LaterResolved
<1>3. SameId(P, x.id) # {}
  BY <1>1
<1>4. targets(Q) = targets(P)
  BY <1>3, LaterSameId
<1>5. \A j \in targets(P) : Q[j] = P[j]
  BY DEF SameId, Admitted, Later
<1>6. decided(Q) = targets(Q) \cup {i}
  BY <1>1, <1>2, <1>4, <1>5, LaterGroup
<1>7. ~(\A j \in targets(Q) : Q[j].body.decision.id = Q[i].body.decision.id)
  BY <1>1, <1>2, <1>4, <1>5
<1> QED BY <1>2, <1>6, <1>7 DEF BindingState, Verdict

\* Failures, by the kind of the check.
LEMMA FailureKinds ==
  ASSUME NEW P, NEW c, c.state = "FAILURE", c.check # "chain_link"
  PROVE  c \in Checks(P) <=>
           \/ \E i \in DOMAIN P \ Admitted(P) : c = Check("artifact_admission", <<i>>, "FAILURE")
           \/ \E i \in Admitted(P) : c = Check("record_authentication", RefOf(P[i]), Standing[P[i].by])
           \/ \E i \in Unique(P) \ OfFamily(P, "decision") :
                /\ Resolved(P, P[i].body.decision, "decision") = "FAILURE"
                /\ c = Check("decision_reference", RefOf(P[i]), "FAILURE")
           \/ \E i \in Steps(P) : /\ DecidedBy(P, i, P[i].body.decision.id)
                                  /\ GroupFailure(P, P[i].body.decision.id, P[i].body.instr, c)
           \/ \E i \in OfFamily(P, "effect") :
                /\ Resolved(P, P[i].body.exec, "execution") = "FAILURE"
                /\ c = Check("execution_reference", RefOf(P[i]), "FAILURE")
           \/ \E i \in OfFamily(P, "effect") :
                /\ BindingState(P, i) = "FAILURE"
                /\ c = Check("effect_binding", RefOf(P[i]), "FAILURE")
<1>1. \A name, subject, state : /\ Check(name, subject, state).state = state
                                /\ Check(name, subject, state).check = name
  BY DEF Check
<1>3. c \in AdmissionChecks(P) <=>
        \/ \E i \in DOMAIN P \ Admitted(P) : c = Check("artifact_admission", <<i>>, "FAILURE")
        \/ \E i \in Admitted(P) : c = Check("record_authentication", RefOf(P[i]), Standing[P[i].by])
  <2>1. \A i : /\ c # Check("artifact_admission", RefOf(P[i]), "SATISFIED")
              /\ c # Check("record_identity", <<P[i].id>>, Verdict(i \in Unique(P), "INDETERMINATE"))
    BY <1>1 DEF Verdict
  <2> QED BY <2>1 DEF AdmissionChecks
<1>4. c \notin ChainChecks(P)
  <2> SUFFICES ASSUME NEW i \in Admitted(P), c \in PositionChecks(P, i) PROVE FALSE
    BY DEF ChainChecks
  <2>1. \A subject : /\ c # Check("chain_position", subject, "INDETERMINATE")
                    /\ c # Check("chain_predecessor", subject, "MISSING")
                    /\ \A state : c # Check("chain_link", subject, state)
    BY <1>1
  <2> QED BY <2>1 DEF PositionChecks
<1>5. c \in CorrelationChecks(P) <=>
        \E i \in Unique(P) \ OfFamily(P, "decision") :
                /\ Resolved(P, P[i].body.decision, "decision") = "FAILURE"
                /\ c = Check("decision_reference", RefOf(P[i]), "FAILURE")
  BY <1>1 DEF CorrelationChecks, ReferenceChecks, Verdict
<1>6. c \in EffectChecks(P) <=>
           \/ \E i \in OfFamily(P, "effect") :
                /\ Resolved(P, P[i].body.exec, "execution") = "FAILURE"
                /\ c = Check("execution_reference", RefOf(P[i]), "FAILURE")
           \/ \E i \in OfFamily(P, "effect") :
                /\ BindingState(P, i) = "FAILURE"
                /\ c = Check("effect_binding", RefOf(P[i]), "FAILURE")
  BY <1>1 DEF EffectChecks, EffectEvidence, Verdict
<1>7. c \in UNION {GroupChecks(P, P[i].body.decision.id, P[i].body.instr) :
                     i \in {j \in Steps(P) : DecidedBy(P, j, P[j].body.decision.id)}} <=>
        \E i \in Steps(P) : /\ DecidedBy(P, i, P[i].body.decision.id)
                            /\ GroupFailure(P, P[i].body.decision.id, P[i].body.instr, c)
  BY GroupFailures
<1>8. /\ c # Check("intended_target_coverage", <<>>, "NOT_EVALUATED")
      /\ c # Check("evidence_set", <<>>, "MISSING")
  BY <1>1
<1> QED BY <1>3, <1>4, <1>5, <1>6, <1>7, <1>8 DEF Checks
\* Each kind of failure stays.
LEMMA LaterFails ==
  ASSUME NEW P, NEW Q, NEW o, Later(P, Q, o), NEW c, c \in Checks(P), c.state = "FAILURE",
         c.check # "chain_link"
  PROVE  c \in Checks(Q)
<1>1. CASE \E i \in DOMAIN P \ Admitted(P) : c = Check("artifact_admission", <<i>>, "FAILURE")
  <2>1. PICK i \in DOMAIN P \ Admitted(P) : c = Check("artifact_admission", <<i>>, "FAILURE")
    BY <1>1
  <2>2. i \in DOMAIN Q \ Admitted(Q)
    BY LaterSameId DEF Later
  <2> QED BY <2>1, <2>2, FailureKinds
<1>2. CASE \E i \in Admitted(P) : c = Check("record_authentication", RefOf(P[i]), Standing[P[i].by])
  <2>1. PICK i \in Admitted(P) : c = Check("record_authentication", RefOf(P[i]), Standing[P[i].by])
    BY <1>2
  <2>2. i \in Admitted(Q) /\ Q[i] = P[i]
    BY LaterSameId DEF Later, Admitted
  <2> QED BY <2>1, <2>2, FailureKinds
<1>3. CASE \E i \in Unique(P) \ OfFamily(P, "decision") :
             /\ Resolved(P, P[i].body.decision, "decision") = "FAILURE"
             /\ c = Check("decision_reference", RefOf(P[i]), "FAILURE")
  <2>1. PICK i \in Unique(P) \ OfFamily(P, "decision") :
          /\ Resolved(P, P[i].body.decision, "decision") = "FAILURE"
          /\ c = Check("decision_reference", RefOf(P[i]), "FAILURE")
    BY <1>3
  <2>2. i \in Unique(Q) \ OfFamily(Q, "decision") /\ Q[i] = P[i]
    BY LaterUnique DEF OfFamily
  <2>3. Resolved(Q, Q[i].body.decision, "decision") = "FAILURE"
    BY <2>1, <2>2, LaterResolved
  <2> QED BY <2>1, <2>2, <2>3, FailureKinds
<1>4. CASE \E i \in Steps(P) : /\ DecidedBy(P, i, P[i].body.decision.id)
                               /\ GroupFailure(P, P[i].body.decision.id, P[i].body.instr, c)
  <2>1. PICK i \in Steps(P) : /\ DecidedBy(P, i, P[i].body.decision.id)
                             /\ GroupFailure(P, P[i].body.decision.id, P[i].body.instr, c)
    BY <1>4
  <2>2. i \in Group(P, P[i].body.decision.id, P[i].body.instr)
    BY <2>1 DEF Group
  <2>3. i \in Steps(Q) /\ Q[i] = P[i] /\ DecidedBy(Q, i, P[i].body.decision.id)
    BY <2>1, <2>2, LaterUnique, LaterGroup
  <2>4. GroupFailure(Q, P[i].body.decision.id, P[i].body.instr, c)
    BY <2>1, <2>2, LaterGroupFails
  <2> QED BY <2>3, <2>4, FailureKinds
<1>5. CASE \E i \in OfFamily(P, "effect") :
             /\ Resolved(P, P[i].body.exec, "execution") = "FAILURE"
             /\ c = Check("execution_reference", RefOf(P[i]), "FAILURE")
  <2>1. PICK i \in OfFamily(P, "effect") :
          /\ Resolved(P, P[i].body.exec, "execution") = "FAILURE"
          /\ c = Check("execution_reference", RefOf(P[i]), "FAILURE")
    BY <1>5
  <2>2. i \in OfFamily(Q, "effect") /\ Q[i] = P[i]
    BY LaterUnique DEF OfFamily
  <2>3. Resolved(Q, Q[i].body.exec, "execution") = "FAILURE"
    BY <2>1, <2>2, LaterResolved
  <2> QED BY <2>1, <2>2, <2>3, FailureKinds
<1>6. CASE \E i \in OfFamily(P, "effect") :
             /\ BindingState(P, i) = "FAILURE"
             /\ c = Check("effect_binding", RefOf(P[i]), "FAILURE")
  <2>1. PICK i \in OfFamily(P, "effect") :
          /\ BindingState(P, i) = "FAILURE"
          /\ c = Check("effect_binding", RefOf(P[i]), "FAILURE")
    BY <1>6
  <2>2. i \in OfFamily(Q, "effect") /\ Q[i] = P[i] /\ i \in Unique(P)
    BY LaterUnique DEF OfFamily
  <2>3. BindingState(Q, i) = "FAILURE"
    BY <2>1, <2>2, LaterBinding
  <2> QED BY <2>1, <2>2, <2>3, FailureKinds
<1> QED BY <1>1, <1>2, <1>3, <1>4, <1>5, <1>6, FailureKinds

\* A failure of a supplied list stands whatever is added under identities of
\* their own, but for the links of chains; for every list.
THEOREM EveryFailureStands == Spec => FailuresStand
<1>1. ASSUME SupplyInv, [Next]_supply, NEW o \in supply' \ supply, SameId(A, o[1].id) = {},
             NEW c \in Failures(A), c.check # "chain_link"
      PROVE  c \in Failures(A')
  <2>1. supply' = supply \cup {o}
    BY <1>1 DEF Next, Add
  <2>2. PICK P : P = A
    OBVIOUS
  <2>3. PICK Q : Q = A'
    OBVIOUS
  <2>4. Later(P, Q, o)
    <3>1. /\ DOMAIN P = supply /\ DOMAIN Q = supply'
          /\ \A i \in supply : P[i] = i[1] /\ Q[i] = i[1]
          /\ Q[o] = o[1]
      BY <2>1, <2>2, <2>3 DEF A, List
    <3> QED BY <1>1, <2>1, <2>2, <3>1 DEF Later, SupplyInv
  <2>5. c \in Checks(P) /\ c.state = "FAILURE"
    BY <1>1, <2>2 DEF Failures
  <2>6. c \in Checks(Q)
    BY <1>1, <2>4, <2>5, LaterFails
  <2> QED BY <2>3, <2>5, <2>6 DEF Failures
<1>2. ASSUME SupplyInv, [Next]_supply
      PROVE  [\A o \in supply' \ supply :
                SameId(A, o[1].id) = {} =>
                  \A c \in Failures(A) : c.check = "chain_link" \/ c \in Failures(A')]_supply
  BY <1>1, <1>2
<1> QED BY <1>2, SupplyStays, PTL DEF Spec, FailuresStand
=============================================================================
