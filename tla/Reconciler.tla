----------------------------- MODULE Reconciler -----------------------------
(***************************************************************************)
(* reconcile() of tools/airep_v02/reconcile.py over a supplied list of     *)
(* artifacts, and the observer gate of evaluate_request() that it uses.    *)
(*                                                                         *)
(* The supplied list is a function from its positions, or any other set of *)
(* occurrences, to artifacts.  An artifact is                              *)
(* [id, chain, seq, prev, by, body, valid].  "valid" is what check_core    *)
(* decides of it.  integrity.current is a collision-free digest of the     *)
(* record, so prev, the digest of the predecessor, is the predecessor      *)
(* itself, and Genesis for sixty-four zeroes.  The body holds the fields   *)
(* of the artifact's family.                                               *)
(***************************************************************************)
EXTENDS Integers, FiniteSets

CONSTANTS
  AnyChain,     \* a reference without a chain_id
  Standing,     \* per producer: the state of record_authentication
  Independent   \* pairs of producers that pass the three-condition gate

Genesis == [seq |-> -1]

\* One entry of the checks list; wording and evidence lists are left out.
Check(name, subject, state) == [check |-> name, subject |-> subject, state |-> state]

Verdict(condition, otherwise) == IF condition THEN "SATISFIED" ELSE otherwise

Admitted(A) == {i \in DOMAIN A : A[i].valid}

SameId(A, rid) == {i \in Admitted(A) : A[i].id = rid}

Unique(A) == {i \in Admitted(A) : SameId(A, A[i].id) = {i}}

RefOf(a) == <<a.id, a.chain>>

OfFamily(A, family) == {i \in Unique(A) : A[i].body.type = family}

AdmissionChecks(A) ==
       {Check("artifact_admission", <<i>>, "FAILURE") : i \in DOMAIN A \ Admitted(A)}
  \cup {Check("artifact_admission", RefOf(A[i]), "SATISFIED") : i \in Admitted(A)}
  \cup {Check("record_identity", <<A[i].id>>, Verdict(i \in Unique(A), "INDETERMINATE")) :
          i \in Admitted(A)}
  \cup {Check("record_authentication", RefOf(A[i]), Standing[A[i].by]) : i \in Admitted(A)}
-----------------------------------------------------------------------------
(* Chains.                                                                 *)

ChainOf(A, cid) == {i \in Admitted(A) : A[i].chain = cid}

Position(A, cid, seq) == {i \in ChainOf(A, cid) : A[i].seq = seq}

\* A hash link accepted whatever lies between its two ends.
IncreasesOnly(A, i, j) == A[j].seq < A[i].seq

\* A resolved hash link increases and skips no supplied record.
Increases(A, i, j) ==
  /\ A[j].seq < A[i].seq
  /\ \A k \in ChainOf(A, A[i].chain) : ~(A[j].seq < A[k].seq /\ A[k].seq < A[i].seq)

\* An absent predecessor taken for a contradicting one.
LinkStateUnlessAdjacent(A, i) ==
  LET matches == {j \in ChainOf(A, A[i].chain) : A[j] = A[i].prev} IN
  CASE A[i].prev = Genesis ->
         Verdict(\A j \in ChainOf(A, A[i].chain) : A[j].seq >= A[i].seq, "FAILURE")
    [] Cardinality(matches) = 1 ->
         Verdict(\E j \in matches : Increases(A, i, j), "FAILURE")
    [] OTHER -> "FAILURE"

\* The link of the only record at its position; MISSING is an absent
\* predecessor, which leaves the link itself unevaluated.
LinkState(A, i) ==
  LET chain    == ChainOf(A, A[i].chain)
      matches  == {j \in chain : A[j] = A[i].prev}
      adjacent == Position(A, A[i].chain, A[i].seq - 1)
  IN
  CASE A[i].prev = Genesis ->
         Verdict(\A j \in chain : A[j].seq >= A[i].seq, "FAILURE")
    [] A[i].prev # Genesis /\ Cardinality(matches) = 1 ->
         Verdict(\E j \in matches : Increases(A, i, j), "FAILURE")
    [] A[i].prev # Genesis /\ Cardinality(matches) > 1 -> "NOT_EVALUATED"
    [] OTHER -> CASE A[i].seq = 0               -> "FAILURE"
                  [] Cardinality(adjacent) = 1  -> "FAILURE"
                  [] Cardinality(adjacent) > 1  -> "NOT_EVALUATED"
                  [] OTHER                      -> "MISSING"

\* What is said of the position of record i.
PositionChecks(A, i) ==
  LET subject == <<A[i].chain, A[i].seq>>
      link    == LinkState(A, i)
  IN
  IF Position(A, A[i].chain, A[i].seq) # {i}
  THEN {Check("chain_position", subject, "INDETERMINATE"),
        Check("chain_link", subject, "NOT_EVALUATED")}
  ELSE IF link = "MISSING"
  THEN {Check("chain_predecessor", subject, "MISSING"),
        Check("chain_link", subject, "NOT_EVALUATED")}
  ELSE {Check("chain_link", subject, link)}

ChainChecks(A) == UNION {PositionChecks(A, i) : i \in Admitted(A)}
-----------------------------------------------------------------------------
(* References and groups.                                                  *)

\* resolve(): what a reference comes to.
Resolved(A, ref, family) ==
  LET matches == SameId(A, ref.id) IN
  CASE matches = {} -> "MISSING"
    [] Cardinality(matches) > 1 -> "INDETERMINATE"
    [] OTHER -> Verdict(\A i \in matches : /\ A[i].body.type = family
                                           /\ ref.chain \in {AnyChain, A[i].chain},
                        "FAILURE")

\* decision_for: i belongs to the decision with identity d.
DecidedBy(A, i, d) ==
  /\ i \in Unique(A) /\ A[i].body.type # "decision"
  /\ A[i].body.decision.id = d
  /\ Resolved(A, A[i].body.decision, "decision") = "SATISFIED"

Steps(A) == OfFamily(A, "control") \cup OfFamily(A, "execution")

\* Evidence is gathered by what it calls its instruction alone.
GroupByInstruction(A, d, instr) ==
  {i \in Steps(A) : A[i].body.instr = instr /\ \E e \in {A[j].id : j \in Unique(A)} : DecidedBy(A, i, e)}

\* The Controls and Executions of one instruction of one resolved decision.
Group(A, d, instr) ==
  {i \in Steps(A) : A[i].body.instr = instr /\ DecidedBy(A, i, d)}

ReferenceChecks(A, i) ==
  LET state == Resolved(A, A[i].body.decision, "decision") IN
  {Check("decision_reference", RefOf(A[i]), state)}
  \cup (IF state = "SATISFIED" THEN {}
        ELSE {Check("decision_correlation", RefOf(A[i]), "NOT_EVALUATED")})

CorrelationChecks(A) ==
  (UNION {ReferenceChecks(A, i) : i \in Unique(A) \ OfFamily(A, "decision")})
  \cup
  {Check("instruction_evidence", RefOf(A[i]),
         Verdict(\E j \in Steps(A) : DecidedBy(A, j, A[i].id), "MISSING")) :
     i \in OfFamily(A, "decision")}

\* Some pair agrees.
SomeAgree(A, controls, executions) ==
  \E c \in controls, x \in executions : A[c].body.action = A[x].body.action

\* TOCTOU compares every applicable pair.
AllAgree(A, controls, executions) ==
  \A c \in controls, x \in executions : A[c].body.action = A[x].body.action

GroupChecks(A, d, instr) ==
  LET group      == Group(A, d, instr)
      controls   == group \cap OfFamily(A, "control")
      executions == group \cap OfFamily(A, "execution")
      wrongSide  == {i \in controls : <<A[i].body.event, A[i].body.side>> \in
                       {<<"dispatched", "receiver">>, <<"received", "issuer">>}}
      Reports(event, side) ==
        {i \in controls : A[i].body.event = event /\ A[i].body.side = side}
      failed     == {i \in controls : A[i].body.event = "delivery_failed"}
      digests    == {A[i].body.digest : i \in group}
      outcomes   == {A[i].body.event : i \in executions}
      About(name, state) == Check(name, <<d, instr>>, state)
  IN
  {About("instruction_digest_agreement", Verdict(Cardinality(digests) = 1, "FAILURE")),
   About("issuer_dispatch", Verdict(Reports("dispatched", "issuer") # {}, "MISSING")),
   About("receiver_receipt", Verdict(Reports("received", "receiver") # {}, "MISSING")),
   About("execution_evidence", Verdict(executions # {}, "MISSING"))}
  \cup {Check("control_boundary", RefOf(A[i]), "FAILURE") : i \in wrongSide}
  \cup {About("delivery_failure_report", "FAILURE") : i \in failed}
  \cup {About("delivery_outcome", "INDETERMINATE") :
          i \in {j \in failed : Reports("received", "receiver") # {}}}
  \cup {Check("execution_outcome", RefOf(A[i]),
              Verdict(A[i].body.event = "executed", "FAILURE")) : i \in executions}
  \cup (IF Cardinality(outcomes) > 1
        THEN {About("execution_outcomes", "INDETERMINATE")} ELSE {})
  \cup (IF controls = {} THEN {}
        ELSE {About("authorization_agreement",
                    Verdict(\A i, j \in controls : A[i].body.action = A[j].body.action,
                            "FAILURE"))})
  \cup (IF controls = {} \/ executions = {}
        THEN {About("toctou", "NOT_EVALUATED"),
              About("execution_instruction_binding", "NOT_EVALUATED")}
        ELSE {About("toctou", Verdict(AllAgree(A, controls, executions), "FAILURE")),
              About("execution_instruction_binding",
                    Verdict(Cardinality(digests) = 1, "FAILURE"))})
-----------------------------------------------------------------------------
(* Effects.                                                                *)

\* effect_binding: the effect binds an execution of its own decision.
BindingState(A, i) ==
  LET x       == A[i].body.exec
      targets == SameId(A, x.id)
      decided == {j \in targets \cup {i} : DecidedBy(A, j, A[j].body.decision.id)}
  IN
  CASE Resolved(A, x, "execution") # "SATISFIED" -> "NOT_EVALUATED"
    [] Resolved(A, x, "execution") = "SATISFIED" /\ decided # targets \cup {i} ->
         "NOT_EVALUATED"
    [] OTHER -> Verdict(\A j \in targets : A[j].body.decision.id = A[i].body.decision.id,
                        "FAILURE")

\* The class engine's own reference: a chain qualifier narrows, any family does.
EngineExecution(A, i) ==
  LET x       == A[i].body.exec
      matches == {j \in SameId(A, x.id) : x.chain \in {AnyChain, A[j].chain}}
  IN {j \in matches : Cardinality(matches) = 1}

\* evaluate_request(): the one supplied record with the referenced identity is
\* an execution in the referenced chain.
ActualExecution(A, i) ==
  {j \in EngineExecution(A, i) :
     A[j].body.type = "execution" /\ SameId(A, A[j].id) = {j}}

\* observer_assessment of an effect: a wire "independent" is effective only
\* between two authenticated records of independent producers.
Assessed(A, i) ==
  LET proven(j) == /\ Standing[A[i].by] = "SATISFIED" /\ Standing[A[j].by] = "SATISFIED"
                   /\ {A[i].by, A[j].by} \in Independent
  IN
  IF A[i].body.observer # "independent" THEN A[i].body.observer
  ELSE IF \E j \in ActualExecution(A, i) : proven(j) THEN "independent" ELSE "unknown"

EffectEvidence(A, x) ==
  Check("effect_evidence", RefOf(A[x]),
        Verdict(\E i \in OfFamily(A, "effect") : /\ A[i].body.exec.id = A[x].id
                                                 /\ BindingState(A, i) = "SATISFIED",
                "MISSING"))

EffectChecks(A) ==
  (UNION {{Check("execution_reference", RefOf(A[i]), Resolved(A, A[i].body.exec, "execution")),
          Check("effect_binding", RefOf(A[i]), BindingState(A, i)),
          Check("observer_relationship", RefOf(A[i]),
                Verdict(Assessed(A, i) # "unknown", "INDETERMINATE"))} :
         i \in OfFamily(A, "effect")})
  \cup {EffectEvidence(A, x) : x \in OfFamily(A, "execution")}
-----------------------------------------------------------------------------
Checks(A) ==
  AdmissionChecks(A) \cup ChainChecks(A) \cup CorrelationChecks(A)
  \cup (UNION {GroupChecks(A, A[i].body.decision.id, A[i].body.instr) :
                 i \in {j \in Steps(A) : DecidedBy(A, j, A[j].body.decision.id)}})
  \cup EffectChecks(A)
  \cup (IF DOMAIN A = {} THEN {Check("evidence_set", <<>>, "MISSING")} ELSE {})
  \cup {Check("intended_target_coverage", <<>>, "NOT_EVALUATED")}

Failures(A) == {c \in Checks(A) : c.state = "FAILURE"}

Open(A) == {c \in Checks(A) : c.state \notin {"SATISFIED", "FAILURE"}}
=============================================================================
