------------------------------- MODULE Supply -------------------------------
(***************************************************************************)
(* What reconcile() tells a reader about evidence of any origin, as the    *)
(* supplied list grows one artifact at a time, copies included.  Every     *)
(* state is one call of reconcile() on what has been supplied so far.      *)
(***************************************************************************)
EXTENDS Reconciler

CONSTANT
  Pools   \* bounds on the model: what may be supplied together, honest or not,
          \* as [artifacts, copies of each, length of the list]

\* The schema wants sequences that are natural numbers; the gate wants two
\* different identities.
ASSUME SequenceAssumption == \A pool \in Pools : \A a \in pool.artifacts : a.seq \in Nat
ASSUME IndependentAssumption == \A pair \in Independent : \E p, q \in pair : p # q

VARIABLE supply   \* occurrences <<artifact, copy>>; the order is never used

List(occurrences) == [o \in occurrences |-> o[1]]

A == List(supply)

Init == supply = {}

Occurrences(pool) == pool.artifacts \X (1..pool.copies)

\* One more element of the input list.
Add(artifact, copy) ==
  /\ <<artifact, copy>> \notin supply
  /\ copy > 1 => <<artifact, copy - 1>> \in supply
  /\ supply' = supply \cup {<<artifact, copy>>}

Next ==
  \E pool \in Pools :
    /\ supply \subseteq Occurrences(pool) /\ Cardinality(supply) < pool.length
    /\ \E artifact \in pool.artifacts, copy \in 1..pool.copies : Add(artifact, copy)

Spec == Init /\ [][Next]_supply
-----------------------------------------------------------------------------
Supplied(family) == {a \in {A[i] : i \in DOMAIN A} : a.body.type = family}

\* Every check but the coverage nobody can establish is satisfied.
Settled == \A c \in Open(A) \cup Failures(A) : c.check = "intended_target_coverage"

\* Two artifacts speak of one instruction of one decision.
SameInstruction(a, b) ==
  a.body.decision.id = b.body.decision.id /\ a.body.instr = b.body.instr

\* Safety.  When reconciliation leaves nothing open, every supplied execution
\* was executed under one decision, on an instruction its receiver reports
\* received, with the action that every control of the instruction authorised,
\* and has an effect of its own: no mixture of decisions that share an
\* instruction_id, of repeated executions or of wrong references adds up.
NothingUnauthorised ==
  Settled => \A x \in Supplied("execution") :
    LET controls == {c \in Supplied("control") : SameInstruction(c, x)} IN
    /\ x.body.event = "executed"
    /\ Cardinality({d \in Supplied("decision") : d.id = x.body.decision.id}) = 1
    /\ \E c \in controls : <<c.body.event, c.body.side>> = <<"received", "receiver">>
    /\ \A c \in controls : c.body.action = x.body.action /\ c.body.digest = x.body.digest
    /\ \E e \in Supplied("effect") : /\ e.body.exec.id = x.id
                                     /\ e.body.decision.id = x.body.decision.id

\* Action property.  A failure stands: nothing that is supplied later under an
\* identity of its own turns a FAILURE into something better.  The links of
\* chains are excepted, where a late predecessor may clear a suspicion.
FailuresStand ==
  [][\A o \in supply' \ supply :
       SameId(A, o[1].id) = {} =>
         \A c \in Failures(A) : c.check = "chain_link" \/ c \in Failures(A')]_supply

\* Safety.  Where an effect is assessed "independent", the reconciler and the
\* class verifier, which resolve references by different rules, mean the same
\* artifact: the only one of that identity, an execution, of another producer.
IndependenceProven ==
  \A i \in OfFamily(A, "effect") : Assessed(A, i) = "independent" =>
    /\ Resolved(A, A[i].body.exec, "execution") = "SATISFIED"
    /\ \A j \in SameId(A, A[i].body.exec.id) : A[j].by # A[i].by

\* Safety.  Satisfied links order a chain totally, whoever wrote it and however
\* its sequences are spaced: each record continues the supplied record just
\* before it, or is the first of its chain.
LinksOrderChain ==
  (\A c \in Checks(A) : c.check = "chain_link" => c.state = "SATISFIED") =>
    \A i \in Admitted(A) :
      LET before == {j \in ChainOf(A, A[i].chain) : A[j].seq < A[i].seq} IN
      IF before = {} THEN A[i].prev = Genesis
      ELSE \E j \in before : A[i].prev = A[j] /\ \A k \in before : A[k].seq <= A[j].seq

\* What RECONCILIATION.md promises of a group: two admitted controls of one
\* instruction of a resolved decision that authorise different actions are
\* reported as a failure, and no check calls the group agreed.
ConflictsReported ==
  \A i, j \in {k \in Admitted(A) : /\ A[k].body.type = "control"
                                   /\ Resolved(A, A[k].body.decision, "decision") = "SATISFIED"} :
    (/\ SameInstruction(A[i], A[j]) /\ A[i].body.action # A[j].body.action) =>
      \A c \in Checks(A) :
        (/\ c.check = "authorization_agreement"
         /\ c.subject = <<A[i].body.decision.id, A[i].body.instr>>) => c.state # "SATISFIED"
=============================================================================
