---------------------------- MODULE HermesCorpus ----------------------------
(***************************************************************************)
(* The eleven scenarios of integrations/hermes/generate_fixtures.py: what  *)
(* each says happened in Hermes, the artifacts it is mapped to, and the    *)
(* states that reconcile() is expected to give them; with the checks that  *)
(* verify_fixtures.py makes of one scenario.                               *)
(***************************************************************************)
EXTENDS Integers, Sequences, FiniteSets, TLC

Scenarios == 1 .. 11

Roles == {"governor", "executor"}

\* operator_documents(): what the reconciler is told of a producer.
Bound(role) == [trusted |-> TRUE, revocation |-> "active"]

Authentication ==
  [by \in Roles |-> IF Bound(by) = [trusted |-> TRUE, revocation |-> "active"]
                    THEN "SATISFIED" ELSE "INDETERMINATE"]

R == INSTANCE Reconciler WITH
       AnyChain <- <<0, "any">>, Independent <- {}, Standing <- Authentication
-----------------------------------------------------------------------------
\* fixture_facts(): what the native source reports; "none" and FALSE stand for
\* a fact that is absent or reported as not observed.
Facts(n) ==
  [event |-> CASE n = 1 -> <<"human", "deny">>
               [] n = 2 -> <<"runtime", "timeout">>
               [] n = 8 -> <<"runtime", "stale-request-rejected">>
               [] OTHER -> <<"human", "once">>,
   dispatched |-> n \in {4, 5, 6, 7, 9, 10, 11},
   received   |-> n \in {5, 6, 7, 9, 10, 11},
   execution  |-> CASE n \in {5, 7, 10, 11} -> "executed" [] n = 6 -> "suppressed" [] OTHER -> "none",
   differs    |-> n = 7,
   replay     |-> IF n = 10 THEN <<"runtime", "replay-rejected">> ELSE <<"none", "none">>,
   effect     |-> IF n = 11 THEN "same_executor" ELSE "none"]

Request(n)     == <<n, "request">>
Instruction(n) == <<n, "instruction">>

Action(n, mismatch) == <<n, IF mismatch THEN "different" ELSE "authorized">>

Ref(n, name, role) == [id |-> <<n, name>>, chain |-> <<n, role>>]

DecisionRef(n) == Ref(n, "decision", "governor")

Row(name, by, body) == [name |-> name, by |-> by, body |-> body]

Decision(name, verb, evidence, event) ==
  Row(name, "governor", [type |-> "decision", verb |-> verb, evidence |-> evidence, event |-> event])

\* The digest of an instruction is one with what it is made from.
Digest(n) == <<Instruction(n), <<n, "decision">>, Request(n), Action(n, FALSE)>>

Control(n, name, by, event, side) ==
  Row(name, by, [type |-> "control", decision |-> DecisionRef(n), instr |-> Instruction(n),
                 digest |-> Digest(n), action |-> Action(n, FALSE), event |-> event, side |-> side])

Execution(n, event, action) ==
  Row("execution", "executor",
      [type |-> "execution", decision |-> DecisionRef(n), instr |-> Instruction(n),
       digest |-> Digest(n), action |-> action, event |-> event])

Effect(n) ==
  Row("effect", "executor", [type |-> "effect", decision |-> DecisionRef(n),
                             exec |-> Ref(n, "execution", "executor"), observer |-> "same_executor"])

If(condition, rows) == IF condition THEN rows ELSE <<>>

\* Every dispatched instruction taken for received.
RowsAlwaysReceived(n) ==
  LET f == Facts(n) IN
  IF n \in {1, 2, 8} THEN <<Decision("decision", "block", "other", f.event)>>
  ELSE <<Decision("decision", "release", "human_approval", f.event)>>
       \o If(n # 3, <<Control(n, "dispatch", "governor", "dispatched", "issuer"),
                      Control(n, "receipt", "executor", "received", "receiver")>>)

\* build_scenario(): the artifacts in the order in which they are emitted.
Rows(n) ==
  LET f == Facts(n) IN
  IF n \in {1, 2, 8} THEN <<Decision("decision", "block", "other", f.event)>>
  ELSE <<Decision("decision", "release", "human_approval", f.event)>>
       \o If(n # 3, <<Control(n, "dispatch", "governor", "dispatched", "issuer")>>)
       \o If(n \notin {3, 4}, <<Control(n, "receipt", "executor", "received", "receiver")>>)
       \o If(n \in {5, 6, 7, 10, 11},
             <<Execution(n, IF n = 6 THEN "suppressed" ELSE "executed", Action(n, f.differs))>>)
       \o If(n = 11, <<Effect(n)>>)
       \o If(n = 10, <<Decision("replay", "block", "other", f.replay)>>)

\* Each role emits on a chain of its own.
Artifacts(n) ==
  LET rows == Rows(n)
      Own(i) == {j \in 1 .. (i - 1) : rows[j].by = rows[i].by}
      emitted[i \in DOMAIN rows] ==
        [id |-> <<n, rows[i].name>>, chain |-> <<n, rows[i].by>>, by |-> rows[i].by,
         seq |-> Cardinality(Own(i)), body |-> rows[i].body, valid |-> TRUE,
         prev |-> IF Own(i) = {} THEN R!Genesis
                  ELSE emitted[CHOOSE j \in Own(i) : \A k \in Own(i) : k <= j]]
  IN emitted
-----------------------------------------------------------------------------
Each(names, state) == [name \in names |-> <<state>>]

\* expected_for(): the states named checks must have.
Wanted(n) ==
  LET count == Len(Rows(n)) IN
  [name \in {"artifact_admission", "record_authentication", "chain_link"} |->
     [i \in 1 .. count |-> "SATISFIED"]]
  @@ Each({"intended_target_coverage"}, "NOT_EVALUATED")
  @@ CASE n \in {1, 2, 3, 8} -> Each({"instruction_evidence"}, "MISSING")
       [] n = 4 -> Each({"instruction_evidence", "issuer_dispatch"}, "SATISFIED")
                   @@ Each({"receiver_receipt", "execution_evidence"}, "MISSING")
                   @@ Each({"toctou"}, "NOT_EVALUATED")
       [] n \in {5, 6, 7, 11} ->
            Each({"instruction_evidence", "issuer_dispatch", "receiver_receipt",
                  "execution_evidence"}, "SATISFIED")
            @@ Each({"toctou"}, IF n = 7 THEN "FAILURE" ELSE "SATISFIED")
            @@ Each({"execution_outcome"}, IF n = 6 THEN "FAILURE" ELSE "SATISFIED")
            @@ (IF n = 11
                THEN Each({"effect_evidence", "effect_binding", "observer_relationship"}, "SATISFIED")
                ELSE Each({"effect_evidence"}, "MISSING"))
       [] n = 9 -> Each({"instruction_evidence", "issuer_dispatch", "receiver_receipt"}, "SATISFIED")
                   @@ Each({"execution_evidence"}, "MISSING")
                   @@ Each({"toctou"}, "NOT_EVALUATED")
       [] n = 10 -> [name \in {"instruction_evidence"} |-> <<"SATISFIED", "MISSING">>]
                    @@ Each({"issuer_dispatch", "receiver_receipt", "execution_evidence",
                             "execution_outcome", "toctou"}, "SATISFIED")
                    @@ Each({"effect_evidence"}, "MISSING")

Absent(n) ==
  {"decision", "control", "execution", "effect"} \ {Rows(n)[i].body.type : i \in DOMAIN Rows(n)}

\* How often a check was given a state.
Found(checks, name, state) == Cardinality({c \in checks : c.check = name /\ c.state = state})

\* verify_references(): one record per identity, and references that resolve.
References(A) ==
  LET Named(ref, family) ==
        \E i \in DOMAIN A : A[i].id = ref.id /\ A[i].chain = ref.chain /\ A[i].body.type = family
  IN
  /\ \A i, j \in DOMAIN A : A[i].id = A[j].id => i = j
  /\ \A i \in DOMAIN A : A[i].body.type # "decision" => Named(A[i].body.decision, "decision")
  /\ \A i \in DOMAIN A : A[i].body.type = "effect" => Named(A[i].body.exec, "execution")

OfType(A, types) == {A[i] : i \in {j \in DOMAIN A : A[j].body.type \in types}}

NonAnswers == {"timeout", "cancelled", "notify_failed", "transport_failed"}

\* verify_semantics(): what each scenario is there to keep apart.
Semantics(n, A) ==
  LET decisions  == OfType(A, {"decision"})
      controls   == OfType(A, {"control"})
      executions == OfType(A, {"execution"})
      blocked    == {d \in decisions : d.body.verb = "block"}
      unanswered == {Facts(n).event[2], Facts(n).replay[2]} \cap NonAnswers # {}
  IN
  /\ \A a \in controls \cup executions : a.body.instr # Request(n)
  /\ unanswered \/ n = 1 => \A d \in decisions : d.body.evidence # "human_approval"
  /\ n = 7 => /\ controls # {} /\ executions # {}
              /\ \A c \in controls, x \in executions : c.body.action # x.body.action
  /\ n \in {3, 9} => executions = {}
  /\ n = 3 => controls = {}
  /\ n = 4 => \A c \in controls : c.body.event # "received"
  /\ n = 10 => /\ Cardinality(executions) = 1 /\ Cardinality(blocked) = 1
               /\ \A a \in controls \cup executions \cup OfType(A, {"effect"}) :
                    \A d \in blocked : a.body.decision.id # d.id
  /\ n = 11 => \A e \in OfType(A, {"effect"}) : e.body.observer = "same_executor"

\* validate(), of one scenario as it was generated.
Valid(n, A) ==
  LET checks == R!Checks(A)
      wanted == Wanted(n)
  IN
  /\ References(A) /\ Semantics(n, A)
  /\ OfType(A, Absent(n)) = {}
  /\ \A i \in DOMAIN A : Authentication[A[i].by] = "SATISFIED"
  /\ \A c \in checks : c.check = "chain_link" => c.state = "SATISFIED"
  /\ \A name \in DOMAIN wanted :
       \A state \in {wanted[name][i] : i \in DOMAIN wanted[name]}
                      \cup {c.state : c \in {d \in checks : d.check = name}} :
         Found(checks, name, state) = Cardinality({i \in DOMAIN wanted[name] : wanted[name][i] = state})
-----------------------------------------------------------------------------
\* Safety.  Three tables that number the scenarios independently agree: what is
\* mapped to artifacts is what the facts report and nothing that they leave
\* open, a decision says who took it, and a refused replay has no lifecycle.
TellsFacts(n) ==
  LET f  == Facts(n)
      A  == Artifacts(n)
      Is(a, type, event) == a.body.type = type /\ a.body.event = event
      Reported(type, event) == \E i \in DOMAIN A : Is(A[i], type, event)
      releases == {d \in OfType(A, {"decision"}) : d.body.verb = "release"}
  IN
  /\ releases # {} <=> f.event = <<"human", "once">>
  /\ \A d \in OfType(A, {"decision"}) :
       /\ d.body.evidence = "human_approval" <=> d \in releases /\ d.body.event[1] = "human"
       /\ d.body.event \in {f.event, f.replay}
  /\ Reported("control", "dispatched") <=> f.dispatched
  /\ Reported("control", "received") <=> f.received
  /\ {x.body.event : x \in OfType(A, {"execution"})} = {f.execution} \ {"none"}
  /\ \A x \in OfType(A, {"execution"}) : x.body.action # Action(n, FALSE) <=> f.differs
  /\ {e.body.observer : e \in OfType(A, {"effect"})} = {f.effect} \ {"none"}
  /\ \A a \in OfType(A, {"control", "execution", "effect"}) :
       \E d \in releases : d.id = a.body.decision.id
=============================================================================
