------------------------------ MODULE MCSupply ------------------------------
(***************************************************************************)
(* Artifacts to supply.  Those of a lifecycle each open a chain of their   *)
(* own, so that links are satisfied and the lifecycle checks decide.  In   *)
(* Links they are records of one chain, honest and not.                    *)
(***************************************************************************)
EXTENDS Supply

CONSTANTS issuer, receiver, monitor, rogue

Any(id) == [id |-> id, chain |-> AnyChain]
In(id, chain) == [id |-> id, chain |-> chain]

Artifact(id, chain, by, body) ==
  [id |-> id, chain |-> chain, seq |-> 0, prev |-> Genesis, by |-> by, body |-> body,
   valid |-> TRUE]

Decision(id) == Artifact(id, id, issuer, [type |-> "decision"])

Control(id, by, decision, event, side, action) ==
  Artifact(id, id, by,
    [type |-> "control", decision |-> decision, instr |-> "i", digest |-> "g",
     event |-> event, side |-> side, action |-> action])

Execution(id, decision, event, action) ==
  Artifact(id, id, receiver,
    [type |-> "execution", decision |-> decision, instr |-> "i", digest |-> "g",
     event |-> event, action |-> action])

Effect(id, by, decision, exec, observer) ==
  Artifact(id, id, by,
    [type |-> "effect", decision |-> decision, exec |-> exec, observer |-> observer])

D1 == Any("d1")

\* One complete lifecycle, and the others that could be taken for parts of it.
Core ==
  {Decision("d1"),
   Control("ci", issuer, D1, "dispatched", "issuer", "a"),
   Control("cr", receiver, D1, "received", "receiver", "a"),
   Execution("x", D1, "executed", "a"),
   Effect("e", monitor, D1, Any("x"), "independent")}

Others ==
  {Decision("d2"),
   Control("ci2", issuer, Any("d2"), "dispatched", "issuer", "a"),
   Control("cr2", receiver, Any("d2"), "received", "receiver", "a"),
   Execution("y", D1, "executed", "b"),
   Effect("f", receiver, D1, Any("y"), "same_executor")}

Contradictions ==
  {Control("cb", receiver, D1, "received", "receiver", "b"),
   Control("cf", issuer, D1, "delivery_failed", "issuer", "a"),
   Control("cw", receiver, In("d1", "d2"), "received", "issuer", "a"),
   [Execution("x", D1, "executed", "a") EXCEPT !.chain = "other"],
   Effect("h", rogue, D1, In("x", "x"), "independent"),
   Effect("g", monitor, D1, In("d1", "d1"), "independent"),
   [Decision("d2") EXCEPT !.valid = FALSE]}

MCStanding ==
  [p \in {issuer, receiver, monitor, rogue} |-> IF p = rogue THEN "FAILURE" ELSE "SATISFIED"]
MCIndependent == {{issuer, monitor}, {receiver, monitor}, {receiver, rogue}}

Link(id, seq, prev) ==
  [id |-> id, chain |-> "k", seq |-> seq, prev |-> prev, by |-> issuer,
   body |-> [type |-> "decision"], valid |-> TRUE]

K0 == Link("k0", 0, Genesis)
K1 == Link("k1", 1, K0)
K3 == Link("k3", 3, K1)

\* An honest chain with a gap, a fork, a link over a record, backwards and to
\* the side, a restart and a record nobody linked.
Links ==
  {K0, K1, K3, Link("k4", 4, K3), Link("k2", 2, K0), Link("o3", 3, K0),
   Link("b0", 0, K1), Link("s1", 1, K1), Link("z2", 2, Genesis), Link("k5", 5, K1)}

\* One lifecycle among repeated executions and other decisions, in full; one
\* among contradictions and copies; and one chain, with copies.
AllPools ==
  {[artifacts |-> Core \cup Others, copies |-> 1, length |-> 10],
   [artifacts |-> Core \cup Contradictions, copies |-> 2, length |-> 6],
   [artifacts |-> Links, copies |-> 2, length |-> 6]}

Contradictory == {[artifacts |-> Core \cup Contradictions, copies |-> 2, length |-> 6]}
=============================================================================
