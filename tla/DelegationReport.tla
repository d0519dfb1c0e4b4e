-------------------------- MODULE DelegationReport --------------------------
(***************************************************************************)
(* The closed three-target consumer contract of                            *)
(* integrations/langgraph/multitarget/consumer.py, as operators on data.   *)
(*                                                                         *)
(* An intent says which targets the controller addresses (roots, in        *)
(* order), which single target each worker forwards to (kid), and the      *)
(* injections of one capture: which workers refuse, retry or drop their    *)
(* first response, and which (sender, target) endpoints do not exist.      *)
(* The consumer reads only roots and kid.                                  *)
(*                                                                         *)
(* A command is a record; its delivery attempt identity, a fresh uuid in   *)
(* the code, is <<sender, receiver, length of the sender's log>>, which no *)
(* two sends share because every send lengthens the log.                   *)
(* Exact command and response bytes are equality of records.               *)
(***************************************************************************)
EXTENDS Integers, Sequences, FiniteSets

CONSTANTS
  Target,       \* the intended targets (A, B, C)
  Controller,   \* the harness that dispatches root commands
  NoTarget      \* "this worker forwards to nobody"

ASSUME PartiesAreDistinct ==
  /\ Controller \notin Target
  /\ NoTarget \notin Target
  /\ NoTarget # Controller

Party == Target \cup {Controller}

MaxAttempts == 2  \* one forward and one retry

NoAid == <<>>
Aid == Party \X Target \X Nat

Command == [op: {"pause", "configure", "snapshot", "exit"}, from: Party,
            to: Target, n: Nat, parent: Aid \cup {NoAid}]

AidOf(req) == <<req.from, req.to, req.n>>

\* What transport_check lets an outcome name as error.
TransportErrors == {"EOFError", "FileNotFoundError", "ConnectionRefusedError",
                    "TimeoutError", "ConnectionResetError", "BrokenPipeError"}

Outcomes == {"RESPONSE", "TRANSPORT_UNKNOWN"}

\* A worker's reply; kids keeps the status of each forwarded attempt in order.
Reply == [aid: Aid, status: {"REFUSED", "PAUSED_REPORTED"},
          duplicate: BOOLEAN, kids: Seq(Outcomes)]

NoReply == [aid |-> NoAid, status |-> "none", duplicate |-> FALSE,
            kids |-> <<>>]

Event ==
       [kind: {"ready", "configured"}]
  \cup [kind: {"receipt", "send"}, req: Command]
  \cup [kind: {"native_paused", "refused"}, aid: Aid \cup {NoAid}]
  \cup [kind: {"transport"}, aid: Aid, status: Outcomes,
        error: TransportErrors \cup {"none"}, response: Reply \cup {NoReply}]
  \cup [kind: {"reply"}, reply: Reply, dropped: BOOLEAN]

Cleanup == {"none", "exited", "killed"}
-----------------------------------------------------------------------------
(* Reading one log.                                                        *)

At(log, kind) == {i \in DOMAIN log : log[i].kind = kind}

Receipts(log) == {log[i].req : i \in At(log, "receipt")}

Sends(log) == {log[i].req : i \in At(log, "send")}

\* In an accepted log the outcome of a send is the very next event.
OutcomeOf(log, i) == log[i + 1]

Children(c, p) ==
  IF p = Controller THEN {c.roots[i] : i \in DOMAIN c.roots}
                    ELSE {c.kid[p]} \ {NoTarget}

\* command_check: a pause along an edge of the frozen topology, with a parent
\* exactly when a worker, not the controller, sends it.
CommandOk(c, req, t) ==
  /\ req.op = "pause"
  /\ req.to = t
  /\ t \in Children(c, req.from)
  /\ req.parent = NoAid <=> req.from = Controller

TransportOk(e, req) ==
  /\ e.aid = AidOf(req)
  /\ \/ e.status = "RESPONSE" /\ e.error = "none" /\ e.response # NoReply
     \/ /\ e.status = "TRANSPORT_UNKNOWN"
        /\ e.error \in TransportErrors
        /\ e.response = NoReply
-----------------------------------------------------------------------------
(* project_node: the loop body for the event at position i, given the     *)
(* events before it.  "active" is the receipt not yet answered, "pending"  *)
(* the send whose outcome is not yet recorded.                             *)

EventOk(c, t, log, i) ==
  LET e         == log[i]
      Prior(k)  == {j \in At(log, k) : j < i}
      active    == {j \in Prior("receipt") : \A k \in Prior("reply") : k < j}
      pending   == {j \in Prior("send") : \A k \in Prior("transport") : k < j}
      native    == Prior("native_paused")
      a         == CHOOSE j \in active : TRUE
      cmd       == log[a].req
      refused   == {j \in Prior("refused") : j > a}
      out       == {j \in Prior("send") : j > a}
      duplicate == \E j \in native : j < a
      history   == SelectSeq(SubSeq(log, a, i), LAMBDA x : x.kind = "transport")
  IN
  CASE e.kind = "receipt" ->
         /\ CommandOk(c, e.req, t)
         /\ active = {}
         /\ Cardinality(Prior("receipt")) < 2
         /\ \A j \in Prior("receipt") : AidOf(log[j].req) # AidOf(e.req)
    [] e.kind = "native_paused" ->
         active # {} /\ native = {} /\ refused = {} /\ e.aid = AidOf(cmd)
    [] e.kind = "refused" ->
         active # {} /\ native = {} /\ refused = {} /\ e.aid = AidOf(cmd)
    [] e.kind = "send" ->
         /\ CommandOk(c, e.req, e.req.to)
         /\ active # {} /\ native # {} /\ ~duplicate /\ pending = {}
         /\ e.req.from = t
         /\ e.req.parent = AidOf(cmd)
         /\ Cardinality(out) < MaxAttempts
         /\ \A j \in out : OutcomeOf(log, j).status = "TRANSPORT_UNKNOWN"
    [] e.kind = "transport" ->
         /\ pending # {}
         /\ TransportOk(e, log[CHOOSE j \in pending : TRUE].req)
    [] e.kind = "reply" ->
         /\ active # {} /\ pending = {}
         /\ refused # {} \/ native # {}
         /\ e.reply =
              [aid |-> AidOf(cmd),
               status |-> IF refused # {} THEN "REFUSED" ELSE "PAUSED_REPORTED",
               duplicate |-> duplicate,
               kids |-> [j \in 1..Len(history) |-> history[j].status]]
         /\ (refused = {} /\ ~duplicate) =>
              (out # {} <=> Children(c, t) # {})
         /\ refused # {} => out = {}
    [] OTHER -> FALSE

\* project_node accepts a worker's log: ready and configured first, every
\* later event in its place, and nothing left open at the end.
NodeOk(c, t, log) ==
  /\ Len(log) >= 2
  /\ log[1].kind = "ready"
  /\ log[2].kind = "configured"
  /\ \A i \in 3..Len(log) : EventOk(c, t, log, i)
  /\ Len(log) > 2 => log[Len(log)].kind = "reply"

Execution(log) ==
  IF At(log, "native_paused") # {} THEN "PAUSED_REPORTED"
  ELSE IF At(log, "receipt") # {} THEN "REFUSED" ELSE "UNKNOWN"
-----------------------------------------------------------------------------
(* project: the cross-node checks over the controller's log src.events     *)
(* and the workers' logs src.nodes.                                        *)

\* The controller dispatches each root once, each send followed by its outcome.
DispatchOk(src) ==
  LET r == src.intent.roots  ev == src.events IN
  /\ Len(ev) = 2 * Len(r)
  /\ \A i \in DOMAIN r :
       /\ ev[2*i - 1].kind = "send"
       /\ ev[2*i].kind = "transport"
       /\ CommandOk(src.intent, ev[2*i - 1].req, r[i])
       /\ ev[2*i - 1].req.from = Controller
       /\ TransportOk(ev[2*i], ev[2*i - 1].req)

\* Every send of every party, with the outcome its sender recorded for it.
Attempts(src) ==
  LET Of(log) == {[req |-> log[i].req, outcome |-> OutcomeOf(log, i)]
                    : i \in At(log, "send")}
  IN  Of(src.events) \cup UNION {Of(src.nodes[t]) : t \in Target}

\* The reply event that answers the receipt with identity aid in a log.
ReplyTo(log, aid) ==
  log[CHOOSE i \in At(log, "reply") : log[i].reply.aid = aid]

\* Any failed transport agrees with a dropped response.
LossOkOnAnyError(o, answer) == answer.dropped

\* A failed transport whose request was received: the response was dropped,
\* and the sender saw the connection end.
LossOk(o, answer) == answer.dropped /\ o.error = "EOFError"

\* Each attempt against the receiver's own report of it.
AttemptOk(src, a) ==
  LET aid      == AidOf(a.req)
      node     == src.nodes[a.req.to]
      received == aid \in {AidOf(r) : r \in Receipts(node)}
  IN
  /\ a.req.parent # NoAid =>
       a.req.parent \in {AidOf(r) : r \in Receipts(src.nodes[a.req.from])}
  /\ a.outcome.status = "RESPONSE" =>
       /\ received
       /\ ~ReplyTo(node, aid).dropped
       /\ ReplyTo(node, aid).reply = a.outcome.response
  /\ (a.outcome.status # "RESPONSE" /\ received) =>
       LossOk(a.outcome, ReplyTo(node, aid))

\* The two complete file samples, and the cleanup recorded after them.
ObservationOk(src, t) ==
  /\ 1 <= src.seen[t].before /\ src.seen[t].before <= src.seen[t].after
  /\ src.seen[t].cleanup \in {"exited", "killed"}

\* evaluate reports MATCH.
Admitted(src) ==
  /\ \A t \in Target : NodeOk(src.intent, t, src.nodes[t])
  /\ \A a, b \in Attempts(src) : AidOf(a.req) = AidOf(b.req) => a = b
  /\ DispatchOk(src)
  /\ \A t \in Target : Receipts(src.nodes[t]) \subseteq
                         {a.req : a \in Attempts(src)}
  /\ \A a \in Attempts(src) : AttemptOk(src, a)
  /\ \A t \in Target : ObservationOk(src, t)

\* Every attempt must be answered, the first of a retried pair too.
AnsweredEachTime(src, t) ==
  \A a \in Attempts(src) : a.req.to = t => a.outcome.status = "RESPONSE"

Answered(src, t) ==
  \E a \in Attempts(src) : a.req.to = t /\ a.outcome.status = "RESPONSE"

\* The per-target verdict bounded_pause.
BoundedPause(src, t) ==
  /\ Execution(src.nodes[t]) = "PAUSED_REPORTED"
  /\ src.seen[t].before = src.seen[t].after
  /\ Answered(src, t)
  /\ src.seen[t].cleanup # "killed"
=============================================================================
