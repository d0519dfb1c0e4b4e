------------------------- MODULE DelegationVerdict --------------------------
(***************************************************************************)
(* The properties of a capture and of the verdict its consumer reaches.    *)
(***************************************************************************)
EXTENDS Delegation

PhaseType == DOMAIN NextPhase \cup {"done", "aborted"}

Busy == {"waitStop", "forward", "await", "reply"}

SrvType ==
  [pc: {"down", "idle", "dead", "exited"} \cup Busy,
   cur: Command \cup {NoCommand}, paused: BOOLEAN, dropped: BOOLEAN,
   duplicate: BOOLEAN, children: Seq(Outcomes)]

BizType == [pc: {"off", "wait", "write", "paused", "failed"}, cancel: BOOLEAN,
            rows: Nat]

SockType == [req: Command \cup {NoCommand},
             state: {"none", "waiting", "reply"} \cup TransportErrors,
             answer: Reply \cup {NoReply}]

\* Types of the variables.  Every log holds well-formed events only, which is
\* what the consumer's exact() calls demand of them.
TypeOK ==
  /\ intent \in Captures
  /\ phase \in PhaseType
  /\ idx \in Nat
  /\ events \in Seq(Event)
  /\ seen \in [Target -> [before: Nat, after: Nat, cleanup: Cleanup]]
  /\ srv \in [Target -> SrvType]
  /\ log \in [Target -> Seq(Event)]
  /\ delivery \in [Target -> Seq(Event)]
  /\ biz \in [Target -> BizType]
  /\ queue \in [Target -> Seq(Command)]
  /\ sock \in [Party -> SockType]
-----------------------------------------------------------------------------
(* Delivery.                                                               *)

\* A request is handled at most once, and only if its sender logged sending
\* it: retries, expired waits and a backlog that outlives its clients neither
\* repeat nor invent a receipt.
DeliveredOnce ==
  \A t \in Target :
    /\ \A i, j \in At(log[t], "receipt") :
         log[t][i].req = log[t][j].req => i = j
    /\ \A req \in Receipts(log[t]) :
         req \in Sends(IF req.from = Controller THEN events ELSE log[req.from])

\* A response a sender recorded is the very reply its receiver logged for that
\* attempt and did not drop.
ResponsesAreReplies ==
  \A p \in Party :
    LET own == IF p = Controller THEN events ELSE log[p] IN
    \A i \in At(own, "transport") :
      own[i].status = "RESPONSE" =>
        \E j \in At(log[own[i].aid[2]], "reply") :
          /\ log[own[i].aid[2]][j].reply = own[i].response
          /\ log[own[i].aid[2]][j].reply.aid = own[i].aid
          /\ ~log[own[i].aid[2]][j].dropped

\* A worker passes a pause on only after its own business has stopped, so a
\* child never receives one from a parent that still works or that refused.
ParentStopsFirst ==
  \A t \in Target : \A req \in Receipts(log[t]) :
    req.from # Controller =>
      /\ biz[req.from].pc \in {"paused", "failed"}
      /\ req.from \notin intent.refuse

\* Where the worker process is, seen from outside.
Status(t) ==
  CASE srv[t].pc = "down" -> "idle"
    [] srv[t].pc \in {"dead", "exited"} -> "down"
    [] Alive(t) /\ srv[t].paused -> "paused"
    [] OTHER -> "running"

Promise == INSTANCE PauseOnce WITH
  status <- [t \in Target |-> Status(t)],
  work <- [t \in Target |-> biz[t].rows],
  reports <- [t \in Target |-> At(log[t], "native_paused")]

\* The capture implements the promise: a target that was started works, is
\* reported paused at most once however often the request arrives, and writes
\* no row from that report on.
PauseOnceSpec == Promise!PSpec
-----------------------------------------------------------------------------
(* The verdict over the finished capture.                                  *)

Recorded == {a.outcome : a \in Attempts(Source)}

\* evaluate admits a finished capture exactly when no send of it expired: the
\* reports of honest processes are accepted whatever was injected, and a
\* receiver that may have acted after its sender gave up is never counted.
AdmittedUnlessExpired ==
  phase = "done" =>
    (Admitted(Source) <=> \A o \in Recorded : o.error # "TimeoutError")

\* A credited target really stopped, and before the first sample: the equal
\* counts of the two samples are the target's final count.
CreditedTargetsAreSettled ==
  phase = "done" /\ Admitted(Source) =>
    \A t \in Target : BoundedPause(Source, t) =>
      biz[t].pc = "paused" /\ biz[t].rows = seen[t].before

\* The targets a pause of this intent gets to: along existing endpoints, and
\* not past a worker that refuses.
Next1(c, p) ==
  IF p \in c.refuse THEN {} ELSE {t \in Children(c, p) : <<p, t>> \notin c.missing}

Reached(c) ==
  {t \in Target : \A S \in SUBSET Target :
     (\A p \in S \cup {Controller} : Next1(c, p) \subseteq S) => t \in S}

Retried(c, t) == \E p \in c.retry : t \in Children(c, p)

\* Without faults of the environment no capture is abandoned, its report is
\* admitted, and the verdict credits exactly the targets that the injections
\* let be paused and answered for: nobody is credited for a sibling's or a
\* parent's pause, and a lost response that is retried costs nobody credit.
VerdictIsExact ==
  /\ phase # "aborted"
  /\ phase = "done" =>
       /\ Admitted(Source)
       /\ \A t \in Target : BoundedPause(Source, t) <=>
            /\ t \in Reached(intent) \ intent.refuse
            /\ t \in intent.drop => Retried(intent, t)

-----------------------------------------------------------------------------
(* Progress.                                                               *)

\* Every capture returns or raises: no set of processes waits for each other.
CaptureEnds == <>Finished

\* A worker that began a pause reports it or is gone.
PauseIsReported ==
  \A t \in Target : srv[t].pc = "waitStop" ~> (srv[t].paused \/ ~Alive(t))
=============================================================================
