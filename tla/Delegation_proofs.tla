------------------------- MODULE Delegation_proofs --------------------------
(***************************************************************************)
(* Proofs about Delegation for every set of targets, every order, every    *)
(* set of intents and every combination of faults.                         *)
(***************************************************************************)
EXTENDS DelegationVerdict, TLAPS

\* What TypeOK needs to be preserved: a busy server holds a real command, one
\* about to forward has a child, an open socket holds a real command.
CallInv ==
  /\ \A t \in Target : srv[t].pc \in Busy => srv[t].cur \in Command
  /\ \A t \in Target : srv[t].pc \in {"forward", "await"} => intent.kid[t] # NoTarget
  /\ \A p \in Party : sock[p].state # "none" => sock[p].req \in Command

TInv == TypeOK /\ CallInv
-----------------------------------------------------------------------------
\* The two values that stand for "no command" and "no reply" are neither.
LEMMA NoCommandIsNone == NoCommand \notin Command /\ NoReply \notin Reply
BY DEF NoCommand, Command, NoReply, Reply

\* A command's attempt identity is one.
LEMMA AidType == ASSUME NEW req \in Command PROVE AidOf(req) \in Aid
BY DEF AidOf, Aid, Command

\* A socket that was closed, or never opened, is a socket.
LEMMA ClosedType == Closed \in SockType
BY DEF Closed, SockType

\* Connecting keeps sockets and backlogs well-formed.
LEMMA ConnectType ==
  ASSUME TInv, NEW p \in Party, NEW req \in Command, Connect(p, req)
  PROVE  /\ sock' \in [Party -> SockType]
         /\ \A q \in Party : sock'[q].state # "none" => sock'[q].req \in Command
         /\ queue' \in [Target -> Seq(Command)]
<1>1. ASSUME NEW st \in {"FileNotFoundError", "ConnectionRefusedError", "waiting"},
             Opens(p, req, st)
      PROVE /\ sock' \in [Party -> SockType]
            /\ \A q \in Party : sock'[q].state # "none" => sock'[q].req \in Command
  <2>1. [req |-> req, state |-> st, answer |-> NoReply] \in SockType
    BY DEF SockType, TransportErrors
  <2> QED BY <1>1, <2>1 DEF Opens, TInv, TypeOK, CallInv
<1>2. req.to \in Target
  BY DEF Command
<1>3. ASSUME queue' = [queue EXCEPT ![req.to] = Append(@, req)]
      PROVE queue' \in [Target -> Seq(Command)]
  BY <1>2, <1>3 DEF TInv, TypeOK
<1> QED BY <1>1, <1>3 DEF Connect, TInv, TypeOK

\* Delivering a result keeps sockets well-formed.
LEMMA ResultType ==
  ASSUME TInv, NEW req \in Command, NEW state \in {"reply"} \cup TransportErrors,
         NEW ans \in Reply \cup {NoReply}
  PROVE  LET s == Result(req, state, ans) IN
         /\ s \in [Party -> SockType]
         /\ \A q \in Party : s[q].state # "none" => s[q].req \in Command
<1>1. req.from \in Party
  BY DEF Command
<1>2. CASE Connected(req) /\ sock[req.from].state = "waiting"
  <2>1. Result(req, state, ans) =
          [sock EXCEPT ![req.from] =
             [sock[req.from] EXCEPT !.state = state, !.answer = ans]]
    BY <1>1, <1>2 DEF Result, TInv, TypeOK, SockType
  <2>2. [sock[req.from] EXCEPT !.state = state, !.answer = ans] \in SockType
    BY <1>1 DEF TInv, TypeOK, SockType
  <2>3. [sock[req.from] EXCEPT !.state = state, !.answer = ans].req \in Command
    BY <1>1, <1>2 DEF TInv, TypeOK, CallInv, SockType
  <2> QED BY <1>1, <2>1, <2>2, <2>3 DEF TInv, TypeOK, CallInv
<1>3. CASE ~(Connected(req) /\ sock[req.from].state = "waiting")
  BY <1>3 DEF Result, TInv, TypeOK, CallInv
<1> QED BY <1>2, <1>3

\* Ending a process keeps everything it touches well-formed.
LEMMA EndProcessType ==
  ASSUME TInv, NEW t \in Target, NEW pc \in {"dead", "exited"},
         NEW served \in Command \cup {NoCommand},
         NEW state \in {"reply"} \cup TransportErrors,
         EndProcess(t, pc, served, state)
  PROVE  /\ srv' \in [Target -> SrvType]
         /\ queue' \in [Target -> Seq(Command)]
         /\ sock' \in [Party -> SockType]
         /\ \A u \in Target : srv'[u].pc \in Busy => srv'[u].cur \in Command
         /\ \A u \in Target : srv'[u].pc \in {"forward", "await"} => srv'[u].pc = srv[u].pc
         /\ \A q \in Party : sock'[q].state # "none" => sock'[q].req \in Command
<1>1. /\ srv' \in [Target -> SrvType]
      /\ \A u \in Target : srv'[u].pc \in Busy => srv'[u].cur \in Command
      /\ \A u \in Target : srv'[u].pc \in {"forward", "await"} => srv'[u].pc = srv[u].pc
  <2> DEFINE r == [srv[t] EXCEPT !.pc = pc, !.cur = served]
  <2>1. srv' = [srv EXCEPT ![t] = r]
    BY DEF EndProcess, TInv, TypeOK, SrvType
  <2>2. srv[t] \in SrvType
    BY DEF TInv, TypeOK
  <2>3. r \in SrvType /\ r.pc = pc
    BY <2>2 DEF SrvType
  <2>4. pc \notin Busy /\ pc \notin {"forward", "await"}
    BY DEF Busy
  <2> HIDE DEF r
  <2> QED BY <2>1, <2>3, <2>4 DEF TInv, TypeOK, CallInv
<1>2. queue' \in [Target -> Seq(Command)]
  BY DEF EndProcess, TInv, TypeOK
<1>3. ASSUME NEW p \in Party
      PROVE sock'[p] \in SockType /\ (sock'[p].state # "none" => sock'[p].req \in Command)
  <2>1. CASE p = t
    BY <2>1, ClosedType DEF EndProcess, Closed
  <2>2. CASE p # t /\ (sock[p].state # "waiting" \/ sock[p].req.to # t)
    BY <2>2 DEF EndProcess, TInv, TypeOK, CallInv
  <2>3. CASE p # t /\ ~(sock[p].state # "waiting" \/ sock[p].req.to # t)
    <3> DEFINE st == IF sock[p].req = served THEN state ELSE "ConnectionResetError"
    <3>1. sock'[p] = [sock[p] EXCEPT !.state = st]
      BY <2>3 DEF EndProcess
    <3>2. st \in {"none", "waiting", "reply"} \cup TransportErrors
      BY DEF TransportErrors
    <3>3. sock[p] \in SockType /\ sock[p].req \in Command
      BY <2>3 DEF TInv, TypeOK, CallInv
    <3> HIDE DEF st
    <3> QED BY <3>1, <3>2, <3>3 DEF SockType
  <2> QED BY <2>1, <2>2, <2>3
<1>4. sock' = [p \in Party |-> sock'[p]]
  BY DEF EndProcess
<1> QED BY <1>1, <1>2, <1>3, <1>4

\* The loop of a phase or the next phase.
LEMMA AdvanceType ==
  ASSUME TInv, phase \in DOMAIN NextPhase, Advance
  PROVE  phase' \in PhaseType /\ idx' \in Nat
<1>1. phase \in PhaseType /\ NextPhase[phase] \in PhaseType
  BY DEF PhaseType, NextPhase
<1> QED BY <1>1 DEF Advance, TInv, TypeOK

\* Appending well-formed events keeps a log well-formed.
LEMMA EmitType ==
  ASSUME TInv, NEW t \in Target, NEW es \in Seq(Event), Emit(t, es)
  PROVE  log' \in [Target -> Seq(Event)]
BY DEF Emit, TInv, TypeOK

\* One more event in one worker's log keeps every log well-typed.
LEMMA EmitOneType ==
  ASSUME TInv, NEW t \in Target, NEW e \in Event, Emit(t, <<e>>)
  PROVE  log' \in [Target -> Seq(Event)]
<1>1. <<e>> \in Seq(Event)
  OBVIOUS
<1> QED BY <1>1, EmitType

\* The outcome of a call that returned is an event.
LEMMA TransportEventType ==
  ASSUME TInv, NEW p \in Party, Returned(p)
  PROVE  TransportEvent(p) \in Event
<1>1. sock[p] \in SockType /\ sock[p].req \in Command
  BY DEF TInv, TypeOK, CallInv, Returned
<1>2. AidOf(sock[p].req) \in Aid
  BY <1>1, AidType
<1>3. sock[p].state \in {"reply"} \cup TransportErrors
  BY <1>1 DEF SockType, Returned
<1> QED BY <1>1, <1>2, <1>3 DEF TransportEvent, Event, SockType, Outcomes

\* The reply of a busy worker.
LEMMA ReplyType ==
  ASSUME TInv, NEW t \in Target, srv[t].pc \in Busy
  PROVE  ReplyOf(t) \in Reply
<1>1. srv[t] \in SrvType /\ AidOf(srv[t].cur) \in Aid
  BY AidType DEF TInv, TypeOK, CallInv
<1> QED BY <1>1 DEF ReplyOf, Reply, SrvType

\* The oldest request of a server that accepts one, and what is left.
LEMMA AcceptsType ==
  ASSUME TInv, NEW t \in Target, NEW op, Accepts(t, op)
  PROVE  Head(queue[t]) \in Command /\ Tail(queue[t]) \in Seq(Command)
BY DEF Accepts, TInv, TypeOK

\* Single events that the worker logs.
LEMMA EventType ==
  /\ [kind |-> "ready"] \in Event /\ [kind |-> "configured"] \in Event
  /\ \A req \in Command : /\ [kind |-> "receipt", req |-> req] \in Event
                           /\ [kind |-> "send", req |-> req] \in Event
  /\ \A a \in Aid \cup {NoAid} : /\ [kind |-> "native_paused", aid |-> a] \in Event
                                 /\ [kind |-> "refused", aid |-> a] \in Event
  /\ \A r \in Reply, d \in BOOLEAN : [kind |-> "reply", reply |-> r, dropped |-> d] \in Event
BY DEF Event
-----------------------------------------------------------------------------
\* Where only the thread or only the controller moves, calls stay as they are.
LEMMA CallFrame ==
  ASSUME TInv, UNCHANGED <<intent, srv, sock>>
  PROVE  CallInv'
BY DEF TInv, CallInv

\* Leaving capture() by an exception keeps the types.
LEMMA AbortType ==
  ASSUME TInv, UNCHANGED intent, Abort
  PROVE  TInv'
<1>1. \A u \in Target : /\ [srv[u] EXCEPT !.pc = "dead"] \in SrvType
                         /\ [srv[u] EXCEPT !.pc = "dead"].pc = "dead"
  <2>1. \A r \in SrvType : /\ [r EXCEPT !.pc = "dead"] \in SrvType
                           /\ [r EXCEPT !.pc = "dead"].pc = "dead"
    BY DEF SrvType
  <2> QED BY <2>1 DEF TInv, TypeOK
<1>2. /\ srv' = [u \in Target |-> srv'[u]]
      /\ \A u \in Target : srv'[u] \in {srv[u], [srv[u] EXCEPT !.pc = "dead"]}
      /\ phase' = "aborted"
      /\ UNCHANGED <<idx, events, seen, log, delivery, biz, queue, sock>>
  BY DEF Abort
<1>3. srv' \in [Target -> SrvType]
  BY <1>1, <1>2 DEF TInv, TypeOK
<1>4. \A u \in Target : srv'[u] = srv[u] \/ srv'[u].pc = "dead"
  BY <1>1, <1>2
<1>5. CallInv'
  BY <1>2, <1>4 DEF TInv, CallInv, Busy
<1>6. TypeOK'
  BY <1>2, <1>3 DEF TInv, TypeOK, PhaseType
<1> QED BY <1>5, <1>6 DEF TInv

\* The steps of the harness keep the types.
LEMMA ControllerType ==
  ASSUME TInv, UNCHANGED intent, NEW t \in Target, ControllerStep(t)
  PROVE  TInv'
<1> USE DEF ctlVars
<1>1. CASE Spawn(t)
  <2>1. phase' \in PhaseType /\ idx' \in Nat
    BY <1>1, AdvanceType DEF Spawn, NextPhase
  <2>2. log' \in [Target -> Seq(Event)]
    BY <1>1, EventType DEF Spawn, TInv, TypeOK
  <2>3. srv' \in [Target -> SrvType]
    <3> DEFINE r == [srv[t] EXCEPT !.pc = "idle"]
    <3>1. srv' = [srv EXCEPT ![t] = r]
      BY <1>1 DEF Spawn
    <3>2. r \in SrvType
      BY DEF TInv, TypeOK, SrvType
    <3> HIDE DEF r
    <3> QED BY <3>1, <3>2 DEF TInv, TypeOK
  <2>5. biz' \in [Target -> BizType]
    <3> DEFINE r == [biz[t] EXCEPT !.pc = "wait", !.rows = 1]
    <3>1. biz' = [biz EXCEPT ![t] = r]
      BY <1>1 DEF Spawn, TInv, TypeOK, BizType
    <3>2. r \in BizType
      BY DEF TInv, TypeOK, BizType
    <3> HIDE DEF r
    <3> QED BY <3>1, <3>2 DEF TInv, TypeOK
  <2>4. CallInv'
    <3>1. srv' = [srv EXCEPT ![t].pc = "idle"] /\ UNCHANGED <<intent, sock>>
      BY <1>1 DEF Spawn
    <3>2. \A u \in Target : \/ srv'[u] = srv[u]
                            \/ srv'[u].pc \notin Busy \cup {"forward", "await"}
      BY <3>1 DEF TInv, TypeOK, SrvType, Busy
    <3> QED BY <3>1, <3>2 DEF TInv, CallInv
  <2> QED BY <1>1, <2>1, <2>2, <2>3, <2>4, <2>5 DEF Spawn, TInv, TypeOK
<1>2. CASE Ask(t)
  <2> DEFINE req == [op |-> ControlOp(t), from |-> Controller, to |-> t,
                     n |-> 0, parent |-> NoAid]
  <2>1. req \in Command /\ Connect(Controller, req) /\ Controller \in Party
    BY <1>2 DEF Ask, ControlOp, Command, Party
  <2>2. /\ sock' \in [Party -> SockType]
        /\ \A q \in Party : sock'[q].state # "none" => sock'[q].req \in Command
        /\ queue' \in [Target -> Seq(Command)]
    BY <2>1, ConnectType
  <2> QED BY <1>2, <2>2 DEF Ask, TInv, TypeOK, CallInv
<1>3. CASE Acknowledged(t)
  <2>1. phase \in DOMAIN NextPhase
    BY <1>3 DEF Acknowledged, ControlOp, NextPhase
  <2>2. phase' \in PhaseType /\ idx' \in Nat
    BY <1>3, <2>1, AdvanceType DEF Acknowledged
  <2>3. /\ sock' \in [Party -> SockType]
        /\ \A q \in Party : sock'[q].state # "none" => sock'[q].req \in Command
    BY <1>3, ClosedType DEF Acknowledged, TInv, TypeOK, CallInv, Closed
  <2>4. seen' \in [Target -> [before: Nat, after: Nat, cleanup: Cleanup]]
    <3>1. seen' = [seen EXCEPT ![t].cleanup = "exited"] \/ seen' = seen
      BY <1>3 DEF Acknowledged
    <3>2. "exited" \in Cleanup
      BY DEF Cleanup
    <3>3. CASE seen' = [seen EXCEPT ![t].cleanup = "exited"]
      BY <3>2, <3>3 DEF TInv, TypeOK
    <3>4. CASE seen' = seen
      BY <3>4 DEF TInv, TypeOK
    <3> QED BY <3>1, <3>3, <3>4
  <2>5. UNCHANGED <<intent, events, srv, log, delivery, biz, queue>>
    BY <1>3 DEF Acknowledged
  <2>6. TypeOK'
    BY <2>2, <2>3, <2>4, <2>5 DEF TInv, TypeOK
  <2> QED BY <2>3, <2>5, <2>6 DEF TInv, CallInv
<1>4. CASE Dispatch(t)
  <2> DEFINE req == [op |-> "pause", from |-> Controller, to |-> t,
                     n |-> Len(events), parent |-> NoAid]
  <2>1. req \in Command /\ Connect(Controller, req) /\ Controller \in Party
    BY <1>4 DEF Dispatch, Command, Party, TInv, TypeOK
  <2>2. /\ sock' \in [Party -> SockType]
        /\ \A q \in Party : sock'[q].state # "none" => sock'[q].req \in Command
        /\ queue' \in [Target -> Seq(Command)]
    BY <2>1, ConnectType
  <2>3. events' \in Seq(Event)
    <3>1. [kind |-> "send", req |-> req] \in Event
      BY <2>1, EventType
    <3>2. events' = Append(events, [kind |-> "send", req |-> req])
      BY <1>4 DEF Dispatch
    <3> HIDE DEF req
    <3> QED BY <3>1, <3>2 DEF TInv, TypeOK
  <2> QED BY <1>4, <2>2, <2>3 DEF Dispatch, TInv, TypeOK, CallInv
<1>5. CASE Dispatched
  <2>1. phase' \in PhaseType /\ idx' \in Nat
    BY <1>5, AdvanceType DEF Dispatched, NextPhase
  <2>2. events' \in Seq(Event)
    BY <1>5, TransportEventType DEF Dispatched, TInv, TypeOK, Party
  <2>3. /\ sock' \in [Party -> SockType]
        /\ \A q \in Party : sock'[q].state # "none" => sock'[q].req \in Command
    BY <1>5, ClosedType DEF Dispatched, TInv, TypeOK, CallInv, Closed
  <2> QED BY <1>5, <2>1, <2>2, <2>3 DEF Dispatched, TInv, TypeOK, CallInv
<1>6. CASE Sample(t)
  <2>1. phase' \in PhaseType /\ idx' \in Nat
    BY <1>6, AdvanceType DEF Sample, NextPhase
  <2>2. seen' \in [Target -> [before: Nat, after: Nat, cleanup: Cleanup]]
    <3>1. biz[t].rows \in Nat
      BY DEF TInv, TypeOK, BizType
    <3>2. CASE seen' = [seen EXCEPT ![t].before = biz[t].rows]
      BY <3>1, <3>2 DEF TInv, TypeOK
    <3>3. CASE seen' = [seen EXCEPT ![t].after = biz[t].rows]
      BY <3>1, <3>3 DEF TInv, TypeOK
    <3> QED BY <1>6, <3>2, <3>3 DEF Sample
  <2> QED BY <1>6, <2>1, <2>2, CallFrame DEF Sample, TInv, TypeOK
<1>7. CASE ForceKill(t)
  <2>1. phase' \in PhaseType /\ idx' \in Nat
    BY <1>7, AdvanceType DEF ForceKill, NextPhase
  <2>2. srv[t].cur \in Command \cup {NoCommand}
    BY DEF TInv, TypeOK, SrvType
  <2>3. /\ srv' \in [Target -> SrvType]
        /\ queue' \in [Target -> Seq(Command)]
        /\ sock' \in [Party -> SockType]
        /\ CallInv'
    BY <1>7, <2>2, EndProcessType DEF ForceKill, TInv, CallInv, TransportErrors
  <2>4. seen' \in [Target -> [before: Nat, after: Nat, cleanup: Cleanup]]
    BY <1>7 DEF ForceKill, TInv, TypeOK, Cleanup
  <2> QED BY <1>7, <2>1, <2>3, <2>4 DEF ForceKill, TInv, TypeOK
<1>8. CASE Abort
  BY <1>8, AbortType
<1> QED
  BY <1>1, <1>2, <1>3, <1>4, <1>5, <1>6, <1>7, <1>8 DEF ControllerStep, ControlFails

\* The record of one server after a step that names its fields.
LEMMA SrvStep ==
  ASSUME TInv, NEW t \in Target, NEW r \in SrvType, srv' = [srv EXCEPT ![t] = r],
         r.pc \in Busy => r.cur \in Command,
         r.pc \in {"forward", "await"} => intent.kid[t] # NoTarget, UNCHANGED intent
  PROVE  /\ srv' \in [Target -> SrvType]
         /\ \A u \in Target : srv'[u].pc \in Busy => srv'[u].cur \in Command
         /\ \A u \in Target : srv'[u].pc \in {"forward", "await"} => intent'.kid[u] # NoTarget
BY DEF TInv, TypeOK, CallInv

\* The steps of the serial accept loops keep the types.
LEMMA ServerType ==
  ASSUME TInv, UNCHANGED intent, NEW t \in Target, ServerStep(t)
  PROVE  TInv'
<1> USE DEF ctlVars
<1> DEFINE SrvGood == /\ srv' \in [Target -> SrvType]
                      /\ \A u \in Target : srv'[u].pc \in Busy => srv'[u].cur \in Command
                      /\ \A u \in Target : srv'[u].pc \in {"forward", "await"} => intent'.kid[u] # NoTarget
           SockGood == /\ sock' \in [Party -> SockType]
                       /\ \A q \in Party : sock'[q].state # "none" => sock'[q].req \in Command
<1>a. srv[t] \in SrvType /\ biz[t] \in BizType /\ t \in Party /\ log[t] \in Seq(Event)
  BY DEF TInv, TypeOK, Party
<1>b. srv[t].pc \in Busy => srv[t].cur \in Command /\ AidOf(srv[t].cur) \in Aid
  BY AidType DEF TInv, CallInv
<1>1. CASE Configure(t)
  <2>1. Head(queue[t]) \in Command /\ Tail(queue[t]) \in Seq(Command)
    BY <1>1, AcceptsType DEF Configure
  <2>2. SockGood
    BY <1>1, <2>1, ResultType DEF Configure
  <2>3. log' \in [Target -> Seq(Event)]
    BY <1>1, EventType, EmitOneType DEF Configure
  <2>4. queue' \in [Target -> Seq(Command)]
    BY <1>1, <2>1 DEF Configure, TInv, TypeOK
  <2> QED BY <1>1, <2>2, <2>3, <2>4 DEF Configure, TInv, TypeOK, CallInv
<1>2. CASE Snapshot(t)
  <2>1. Head(queue[t]) \in Command /\ Tail(queue[t]) \in Seq(Command)
    BY <1>2, AcceptsType DEF Snapshot
  <2>2. CASE NodeOk(intent, t, log[t])
    <3>1. SockGood
      BY <1>2, <2>1, <2>2, ResultType DEF Snapshot
    <3>2. queue' \in [Target -> Seq(Command)] /\ delivery' \in [Target -> Seq(Event)]
      BY <1>a, <1>2, <2>1, <2>2 DEF Snapshot, TInv, TypeOK
    <3> QED BY <1>2, <2>2, <3>1, <3>2 DEF Snapshot, TInv, TypeOK, CallInv
  <2>3. CASE ~NodeOk(intent, t, log[t])
    <3>1. /\ srv' \in [Target -> SrvType]
          /\ queue' \in [Target -> Seq(Command)]
          /\ sock' \in [Party -> SockType]
          /\ CallInv'
      BY <1>2, <2>1, <2>3, EndProcessType DEF Snapshot, TInv, CallInv, TransportErrors
    <3> QED BY <1>2, <2>3, <3>1 DEF Snapshot, TInv, TypeOK
  <2> QED BY <2>2, <2>3
<1>3. CASE Exit(t)
  <2>1. Head(queue[t]) \in Command
    BY <1>3, AcceptsType DEF Exit
  <2>2. /\ srv' \in [Target -> SrvType]
        /\ queue' \in [Target -> Seq(Command)]
        /\ sock' \in [Party -> SockType]
        /\ CallInv'
    BY <1>3, <2>1, EndProcessType DEF Exit, TInv, CallInv
  <2> QED BY <1>3, <2>2 DEF Exit, TInv, TypeOK
<1>4. CASE ReceivePause(t)
  <2>1. Head(queue[t]) \in Command /\ Tail(queue[t]) \in Seq(Command)
    BY <1>4, AcceptsType DEF ReceivePause
  <2>2. SrvGood
    <3> DEFINE r == [srv[t] EXCEPT !.pc = IF Begins(t) THEN "waitStop" ELSE "reply",
                                   !.cur = Head(queue[t]), !.children = <<>>,
                                   !.duplicate = srv[t].paused]
    <3>1. srv' = [srv EXCEPT ![t] = r]
      BY <1>a, <1>4 DEF ReceivePause, TInv, TypeOK, SrvType
    <3>2. /\ r \in SrvType /\ r.cur = Head(queue[t])
          /\ r.pc \in {"waitStop", "reply"}
      <4>1. <<>> \in Seq(Outcomes) /\ srv[t].paused \in BOOLEAN
        BY <1>a DEF SrvType
      <4>2. (IF Begins(t) THEN "waitStop" ELSE "reply") \in {"waitStop", "reply"}
        OBVIOUS
      <4> QED BY <1>a, <2>1, <4>1, <4>2 DEF SrvType, Busy
    <3> HIDE DEF r
    <3> QED BY <2>1, <3>1, <3>2, SrvStep
  <2>3. log' \in [Target -> Seq(Event)]
    <3> DEFINE receipt == [kind |-> "receipt", req |-> Head(queue[t])]
               refusal == [kind |-> "refused", aid |-> AidOf(Head(queue[t]))]
    <3>1. receipt \in Event /\ refusal \in Event
      BY <2>1, EventType, AidType
    <3>2. Emit(t, IF t \in intent.refuse THEN <<receipt, refusal>> ELSE <<receipt>>)
      BY <1>4 DEF ReceivePause
    <3> HIDE DEF receipt, refusal
    <3>3. <<receipt, refusal>> \in Seq(Event) /\ <<receipt>> \in Seq(Event)
      BY <3>1
    <3> QED BY <3>2, <3>3, EmitType
  <2>4. queue' \in [Target -> Seq(Command)] /\ biz' \in [Target -> BizType]
    BY <1>4, <2>1 DEF ReceivePause, TInv, TypeOK, BizType
  <2> QED BY <1>4, <2>2, <2>3, <2>4 DEF ReceivePause, TInv, TypeOK, CallInv
<1>5. CASE NativePaused(t)
  <2>1. srv[t].cur \in Command
    BY <1>b, <1>5 DEF NativePaused, Busy
  <2>2. SrvGood
    <3> DEFINE r == [srv[t] EXCEPT !.paused = TRUE,
                                   !.pc = IF intent.kid[t] # NoTarget THEN "forward" ELSE "reply"]
    <3>1. srv' = [srv EXCEPT ![t] = r]
      BY <1>a, <1>5 DEF NativePaused, TInv, TypeOK, SrvType
    <3>2. /\ r \in SrvType /\ r.cur = srv[t].cur
          /\ r.pc \in {"forward", "await"} => intent.kid[t] # NoTarget
      BY <1>a DEF SrvType, Busy
    <3> HIDE DEF r
    <3> QED BY <2>1, <3>1, <3>2, SrvStep
  <2>3. log' \in [Target -> Seq(Event)]
    BY <1>5, <2>1, EventType, EmitOneType, AidType DEF NativePaused
  <2> QED BY <1>5, <2>2, <2>3 DEF NativePaused, TInv, TypeOK, CallInv
<1>6. CASE Forward(t)
  <2>1. ForwardedCommand(t) \in Command
    <3>1. intent.kid[t] \in Target
      BY <1>6, CapturesAssumption DEF Forward, TInv, TypeOK, CallInv
    <3>2. AidOf(srv[t].cur) \in Aid
      BY <1>b, <1>6 DEF Forward, Busy
    <3> QED BY <1>a, <3>1, <3>2 DEF ForwardedCommand, Command
  <2>2. SockGood /\ queue' \in [Target -> Seq(Command)]
    BY <1>a, <1>6, <2>1, ConnectType DEF Forward
  <2>3. SrvGood
    <3> DEFINE r == [srv[t] EXCEPT !.pc = "await"]
    <3>1. srv' = [srv EXCEPT ![t] = r]
      BY <1>6 DEF Forward
    <3>2. r \in SrvType /\ r.cur \in Command /\ intent.kid[t] # NoTarget
      BY <1>a, <1>b, <1>6 DEF Forward, SrvType, Busy, TInv, CallInv
    <3> HIDE DEF r
    <3> QED BY <3>1, <3>2, SrvStep
  <2>4. log' \in [Target -> Seq(Event)]
    BY <1>6, <2>1, EventType, EmitOneType DEF Forward
  <2> QED BY <1>6, <2>2, <2>3, <2>4 DEF Forward, TInv, TypeOK, CallInv
<1>7. CASE Forwarded(t)
  <2>1. TransportEvent(t) \in Event /\ TransportEvent(t).status \in Outcomes
    BY <1>a, <1>7, TransportEventType DEF Forwarded, TransportEvent, Outcomes
  <2>2. SrvGood
    <3> DEFINE tries == IF t \in intent.retry THEN MaxAttempts ELSE 1
               again == TransportEvent(t).status # "RESPONSE" /\ Len(srv[t].children) + 1 < tries
               r == [srv[t] EXCEPT !.children = Append(srv[t].children, TransportEvent(t).status),
                                   !.pc = IF again THEN "forward" ELSE "reply"]
    <3>1. srv' = [srv EXCEPT ![t] = r]
      BY <1>a, <1>7 DEF Forwarded, TInv, TypeOK, SrvType
    <3>2. r \in SrvType /\ r.cur = srv[t].cur
      <4>1. Append(srv[t].children, TransportEvent(t).status) \in Seq(Outcomes)
        BY <1>a, <2>1 DEF SrvType
      <4>2. (IF again THEN "forward" ELSE "reply") \in Busy
        BY DEF Busy
      <4> HIDE DEF again
      <4> QED BY <1>a, <4>1, <4>2 DEF SrvType
    <3>3. intent.kid[t] # NoTarget
      BY <1>7 DEF Forwarded, TInv, CallInv
    <3> HIDE DEF r
    <3> QED BY <1>b, <1>7, <3>1, <3>2, <3>3, SrvStep DEF Forwarded, Busy
  <2>3. log' \in [Target -> Seq(Event)]
    BY <1>7, <2>1, EmitOneType DEF Forwarded
  <2>4. SockGood
    BY <1>7, ClosedType DEF Forwarded, TInv, TypeOK, CallInv, Closed
  <2> QED BY <1>7, <2>2, <2>3, <2>4 DEF Forwarded, TInv, TypeOK, CallInv
<1>8. CASE SendReply(t)
  <2> DEFINE drop == t \in intent.drop /\ ~srv[t].dropped
  <2>1. ReplyOf(t) \in Reply /\ srv[t].cur \in Command
    BY <1>b, <1>8, ReplyType DEF SendReply, Busy
  <2>2. log' \in [Target -> Seq(Event)]
    <3>1. [kind |-> "reply", reply |-> ReplyOf(t), dropped |-> drop] \in Event
      BY <2>1, EventType
    <3> HIDE DEF drop
    <3>2. Emit(t, <<[kind |-> "reply", reply |-> ReplyOf(t), dropped |-> drop]>>)
      BY <1>8 DEF SendReply, drop
    <3> QED BY <3>1, <3>2, EmitOneType
  <2>3. CASE srv' = [srv EXCEPT ![t].pc = "idle", ![t].dropped = @ \/ drop]
             /\ sock' = (IF drop THEN Result(srv[t].cur, "EOFError", NoReply)
                                 ELSE Result(srv[t].cur, "reply", ReplyOf(t)))
             /\ UNCHANGED queue
    <3>1. SrvGood
      <4> DEFINE r == [srv[t] EXCEPT !.pc = "idle", !.dropped = srv[t].dropped \/ drop]
      <4>1. srv' = [srv EXCEPT ![t] = r]
        BY <1>a, <2>3 DEF TInv, TypeOK, SrvType
      <4>2. r \in SrvType /\ r.pc = "idle"
        BY <1>a DEF SrvType
      <4> HIDE DEF r
      <4> QED BY <4>1, <4>2, SrvStep DEF Busy
    <3>2. SockGood
      BY <2>1, <2>3, ResultType DEF TransportErrors
    <3> QED BY <1>8, <2>2, <2>3, <3>1, <3>2 DEF SendReply, TInv, TypeOK, CallInv
  <2>4. CASE EndProcess(t, "dead", srv[t].cur, "EOFError")
    <3>1. /\ srv' \in [Target -> SrvType]
          /\ queue' \in [Target -> Seq(Command)]
          /\ sock' \in [Party -> SockType]
          /\ CallInv'
      BY <2>1, <2>4, EndProcessType DEF TInv, CallInv, TransportErrors
    <3> QED BY <1>8, <2>2, <2>4, <3>1 DEF SendReply, TInv, TypeOK
  <2> QED BY <1>8, <2>3, <2>4 DEF SendReply
<1> QED
  BY <1>1, <1>2, <1>3, <1>4, <1>5, <1>6, <1>7, <1>8 DEF ServerStep

\* The steps of the business threads keep the types.
LEMMA BusinessType ==
  ASSUME TInv, UNCHANGED intent, NEW t \in Target,
         NEW from \in {"wait", "write"}, NEW to \in {"wait", "write", "paused", "failed"},
         NEW rows \in Nat, Business(t, from, to, rows)
  PROVE  TInv'
<1> DEFINE r == [biz[t] EXCEPT !.pc = to, !.rows = rows]
<1>1. biz' = [biz EXCEPT ![t] = r]
  BY DEF Business, TInv, TypeOK, BizType
<1>2. r \in BizType
  BY DEF TInv, TypeOK, BizType
<1>3. biz' \in [Target -> BizType]
  <2> HIDE DEF r
  <2> QED BY <1>1, <1>2 DEF TInv, TypeOK
<1> QED BY <1>3, CallFrame DEF Business, ctlVars, TInv, TypeOK

\* So does any one step of any business thread.
LEMMA BusinessStepType ==
  ASSUME TInv, UNCHANGED intent, NEW t \in Target, BusinessStep(t) \/ BusinessFails(t)
  PROVE  TInv'
<1>1. biz[t].rows \in Nat
  BY DEF TInv, TypeOK, BizType
<1>2. \E from \in {"wait", "write"}, to \in {"wait", "write", "paused", "failed"},
         rows \in Nat : Business(t, from, to, rows)
  BY <1>1 DEF BusinessStep, BusinessFails, BeginRow, WriteRow, Interrupt
<1> QED BY <1>2, BusinessType

\* Expired waits and pauses that outlast theirs keep the types.
LEMMA EnvironmentType ==
  ASSUME TInv, UNCHANGED intent, Environment
  PROVE  TInv'
<1>1. CASE SpawnFails
  BY <1>1, AbortType DEF SpawnFails
<1>2. ASSUME NEW p \in Party, Expire(p)
      PROVE  TInv'
  <2> DEFINE r == [sock[p] EXCEPT !.state = "TimeoutError"]
  <2>1. sock' = [sock EXCEPT ![p] = r]
    BY <1>2 DEF Expire
  <2>2. r \in SockType /\ r.req \in Command
    BY <1>2 DEF Expire, TInv, TypeOK, CallInv, SockType, TransportErrors
  <2>3. /\ sock' \in [Party -> SockType]
        /\ \A q \in Party : sock'[q].state # "none" => sock'[q].req \in Command
    <3> HIDE DEF r
    <3> QED BY <2>1, <2>2 DEF TInv, TypeOK, CallInv
  <2> QED BY <1>2, <2>3 DEF Expire, ctlVars, TInv, TypeOK, CallInv
<1>3. ASSUME NEW t \in Target, PauseTimesOut(t)
      PROVE  TInv'
  <2>1. srv[t].cur \in Command
    BY <1>3 DEF PauseTimesOut, TInv, CallInv, Busy
  <2>2. /\ srv' \in [Target -> SrvType]
        /\ queue' \in [Target -> Seq(Command)]
        /\ sock' \in [Party -> SockType]
        /\ CallInv'
    BY <1>3, <2>1, EndProcessType DEF PauseTimesOut, TInv, CallInv, TransportErrors
  <2> QED BY <1>3, <2>2 DEF PauseTimesOut, ctlVars, TInv, TypeOK
<1> QED BY <1>1, <1>2, <1>3, BusinessStepType DEF Environment

\* Every initial state is well-typed.
LEMMA InitType == Init => TInv
<1> SUFFICES ASSUME Init PROVE TInv
  OBVIOUS
<1>1. srv \in [Target -> SrvType]
  BY DEF Init, SrvType
<1>2. sock \in [Party -> SockType]
  BY ClosedType DEF Init
<1>3. biz \in [Target -> BizType]
  BY DEF Init, BizType
<1>4. CallInv
  BY DEF Init, CallInv, Busy, Closed
<1>5. seen \in [Target -> [before: Nat, after: Nat, cleanup: Cleanup]]
  BY DEF Init, Cleanup
<1>6. /\ events \in Seq(Event) /\ log \in [Target -> Seq(Event)]
      /\ delivery \in [Target -> Seq(Event)] /\ queue \in [Target -> Seq(Command)]
  <2>1. <<>> \in Seq(Event) /\ <<>> \in Seq(Command)
    OBVIOUS
  <2> QED BY <2>1 DEF Init
<1>7. intent \in Captures /\ phase \in PhaseType /\ idx \in Nat
  BY DEF Init, PhaseType, NextPhase
<1> QED BY <1>1, <1>2, <1>3, <1>4, <1>5, <1>6, <1>7 DEF TInv, TypeOK

\* TInv is inductive.
LEMMA NextType == TInv /\ [Next]_vars => TInv'
<1> SUFFICES ASSUME TInv, [Next]_vars PROVE TInv'
  OBVIOUS
<1>1. CASE Next
  <2>1. CASE Terminated
    BY <1>1, <2>1 DEF Next, Terminated, ctlVars, TInv, TypeOK, CallInv
  <2> QED
    BY <1>1, <2>1, ControllerType, ServerType, BusinessStepType, EnvironmentType DEF Next
<1>2. CASE UNCHANGED vars
  BY <1>2 DEF vars, TInv, TypeOK, CallInv
<1> QED BY <1>1, <1>2

\* Through every interleaving of harness, servers and business threads, and
\* whatever expires or fails, each variable keeps its type; in particular every
\* log holds only events whose fields the consumer's exact() calls accept.
THEOREM TypeCorrect == Spec => []TypeOK
<1>1. TInv => TypeOK
  BY DEF TInv
<1> QED BY InitType, NextType, <1>1, PTL DEF Spec

\* The inductive invariant behind TypeCorrect, for every topology and every
\* request file: types, and one outstanding call per socket.
THEOREM TypeInvariance == Spec => []TInv
BY InitType, NextType, PTL DEF Spec
-----------------------------------------------------------------------------
(* Every capture implements PauseOnce.                                     *)

Paused(t) == At(log[t], "native_paused")

\* What PauseOnce sees of one target.
Shown(t) == <<Status(t), biz[t].rows, Paused(t)>>

\* A worker that was never started has done nothing; one that reported a pause
\* has no thread left that writes; one that did not has no report in its log,
\* and a server that is still to report has not reported.
Quiet(t) ==
  /\ srv[t].pc = "down" => biz[t].rows = 0 /\ biz[t].pc = "off" /\ log[t] = <<>>
  /\ srv[t].paused => biz[t].pc \in {"paused", "failed"}
  /\ ~srv[t].paused => Paused(t) = {}
  /\ srv[t].pc \in {"down", "waitStop"} => ~srv[t].paused

\* The harness starts the targets in order, and every one before it goes on.
Started ==
  /\ phase = "start" => /\ idx \in DOMAIN Order
                        /\ \A i \in DOMAIN Order : i >= idx => srv[Order[i]].pc = "down"
  /\ \A i \in DOMAIN Order : (phase = "start" => i < idx) /\ phase # "aborted"
                                => srv[Order[i]].pc # "down"

PauseInv == TInv /\ (\A t \in Target : Quiet(t)) /\ Started
-----------------------------------------------------------------------------
\* What one more event does to the events of a kind.
LEMMA AtAppend ==
  ASSUME NEW s \in Seq(Event), NEW e \in Event, NEW k
  PROVE  At(s \o <<e>>, k) = At(s, k) \cup (IF e.kind = k THEN {Len(s) + 1} ELSE {})
<1>1. /\ Len(s \o <<e>>) = Len(s) + 1
      /\ (s \o <<e>>)[Len(s) + 1] = e
      /\ \A i \in 1 .. Len(s) : (s \o <<e>>)[i] = s[i]
      /\ DOMAIN s = 1 .. Len(s) /\ DOMAIN (s \o <<e>>) = 1 .. (Len(s) + 1)
      /\ Len(s) \in Nat
  OBVIOUS
<1> QED BY <1>1 DEF At

\* Two more events.
LEMMA AtAppend2 ==
  ASSUME NEW s \in Seq(Event), NEW e \in Event, NEW f \in Event, NEW k,
         e.kind # k, f.kind # k
  PROVE  At(s \o <<e, f>>, k) = At(s, k)
<1> DEFINE u == s \o <<e, f>>
<1>1. /\ u \in Seq(Event) /\ Len(u) = Len(s) + 2
      /\ \A i \in 1 .. Len(s) : u[i] = s[i]
      /\ u[Len(s) + 1] = e /\ u[Len(s) + 2] = f
      /\ DOMAIN u = 1 .. Len(u) /\ DOMAIN s = 1 .. Len(s) /\ Len(s) \in Nat
  <2>1. <<e, f>> \in Seq(Event) /\ Len(<<e, f>>) = 2 /\ <<e, f>>[1] = e /\ <<e, f>>[2] = f
    OBVIOUS
  <2> QED BY <2>1
<1>2. \A i \in DOMAIN u : i \in 1 .. Len(s) \/ i = Len(s) + 1 \/ i = Len(s) + 2
  BY <1>1
<1> HIDE DEF u
<1> QED BY <1>1, <1>2 DEF At

\* How the place of a server shows.
LEMMA StatusIs ==
  ASSUME TInv, NEW t \in Target
  PROVE  /\ srv[t].pc = "down" => Status(t) = "idle"
         /\ srv[t].pc \in {"dead", "exited"} => Status(t) = "down"
         /\ srv[t].pc \in {"idle"} \cup Busy =>
              Status(t) = IF srv[t].paused THEN "paused" ELSE "running"
         /\ Alive(t) <=> srv[t].pc \in {"idle"} \cup Busy
<1>1. srv[t].pc \in {"down", "idle", "dead", "exited"} \cup Busy
  BY DEF TInv, TypeOK, SrvType
<1> QED BY <1>1 DEF Status, Alive, Busy

\* The same of the next state.
LEMMA StatusIsNext ==
  ASSUME TInv', NEW t \in Target
  PROVE  /\ srv'[t].pc = "down" => Status(t)' = "idle"
         /\ srv'[t].pc \in {"dead", "exited"} => Status(t)' = "down"
         /\ srv'[t].pc \in {"idle"} \cup Busy =>
              Status(t)' = IF srv'[t].paused THEN "paused" ELSE "running"
<1>1. srv'[t].pc \in {"down", "idle", "dead", "exited"} \cup Busy
  BY DEF TInv, TypeOK, SrvType
<1> QED BY <1>1 DEF Status, Alive, Busy
-----------------------------------------------------------------------------
\* A step that changes nothing PauseOnce sees.
LEMMA Stutters ==
  ASSUME \A t \in Target : Shown(t)' = Shown(t)
  PROVE  UNCHANGED <<[t \in Target |-> Status(t)], [t \in Target |-> biz[t].rows],
                     [t \in Target |-> At(log[t], "native_paused")]>>
BY DEF Shown, Paused

\* A step that changes what PauseOnce sees of one target is one of its steps.
LEMMA OneTarget ==
  ASSUME NEW t \in Target, \A u \in Target \ {t} : Shown(u)' = Shown(u),
         \/ /\ Status(t) = "idle" /\ Status(t)' = "running"
            /\ biz'[t].rows = 1 /\ Paused(t)' = Paused(t)
         \/ /\ Status(t) = "running" /\ Status(t)' = "running"
            /\ biz'[t].rows = biz[t].rows + 1 /\ Paused(t)' = Paused(t)
         \/ /\ Status(t) = "running" /\ Status(t)' = "paused"
            /\ biz'[t].rows = biz[t].rows
            /\ Paused(t) = {} /\ \A r, s \in Paused(t)' : r = s
         \/ /\ Status(t) # "idle" /\ Status(t)' = "down"
            /\ biz'[t].rows = biz[t].rows /\ Paused(t)' = Paused(t)
  PROVE  Promise!PNext
<1>1. CASE /\ Status(t) = "idle" /\ Status(t)' = "running"
           /\ biz'[t].rows = 1 /\ Paused(t)' = Paused(t)
  <2>1. Promise!Begin(t)
    BY <1>1 DEF Promise!Begin, Shown, Paused
  <2> QED BY <2>1 DEF Promise!PNext
<1>2. CASE /\ Status(t) = "running" /\ Status(t)' = "running"
           /\ biz'[t].rows = biz[t].rows + 1 /\ Paused(t)' = Paused(t)
  <2>1. Promise!Work(t)
    BY <1>2 DEF Promise!Work, Shown, Paused
  <2> QED BY <2>1 DEF Promise!PNext
<1>3. CASE /\ Status(t) = "running" /\ Status(t)' = "paused"
           /\ biz'[t].rows = biz[t].rows
           /\ Paused(t) = {} /\ \A r, s \in Paused(t)' : r = s
  <2>1. Promise!Pause(t)
    BY <1>3 DEF Promise!Pause, Shown, Paused
  <2> QED BY <2>1 DEF Promise!PNext
<1>4. CASE /\ Status(t) # "idle" /\ Status(t)' = "down"
           /\ biz'[t].rows = biz[t].rows /\ Paused(t)' = Paused(t)
  <2>1. Promise!TakeDown
    <3>1. {t} \in SUBSET Target
      OBVIOUS
    <3> QED BY <1>4, <3>1 DEF Promise!TakeDown, Shown, Paused
  <2> QED BY <2>1 DEF Promise!PNext
<1> QED BY <1>1, <1>2, <1>3, <1>4
-----------------------------------------------------------------------------
Shows == Promise!PNext \/ \A u \in Target : Shown(u)' = Shown(u)

\* A target whose server, log and thread stay shows the same and stays quiet.
LEMMA Unmoved ==
  ASSUME NEW u \in Target, Quiet(u),
         srv'[u] = srv[u], log'[u] = log[u], biz'[u] = biz[u]
  PROVE  Shown(u)' = Shown(u) /\ Quiet(u)'
<1>1. Paused(u)' = Paused(u) /\ Alive(u)' = Alive(u)
  BY DEF Paused, Alive
<1>2. Status(u)' = Status(u)
  BY <1>1 DEF Status
<1> QED BY <1>1, <1>2 DEF Shown, Quiet

\* No target was started, and the harness did not go back to starting them.
LEMMA StaysStarted ==
  ASSUME PauseInv, \A u \in Target : srv'[u].pc = "down" <=> srv[u].pc = "down",
         \/ UNCHANGED <<phase, idx>>
         \/ phase' = "aborted"
         \/ phase \notin {"start", "aborted"} /\ phase' # "start"
  PROVE  Started'
<1>1. \A i \in DOMAIN Order : Order[i] \in Target
  BY OrderAssumption
<1> QED BY <1>1 DEF PauseInv, Started

\* The loop over targets never returns to the starts.
LEMMA Proceeds ==
  ASSUME TInv, phase \in DOMAIN NextPhase, phase # "start", Advance
  PROVE  phase \notin {"start", "aborted"} /\ phase' # "start"
BY DEF Advance, NextPhase

\* Steps that touch neither a server's place, a log nor a thread.
LEMMA OnlyCalls ==
  ASSUME PauseInv, TInv', UNCHANGED <<srv, log, biz>>,
         \/ UNCHANGED <<phase, idx>>
         \/ phase \notin {"start", "aborted"} /\ phase' # "start"
  PROVE  PauseInv' /\ Shows
<1>1. Started'
  BY StaysStarted
<1> QED BY <1>1, Unmoved DEF PauseInv, Shows

\* A server goes from place to place without reporting a pause.
LEMMA Served ==
  ASSUME PauseInv, TInv', UNCHANGED <<phase, idx>>, NEW t \in Target,
         \A u \in Target \ {t} : srv'[u] = srv[u] /\ log'[u] = log[u] /\ biz'[u] = biz[u],
         srv[t].pc \in {"idle"} \cup Busy, srv'[t].pc \in {"idle"} \cup Busy,
         srv'[t].paused = srv[t].paused, srv'[t].pc = "waitStop" => ~srv[t].paused,
         biz'[t].rows = biz[t].rows, biz'[t].pc = biz[t].pc, Paused(t)' = Paused(t)
  PROVE  PauseInv' /\ Shows
<1>1. srv[t].pc # "down" /\ srv'[t].pc # "down"
  BY DEF Busy
<1>2. Started'
  BY <1>1, StaysStarted
<1>3. Status(t)' = Status(t)
  BY StatusIs, StatusIsNext DEF PauseInv
<1>4. Shown(t)' = Shown(t)
  BY <1>3 DEF Shown
<1>5. Quiet(t)'
  BY <1>1 DEF PauseInv, Quiet
<1> QED BY <1>2, <1>4, <1>5, Unmoved DEF PauseInv, Shows

\* A process that was started ends.
LEMMA Ended ==
  ASSUME PauseInv, TInv', NEW t \in Target,
         \A u \in Target \ {t} : srv'[u] = srv[u] /\ log'[u] = log[u] /\ biz'[u] = biz[u],
         srv[t].pc # "down", srv'[t].pc \in {"dead", "exited"},
         srv'[t].paused = srv[t].paused, biz'[t] = biz[t], Paused(t)' = Paused(t),
         \/ UNCHANGED <<phase, idx>>
         \/ phase \notin {"start", "aborted"} /\ phase' # "start"
  PROVE  PauseInv' /\ Shows
<1>1. Started'
  BY StaysStarted
<1>2. Status(t)' = "down" /\ Status(t) # "idle"
  BY StatusIs, StatusIsNext DEF PauseInv, TInv, TypeOK, SrvType
<1>3. Quiet(t)'
  BY DEF PauseInv, Quiet
<1>4. \A u \in Target \ {t} : Shown(u)' = Shown(u) /\ Quiet(u)'
  BY Unmoved DEF PauseInv
<1>5. Promise!PNext
  <2>1. \A u \in Target \ {t} : Shown(u)' = Shown(u)
    BY <1>4
  <2>2. biz'[t].rows = biz[t].rows /\ Paused(t)' = Paused(t)
    OBVIOUS
  <2> QED BY <1>2, <2>1, <2>2, OneTarget
<1> QED BY <1>1, <1>3, <1>4, <1>5 DEF PauseInv, Shows

\* A step of the business thread.
LEMMA BusinessShows ==
  ASSUME PauseInv, TInv', NEW t \in Target, BusinessStep(t) \/ BusinessFails(t)
  PROVE  PauseInv' /\ Shows
<1>0. PICK from \in {"wait", "write"}, to \in {"wait", "write", "paused", "failed"},
           rows \in {biz[t].rows, biz[t].rows + 1} :
        /\ Business(t, from, to, rows)
        /\ rows = biz[t].rows + 1 => from = "write"
  BY SMTT(20) DEF BusinessStep, BusinessFails, BeginRow, WriteRow, Interrupt, PauseInv,
                  TInv, TypeOK, BizType
<1>1. /\ biz'[t].pc = to /\ biz'[t].rows = rows
      /\ \A u \in Target \ {t} : biz'[u] = biz[u]
      /\ UNCHANGED <<phase, idx, srv, log>> /\ biz[t].pc = from /\ Alive(t)
  BY <1>0 DEF Business, ctlVars, PauseInv, TInv, TypeOK, BizType
<1>2. Started'
  BY <1>1, StaysStarted
<1>3. srv[t].pc \in {"idle"} \cup Busy /\ srv[t].pc # "down"
  BY <1>1, StatusIs DEF PauseInv, Busy
<1>4. Status(t) = "running" /\ Status(t)' = "running"
  BY <1>1, <1>3, StatusIs, StatusIsNext DEF PauseInv, Quiet
<1>5. Paused(t)' = Paused(t)
  BY <1>1 DEF Paused
<1>6. Quiet(t)'
  BY <1>1, <1>3, <1>5 DEF PauseInv, Quiet
<1>7. \A u \in Target \ {t} : Shown(u)' = Shown(u) /\ Quiet(u)'
  BY <1>1, Unmoved DEF PauseInv
<1>8. CASE rows = biz[t].rows
  BY <1>1, <1>2, <1>4, <1>5, <1>6, <1>7, <1>8 DEF PauseInv, Shows, Shown
<1>9. CASE rows = biz[t].rows + 1
  <2>1. Promise!PNext
    BY <1>1, <1>4, <1>5, <1>7, <1>9, OneTarget
  <2> QED BY <1>2, <1>6, <1>7, <2>1 DEF PauseInv, Shows
<1> QED BY <1>0, <1>8, <1>9
-----------------------------------------------------------------------------
\* One event that is no report of a pause.
LEMMA EmitKeepsPaused ==
  ASSUME TInv, NEW t \in Target, NEW e \in Event, e.kind # "native_paused",
         Emit(t, <<e>>)
  PROVE  /\ Paused(t)' = Paused(t)
         /\ \A u \in Target \ {t} : log'[u] = log[u]
<1>1. log[t] \in Seq(Event) /\ log'[t] = log[t] \o <<e>>
  BY DEF Emit, TInv, TypeOK
<1>2. At(log[t] \o <<e>>, "native_paused") = At(log[t], "native_paused")
  <2>1. At(log[t] \o <<e>>, "native_paused") = At(log[t], "native_paused") \cup
          (IF e.kind = "native_paused" THEN {Len(log[t]) + 1} ELSE {})
    BY <1>1, AtAppend, Zenon
  <2> QED BY <2>1
<1> QED BY <1>1, <1>2 DEF Paused, Emit, TInv, TypeOK

\* The controller's steps that act on processes.
LEMMA SpawnShows ==
  ASSUME PauseInv, TInv', NEW t \in Target, Spawn(t)
  PROVE  PauseInv' /\ Shows
<1>1. /\ srv'[t].pc = "idle" /\ srv'[t].paused = srv[t].paused
      /\ biz'[t].pc = "wait" /\ biz'[t].rows = 1
      /\ log'[t] = <<[kind |-> "ready"]>>
      /\ \A u \in Target \ {t} : srv'[u] = srv[u] /\ log'[u] = log[u] /\ biz'[u] = biz[u]
  BY DEF Spawn, PauseInv, TInv, TypeOK, SrvType, BizType
<1>2. /\ phase = "start" /\ idx \in DOMAIN Order /\ t = Order[idx]
      /\ idx \in 1 .. Len(Order) /\ Len(Order) \in Nat /\ DOMAIN Order = 1 .. Len(Order)
      /\ \A i \in DOMAIN Order : Order[i] \in Target
  BY OrderAssumption DEF Spawn, PauseInv, Started
<1>3. srv[t].pc = "down" /\ ~srv[t].paused /\ log[t] = <<>>
  BY <1>2 DEF PauseInv, Started, Quiet
<1>4. Paused(t) = {} /\ Paused(t)' = {}
  BY <1>1, <1>3 DEF Paused, At
<1>5. Status(t) = "idle" /\ Status(t)' = "running"
  BY <1>1, <1>3, StatusIs, StatusIsNext DEF PauseInv
<1>6. \A u \in Target \ {t} : Shown(u)' = Shown(u) /\ Quiet(u)'
  BY <1>1, Unmoved DEF PauseInv
<1>7. Promise!PNext
  BY <1>1, <1>4, <1>5, <1>6, OneTarget
<1>8. Quiet(t)'
  BY <1>1, <1>3, <1>4 DEF Quiet
<1>9. Started'
  <2>1. \A i \in DOMAIN Order : i # idx => srv'[Order[i]] = srv[Order[i]] /\ Order[i] # t
    BY <1>1, <1>2, OrderAssumption
  <2>2. CASE idx < Len(Order)
    <3>1. phase' = "start" /\ idx' = idx + 1
      BY <1>2, <2>2 DEF Spawn, Advance
    <3> QED BY <1>1, <1>2, <2>1, <2>2, <3>1 DEF PauseInv, Started
  <2>3. CASE ~(idx < Len(Order))
    <3>1. phase' = "configure"
      BY <1>2, <2>3 DEF Spawn, Advance, NextPhase
    <3> QED BY <1>1, <1>2, <2>1, <2>3, <3>1 DEF PauseInv, Started
  <2> QED BY <2>2, <2>3
<1> QED BY <1>6, <1>7, <1>8, <1>9 DEF PauseInv, Shows

\* Giving up the capture kills every worker, and promises nothing new.
LEMMA AbortShows ==
  ASSUME PauseInv, TInv', Abort
  PROVE  PauseInv' /\ Shows
<1> DEFINE S == {t \in Target : Alive(t)}
<1>1. ASSUME NEW t \in S
      PROVE  /\ srv'[t].pc = "dead" /\ srv[t].pc # "down"
             /\ srv'[t].paused = srv[t].paused
  <2>1. srv'[t] = [srv[t] EXCEPT !.pc = "dead"] /\ srv[t] \in SrvType
    BY DEF Abort, PauseInv, TInv, TypeOK
  <2> QED BY <2>1 DEF SrvType, Alive
<1>2. \A t \in Target \ S : srv'[t] = srv[t]
  BY DEF Abort
<1>3. UNCHANGED <<log, biz>> /\ phase' = "aborted"
  BY DEF Abort
<1>4. Started'
  <2>1. \A t \in Target : srv'[t].pc = "down" <=> srv[t].pc = "down"
    BY <1>1, <1>2
  <2> QED BY <1>3, <2>1, StaysStarted
<1>5. \A t \in Target : Quiet(t)'
  BY <1>1, <1>2, <1>3, Unmoved DEF PauseInv, Quiet, Paused
<1>6. \A t \in Target \ S : Shown(t)' = Shown(t)
  BY <1>2, <1>3, Unmoved DEF PauseInv
<1>7. \A t \in S : Status(t)' = "down" /\ Status(t) # "idle"
  BY <1>1, StatusIs, StatusIsNext DEF PauseInv, TInv, TypeOK, SrvType
<1>8. Promise!TakeDown
  <2>1. \A t \in Target : biz'[t].rows = biz[t].rows /\ Paused(t)' = Paused(t)
    BY <1>3 DEF Paused
  <2>2. S \in SUBSET Target
    OBVIOUS
  <2>3. \A t \in Target : Status(t)' = IF t \in S THEN "down" ELSE Status(t)
    BY <1>6, <1>7 DEF Shown
  <2> HIDE DEF S
  <2> QED BY <1>7, <2>1, <2>2, <2>3 DEF Promise!TakeDown, Paused
<1> QED BY <1>4, <1>5, <1>8 DEF PauseInv, Shows, Promise!PNext

\* Every step of the harness is one of the abstract promise, or none of it.
LEMMA ControllerShows ==
  ASSUME PauseInv, TInv', NEW t \in Target, ControllerStep(t)
  PROVE  PauseInv' /\ Shows
<1> USE DEF ctlVars
<1>1. CASE Ask(t)
  BY <1>1, OnlyCalls DEF Ask
<1>2. CASE Dispatch(t)
  BY <1>2, OnlyCalls DEF Dispatch
<1>3. CASE Acknowledged(t)
  <2>1. phase \notin {"start", "aborted"} /\ phase' # "start"
    BY <1>3, Proceeds DEF Acknowledged, ControlOp, NextPhase, PauseInv
  <2> QED BY <1>3, <2>1, OnlyCalls DEF Acknowledged
<1>4. CASE Dispatched
  <2>1. phase \notin {"start", "aborted"} /\ phase' # "start"
    BY <1>4, Proceeds DEF Dispatched, NextPhase, PauseInv
  <2> QED BY <1>4, <2>1, OnlyCalls DEF Dispatched
<1>5. CASE Sample(t)
  <2>1. phase \notin {"start", "aborted"} /\ phase' # "start"
    BY <1>5, Proceeds DEF Sample, NextPhase, PauseInv
  <2> QED BY <1>5, <2>1, OnlyCalls DEF Sample
<1>6. CASE ForceKill(t)
  <2>1. phase \notin {"start", "aborted"} /\ phase' # "start"
    BY <1>6, Proceeds DEF ForceKill, NextPhase, PauseInv
  <2>2. srv[t].pc # "down"
    BY <2>1, OrderAssumption DEF PauseInv, Started
  <2>3. /\ srv'[t].pc = "dead" /\ srv'[t].paused = srv[t].paused
        /\ \A u \in Target \ {t} : srv'[u] = srv[u]
        /\ UNCHANGED <<log, biz>>
    BY <1>6 DEF ForceKill, EndProcess, PauseInv, TInv, TypeOK, SrvType
  <2>4. Paused(t)' = Paused(t)
    BY <2>3 DEF Paused
  <2> QED BY <2>1, <2>2, <2>3, <2>4, Ended
<1> QED
  BY <1>1, <1>2, <1>3, <1>4, <1>5, <1>6, SpawnShows, AbortShows
  DEF ControllerStep, ControlFails

\* A process ends while it handles a request.
LEMMA ServerEnds ==
  ASSUME PauseInv, TInv', NEW t \in Target, NEW pc \in {"dead", "exited"},
         NEW served, NEW state, EndProcess(t, pc, served, state),
         srv[t].pc # "down", Paused(t)' = Paused(t),
         \A u \in Target \ {t} : log'[u] = log[u], UNCHANGED <<phase, idx, biz>>
  PROVE  PauseInv' /\ Shows
<1>1. srv'[t] = [srv[t] EXCEPT !.pc = pc, !.cur = served] /\ srv[t] \in SrvType
  BY DEF EndProcess, PauseInv, TInv, TypeOK, SrvType
<1>2. /\ srv'[t].pc = pc /\ srv'[t].paused = srv[t].paused
      /\ \A u \in Target \ {t} : srv'[u] = srv[u]
  BY <1>1 DEF EndProcess, PauseInv, TInv, TypeOK, SrvType
<1> QED BY <1>2, Ended

\* A worker that reports its pause has stopped: the promised report.
LEMMA NativePausedShows ==
  ASSUME PauseInv, TInv', NEW t \in Target, NativePaused(t)
  PROVE  PauseInv' /\ Shows
<1> DEFINE e == [kind |-> "native_paused", aid |->
                   IF biz[t].pc = "paused" THEN AidOf(srv[t].cur) ELSE NoAid]
<1>1. /\ srv[t].pc = "waitStop" /\ ~srv[t].paused /\ Paused(t) = {}
      /\ biz[t].pc \in {"paused", "failed"}
  BY DEF NativePaused, Stopped, PauseInv, Quiet
<1>2. e \in Event
  BY <1>1, EventType, AidType DEF PauseInv, TInv, CallInv, Busy
<1>3. /\ srv'[t].paused /\ srv'[t].pc \in {"forward", "reply"}
      /\ \A u \in Target \ {t} : srv'[u] = srv[u] /\ log'[u] = log[u]
      /\ log'[t] = log[t] \o <<e>> /\ log[t] \in Seq(Event)
      /\ UNCHANGED <<phase, idx, biz>>
  BY DEF NativePaused, Emit, ctlVars, PauseInv, TInv, TypeOK, SrvType
<1>4. Paused(t)' = {Len(log[t]) + 1}
  <2>1. At(log[t] \o <<e>>, "native_paused") = At(log[t], "native_paused") \cup
          (IF e.kind = "native_paused" THEN {Len(log[t]) + 1} ELSE {})
    <3>1. log[t] \in Seq(Event)
      BY <1>3
    <3> HIDE DEF e
    <3> QED BY <1>2, <3>1, AtAppend
  <2> QED BY <1>1, <1>3, <2>1 DEF Paused
<1>5. Status(t) = "running" /\ Status(t)' = "paused"
  BY <1>1, <1>3, StatusIs, StatusIsNext DEF PauseInv, Busy
<1>6. Started'
  BY <1>1, <1>3, StaysStarted
<1>7. Quiet(t)'
  BY <1>1, <1>3 DEF Quiet
<1>8. \A u \in Target \ {t} : Shown(u)' = Shown(u) /\ Quiet(u)'
  BY <1>3, Unmoved DEF PauseInv
<1>9. Promise!PNext
  BY <1>1, <1>3, <1>4, <1>5, <1>8, OneTarget
<1> QED BY <1>6, <1>7, <1>8, <1>9 DEF PauseInv, Shows

\* Every step of an accept loop is one of the abstract promise, or none of it.
LEMMA ServerShows ==
  ASSUME PauseInv, TInv', NEW t \in Target, ServerStep(t)
  PROVE  PauseInv' /\ Shows
<1> USE DEF ctlVars
<1>a. /\ TInv /\ srv[t] \in SrvType /\ t \in Party
      /\ srv[t].pc \in Busy => srv[t].cur \in Command /\ AidOf(srv[t].cur) \in Aid
  BY AidType DEF PauseInv, TInv, TypeOK, CallInv, Party
<1>1. CASE Configure(t)
  <2>1. /\ Paused(t)' = Paused(t)
        /\ \A u \in Target \ {t} : log'[u] = log[u]
    BY <1>1, <1>a, EventType, EmitKeepsPaused DEF Configure
  <2>2. srv[t].pc = "idle" /\ UNCHANGED <<phase, idx, srv, biz>>
    BY <1>1 DEF Configure, Accepts
  <2> QED BY <2>1, <2>2, Served
<1>2. CASE Snapshot(t)
  <2>1. srv[t].pc = "idle" /\ UNCHANGED <<phase, idx, log, biz>>
    BY <1>2 DEF Snapshot, Accepts
  <2>2. Paused(t)' = Paused(t)
    BY <2>1 DEF Paused
  <2>3. CASE UNCHANGED srv
    BY <2>1, <2>2, <2>3, Served
  <2>4. CASE EndProcess(t, "dead", Head(queue[t]), "EOFError")
    BY <2>1, <2>2, <2>4, ServerEnds
  <2> QED BY <1>2, <2>3, <2>4 DEF Snapshot
<1>3. CASE Exit(t)
  <2>1. srv[t].pc = "idle" /\ UNCHANGED <<phase, idx, log, biz>>
    BY <1>3 DEF Exit, Accepts
  <2>2. Paused(t)' = Paused(t)
    BY <2>1 DEF Paused
  <2> QED BY <1>3, <2>1, <2>2, ServerEnds DEF Exit
<1>4. CASE ReceivePause(t)
  <2> DEFINE receipt == [kind |-> "receipt", req |-> Head(queue[t])]
             refusal == [kind |-> "refused", aid |-> AidOf(Head(queue[t]))]
  <2>1. Head(queue[t]) \in Command
    BY <1>4, <1>a, AcceptsType DEF ReceivePause
  <2>2. receipt \in Event /\ refusal \in Event
    BY <2>1, EventType, AidType
  <2>3. /\ Paused(t)' = Paused(t)
        /\ \A u \in Target \ {t} : log'[u] = log[u]
    <3>1. CASE Emit(t, <<receipt>>)
      BY <1>a, <2>2, <3>1, EmitKeepsPaused
    <3>2. CASE Emit(t, <<receipt, refusal>>)
      <4>1. /\ log'[t] = log[t] \o <<receipt, refusal>> /\ log[t] \in Seq(Event)
            /\ \A u \in Target \ {t} : log'[u] = log[u]
        BY <3>2, <1>a DEF Emit, TInv, TypeOK
      <4>2. receipt.kind # "native_paused" /\ refusal.kind # "native_paused"
        OBVIOUS
      <4> HIDE DEF receipt, refusal
      <4>3. At(log[t] \o <<receipt, refusal>>, "native_paused") = At(log[t], "native_paused")
        BY <2>2, <4>1, <4>2, AtAppend2
      <4> QED BY <4>1, <4>3 DEF Paused
    <3> QED BY <1>4, <3>1, <3>2 DEF ReceivePause
  <2>4. /\ srv[t].pc = "idle" /\ srv'[t].pc \in {"waitStop", "reply"}
        /\ srv'[t].pc = "waitStop" => ~srv[t].paused
        /\ srv'[t].paused = srv[t].paused
        /\ \A u \in Target \ {t} : srv'[u] = srv[u]
    <3> DEFINE r == [srv[t] EXCEPT !.pc = IF Begins(t) THEN "waitStop" ELSE "reply",
                                   !.cur = Head(queue[t]), !.children = <<>>,
                                   !.duplicate = srv[t].paused]
    <3>1. srv' = [srv EXCEPT ![t] = r]
      BY <1>a, <1>4 DEF ReceivePause, TInv, TypeOK, SrvType
    <3>2. /\ r.pc \in {"waitStop", "reply"} /\ r.paused = srv[t].paused
          /\ r.pc = "waitStop" => ~srv[t].paused
      BY <1>a DEF SrvType, Begins
    <3> HIDE DEF r
    <3> QED BY <1>4, <1>a, <3>1, <3>2 DEF ReceivePause, Accepts, TInv, TypeOK
  <2>5. /\ UNCHANGED <<phase, idx>>
        /\ biz'[t].rows = biz[t].rows /\ biz'[t].pc = biz[t].pc
        /\ \A u \in Target \ {t} : biz'[u] = biz[u]
    BY <1>4, <1>a DEF ReceivePause, TInv, TypeOK, BizType
  <2> QED BY <2>3, <2>4, <2>5, Served DEF Busy
<1>5. CASE Forward(t)
  <2>1. /\ Emit(t, <<[kind |-> "send", req |-> ForwardedCommand(t)]>>)
        /\ ForwardedCommand(t) \in Command
    <3>1. intent.kid[t] \in Target
      BY <1>5, <1>a, CapturesAssumption DEF Forward, TInv, TypeOK, CallInv
    <3>2. AidOf(srv[t].cur) \in Aid
      BY <1>a, <1>5 DEF Forward, Busy
    <3>3. log[t] \in Seq(Event)
      BY <1>a DEF TInv, TypeOK
    <3> QED BY <1>5, <1>a, <3>1, <3>2, <3>3 DEF Forward, ForwardedCommand, Command
  <2>2. /\ Paused(t)' = Paused(t)
        /\ \A u \in Target \ {t} : log'[u] = log[u]
    BY <1>a, <2>1, EventType, EmitKeepsPaused
  <2>3. /\ srv[t].pc = "forward" /\ srv'[t].pc = "await"
        /\ srv'[t].paused = srv[t].paused
        /\ \A u \in Target \ {t} : srv'[u] = srv[u]
        /\ UNCHANGED <<phase, idx, biz>>
    BY <1>5, <1>a DEF Forward, TInv, TypeOK, SrvType
  <2> QED BY <2>2, <2>3, Served DEF Busy
<1>6. CASE Forwarded(t)
  <2>1. TransportEvent(t) \in Event /\ TransportEvent(t).kind # "native_paused"
    BY <1>a, <1>6, TransportEventType DEF Forwarded, TransportEvent
  <2>2. /\ Paused(t)' = Paused(t)
        /\ \A u \in Target \ {t} : log'[u] = log[u]
    BY <1>6, <1>a, <2>1, EmitKeepsPaused DEF Forwarded
  <2>3. /\ srv[t].pc = "await" /\ srv'[t].pc \in {"forward", "reply"}
        /\ srv'[t].paused = srv[t].paused
        /\ \A u \in Target \ {t} : srv'[u] = srv[u]
        /\ UNCHANGED <<phase, idx, biz>>
    BY <1>6, <1>a DEF Forwarded, TInv, TypeOK, SrvType
  <2> QED BY <2>2, <2>3, Served DEF Busy
<1>7. CASE SendReply(t)
  <2> DEFINE drop == t \in intent.drop /\ ~srv[t].dropped
             e == [kind |-> "reply", reply |-> ReplyOf(t), dropped |-> drop]
  <2>1. e \in Event /\ e.kind # "native_paused" /\ Emit(t, <<e>>)
    BY <1>a, <1>7, ReplyType, EventType DEF SendReply, Busy
  <2>2. /\ Paused(t)' = Paused(t)
        /\ \A u \in Target \ {t} : log'[u] = log[u]
    <3> HIDE DEF e
    <3> QED BY <1>a, <2>1, EmitKeepsPaused
  <2>3. srv[t].pc = "reply" /\ UNCHANGED <<phase, idx, biz>>
    BY <1>7 DEF SendReply
  <2>4. CASE srv' = [srv EXCEPT ![t].pc = "idle", ![t].dropped = @ \/ drop]
    <3>1. /\ srv'[t].pc = "idle" /\ srv'[t].paused = srv[t].paused
          /\ \A u \in Target \ {t} : srv'[u] = srv[u]
      BY <1>a, <2>4 DEF TInv, TypeOK, SrvType
    <3> QED BY <2>2, <2>3, <3>1, Served DEF Busy
  <2>5. CASE EndProcess(t, "dead", srv[t].cur, "EOFError")
    BY <2>2, <2>3, <2>5, ServerEnds
  <2> QED BY <1>7, <2>4, <2>5 DEF SendReply
<1> QED
  BY <1>1, <1>2, <1>3, <1>4, <1>5, <1>6, <1>7, NativePausedShows DEF ServerStep

\* Business, expired waits and late pauses break no promise either.
LEMMA EnvironmentShows ==
  ASSUME PauseInv, TInv', Environment \/ Terminated \/ \E t \in Target : BusinessStep(t)
  PROVE  PauseInv' /\ Shows
<1>1. CASE SpawnFails
  BY <1>1, AbortShows DEF SpawnFails
<1>2. ASSUME NEW p \in Party, Expire(p)
      PROVE  PauseInv' /\ Shows
  BY <1>2, OnlyCalls DEF Expire, ctlVars
<1>3. ASSUME NEW t \in Target, PauseTimesOut(t)
      PROVE  PauseInv' /\ Shows
  <2>1. srv[t].pc # "down" /\ UNCHANGED <<phase, idx, log, biz>>
    BY <1>3 DEF PauseTimesOut, ctlVars
  <2>2. Paused(t)' = Paused(t)
    BY <2>1 DEF Paused
  <2> QED BY <1>3, <2>1, <2>2, ServerEnds DEF PauseTimesOut
<1>4. CASE Terminated
  BY <1>4, OnlyCalls DEF Terminated, ctlVars
<1> QED BY <1>1, <1>2, <1>3, <1>4, BusinessShows DEF Environment
-----------------------------------------------------------------------------
\* Initially nothing was started, and PauseOnce sees all targets idle.
LEMMA InitShows == Init => PauseInv /\ Promise!PInit
<1> SUFFICES ASSUME Init PROVE PauseInv /\ Promise!PInit
  OBVIOUS
<1>1. TInv
  BY InitType
<1>2. \A t \in Target : Paused(t) = {} /\ biz[t].rows = 0 /\ srv[t].pc = "down"
  BY DEF Init, Paused, At
<1>3. \A t \in Target : Quiet(t)
  BY <1>2 DEF Init, Quiet
<1>4. Started
  <2>1. \A i \in DOMAIN Order : Order[i] \in Target /\ i \in Nat /\ i >= 1
    BY OrderAssumption
  <2>2. 1 \in DOMAIN Order
    BY OrderAssumption
  <2> QED BY <1>2, <2>1, <2>2 DEF Init, Started
<1>5. \A t \in Target : Status(t) = "idle"
  BY <1>1, <1>2, StatusIs
<1> QED BY <1>1, <1>2, <1>3, <1>4, <1>5 DEF PauseInv, Promise!PInit, Paused

\* Every step of the system is one of the abstract promise, or none of it.
LEMMA NextShows ==
  ASSUME PauseInv, [Next]_vars
  PROVE  PauseInv' /\ Shows
<1>1. TInv'
  BY NextType DEF PauseInv
<1>2. CASE Next
  BY <1>1, <1>2, ControllerShows, ServerShows, EnvironmentShows DEF Next
<1>3. CASE UNCHANGED vars
  BY <1>1, <1>3, OnlyCalls DEF vars
<1> QED BY <1>2, <1>3

\* Whatever the delivery of a pause goes through (retries, lost responses,
\* expired waits, refusals, failing business code, killed processes), a worker
\* reports at most one pause, and its business thread writes no row from that
\* report on: every behaviour of the capture is one of PauseOnce.
THEOREM CaptureImplementsPauseOnce == Spec => PauseOnceSpec
<1>1. PauseInv /\ [Next]_vars =>
        [Promise!PNext]_<<[t \in Target |-> Status(t)], [t \in Target |-> biz[t].rows],
                          [t \in Target |-> At(log[t], "native_paused")]>>
  BY NextShows, Stutters DEF Shows
<1>2. PauseInv /\ [Next]_vars => PauseInv'
  BY NextShows
<1> QED BY InitShows, <1>1, <1>2, PTL DEF Spec, PauseOnceSpec, Promise!PSpec
-----------------------------------------------------------------------------
(* How requests and responses are delivered: a request is handled at most   *)
(* once and only if it was sent, a recorded response is the one its         *)
(* receiver gave, and parents stop first.                                   *)

\* The log that a party writes.
Own(p) == IF p = Controller THEN events ELSE log[p]

Sent(p) == Sends(Own(p))

\* A command carries its sender and the length of the sender's log, by which no
\* two of its commands are equal.
NumberedIn(s, p) ==
  \A i \in At(s, "send") : s[i].req.n = i - 1 /\ s[i].req.from = p

\* No request is received twice.
OnceIn(s) ==
  \A i, j \in At(s, "receipt") : s[i].req = s[j].req => i = j

\* A pause in the backlog was sent, waits there once and was not received.
Backlog(t) ==
  \A k \in DOMAIN queue[t] :
    LET req == queue[t][k] IN
    /\ req.to = t
    /\ req.op = "pause" =>
         /\ req \in Sent(req.from)
         /\ req \notin Receipts(log[t])
         /\ \A l \in DOMAIN queue[t] : queue[t][l] = req => l = k

\* What was received was sent to this target, and received once.
Received(t) ==
  /\ \A req \in Receipts(log[t]) : req.to = t /\ req \in Sent(req.from)
  /\ OnceIn(log[t])

DeliveryInv ==
  /\ PauseInv
  /\ \A p \in Party : NumberedIn(Own(p), p)
  /\ \A t \in Target : Backlog(t) /\ Received(t)
-----------------------------------------------------------------------------
(* The kinds of steps.                                                     *)

\* p logs that it sends req and connects; nobody else logs anything.
Sending(p, req) ==
  /\ p # Controller => srv[p].pc = "forward"
  /\ req.op = "pause" /\ req.from = p /\ req.n = Len(Own(p))
  /\ Own(p)' = Own(p) \o <<[kind |-> "send", req |-> req]>>
  /\ \A q \in Party \ {p} : Own(q)' = Own(q)
  /\ Connect(p, req)

\* t takes a pause from its backlog and logs its receipt; a refusal may follow.
Taking(t) ==
  LET req     == Head(queue[t])
      receipt == [kind |-> "receipt", req |-> req]
      refusal == [kind |-> "refused", aid |-> AidOf(req)]
  IN
  /\ queue[t] # <<>> /\ req.op = "pause"
  /\ queue' = [queue EXCEPT ![t] = Tail(@)]
  /\ \/ Own(t)' = Own(t) \o <<receipt>>
     \/ Own(t)' = Own(t) \o <<receipt, refusal>>
  /\ \A q \in Party \ {t} : Own(q)' = Own(q)

\* A log gets no send and no receipt, and an outcome only of its own call.
Quietly(p) ==
  \/ Own(p)' = Own(p)
  \/ \E e \in Event :
       /\ e.kind \notin {"send", "receipt"}
       /\ e.kind = "transport" =>
            Returned(p) /\ e = TransportEvent(p) /\ (p = Controller => phase = "dispatch")
       /\ Own(p)' = Own(p) \o <<e>>

\* A backlog gets no pause.
Drains(t) ==
  \/ queue'[t] \in {queue[t], <<>>}
  \/ queue[t] # <<>> /\ queue'[t] = Tail(queue[t])
  \/ \E req \in Command : /\ req.op # "pause" /\ req.to = t
                          /\ queue'[t] = Append(queue[t], req)

Moves ==
  \/ \E p \in Party, req \in Command : Sending(p, req)
  \/ \E t \in Target : Taking(t)
  \/ (\A p \in Party : Quietly(p)) /\ (\A t \in Target : Drains(t))
-----------------------------------------------------------------------------
\* What is taken is a command.
LEMMA TakenType ==
  ASSUME TInv, NEW t \in Target, Taking(t)
  PROVE  Head(queue[t]) \in Command
<1>1. queue[t] \in Seq(Command) /\ queue[t] # <<>>
  BY DEF Taking, TInv, TypeOK
<1> QED BY <1>1

\* Whose log is whose.
LEMMA OwnIs ==
  ASSUME TInv
  PROVE  /\ Own(Controller) = events /\ Own(Controller)' = events'
         /\ \A t \in Target : Own(t) = log[t] /\ Own(t)' = log'[t]
         /\ \A p \in Party : Own(p) \in Seq(Event)
         /\ Controller \in Party /\ Target \subseteq Party
BY PartiesAreDistinct DEF Own, Party, TInv, TypeOK

\* A step that leaves all logs alone, or adds one event to one of them.
LEMMA NoLogMoves ==
  ASSUME TInv, UNCHANGED <<events, log>>
  PROVE  \A p \in Party : Quietly(p)
BY DEF Quietly, Own

\* One worker logs an event that is no send and no receipt.
LEMMA OneLogMoves ==
  ASSUME TInv, UNCHANGED events, NEW t \in Target, NEW e \in Event,
         e.kind \notin {"send", "receipt"}, Emit(t, <<e>>),
         e.kind = "transport" => Returned(t) /\ e = TransportEvent(t)
  PROVE  \A p \in Party : Quietly(p)
<1>1. log'[t] = log[t] \o <<e>> /\ \A u \in Target \ {t} : log'[u] = log[u]
  BY DEF Emit, TInv, TypeOK
<1> QED BY <1>1, OwnIs DEF Quietly, Own, Party

\* Ending a process empties one backlog.
LEMMA EndDrains ==
  ASSUME TInv, NEW t \in Target, NEW pc, NEW served, NEW state,
         EndProcess(t, pc, served, state)
  PROVE  \A u \in Target : Drains(u)
BY DEF EndProcess, Drains, TInv, TypeOK

\* So does taking the oldest request.
LEMMA TailDrains ==
  ASSUME TInv, NEW t \in Target, queue[t] # <<>>, queue' = [queue EXCEPT ![t] = Tail(@)]
  PROVE  \A u \in Target : Drains(u)
BY DEF Drains, TInv, TypeOK

\* The kind of each step of the harness.
LEMMA ControllerMoves ==
  ASSUME PauseInv, NEW t \in Target, ControllerStep(t)
  PROVE  Moves
<1> USE DEF ctlVars
<1>a. TInv
  BY DEF PauseInv
<1>b. (\A p \in Party : Quietly(p)) /\ (\A u \in Target : Drains(u)) => Moves
  BY DEF Moves
<1>c. UNCHANGED queue => \A u \in Target : Drains(u)
  BY DEF Drains
<1>1. CASE Spawn(t)
  <2>1. log[t] = <<>>
    BY <1>1, OrderAssumption DEF Spawn, PauseInv, Started, Quiet
  <2>2. /\ log'[t] = <<>> \o <<[kind |-> "ready"]>>
        /\ \A u \in Target \ {t} : log'[u] = log[u]
        /\ UNCHANGED <<events, queue>>
    BY <1>1, <1>a DEF Spawn, TInv, TypeOK
  <2>3. \A p \in Party : Quietly(p)
    BY <1>a, <2>1, <2>2, OwnIs, EventType DEF Quietly, Own, Party
  <2> QED BY <1>b, <1>c, <2>2, <2>3
<1>2. CASE Ask(t)
  <2> DEFINE req == [op |-> ControlOp(t), from |-> Controller, to |-> t,
                     n |-> 0, parent |-> NoAid]
  <2>1. req \in Command /\ req.op # "pause" /\ req.to = t
    BY <1>2 DEF Ask, ControlOp, Command, Party
  <2>2. queue' = queue \/ queue' = [queue EXCEPT ![req.to] = Append(@, req)]
    BY <1>2 DEF Ask, Connect
  <2> HIDE DEF req
  <2>3. \A u \in Target : Drains(u)
    BY <1>a, <2>1, <2>2 DEF Drains, TInv, TypeOK
  <2> QED BY <1>2, <1>a, <1>b, <2>3, NoLogMoves DEF Ask
<1>3. CASE Acknowledged(t)
  BY <1>3, <1>a, <1>b, <1>c, NoLogMoves DEF Acknowledged
<1>4. CASE Dispatch(t)
  <2> DEFINE req == [op |-> "pause", from |-> Controller, to |-> t,
                     n |-> Len(events), parent |-> NoAid]
  <2>1. req \in Command
    BY <1>4, <1>a DEF Dispatch, Command, Party, TInv, TypeOK
  <2>2. /\ events' = events \o <<[kind |-> "send", req |-> req]>>
        /\ UNCHANGED log /\ Connect(Controller, req)
    BY <1>4, <1>a DEF Dispatch, TInv, TypeOK
  <2>3. Sending(Controller, req)
    BY <1>a, <2>2, OwnIs DEF Sending, Own, Party
  <2> QED BY <1>a, <2>1, <2>3, OwnIs DEF Moves
<1>5. CASE Dispatched
  <2>1. /\ TransportEvent(Controller) \in Event
        /\ TransportEvent(Controller).kind = "transport"
    BY <1>5, <1>a, OwnIs, TransportEventType DEF Dispatched, TransportEvent
  <2>2. events' = events \o <<TransportEvent(Controller)>> /\ UNCHANGED <<log, queue>>
    BY <1>5, <1>a, <2>1 DEF Dispatched, TInv, TypeOK
  <2>3. Returned(Controller) /\ phase = "dispatch"
    BY <1>5 DEF Dispatched
  <2>4. Own(Controller)' = Own(Controller) \o <<TransportEvent(Controller)>>
    BY <1>a, <2>2, OwnIs
  <2>5. Quietly(Controller)
    BY <2>1, <2>3, <2>4 DEF Quietly
  <2>6. \A p \in Party \ {Controller} : Quietly(p)
    BY <2>2 DEF Quietly, Own, Party
  <2> QED BY <1>b, <1>c, <2>2, <2>5, <2>6
<1>6. CASE Sample(t)
  BY <1>6, <1>a, <1>b, <1>c, NoLogMoves DEF Sample
<1>7. CASE ForceKill(t)
  BY <1>7, <1>a, <1>b, NoLogMoves, EndDrains DEF ForceKill
<1>8. CASE Abort
  BY <1>8, <1>a, <1>b, <1>c, NoLogMoves DEF Abort
<1> QED
  BY <1>1, <1>2, <1>3, <1>4, <1>5, <1>6, <1>7, <1>8 DEF ControllerStep, ControlFails
\* The kind of each step of an accept loop.
LEMMA ServerMoves ==
  ASSUME PauseInv, NEW t \in Target, ServerStep(t)
  PROVE  Moves
<1> USE DEF ctlVars
<1>a. TInv /\ t \in Party /\ log[t] \in Seq(Event)
  BY DEF PauseInv, TInv, TypeOK, Party
<1>b. (\A p \in Party : Quietly(p)) /\ (\A u \in Target : Drains(u)) => Moves
  BY DEF Moves
<1>c. UNCHANGED queue => \A u \in Target : Drains(u)
  BY DEF Drains
<1>1. CASE Configure(t)
  BY <1>1, <1>a, <1>b, EventType, OneLogMoves, TailDrains DEF Configure, Accepts
<1>2. CASE Snapshot(t)
  BY <1>2, <1>a, <1>b, NoLogMoves, TailDrains, EndDrains DEF Snapshot, Accepts
<1>3. CASE Exit(t)
  BY <1>3, <1>a, <1>b, NoLogMoves, EndDrains DEF Exit
<1>4. CASE ReceivePause(t)
  <2>1. /\ queue[t] # <<>> /\ Head(queue[t]).op = "pause"
        /\ queue' = [queue EXCEPT ![t] = Tail(@)] /\ UNCHANGED events
    BY <1>4 DEF ReceivePause, Accepts
  <2> DEFINE receipt == [kind |-> "receipt", req |-> Head(queue[t])]
             refusal == [kind |-> "refused", aid |-> AidOf(Head(queue[t]))]
  <2>2. /\ \/ log'[t] = log[t] \o <<receipt>>
           \/ log'[t] = log[t] \o <<receipt, refusal>>
        /\ \A u \in Target \ {t} : log'[u] = log[u]
    BY <1>4, <1>a DEF ReceivePause, Emit, TInv, TypeOK
  <2>3. \/ Own(t)' = Own(t) \o <<receipt>>
        \/ Own(t)' = Own(t) \o <<receipt, refusal>>
    BY <2>2, <1>a, OwnIs
  <2>4. \A q \in Party \ {t} : Own(q)' = Own(q)
    BY <2>1, <2>2 DEF Own, Party
  <2>5. Taking(t)
    BY <2>1, <2>3, <2>4 DEF Taking
  <2> QED BY <2>5 DEF Moves
<1>5. CASE NativePaused(t)
  <2>1. \E a \in Aid \cup {NoAid} : Emit(t, <<[kind |-> "native_paused", aid |-> a]>>)
    BY <1>5, <1>a, AidType DEF NativePaused, TInv, CallInv, Busy
  <2> QED BY <1>5, <1>a, <1>b, <1>c, <2>1, EventType, OneLogMoves DEF NativePaused
<1>6. CASE Forward(t)
  <2> DEFINE req == ForwardedCommand(t)
  <2>1. req \in Command /\ req.op = "pause" /\ req.from = t /\ req.n = Len(log[t])
    <3>1. intent.kid[t] \in Target
      BY <1>6, <1>a, CapturesAssumption DEF Forward, TInv, TypeOK, CallInv
    <3>2. AidOf(srv[t].cur) \in Aid
      BY <1>6, <1>a, AidType DEF Forward, TInv, CallInv, Busy
    <3> QED BY <1>a, <3>1, <3>2 DEF ForwardedCommand, Command
  <2> HIDE DEF req
  <2>2. /\ log'[t] = log[t] \o <<[kind |-> "send", req |-> req]>>
        /\ \A u \in Target \ {t} : log'[u] = log[u]
        /\ UNCHANGED events /\ Connect(t, req)
    BY <1>6, <1>a DEF Forward, Emit, TInv, TypeOK, req
  <2>3. \A q \in Party \ {t} : Own(q)' = Own(q)
    BY <2>2 DEF Own, Party
  <2>5. srv[t].pc = "forward"
    BY <1>6 DEF Forward
  <2>4. Sending(t, req)
    BY <1>a, <2>1, <2>2, <2>3, <2>5, OwnIs DEF Sending
  <2> QED BY <1>a, <2>1, <2>4 DEF Moves
<1>7. CASE Forwarded(t)
  <2>1. TransportEvent(t) \in Event /\ TransportEvent(t).kind = "transport"
    BY <1>7, <1>a, TransportEventType DEF Forwarded, TransportEvent
  <2> QED BY <1>7, <1>a, <1>b, <1>c, <2>1, OneLogMoves DEF Forwarded
<1>8. CASE SendReply(t)
  <2> DEFINE drop == t \in intent.drop /\ ~srv[t].dropped
             e == [kind |-> "reply", reply |-> ReplyOf(t), dropped |-> drop]
  <2>1. e \in Event /\ e.kind = "reply" /\ Emit(t, <<e>>) /\ UNCHANGED events
    BY <1>a, <1>8, ReplyType, EventType DEF SendReply, Busy
  <2>2. \A p \in Party : Quietly(p)
    <3> HIDE DEF e
    <3> QED BY <1>a, <2>1, OneLogMoves
  <2>3. \A u \in Target : Drains(u)
    BY <1>8, <1>a, <1>c, EndDrains DEF SendReply
  <2> QED BY <1>b, <2>2, <2>3
<1> QED
  BY <1>1, <1>2, <1>3, <1>4, <1>5, <1>6, <1>7, <1>8 DEF ServerStep

\* Every step is of one of the three kinds.
LEMMA NextMoves ==
  ASSUME PauseInv, [Next]_vars
  PROVE  Moves
<1> USE DEF ctlVars
<1>a. TInv
  BY DEF PauseInv
<1>b. (\A p \in Party : Quietly(p)) /\ (\A u \in Target : Drains(u)) => Moves
  BY DEF Moves
<1>1. CASE UNCHANGED <<events, log, queue>>
  BY <1>1, <1>a, <1>b, NoLogMoves DEF Drains
<1>2. ASSUME NEW t \in Target, BusinessStep(t) \/ BusinessFails(t)
      PROVE  UNCHANGED <<events, log, queue>>
  BY <1>2 DEF BusinessStep, BusinessFails, BeginRow, WriteRow, Interrupt, Business
<1>3. CASE Environment
  <2>1. CASE SpawnFails
    BY <2>1, <1>1 DEF SpawnFails, Abort
  <2>2. ASSUME NEW p \in Party, Expire(p)
        PROVE  Moves
    BY <2>2, <1>1 DEF Expire
  <2>3. ASSUME NEW t \in Target, PauseTimesOut(t)
        PROVE  Moves
    BY <2>3, <1>a, <1>b, NoLogMoves, EndDrains DEF PauseTimesOut
  <2> QED BY <1>1, <1>2, <1>3, <2>1, <2>2, <2>3 DEF Environment
<1>4. CASE Terminated \/ UNCHANGED vars
  BY <1>4, <1>1 DEF Terminated, vars
<1> QED
  BY <1>1, <1>2, <1>3, <1>4, ControllerMoves, ServerMoves DEF Next
-----------------------------------------------------------------------------
(* What the kinds of steps do to the sends and receipts of a log.          *)

\* One more event.
LEMMA ReadAppend ==
  ASSUME NEW s \in Seq(Event), NEW e \in Event
  PROVE  /\ \A i \in DOMAIN s : i \in DOMAIN (s \o <<e>>) /\ (s \o <<e>>)[i] = s[i]
         /\ \A i \in DOMAIN (s \o <<e>>) : i \in DOMAIN s \/ i = Len(s) + 1
         /\ (s \o <<e>>)[Len(s) + 1] = e /\ Len(s) + 1 \in DOMAIN (s \o <<e>>)
         /\ Len(s) + 1 \notin DOMAIN s
         /\ Sends(s) \subseteq Sends(s \o <<e>>)
         /\ e.kind # "send" => Sends(s \o <<e>>) = Sends(s)
         /\ e.kind # "receipt" => Receipts(s \o <<e>>) = Receipts(s)
<1>1. /\ Len(s \o <<e>>) = Len(s) + 1
      /\ (s \o <<e>>)[Len(s) + 1] = e
      /\ \A i \in 1 .. Len(s) : (s \o <<e>>)[i] = s[i]
      /\ DOMAIN s = 1 .. Len(s) /\ DOMAIN (s \o <<e>>) = 1 .. (Len(s) + 1)
      /\ Len(s) \in Nat
  OBVIOUS
<1>2. /\ \A i \in DOMAIN s : i \in DOMAIN (s \o <<e>>) /\ (s \o <<e>>)[i] = s[i]
      /\ \A i \in DOMAIN (s \o <<e>>) : i \in DOMAIN s \/ i = Len(s) + 1
      /\ Len(s) + 1 \notin DOMAIN s
  BY <1>1
<1>3. Sends(s) \subseteq Sends(s \o <<e>>)
  BY <1>2 DEF Sends, At
<1>4. ASSUME e.kind # "send" PROVE Sends(s \o <<e>>) = Sends(s)
  BY <1>1, <1>2, <1>4 DEF Sends, At
<1>5. ASSUME e.kind # "receipt" PROVE Receipts(s \o <<e>>) = Receipts(s)
  BY <1>1, <1>2, <1>5 DEF Receipts, At
<1> QED BY <1>1, <1>2, <1>3, <1>4, <1>5
\* Two events are one event and one more.
LEMMA TwoAppends ==
  ASSUME NEW s \in Seq(Event), NEW e \in Event, NEW f \in Event
  PROVE  s \o <<e>> \in Seq(Event) /\ s \o <<e, f>> = (s \o <<e>>) \o <<f>>
<1> DEFINE u == s \o <<e>>
           v == s \o <<e, f>>
           x == u \o <<f>>
<1>1. /\ u \in Seq(Event) /\ Len(u) = Len(s) + 1 /\ u[Len(s) + 1] = e
      /\ \A i \in 1 .. Len(s) : u[i] = s[i]
  OBVIOUS
<1>2. /\ v \in Seq(Event) /\ Len(v) = Len(s) + 2 /\ v[Len(s) + 1] = e /\ v[Len(s) + 2] = f
      /\ \A i \in 1 .. Len(s) : v[i] = s[i]
  <2>1. <<e, f>> \in Seq(Event) /\ Len(<<e, f>>) = 2 /\ <<e, f>>[1] = e /\ <<e, f>>[2] = f
    OBVIOUS
  <2> QED BY <2>1
<1> HIDE DEF u, v
<1>3. /\ x \in Seq(Event) /\ Len(x) = Len(s) + 2 /\ x[Len(s) + 2] = f
      /\ \A i \in 1 .. (Len(s) + 1) : x[i] = u[i]
  BY <1>1
<1>4. \A i \in 1 .. (Len(s) + 2) : x[i] = v[i]
  <2>1. Len(s) \in Nat
    OBVIOUS
  <2>2. \A i \in 1 .. (Len(s) + 2) : i \in 1 .. Len(s) \/ i = Len(s) + 1 \/ i = Len(s) + 2
    BY <2>1
  <2> QED BY <1>1, <1>2, <1>3, <2>1, <2>2
<1> HIDE DEF x
<1>5. x = v
  BY <1>2, <1>3, <1>4
<1> QED BY <1>1, <1>5 DEF u, v, x

\* Numbers and receipts after one more event.
LEMMA AppendKeeps ==
  ASSUME NEW s \in Seq(Event), NEW e \in Event, NEW p
  PROVE  /\ (/\ NumberedIn(s, p)
             /\ e.kind = "send" => e.req.n = Len(s) /\ e.req.from = p) => NumberedIn(s \o <<e>>, p)
         /\ (OnceIn(s) /\ (e.kind = "receipt" => e.req \notin Receipts(s))) => OnceIn(s \o <<e>>)
<1> DEFINE u == s \o <<e>>
<1>0. /\ \A i \in DOMAIN s : i \in DOMAIN u /\ u[i] = s[i]
      /\ \A i \in DOMAIN u : i \in DOMAIN s \/ i = Len(s) + 1
      /\ u[Len(s) + 1] = e /\ Len(s) \in Nat
  BY ReadAppend
<1> HIDE DEF u
<1>1. ASSUME NumberedIn(s, p), e.kind = "send" => e.req.n = Len(s) /\ e.req.from = p
      PROVE  NumberedIn(u, p)
  BY <1>0, <1>1 DEF NumberedIn, At
<1>2. ASSUME OnceIn(s), e.kind = "receipt" => e.req \notin Receipts(s)
      PROVE  OnceIn(u)
  BY <1>0, <1>2 DEF OnceIn, At, Receipts
<1> QED BY <1>1, <1>2 DEF u

\* A receipt is one more received request, which a refusal leaves as it is.
LEMMA ReceiptAppend ==
  ASSUME NEW s \in Seq(Event), NEW req \in Command
  PROVE  Receipts(s \o <<[kind |-> "receipt", req |-> req]>>) = Receipts(s) \cup {req}
<1> DEFINE e == [kind |-> "receipt", req |-> req]
           u == s \o <<e>>
<1>1. /\ \A i \in DOMAIN s : i \in DOMAIN u /\ u[i] = s[i]
      /\ \A i \in DOMAIN u : i \in DOMAIN s \/ i = Len(s) + 1
      /\ u[Len(s) + 1] = e /\ Len(s) + 1 \in DOMAIN u
  BY EventType, ReadAppend
<1>2. e.kind = "receipt" /\ e.req = req
  OBVIOUS
<1> HIDE DEF u, e
<1>3. Receipts(u) = Receipts(s) \cup {req}
  BY <1>1, <1>2 DEF Receipts, At
<1> QED BY <1>3 DEF u, e

\* The same with a send.
LEMMA SendAppend ==
  ASSUME NEW s \in Seq(Event), NEW req \in Command
  PROVE  Sends(s \o <<[kind |-> "send", req |-> req]>>) = Sends(s) \cup {req}
<1> DEFINE e == [kind |-> "send", req |-> req]
           u == s \o <<e>>
<1>1. /\ \A i \in DOMAIN s : i \in DOMAIN u /\ u[i] = s[i]
      /\ \A i \in DOMAIN u : i \in DOMAIN s \/ i = Len(s) + 1
      /\ u[Len(s) + 1] = e /\ Len(s) + 1 \in DOMAIN u
  BY EventType, ReadAppend
<1>2. e.kind = "send" /\ e.req = req
  OBVIOUS
<1> HIDE DEF u, e
<1>3. Sends(u) = Sends(s) \cup {req}
  BY <1>1, <1>2 DEF Sends, At
<1> QED BY <1>3 DEF u, e

\* A number that is the length of the log is new.
LEMMA NumberIsNew ==
  ASSUME NEW s \in Seq(Event), NEW p, NumberedIn(s, p), NEW req \in Sends(s)
  PROVE  req.n # Len(s) /\ req.from = p
<1>1. PICK i \in DOMAIN s : s[i].kind = "send" /\ s[i].req = req
  BY DEF Sends, At
<1> QED BY <1>1 DEF NumberedIn, At

\* What was received is a command.
LEMMA ReceiptsType ==
  ASSUME NEW s \in Seq(Event)
  PROVE  Receipts(s) \subseteq Command
<1>1. \A e \in Event : e.kind = "receipt" => e.req \in Command
  BY DEF Event
<1> QED BY <1>1 DEF Receipts, At

\* Sending a pause that nobody sent before.
LEMMA SendDelivers ==
  ASSUME DeliveryInv, PauseInv', NEW p \in Party, NEW req \in Command, Sending(p, req)
  PROVE  DeliveryInv'
<1> DEFINE e == [kind |-> "send", req |-> req]
<1>a. /\ TInv /\ TInv' /\ e \in Event /\ Own(p) \in Seq(Event)
      /\ req.to \in Target
  BY EventType, OwnIs DEF DeliveryInv, PauseInv, Command
<1>1. \A q \in Party \ {p} : Own(q)' = Own(q)
  BY DEF Sending
<1>2. Own(p)' = Own(p) \o <<e>>
  BY DEF Sending
<1>3. \A q \in Party : NumberedIn(Own(q)', q)
  <2>1. NumberedIn(Own(p) \o <<e>>, p)
    BY <1>a, AppendKeeps DEF Sending, DeliveryInv
  <2> QED BY <1>1, <1>2, <2>1 DEF DeliveryInv
<1>4. /\ Sent(p)' = Sent(p) \cup {req} /\ req \notin Sent(p)
      /\ \A q \in Party \ {p} : Sent(q)' = Sent(q)
  <2>1. Sends(Own(p) \o <<e>>) = Sends(Own(p)) \cup {req}
    BY <1>a, SendAppend
  <2>2. req \notin Sends(Own(p))
    BY <1>a, NumberIsNew DEF Sending, DeliveryInv
  <2> QED BY <1>1, <1>2, <2>1, <2>2 DEF Sent
<1>5. \A t \in Target : Receipts(log'[t]) = Receipts(log[t]) /\ OnceIn(log'[t])
  <2> TAKE t \in Target
  <2>1. Own(t) = log[t] /\ Own(t)' = log'[t] /\ t \in Party
    BY <1>a, OwnIs
  <2>2. CASE t = p
    <3>1. /\ Receipts(log[t] \o <<e>>) = Receipts(log[t])
          /\ OnceIn(log[t] \o <<e>>)
      BY <1>a, <2>1, <2>2, AppendKeeps, ReadAppend DEF DeliveryInv, Received
    <3> QED BY <1>2, <2>1, <2>2, <3>1
  <2>3. CASE t # p
    BY <1>1, <2>1, <2>3 DEF DeliveryInv, Received
  <2> QED BY <2>2, <2>3
<1>6. \A c \in Command : c \in Sent(c.from) => c \in Sent(c.from)'
  BY <1>4 DEF Command
<1>7. \A t \in Target : Receipts(log[t]) \subseteq Command
  BY <1>a, ReceiptsType DEF TInv, TypeOK
<1>8. \A t \in Target : Received(t)'
  BY <1>5, <1>6, <1>7 DEF DeliveryInv, Received
<1>9. \A t \in Target : queue[t] \in Seq(Command) /\ queue'[t] \in Seq(Command)
  BY <1>a DEF TInv, TypeOK
<1>10. \A t \in Target : queue'[t] = queue[t] \/ (t = req.to /\ queue'[t] = Append(queue[t], req))
  BY <1>a DEF Sending, Connect, TInv, TypeOK
<1>11. \A t \in Target : Backlog(t)'
  <2> TAKE t \in Target
  <2>0. Backlog(t) /\ req.from = p /\ req.op = "pause" /\ req \in Sent(p)'
    BY <1>4 DEF DeliveryInv, Sending
  <2>1. CASE queue'[t] = queue[t]
    BY <2>0, <2>1, <1>5, <1>6, <1>9 DEF Backlog
  <2>2. CASE t = req.to /\ queue'[t] = Append(queue[t], req)
    <3>1. req \notin Receipts(log[t])
      BY <1>4, <2>0 DEF DeliveryInv, Received
    <3>2. \A k \in DOMAIN queue[t] : queue[t][k] # req
      BY <1>4, <2>0 DEF Backlog
    <3>3. /\ DOMAIN queue'[t] = DOMAIN queue[t] \cup {Len(queue[t]) + 1}
          /\ \A k \in DOMAIN queue[t] : queue'[t][k] = queue[t][k] /\ queue[t][k] \in Command
          /\ queue'[t][Len(queue[t]) + 1] = req
      BY <1>9, <2>2
    <3>4. ASSUME NEW k \in DOMAIN queue'[t], NEW c, c = queue'[t][k]
          PROVE  /\ c.to = t
                 /\ c.op = "pause" => /\ c \in Sent(c.from)'
                                      /\ c \notin Receipts(log'[t])
                                      /\ \A l \in DOMAIN queue'[t] : queue'[t][l] = c => l = k
      <4>1. CASE k \in DOMAIN queue[t]
        <5>1. c = queue[t][k] /\ c \in Command /\ c # req
          BY <3>2, <3>3, <3>4, <4>1
        <5>2. /\ c.to = t
              /\ c.op = "pause" => /\ c \in Sent(c.from) /\ c \notin Receipts(log[t])
                                   /\ \A l \in DOMAIN queue[t] : queue[t][l] = c => l = k
          BY <2>0, <4>1, <5>1 DEF Backlog
        <5> QED BY <1>5, <1>6, <3>3, <5>1, <5>2
      <4>2. CASE k = Len(queue[t]) + 1
        <5>1. c = req
          BY <3>3, <3>4, <4>2
        <5> QED BY <1>5, <2>0, <2>2, <3>1, <3>2, <3>3, <4>2, <5>1
      <4> QED BY <3>3, <4>1, <4>2
    <3> QED BY <3>4 DEF Backlog
  <2> QED BY <1>10, <2>1, <2>2
<1> QED BY <1>3, <1>8, <1>11 DEF DeliveryInv
\* Taking the oldest pause of a backlog: it leaves and is received, once.
LEMMA TakeDelivers ==
  ASSUME DeliveryInv, PauseInv', NEW t \in Target, Taking(t)
  PROVE  DeliveryInv'
<1> DEFINE req == Head(queue[t])
           receipt == [kind |-> "receipt", req |-> req]
           refusal == [kind |-> "refused", aid |-> AidOf(req)]
<1>a. /\ TInv /\ TInv' /\ t \in Party /\ Own(t) \in Seq(Event) /\ Own(t) = log[t]
      /\ Own(t)' = log'[t]
  BY OwnIs DEF DeliveryInv, PauseInv
<1>b. /\ queue[t] \in Seq(Command) /\ queue[t] # <<>>
      /\ Len(queue[t]) \in Nat /\ DOMAIN queue[t] = 1 .. Len(queue[t])
      /\ req \in Command /\ req = queue[t][1] /\ 1 \in DOMAIN queue[t]
      /\ queue'[t] = Tail(queue[t])
      /\ DOMAIN queue'[t] = 1 .. (Len(queue[t]) - 1)
      /\ \A k \in DOMAIN queue'[t] : k + 1 \in DOMAIN queue[t] /\ queue'[t][k] = queue[t][k + 1]
      /\ \A u \in Target \ {t} : queue'[u] = queue[u]
  <2>1. /\ queue[t] \in Seq(Command) /\ queue[t] # <<>> /\ queue'[t] = Tail(queue[t])
        /\ \A u \in Target \ {t} : queue'[u] = queue[u]
    BY <1>a DEF Taking, TInv, TypeOK
  <2> QED BY <2>1
<1>c. receipt \in Event /\ refusal \in Event
  BY <1>b, EventType, AidType
<1>d. req.op = "pause" /\ req.to = t /\ req \in Sent(req.from) /\ req \notin Receipts(log[t])
  BY <1>b DEF Taking, DeliveryInv, Backlog
<1>1. \A q \in Party \ {t} : Own(q)' = Own(q)
  BY DEF Taking
<1>2. \A u \in Target \ {t} : log'[u] = log[u]
  BY <1>a, <1>1, OwnIs
<1>3. /\ Receipts(log'[t]) = Receipts(log[t]) \cup {req}
      /\ OnceIn(log'[t]) /\ NumberedIn(log'[t], t) /\ Sends(log'[t]) = Sends(log[t])
  <2> DEFINE s == log[t]
             u == log[t] \o <<receipt>>
             v == u \o <<refusal>>
  <2>1. s \in Seq(Event) /\ u \in Seq(Event) /\ v = log[t] \o <<receipt, refusal>>
    BY <1>a, <1>c
  <2>2. receipt.kind = "receipt" /\ receipt.req = req /\ refusal.kind = "refused"
    OBVIOUS
  <2>3. NumberedIn(s, t) /\ OnceIn(s)
    BY <1>a DEF DeliveryInv, Received
  <2>4. Receipts(u) = Receipts(s) \cup {req}
    BY <1>b, <2>1, ReceiptAppend
  <2> HIDE DEF receipt, refusal, req
  <2>5. NumberedIn(u, t) /\ OnceIn(u) /\ Sends(u) = Sends(s)
    BY <1>c, <1>d, <2>1, <2>2, <2>3, AppendKeeps, ReadAppend
  <2>6. NumberedIn(v, t) /\ OnceIn(v) /\ Sends(v) = Sends(u) /\ Receipts(v) = Receipts(u)
    <3> HIDE DEF u
    <3> QED BY <1>c, <2>1, <2>2, <2>5, AppendKeeps, ReadAppend
  <2>7. log'[t] = u \/ log'[t] = v
    BY <1>a, <2>1 DEF Taking, receipt, refusal, req
  <2> QED BY <2>4, <2>5, <2>6, <2>7
<1>4. \A q \in Party : NumberedIn(Own(q)', q)
  BY <1>a, <1>1, <1>3 DEF DeliveryInv
<1>5. \A q \in Party : Sent(q)' = Sent(q)
  BY <1>a, <1>1, <1>3 DEF Sent
<1>6. \A c \in Command : c \in Sent(c.from) <=> c \in Sent(c.from)'
  BY <1>5 DEF Command
<1>7. \A u \in Target : Receipts(log[u]) \subseteq Command /\ queue[u] \in Seq(Command)
  BY <1>a, ReceiptsType DEF TInv, TypeOK
<1>8. \A u \in Target : Received(u)'
  <2>1. Received(t)'
    BY <1>b, <1>d, <1>3, <1>6, <1>7 DEF DeliveryInv, Received
  <2>2. \A u \in Target \ {t} : Received(u)'
    BY <1>2, <1>6, <1>7 DEF DeliveryInv, Received
  <2> QED BY <2>1, <2>2
<1>9. \A u \in Target : Backlog(u)'
  <2>1. Backlog(t)'
    <3> SUFFICES ASSUME NEW k \in DOMAIN queue'[t], NEW c, c = queue'[t][k]
                 PROVE  /\ c.to = t
                        /\ c.op = "pause" =>
                             /\ c \in Sent(c.from)'
                             /\ c \notin Receipts(log'[t])
                             /\ \A l \in DOMAIN queue'[t] : queue'[t][l] = c => l = k
      BY DEF Backlog
    <3>1. c = queue[t][k + 1] /\ k + 1 \in DOMAIN queue[t] /\ k + 1 # 1 /\ c \in Command
      BY <1>b
    <3>2. c.to = t
      BY <3>1 DEF DeliveryInv, Backlog
    <3>3. ASSUME c.op = "pause"
          PROVE  /\ c \in Sent(c.from) /\ c \notin Receipts(log[t]) /\ c # req
                 /\ \A l \in DOMAIN queue'[t] : queue'[t][l] = c => l = k
      <4>1. \A l \in DOMAIN queue[t] : queue[t][l] = c => l = k + 1
        BY <3>1, <3>3 DEF DeliveryInv, Backlog
      <4>2. c # req
        BY <1>b, <3>1, <4>1
      <4>3. \A l \in DOMAIN queue'[t] : queue'[t][l] = c => l = k
        BY <1>b, <4>1
      <4>4. c \in Sent(c.from) /\ c \notin Receipts(log[t])
        BY <3>1, <3>3 DEF DeliveryInv, Backlog
      <4> QED BY <4>2, <4>3, <4>4
    <3> QED BY <1>3, <1>6, <3>1, <3>2, <3>3
  <2>2. \A u \in Target \ {t} : Backlog(u)'
    BY <1>b, <1>2, <1>6, <1>7 DEF DeliveryInv, Backlog
  <2> QED BY <2>1, <2>2
<1> QED BY <1>4, <1>8, <1>9 DEF DeliveryInv

\* Events that are neither sends nor receipts, and backlogs that only shrink or
\* get control calls.
LEMMA QuietDelivers ==
  ASSUME DeliveryInv, PauseInv',
         \A p \in Party : Quietly(p), \A t \in Target : Drains(t)
  PROVE  DeliveryInv'
<1>a. TInv /\ TInv'
  BY DEF DeliveryInv, PauseInv
<1>1. ASSUME NEW p \in Party
      PROVE  /\ NumberedIn(Own(p)', p) /\ Sends(Own(p)') = Sends(Own(p))
             /\ OnceIn(Own(p)) => OnceIn(Own(p)')
             /\ Receipts(Own(p)') = Receipts(Own(p))
  <2>1. Own(p) \in Seq(Event) /\ NumberedIn(Own(p), p)
    BY <1>a, OwnIs DEF DeliveryInv
  <2>2. CASE Own(p)' = Own(p)
    BY <2>1, <2>2
  <2>3. ASSUME NEW e \in Event, e.kind \notin {"send", "receipt"}, Own(p)' = Own(p) \o <<e>>
        PROVE  /\ NumberedIn(Own(p)', p) /\ Sends(Own(p)') = Sends(Own(p))
               /\ OnceIn(Own(p)) => OnceIn(Own(p)')
               /\ Receipts(Own(p)') = Receipts(Own(p))
    BY <2>1, <2>3, AppendKeeps, ReadAppend
  <2> QED BY <2>2, <2>3 DEF Quietly
<1>2. \A q \in Party : Sent(q)' = Sent(q)
  BY <1>1 DEF Sent
<1>3. \A c \in Command : c \in Sent(c.from) <=> c \in Sent(c.from)'
  BY <1>2 DEF Command
<1>4. \A t \in Target : /\ Receipts(log'[t]) = Receipts(log[t]) /\ OnceIn(log'[t])
                        /\ Receipts(log[t]) \subseteq Command
  BY <1>a, <1>1, OwnIs, ReceiptsType DEF DeliveryInv, Received
<1>5. \A t \in Target : Received(t)'
  BY <1>3, <1>4 DEF DeliveryInv, Received
<1>6. ASSUME NEW t \in Target PROVE Backlog(t)'
  <2>1. queue[t] \in Seq(Command) /\ Backlog(t)
    BY <1>a DEF TInv, TypeOK, DeliveryInv
  <2>2. CASE queue'[t] = queue[t]
    BY <1>3, <1>4, <2>1, <2>2 DEF Backlog
  <2>3. CASE queue'[t] = <<>>
    BY <2>3 DEF Backlog
  <2>4. CASE queue[t] # <<>> /\ queue'[t] = Tail(queue[t])
    <3>1. \A k \in DOMAIN queue'[t] : /\ k + 1 \in DOMAIN queue[t] /\ k \in Nat
                                      /\ queue'[t][k] = queue[t][k + 1]
                                      /\ queue[t][k + 1] \in Command
      BY <2>1, <2>4
    <3> QED BY <1>3, <1>4, <2>1, <3>1 DEF Backlog
  <2>5. ASSUME NEW req \in Command, req.op # "pause", req.to = t,
               queue'[t] = Append(queue[t], req)
        PROVE  Backlog(t)'
    <3>1. /\ DOMAIN queue'[t] = DOMAIN queue[t] \cup {Len(queue[t]) + 1}
          /\ \A k \in DOMAIN queue[t] : queue'[t][k] = queue[t][k] /\ queue[t][k] \in Command
          /\ queue'[t][Len(queue[t]) + 1] = req
      BY <2>1, <2>5
    <3> QED BY <1>3, <1>4, <2>1, <2>5, <3>1 DEF Backlog
  <2> QED BY <2>2, <2>3, <2>4, <2>5 DEF Drains
<1> QED BY <1>1, <1>5, <1>6 DEF DeliveryInv

\* DeliveryInv is inductive.
LEMMA NextDelivers ==
  ASSUME DeliveryInv, [Next]_vars
  PROVE  DeliveryInv'
<1>1. PauseInv'
  BY NextShows DEF DeliveryInv
<1>2. Moves
  BY NextMoves DEF DeliveryInv
<1> QED BY <1>1, <1>2, SendDelivers, TakeDelivers, QuietDelivers DEF Moves

\* Nothing was sent, waits or was received at first.
LEMMA InitDelivers == Init => DeliveryInv
<1> SUFFICES ASSUME Init PROVE DeliveryInv
  OBVIOUS
<1>1. PauseInv
  BY InitShows
<1>2. \A p \in Party : Own(p) = <<>>
  BY DEF Init, Own, Party
<1>3. \A p \in Party : NumberedIn(Own(p), p)
  BY <1>2 DEF NumberedIn, At
<1>4. \A t \in Target : Backlog(t) /\ Received(t)
  BY DEF Init, Backlog, Received, OnceIn, Receipts, At
<1> QED BY <1>1, <1>3, <1>4 DEF DeliveryInv

\* The invariant of delivery.
LEMMA DeliveryInvariant == Spec => []DeliveryInv
<1>1. DeliveryInv /\ [Next]_vars => DeliveryInv'
  BY NextDelivers
<1> QED BY InitDelivers, <1>1, PTL DEF Spec

\* A worker handles a request at most once and only if its sender logged it:
\* retries, waits that expire and a backlog that outlives its clients neither
\* repeat nor invent a receipt, for any number of workers in any topology.
THEOREM EveryReceiptWasSent == Spec => []DeliveredOnce
<1>1. ASSUME DeliveryInv PROVE DeliveredOnce
  <2>1. \A t \in Target : OnceIn(log[t]) /\ Receipts(log[t]) \subseteq Command
    BY <1>1, ReceiptsType DEF DeliveryInv, Received, PauseInv, TInv, TypeOK
  <2>2. \A t \in Target : \A req \in Receipts(log[t]) :
          req \in Sends(IF req.from = Controller THEN events ELSE log[req.from])
    BY <1>1 DEF DeliveryInv, Received, Sent, Own
  <2> QED BY <2>1, <2>2 DEF DeliveredOnce, OnceIn
<1> QED BY <1>1, DeliveryInvariant, PTL
-----------------------------------------------------------------------------
(* Responses, and who passes a pause on.                                   *)

\* A log has the reply that answers the attempt aid, and it was not dropped.
ToldIn(s, aid, answer) ==
  \E j \in At(s, "reply") : s[j].reply = answer /\ s[j].reply.aid = aid /\ ~s[j].dropped

\* A busy server handles a pause that was sent to it.
Handling(t) ==
  srv[t].pc \in Busy => srv[t].cur.to = t /\ srv[t].cur.op = "pause"

\* The calls whose outcome is recorded are pauses.
Calling(p) ==
  sock[p].state # "none" /\ (p \in Target \/ phase = "dispatch") => sock[p].req.op = "pause"

\* An answer that waits in a socket is a reply of the target.
ReplyKept(p) ==
  sock[p].state = "reply" /\ sock[p].req.op = "pause" =>
    ToldIn(log[sock[p].req.to], AidOf(sock[p].req), sock[p].answer)

\* A recorded response is such a reply too.
OutcomesTrue(p) ==
  \A i \in At(Own(p), "transport") :
    Own(p)[i].status = "RESPONSE" =>
      ToldIn(log[Own(p)[i].aid[2]], Own(p)[i].aid, Own(p)[i].response)

\* A worker that begins a pause does not refuse, and passes it on only once it
\* is paused itself.
Obeys(t) ==
  /\ srv[t].pc = "waitStop" \/ srv[t].paused => t \notin intent.refuse
  /\ srv[t].pc \in {"forward", "await"} => srv[t].paused
  /\ Sends(log[t]) # {} => srv[t].paused

ResponseInv ==
  /\ DeliveryInv
  /\ \A t \in Target : Handling(t) /\ Obeys(t)
  /\ \A p \in Party : Calling(p) /\ ReplyKept(p) /\ OutcomesTrue(p)
-----------------------------------------------------------------------------
\* A log only grows, so that what it told once it tells for ever.
LEMMA ToldStays ==
  ASSUME TInv, TInv', Moves, NEW t \in Target, NEW aid, NEW answer,
         ToldIn(log[t], aid, answer)
  PROVE  ToldIn(log'[t], aid, answer)
<1>1. ASSUME NEW s \in Seq(Event), NEW e \in Event, ToldIn(s, aid, answer)
      PROVE  ToldIn(s \o <<e>>, aid, answer)
  BY <1>1, ReadAppend DEF ToldIn, At
<1>2. \/ log'[t] = log[t]
      \/ \E e \in Event : log'[t] = log[t] \o <<e>>
      \/ \E e, f \in Event : log'[t] = log[t] \o <<e, f>>
  <2>1. t \in Party /\ Own(t) = log[t] /\ Own(t)' = log'[t]
    BY OwnIs
  <2>2. ASSUME NEW p \in Party, NEW req \in Command, Sending(p, req)
        PROVE  log'[t] = log[t] \/ \E e \in Event : log'[t] = log[t] \o <<e>>
    BY <2>1, <2>2, EventType DEF Sending
  <2>3. ASSUME NEW u \in Target, Taking(u)
        PROVE  \/ log'[t] = log[t]
               \/ \E e \in Event : log'[t] = log[t] \o <<e>>
               \/ \E e, f \in Event : log'[t] = log[t] \o <<e, f>>
    <3>1. Head(queue[u]) \in Command
      BY <2>3, TakenType
    <3>2. /\ [kind |-> "receipt", req |-> Head(queue[u])] \in Event
          /\ [kind |-> "refused", aid |-> AidOf(Head(queue[u]))] \in Event
      BY <3>1, EventType, AidType
    <3> QED BY <2>1, <2>3, <3>2 DEF Taking
  <2>4. Quietly(t) => log'[t] = log[t] \/ \E e \in Event : log'[t] = log[t] \o <<e>>
    BY <2>1 DEF Quietly
  <2> QED BY <2>1, <2>2, <2>3, <2>4 DEF Moves
<1>3. log[t] \in Seq(Event)
  BY DEF TInv, TypeOK
<1>4. CASE log'[t] = log[t]
  BY <1>4
<1>5. ASSUME NEW e \in Event, log'[t] = log[t] \o <<e>>
      PROVE  ToldIn(log'[t], aid, answer)
  BY <1>1, <1>3, <1>5
<1>6. ASSUME NEW e \in Event, NEW f \in Event, log'[t] = log[t] \o <<e, f>>
      PROVE  ToldIn(log'[t], aid, answer)
  <2>1. log[t] \o <<e>> \in Seq(Event) /\ log'[t] = (log[t] \o <<e>>) \o <<f>>
    BY <1>3, <1>6, TwoAppends
  <2> QED BY <1>1, <1>3, <2>1
<1> QED BY <1>2, <1>4, <1>5, <1>6

\* Recorded responses stay true: a new one was waiting in the socket.
LEMMA OutcomesStay ==
  ASSUME ResponseInv, TInv', Moves, NEW p \in Party
  PROVE  OutcomesTrue(p)'
<1>a. TInv /\ OutcomesTrue(p) /\ Own(p) \in Seq(Event)
  BY OwnIs DEF ResponseInv, DeliveryInv, PauseInv
<1>1. \A e \in Event : e.kind = "transport" => e.aid \in Aid
  BY DEF Event
<1>2. \A i \in DOMAIN Own(p) : Own(p)[i] \in Event
  BY <1>a
<1>3. \A i \in At(Own(p), "transport") :
        Own(p)[i].status = "RESPONSE" =>
          ToldIn(log'[Own(p)[i].aid[2]], Own(p)[i].aid, Own(p)[i].response)
  <2>1. \A i \in At(Own(p), "transport") : Own(p)[i].aid[2] \in Target
    BY <1>1, <1>2 DEF At, Aid
  <2> QED BY <1>a, <2>1, ToldStays DEF OutcomesTrue
<1>4. CASE Own(p)' = Own(p)
  BY <1>3, <1>4 DEF OutcomesTrue
<1>5. ASSUME NEW e \in Event, Own(p)' = Own(p) \o <<e>>,
             e.kind = "transport" /\ e.status = "RESPONSE" =>
               ToldIn(log'[e.aid[2]], e.aid, e.response)
      PROVE  OutcomesTrue(p)'
  BY <1>a, <1>3, <1>5, ReadAppend DEF OutcomesTrue, At
<1>6. ASSUME NEW e \in Event, NEW f \in Event, Own(p)' = Own(p) \o <<e, f>>,
             e.kind # "transport", f.kind # "transport"
      PROVE  OutcomesTrue(p)'
  <2> DEFINE u == Own(p) \o <<e>>
  <2>1. u \in Seq(Event) /\ Own(p)' = u \o <<f>>
    BY <1>a, <1>6, TwoAppends
  <2>2. \A i \in At(u, "transport") : i \in At(Own(p), "transport") /\ u[i] = Own(p)[i]
    BY <1>a, <1>6, ReadAppend DEF At
  <2> HIDE DEF u
  <2>3. \A i \in At(u \o <<f>>, "transport") : i \in At(u, "transport") /\ (u \o <<f>>)[i] = u[i]
    BY <1>6, <2>1, ReadAppend DEF At
  <2> QED BY <1>3, <2>1, <2>2, <2>3 DEF OutcomesTrue
<1>7. ASSUME NEW q \in Party, NEW req \in Command, Sending(q, req)
      PROVE  OutcomesTrue(p)'
  <2>1. Own(p)' = Own(p) \/ Own(p)' = Own(p) \o <<[kind |-> "send", req |-> req]>>
    BY <1>7 DEF Sending
  <2> QED BY <1>4, <1>5, <2>1, EventType
<1>8. ASSUME NEW t \in Target, Taking(t)
      PROVE  OutcomesTrue(p)'
  <2> DEFINE receipt == [kind |-> "receipt", req |-> Head(queue[t])]
             refusal == [kind |-> "refused", aid |-> AidOf(Head(queue[t]))]
  <2>1. Head(queue[t]) \in Command
    BY <1>a, <1>8, TakenType
  <2>2. /\ receipt \in Event /\ refusal \in Event
        /\ receipt.kind # "transport" /\ refusal.kind # "transport"
    BY <2>1, EventType, AidType
  <2>3. \/ Own(p)' = Own(p) \/ Own(p)' = Own(p) \o <<receipt>>
        \/ Own(p)' = Own(p) \o <<receipt, refusal>>
    BY <1>8 DEF Taking
  <2> HIDE DEF receipt, refusal
  <2> QED BY <1>4, <1>5, <1>6, <2>2, <2>3
<1>9. ASSUME Quietly(p)
      PROVE  OutcomesTrue(p)'
  <2>1. ASSUME NEW e \in Event, Own(p)' = Own(p) \o <<e>>, e.kind = "transport",
               e.status = "RESPONSE", Returned(p), e = TransportEvent(p),
               p = Controller => phase = "dispatch"
        PROVE  ToldIn(log'[e.aid[2]], e.aid, e.response)
    <3>1. /\ sock[p].state = "reply" /\ e.aid = AidOf(sock[p].req) /\ e.response = sock[p].answer
      BY <2>1 DEF TransportEvent
    <3>2. sock[p].req.op = "pause" /\ sock[p].req \in Command
      BY <1>a, <2>1, <3>1 DEF ResponseInv, Calling, Party, TInv, CallInv
    <3>3. sock[p].req.to \in Target /\ e.aid[2] = sock[p].req.to
      BY <3>1, <3>2 DEF AidOf, Command
    <3>4. ToldIn(log[sock[p].req.to], e.aid, e.response)
      BY <3>1, <3>2 DEF ResponseInv, ReplyKept
    <3> QED BY <1>a, <3>3, <3>4, ToldStays
  <2> QED BY <1>4, <1>5, <1>9, <2>1 DEF Quietly
<1> QED BY <1>7, <1>8, <1>9 DEF Moves
-----------------------------------------------------------------------------
(* Sockets and servers, step by step.                                      *)

\* A socket stays, closes, gets a result or opens.
SocketStep(p) ==
  \/ sock'[p] = sock[p]
  \/ sock'[p].state = "none"
  \/ /\ sock'[p].req = sock[p].req /\ sock[p].state # "none"
     /\ sock'[p].state = "reply" /\ sock[p].req.op = "pause" =>
          ToldIn(log'[sock[p].req.to], AidOf(sock[p].req), sock'[p].answer)
  \/ /\ sock'[p].state # "reply"
     /\ sock'[p].req.op = "pause" \/ (p = Controller /\ phase # "dispatch")

\* The dispatches begin with a closed socket.
PhaseStep ==
  phase' = "dispatch" => phase = "dispatch" \/ sock'[Controller].state = "none"

\* A server keeps its request, or takes a pause, or is not busy.
PlaceStep(t) ==
  /\ srv'[t].pc \in Busy =>
       \/ srv[t].pc \in Busy /\ srv'[t].cur = srv[t].cur
       \/ srv'[t].cur.to = t /\ srv'[t].cur.op = "pause"
  /\ srv'[t].pc = "waitStop" => t \notin intent.refuse
  /\ srv'[t].paused => srv[t].paused \/ srv[t].pc = "waitStop"
  /\ srv[t].paused => srv'[t].paused
  /\ srv'[t].pc \in {"forward", "await"} =>
       srv'[t].paused \/ srv[t].pc \in {"forward", "await"}

\* What a socket holds stays right.
LEMMA SocketKept ==
  ASSUME ResponseInv, TInv', Moves, PhaseStep, NEW p \in Party, SocketStep(p)
  PROVE  Calling(p)' /\ ReplyKept(p)'
<1>a. TInv /\ Calling(p) /\ ReplyKept(p) /\ (p \in Target <=> p # Controller)
  BY PartiesAreDistinct DEF ResponseInv, DeliveryInv, PauseInv, Party
<1>b. sock[p].state # "none" => sock[p].req \in Command /\ sock[p].req.to \in Target
  BY <1>a DEF TInv, CallInv, Command
<1>1. CASE sock'[p] = sock[p]
  <2>1. Calling(p)'
    BY <1>1, <1>a DEF PhaseStep, Calling
  <2>2. ReplyKept(p)'
    <3> SUFFICES ASSUME sock'[p].state = "reply", sock'[p].req.op = "pause"
                 PROVE  ToldIn(log'[sock'[p].req.to], AidOf(sock'[p].req), sock'[p].answer)
      BY DEF ReplyKept
    <3>1. ToldIn(log[sock[p].req.to], AidOf(sock[p].req), sock[p].answer)
      BY <1>1, <1>a DEF ReplyKept
    <3> QED BY <1>1, <1>a, <1>b, <3>1, ToldStays
  <2> QED BY <2>1, <2>2
<1>2. CASE sock'[p].state = "none"
  BY <1>2 DEF Calling, ReplyKept
<1>3. CASE /\ sock'[p].req = sock[p].req /\ sock[p].state # "none"
           /\ sock'[p].state = "reply" /\ sock[p].req.op = "pause" =>
                ToldIn(log'[sock[p].req.to], AidOf(sock[p].req), sock'[p].answer)
  <2>1. Calling(p)'
    BY <1>3, <1>a, <1>2 DEF PhaseStep, Calling
  <2>2. ReplyKept(p)'
    BY <1>3 DEF ReplyKept
  <2> QED BY <2>1, <2>2
<1>4. CASE /\ sock'[p].state # "reply"
           /\ sock'[p].req.op = "pause" \/ (p = Controller /\ phase # "dispatch")
  BY <1>4, <1>a DEF PhaseStep, Calling, ReplyKept
<1> QED BY <1>1, <1>2, <1>3, <1>4 DEF SocketStep

\* What a server does stays right.
LEMMA PlaceKept ==
  ASSUME ResponseInv, TInv', Moves, UNCHANGED intent, NEW t \in Target, PlaceStep(t)
  PROVE  Handling(t)' /\ Obeys(t)'
<1>a. TInv /\ Handling(t) /\ Obeys(t) /\ t \in Party /\ Own(t) = log[t] /\ Own(t)' = log'[t]
      /\ log[t] \in Seq(Event)
  BY OwnIs DEF ResponseInv, DeliveryInv, PauseInv, TInv, TypeOK
<1>1. Handling(t)'
  BY <1>a DEF PlaceStep, Handling
<1>2. Sends(log'[t]) # {} => Sends(log[t]) # {} \/ srv[t].pc = "forward"
  <2>1. ASSUME NEW p \in Party, NEW req \in Command, Sending(p, req)
        PROVE  Sends(log'[t]) = Sends(log[t]) \/ srv[t].pc = "forward"
    BY <1>a, <2>1, PartiesAreDistinct DEF Sending
  <2>2. ASSUME NEW u \in Target, Taking(u)
        PROVE  Sends(log'[t]) = Sends(log[t])
    <3> DEFINE receipt == [kind |-> "receipt", req |-> Head(queue[u])]
               refusal == [kind |-> "refused", aid |-> AidOf(Head(queue[u]))]
    <3>1. Head(queue[u]) \in Command
      BY <1>a, <2>2, TakenType
    <3>2. /\ receipt \in Event /\ refusal \in Event
          /\ receipt.kind # "send" /\ refusal.kind # "send"
      BY <3>1, EventType, AidType
    <3>3. \/ log'[t] = log[t] \/ log'[t] = log[t] \o <<receipt>>
          \/ log'[t] = log[t] \o <<receipt, refusal>>
      BY <1>a, <2>2 DEF Taking
    <3> HIDE DEF receipt, refusal
    <3>4. /\ Sends(log[t] \o <<receipt>>) = Sends(log[t])
          /\ log[t] \o <<receipt>> \in Seq(Event)
          /\ log[t] \o <<receipt, refusal>> = (log[t] \o <<receipt>>) \o <<refusal>>
      BY <1>a, <3>2, ReadAppend, TwoAppends
    <3>5. Sends((log[t] \o <<receipt>>) \o <<refusal>>) = Sends(log[t] \o <<receipt>>)
      BY <3>2, <3>4, ReadAppend
    <3> QED BY <3>3, <3>4, <3>5
  <2>3. Quietly(t) => Sends(log'[t]) = Sends(log[t])
    <3>1. ASSUME NEW e \in Event, e.kind \notin {"send", "receipt"}, log'[t] = log[t] \o <<e>>
          PROVE  Sends(log'[t]) = Sends(log[t])
      BY <1>a, <3>1, ReadAppend
    <3> QED BY <1>a, <3>1 DEF Quietly
  <2> QED BY <1>a, <2>1, <2>2, <2>3 DEF Moves
<1>3. Obeys(t)'
  BY <1>a, <1>2 DEF PlaceStep, Obeys
<1> QED BY <1>1, <1>3

\* Opening a socket.
LEMMA ConnectSocket ==
  ASSUME TInv, NEW p \in Party, NEW req, Connect(p, req),
         req.op = "pause" \/ (p = Controller /\ phase # "dispatch")
  PROVE  \A q \in Party : SocketStep(q)
<1>1. /\ sock'[p].req = req
      /\ sock'[p].state \in {"FileNotFoundError", "ConnectionRefusedError", "waiting"}
      /\ \A q \in Party \ {p} : sock'[q] = sock[q]
  BY DEF Connect, Opens, TInv, TypeOK
<1> QED BY <1>1 DEF SocketStep

\* Delivering a result.
LEMMA ResultSocket ==
  ASSUME TInv, NEW req \in Command, NEW state, NEW answer, sock' = Result(req, state, answer),
         state = "reply" /\ req.op = "pause" => ToldIn(log'[req.to], AidOf(req), answer)
  PROVE  \A q \in Party : SocketStep(q)
<1>1. req.from \in Party
  BY DEF Command
<1>2. CASE Connected(req) /\ sock[req.from].state = "waiting"
  <2>1. /\ sock'[req.from].req = sock[req.from].req
        /\ sock'[req.from].state = state /\ sock'[req.from].answer = answer
        /\ \A q \in Party \ {req.from} : sock'[q] = sock[q]
    BY <1>1, <1>2 DEF Result, TInv, TypeOK, SockType
  <2>2. sock[req.from].req = req
    BY <1>2 DEF Connected
  <2> QED BY <1>2, <2>1, <2>2 DEF SocketStep
<1>3. CASE ~(Connected(req) /\ sock[req.from].state = "waiting")
  BY <1>3 DEF Result, SocketStep
<1> QED BY <1>2, <1>3

\* Ending a process: its callers get an error, or the reply to a control call.
LEMMA EndSocket ==
  ASSUME TInv, NEW t \in Target, NEW pc \in {"dead", "exited"}, NEW served, NEW state,
         EndProcess(t, pc, served, state), state = "reply" => served.op # "pause"
  PROVE  /\ \A q \in Party : SocketStep(q)
         /\ \A u \in Target : /\ srv'[u].paused = srv[u].paused
                              /\ srv'[u] = srv[u] \/ srv'[u].pc \in {"dead", "exited"}
<1>1. ASSUME NEW q \in Party
      PROVE  SocketStep(q)
  <2>1. CASE q = t
    BY <2>1 DEF EndProcess, SocketStep, Closed
  <2>2. CASE q # t /\ (sock[q].state # "waiting" \/ sock[q].req.to # t)
    BY <2>2 DEF EndProcess, SocketStep
  <2>3. CASE q # t /\ ~(sock[q].state # "waiting" \/ sock[q].req.to # t)
    <3> DEFINE st == IF sock[q].req = served THEN state ELSE "ConnectionResetError"
    <3>1. sock'[q] = [sock[q] EXCEPT !.state = st] /\ sock[q] \in SockType
      BY <2>3 DEF EndProcess, TInv, TypeOK
    <3>2. sock'[q].req = sock[q].req /\ sock'[q].state = st
      BY <3>1 DEF SockType
    <3> QED BY <2>3, <3>2 DEF SocketStep
  <2> QED BY <2>1, <2>2, <2>3
<1>2. /\ srv[t] \in SrvType /\ srv' = [srv EXCEPT ![t] = [srv[t] EXCEPT !.pc = pc, !.cur = served]]
  BY DEF EndProcess, TInv, TypeOK, SrvType
<1>3. \A u \in Target : /\ srv'[u].paused = srv[u].paused
                        /\ srv'[u] = srv[u] \/ srv'[u].pc \in {"dead", "exited"}
  BY <1>2 DEF TInv, TypeOK, SrvType
<1> QED BY <1>1, <1>3

\* A server that stays or ends.
LEMMA PlaceStays ==
  ASSUME ResponseInv, NEW t \in Target, srv'[t].paused = srv[t].paused,
         srv'[t] = srv[t] \/ srv'[t].pc \notin Busy
  PROVE  PlaceStep(t)
BY DEF ResponseInv, Obeys, PlaceStep, Busy

\* What a step must do to servers and sockets.
KeepsCalls ==
  PhaseStep /\ (\A p \in Party : SocketStep(p)) /\ (\A t \in Target : PlaceStep(t))

\* Where no socket changes.
LEMMA SocketsStay ==
  ASSUME UNCHANGED sock
  PROVE  \A p \in Party : SocketStep(p)
BY DEF SocketStep

\* Where no server changes.
LEMMA PlacesStay ==
  ASSUME ResponseInv, UNCHANGED srv
  PROVE  \A t \in Target : PlaceStep(t)
BY PlaceStays

\* Where a server ends.
LEMMA PlacesEnd ==
  ASSUME ResponseInv,
         \A u \in Target : /\ srv'[u].paused = srv[u].paused
                           /\ srv'[u] = srv[u] \/ srv'[u].pc \in {"dead", "exited"}
  PROVE  \A u \in Target : PlaceStep(u)
BY PlaceStays DEF Busy

\* A worker killed where it stands keeps its paused flag.
LEMMA KilledPlaces ==
  ASSUME TInv, \A u \in Target : srv'[u] = srv[u] \/ srv'[u] = [srv[u] EXCEPT !.pc = "dead"]
  PROVE  \A u \in Target : /\ srv'[u].paused = srv[u].paused
                           /\ srv'[u] = srv[u] \/ srv'[u].pc \in {"dead", "exited"}
<1>1. \A r \in SrvType : /\ [r EXCEPT !.pc = "dead"].paused = r.paused
                        /\ [r EXCEPT !.pc = "dead"].pc = "dead"
  BY DEF SrvType
<1>2. \A u \in Target : srv[u] \in SrvType
  BY DEF TInv, TypeOK
<1> TAKE u \in Target
<1>3. CASE srv'[u] = srv[u]
  BY <1>3
<1>4. CASE srv'[u] = [srv[u] EXCEPT !.pc = "dead"]
  BY <1>1, <1>2, <1>4
<1> QED BY <1>3, <1>4

\* The next phase is not the dispatches, unless the last worker is configured.
LEMMA NotDispatch ==
  ASSUME Advance, phase \in {"start", "before", "after", "snapshot", "cleanup"}
  PROVE  phase' # "dispatch"
BY DEF Advance, NextPhase

\* The harness.
LEMMA ControllerCalls ==
  ASSUME ResponseInv, NEW t \in Target, ControllerStep(t)
  PROVE  KeepsCalls
<1> USE DEF ctlVars, KeepsCalls
<1>a. TInv /\ Controller \in Party
  BY OwnIs DEF ResponseInv, DeliveryInv, PauseInv
<1>1. CASE Spawn(t)
  <2>1. PhaseStep
    BY <1>1, NotDispatch DEF Spawn, PhaseStep
  <2>2. /\ srv' = [srv EXCEPT ![t].pc = "idle"] /\ UNCHANGED sock
    BY <1>1 DEF Spawn
  <2>3. \A u \in Target : /\ srv'[u].paused = srv[u].paused
                          /\ srv'[u] = srv[u] \/ srv'[u].pc \notin Busy
    BY <1>a, <2>2 DEF TInv, TypeOK, SrvType, Busy
  <2> QED BY <2>1, <2>2, <2>3, SocketsStay, PlaceStays
<1>2. CASE Ask(t)
  <2> DEFINE req == [op |-> ControlOp(t), from |-> Controller, to |-> t,
                     n |-> 0, parent |-> NoAid]
  <2>1. Connect(Controller, req) /\ phase # "dispatch"
    BY <1>2 DEF Ask, ControlOp
  <2>2. PhaseStep
    BY <1>2, <2>1 DEF Ask, PhaseStep
  <2> HIDE DEF req
  <2> QED BY <1>2, <1>a, <2>1, <2>2, ConnectSocket, PlacesStay DEF Ask
<1>3. CASE Acknowledged(t)
  <2>1. sock' = [sock EXCEPT ![Controller] = Closed] /\ UNCHANGED srv
    BY <1>3 DEF Acknowledged
  <2>2. sock'[Controller].state = "none" /\ \A p \in Party : SocketStep(p)
    BY <1>a, <2>1 DEF SocketStep, Closed, TInv, TypeOK
  <2> QED BY <2>1, <2>2, PlacesStay DEF PhaseStep
<1>4. CASE Dispatch(t)
  <2> DEFINE req == [op |-> "pause", from |-> Controller, to |-> t,
                     n |-> Len(events), parent |-> NoAid]
  <2>1. Connect(Controller, req) /\ req.op = "pause" /\ phase = "dispatch" /\ UNCHANGED srv
    BY <1>4 DEF Dispatch
  <2> HIDE DEF req
  <2> QED BY <1>a, <2>1, ConnectSocket, PlacesStay DEF PhaseStep
<1>5. CASE Dispatched
  <2>1. sock' = [sock EXCEPT ![Controller] = Closed] /\ UNCHANGED srv
    BY <1>5 DEF Dispatched
  <2>2. sock'[Controller].state = "none" /\ \A p \in Party : SocketStep(p)
    BY <1>a, <2>1 DEF SocketStep, Closed, TInv, TypeOK
  <2> QED BY <2>1, <2>2, PlacesStay DEF PhaseStep
<1>6. CASE Sample(t)
  <2>1. PhaseStep
    BY <1>6, NotDispatch DEF Sample, PhaseStep
  <2> QED BY <1>6, <2>1, SocketsStay, PlacesStay DEF Sample
<1>7. CASE ForceKill(t)
  <2>1. PhaseStep
    BY <1>7, NotDispatch DEF ForceKill, PhaseStep
  <2> QED BY <1>7, <1>a, <2>1, EndSocket, PlacesEnd DEF ForceKill
<1>8. CASE Abort
  <2>1. \A u \in Target : srv'[u] = srv[u] \/ srv'[u] = [srv[u] EXCEPT !.pc = "dead"]
    BY <1>8 DEF Abort
  <2>2. \A u \in Target : /\ srv'[u].paused = srv[u].paused
                          /\ srv'[u] = srv[u] \/ srv'[u].pc \in {"dead", "exited"}
    BY <1>a, <2>1, KilledPlaces
  <2>3. PhaseStep /\ UNCHANGED sock
    BY <1>8 DEF Abort, PhaseStep
  <2> QED BY <2>2, <2>3, SocketsStay, PlacesEnd
<1> QED
  BY <1>1, <1>2, <1>3, <1>4, <1>5, <1>6, <1>7, <1>8 DEF ControllerStep, ControlFails

\* The accept loops.
LEMMA ServerCalls ==
  ASSUME ResponseInv, NEW t \in Target, ServerStep(t), Moves
  PROVE  KeepsCalls
<1> USE DEF ctlVars
<1>a. /\ TInv /\ t \in Party /\ srv[t] \in SrvType /\ Obeys(t) /\ Handling(t)
      /\ srv[t].pc \in Busy => srv[t].cur \in Command
  BY DEF ResponseInv, DeliveryInv, PauseInv, TInv, TypeOK, CallInv, Party
<1>b. PhaseStep
  <2>1. phase' = phase
    BY DEF ServerStep, Configure, Snapshot, Exit, ReceivePause, NativePaused, Forward, Forwarded,
           SendReply
  <2> QED BY <2>1 DEF PhaseStep
<1>c. ASSUME NEW op, Accepts(t, op)
      PROVE  Head(queue[t]) \in Command /\ Head(queue[t]).op = op
  BY <1>a, <1>c, AcceptsType DEF Accepts
<1>d. ASSUME NEW r \in SrvType, srv' = [srv EXCEPT ![t] = r],
             PlaceStep(t), UNCHANGED sock
      PROVE  KeepsCalls
  <2>1. \A u \in Target \ {t} : srv'[u] = srv[u]
    BY <1>d
  <2>2. \A u \in Target \ {t} : PlaceStep(u)
    BY <2>1, PlaceStays
  <2> QED BY <1>b, <1>d, <2>2, SocketsStay DEF KeepsCalls
<1>1. CASE Configure(t)
  <2>1. /\ Head(queue[t]) \in Command /\ Head(queue[t]).op # "pause"
        /\ sock' = Result(Head(queue[t]), "reply", NoReply) /\ UNCHANGED srv
    BY <1>1, <1>c DEF Configure
  <2> QED BY <1>a, <1>b, <2>1, ResultSocket, PlacesStay DEF KeepsCalls
<1>2. CASE Snapshot(t)
  <2>1. Head(queue[t]) \in Command /\ Head(queue[t]).op # "pause"
    BY <1>2, <1>c DEF Snapshot
  <2>2. CASE sock' = Result(Head(queue[t]), "reply", NoReply) /\ UNCHANGED srv
    BY <1>a, <1>b, <2>1, <2>2, ResultSocket, PlacesStay DEF KeepsCalls
  <2>3. CASE EndProcess(t, "dead", Head(queue[t]), "EOFError")
    BY <1>a, <1>b, <2>1, <2>3, EndSocket, PlacesEnd DEF KeepsCalls
  <2> QED BY <1>2, <2>2, <2>3 DEF Snapshot
<1>3. CASE Exit(t)
  <2>1. /\ Head(queue[t]) \in Command /\ Head(queue[t]).op # "pause"
        /\ EndProcess(t, "exited", Head(queue[t]), "reply")
    BY <1>3, <1>c DEF Exit
  <2> QED BY <1>a, <1>b, <2>1, EndSocket, PlacesEnd DEF KeepsCalls
<1>4. CASE ReceivePause(t)
  <2> DEFINE r == [srv[t] EXCEPT !.pc = IF Begins(t) THEN "waitStop" ELSE "reply",
                                 !.cur = Head(queue[t]), !.children = <<>>,
                                 !.duplicate = srv[t].paused]
  <2>1. srv' = [srv EXCEPT ![t] = r] /\ UNCHANGED sock
    BY <1>a, <1>4 DEF ReceivePause, TInv, TypeOK, SrvType
  <2>2. Head(queue[t]) \in Command /\ Head(queue[t]).op = "pause" /\ Head(queue[t]).to = t
    <3>1. Accepts(t, "pause")
      BY <1>4 DEF ReceivePause
    <3>2. 1 \in DOMAIN queue[t] /\ queue[t][1] = Head(queue[t])
      BY <3>1, <1>a DEF Accepts, TInv, TypeOK
    <3> QED BY <1>c, <3>1, <3>2 DEF ResponseInv, DeliveryInv, Backlog
  <2>3. /\ r \in SrvType /\ r.cur = Head(queue[t]) /\ r.paused = srv[t].paused
        /\ r.pc \in {"waitStop", "reply"}
        /\ r.pc = "waitStop" => t \notin intent.refuse
    <3>1. <<>> \in Seq(Outcomes) /\ srv[t].paused \in BOOLEAN
      BY <1>a DEF SrvType
    <3>2. (IF Begins(t) THEN "waitStop" ELSE "reply") \in {"waitStop", "reply"}
      OBVIOUS
    <3> QED BY <1>a, <2>2, <3>1, <3>2 DEF SrvType, Busy, Begins
  <2> HIDE DEF r
  <2>4. srv'[t] = r
    BY <1>a, <2>1 DEF TInv, TypeOK
  <2>5. PlaceStep(t)
    BY <1>a, <2>2, <2>3, <2>4 DEF PlaceStep
  <2> QED BY <1>d, <2>1, <2>3, <2>5
<1>5. CASE NativePaused(t)
  <2> DEFINE r == [srv[t] EXCEPT !.paused = TRUE,
                                 !.pc = IF intent.kid[t] # NoTarget THEN "forward" ELSE "reply"]
  <2>1. srv' = [srv EXCEPT ![t] = r] /\ UNCHANGED sock /\ srv[t].pc = "waitStop"
    BY <1>a, <1>5 DEF NativePaused, TInv, TypeOK, SrvType
  <2>2. r \in SrvType /\ r.cur = srv[t].cur /\ r.paused /\ r.pc \in {"forward", "reply"}
    <3>1. (IF intent.kid[t] # NoTarget THEN "forward" ELSE "reply") \in {"forward", "reply"}
      OBVIOUS
    <3> QED BY <1>a, <3>1 DEF SrvType, Busy
  <2> HIDE DEF r
  <2>3. srv'[t] = r
    BY <1>a, <2>1 DEF TInv, TypeOK
  <2>4. PlaceStep(t)
    BY <1>a, <2>1, <2>2, <2>3 DEF PlaceStep, Busy
  <2> QED BY <1>d, <2>1, <2>2, <2>4
<1>6. CASE Forward(t)
  <2>1. /\ srv' = [srv EXCEPT ![t].pc = "await"] /\ srv[t].pc = "forward"
        /\ Connect(t, ForwardedCommand(t)) /\ ForwardedCommand(t).op = "pause"
    BY <1>6 DEF Forward, ForwardedCommand
  <2>2. /\ srv'[t].pc = "await" /\ srv'[t].cur = srv[t].cur /\ srv'[t].paused = srv[t].paused
        /\ \A u \in Target \ {t} : srv'[u] = srv[u]
    BY <1>a, <2>1 DEF TInv, TypeOK, SrvType
  <2>3. PlaceStep(t)
    BY <1>a, <2>1, <2>2 DEF PlaceStep, Busy
  <2>4. \A u \in Target \ {t} : PlaceStep(u)
    BY <2>2, PlaceStays
  <2> QED BY <1>a, <1>b, <2>1, <2>3, <2>4, ConnectSocket DEF KeepsCalls
<1>7. CASE Forwarded(t)
  <2> DEFINE again == /\ TransportEvent(t).status # "RESPONSE"
                      /\ Len(srv[t].children) + 1 <
                           (IF t \in intent.retry THEN MaxAttempts ELSE 1)
             place == IF again THEN "forward" ELSE "reply"
  <2>1. /\ srv' = [srv EXCEPT ![t].children = Append(@, TransportEvent(t).status),
                              ![t].pc = place]
        /\ sock' = [sock EXCEPT ![t] = Closed] /\ srv[t].pc = "await"
    BY <1>7 DEF Forwarded
  <2>2. place \in {"forward", "reply"}
    OBVIOUS
  <2> HIDE DEF place
  <2>3. /\ srv'[t].pc = place /\ srv'[t].cur = srv[t].cur /\ srv'[t].paused = srv[t].paused
        /\ \A u \in Target \ {t} : srv'[u] = srv[u]
    BY <1>a, <2>1 DEF TInv, TypeOK, SrvType
  <2>4. PlaceStep(t)
    BY <1>a, <2>1, <2>2, <2>3 DEF PlaceStep, Busy
  <2>5. \A u \in Target \ {t} : PlaceStep(u)
    BY <2>3, PlaceStays
  <2>6. \A p \in Party : SocketStep(p)
    BY <1>a, <2>1 DEF SocketStep, Closed, TInv, TypeOK
  <2> QED BY <1>b, <2>4, <2>5, <2>6 DEF KeepsCalls
<1>8. CASE SendReply(t)
  <2> DEFINE drop == t \in intent.drop /\ ~srv[t].dropped
             e == [kind |-> "reply", reply |-> ReplyOf(t), dropped |-> drop]
             req == srv[t].cur
  <2>1. /\ srv[t].pc = "reply" /\ req \in Command /\ req.to = t /\ req.op = "pause"
        /\ log'[t] = log[t] \o <<e>> /\ e \in Event /\ log[t] \in Seq(Event)
    BY <1>8, <1>a, ReplyType, EventType DEF SendReply, Busy, Emit, Handling, TInv, TypeOK
  <2>2. ~drop => ToldIn(log'[t], AidOf(req), ReplyOf(t))
    <3>1. ReplyOf(t).aid = AidOf(req)
      BY DEF ReplyOf
    <3>2. e.kind = "reply" /\ e.reply = ReplyOf(t) /\ e.dropped = drop
      OBVIOUS
    <3> HIDE DEF e, drop
    <3>3. /\ Len(log[t]) + 1 \in DOMAIN (log[t] \o <<e>>)
          /\ (log[t] \o <<e>>)[Len(log[t]) + 1] = e
      BY <2>1, ReadAppend
    <3>4. Len(log[t]) + 1 \in At(log[t] \o <<e>>, "reply")
      BY <3>2, <3>3 DEF At
    <3>5. ASSUME ~drop
          PROVE  ToldIn(log[t] \o <<e>>, AidOf(req), ReplyOf(t))
      <4>1. ~e.dropped /\ e.reply.aid = AidOf(req)
        BY <3>1, <3>2, <3>5
      <4> QED BY <3>2, <3>3, <3>4, <4>1 DEF ToldIn
    <3> QED BY <2>1, <3>5
  <2>3. CASE /\ srv' = [srv EXCEPT ![t].pc = "idle", ![t].dropped = @ \/ drop]
             /\ sock' = IF drop THEN Result(req, "EOFError", NoReply)
                               ELSE Result(req, "reply", ReplyOf(t))
    <3>1. \A p \in Party : SocketStep(p)
      <4>1. CASE drop
        BY <1>a, <2>1, <2>3, <4>1, ResultSocket
      <4>2. CASE ~drop
        BY <1>a, <2>1, <2>2, <2>3, <4>2, ResultSocket
      <4> QED BY <4>1, <4>2
    <3>2. /\ srv'[t].paused = srv[t].paused /\ srv'[t].pc \notin Busy
          /\ \A u \in Target \ {t} : srv'[u] = srv[u]
      BY <1>a, <2>3 DEF TInv, TypeOK, SrvType, Busy
    <3> QED BY <1>b, <3>1, <3>2, PlaceStays DEF KeepsCalls
  <2>4. CASE EndProcess(t, "dead", req, "EOFError")
    BY <1>a, <1>b, <2>4, EndSocket, PlacesEnd DEF KeepsCalls
  <2> QED BY <1>8, <2>3, <2>4 DEF SendReply
<1> QED
  BY <1>1, <1>2, <1>3, <1>4, <1>5, <1>6, <1>7, <1>8 DEF ServerStep

\* Every step keeps what servers handle and sockets hold.
LEMMA NextCalls ==
  ASSUME ResponseInv, [Next]_vars, Moves
  PROVE  KeepsCalls
<1> USE DEF ctlVars
<1>a. TInv
  BY DEF ResponseInv, DeliveryInv, PauseInv
<1>1. CASE UNCHANGED <<phase, srv, sock>>
  BY <1>1, SocketsStay, PlacesStay DEF KeepsCalls, PhaseStep
<1>2. ASSUME NEW t \in Target, BusinessStep(t) \/ BusinessFails(t)
      PROVE  UNCHANGED <<phase, srv, sock>>
  BY <1>2 DEF BusinessStep, BusinessFails, BeginRow, WriteRow, Interrupt, Business
<1>3. CASE SpawnFails
  <2>1. \A u \in Target : srv'[u] = srv[u] \/ srv'[u] = [srv[u] EXCEPT !.pc = "dead"]
    BY <1>3 DEF SpawnFails, Abort
  <2>2. \A u \in Target : /\ srv'[u].paused = srv[u].paused
                          /\ srv'[u] = srv[u] \/ srv'[u].pc \in {"dead", "exited"}
    BY <1>a, <2>1, KilledPlaces
  <2>3. PhaseStep /\ UNCHANGED sock
    BY <1>3 DEF SpawnFails, Abort, PhaseStep
  <2> QED BY <2>2, <2>3, SocketsStay, PlacesEnd DEF KeepsCalls
<1>4. ASSUME NEW p \in Party, Expire(p)
      PROVE  KeepsCalls
  <2>1. /\ sock' = [sock EXCEPT ![p].state = "TimeoutError"] /\ sock[p].state = "waiting"
        /\ UNCHANGED <<phase, srv>>
    BY <1>4 DEF Expire
  <2>2. /\ sock'[p].req = sock[p].req /\ sock'[p].state = "TimeoutError"
        /\ \A q \in Party \ {p} : sock'[q] = sock[q]
    BY <1>a, <2>1 DEF TInv, TypeOK, SockType
  <2>3. \A q \in Party : SocketStep(q)
    BY <2>1, <2>2 DEF SocketStep
  <2> QED BY <2>1, <2>3, PlacesStay DEF KeepsCalls, PhaseStep
<1>5. ASSUME NEW t \in Target, PauseTimesOut(t)
      PROVE  KeepsCalls
  <2>1. PhaseStep
    BY <1>5 DEF PauseTimesOut, PhaseStep
  <2> QED BY <1>5, <1>a, <2>1, EndSocket, PlacesEnd DEF PauseTimesOut, KeepsCalls
<1>6. CASE Terminated \/ UNCHANGED vars
  BY <1>6, <1>1 DEF Terminated, vars
<1> QED
  BY <1>1, <1>2, <1>3, <1>4, <1>5, <1>6, ControllerCalls, ServerCalls DEF Next, Environment
-----------------------------------------------------------------------------
\* No call is outstanding and nothing was recorded at first.
LEMMA InitResponds == Init => ResponseInv
<1> SUFFICES ASSUME Init PROVE ResponseInv
  OBVIOUS
<1>1. \A p \in Party : Own(p) = <<>> /\ sock[p].state = "none"
  BY DEF Init, Own, Party, Closed
<1>2. \A t \in Target : Handling(t) /\ Obeys(t)
  BY DEF Init, Handling, Obeys, Busy, Sends, At
<1>3. \A p \in Party : Calling(p) /\ ReplyKept(p) /\ OutcomesTrue(p)
  BY <1>1 DEF Calling, ReplyKept, OutcomesTrue, At
<1> QED BY <1>2, <1>3, InitDelivers DEF ResponseInv

\* ResponseInv is inductive.
LEMMA NextResponds ==
  ASSUME ResponseInv, [Next]_vars
  PROVE  ResponseInv'
<1>1. DeliveryInv' /\ TInv' /\ Moves
  BY NextDelivers, NextMoves DEF ResponseInv, DeliveryInv, PauseInv
<1>2. KeepsCalls
  BY <1>1, NextCalls
<1>3. UNCHANGED intent
  BY DEF Next, vars
<1> QED
  BY <1>1, <1>2, <1>3, SocketKept, PlaceKept, OutcomesStay DEF ResponseInv, KeepsCalls

\* The invariant of calls and responses.
LEMMA ResponseInvariant == Spec => []ResponseInv
<1>1. ResponseInv /\ [Next]_vars => ResponseInv'
  BY NextResponds
<1> QED BY InitResponds, <1>1, PTL DEF Spec

\* A response that a sender recorded is the very reply its receiver logged for
\* that attempt and did not drop, whatever was retried, lost or late.
THEOREM EveryResponseIsReply == Spec => []ResponsesAreReplies
<1>1. ResponseInv => ResponsesAreReplies
  BY DEF ResponseInv, OutcomesTrue, Own, ToldIn, ResponsesAreReplies
<1> QED BY <1>1, ResponseInvariant, PTL

\* A child never receives a pause from a parent that still works or refused:
\* what it received was sent, and a worker that sent is paused.
THEOREM ParentsStopFirst == Spec => []ParentStopsFirst
<1>1. ASSUME ResponseInv PROVE ParentStopsFirst
  <2> SUFFICES ASSUME NEW t \in Target, NEW req \in Receipts(log[t]), req.from # Controller
               PROVE  /\ biz[req.from].pc \in {"paused", "failed"}
                      /\ req.from \notin intent.refuse
    BY DEF ParentStopsFirst
  <2>1. req \in Sent(req.from) /\ req \in Command
    BY <1>1, ReceiptsType
    DEF ResponseInv, DeliveryInv, Received, PauseInv, TInv, TypeOK
  <2>2. req.from \in Target /\ req \in Sends(log[req.from])
    BY <2>1 DEF Command, Party, Sent, Own
  <2>3. srv[req.from].paused /\ req.from \notin intent.refuse
    BY <1>1, <2>2 DEF ResponseInv, Obeys
  <2> QED BY <1>1, <2>2, <2>3 DEF ResponseInv, DeliveryInv, PauseInv, Quiet
<1> QED BY <1>1, ResponseInvariant, PTL

-----------------------------------------------------------------------------
(***************************************************************************)
(* Whoever is credited had stopped before the first sample, for every set  *)
(* of targets in any topology, every set of intents and every combination  *)
(* of faults: a pause that comes too late descends from a call whose       *)
(* outcome is not settled, and the verdict admits no such pause.           *)
(***************************************************************************)

\* The log ends with a send whose outcome is still to be recorded.
OpenSend(s) == s # <<>> /\ s[Len(s)].kind = "send"

\* Sends are pauses; each outcome follows its send.
Outlined(s) ==
  /\ \A i \in At(s, "send") :
       /\ s[i].req.op = "pause"
       /\ i # Len(s) => s[i + 1].kind = "transport" /\ s[i + 1].aid = AidOf(s[i].req)
  /\ \A j \in At(s, "transport") :
       /\ j - 1 \in At(s, "send") /\ s[j].aid = AidOf(s[j - 1].req)
       /\ s[j].status = "RESPONSE" => s[j].error = "none"

\* The outstanding pause of a party is the last thing it logged, and a send is
\* the last thing only while its call is outstanding, or for ever in the log of
\* a worker that died in it.
Called(p) ==
  /\ sock[p].state # "none" /\ sock[p].req.op = "pause" =>
       OpenSend(Own(p)) /\ Own(p)[Len(Own(p))].req = sock[p].req
  /\ OpenSend(Own(p)) => \/ p \in Target /\ srv[p].pc \in {"dead", "exited"}
                         \/ sock[p].state # "none" /\ sock[p].req.op = "pause"

\* A worker calls while it awaits the outcome, for the pause that it handles.
Calls(t) ==
  /\ sock[t].state # "none" => srv[t].pc \in {"await", "dead"} /\ sock[t].req.op = "pause"
  /\ srv[t].pc = "await" => sock[t].state # "none" /\ sock[t].req.parent = AidOf(srv[t].cur)

\* What a worker handles it has received.
Handles(t) == srv[t].pc \in Busy => srv[t].cur \in Receipts(log[t])

\* Pauses of the harness are outstanding only while it dispatches.
Dispatching ==
  sock[Controller].state # "none" /\ sock[Controller].req.op = "pause"
    => phase \in {"dispatch", "aborted"}

CallsInv ==
  /\ ResponseInv
  /\ \A p \in Party : Outlined(Own(p)) /\ Called(p)
  /\ \A t \in Target : Calls(t) /\ Handles(t)
  /\ Dispatching
-----------------------------------------------------------------------------
(* The kinds of steps of one party.                                        *)

Stays(p) ==
  /\ Own(p)' = Own(p) /\ sock'[p] = sock[p]
  /\ p \in Target => \/ srv'[p].pc = srv[p].pc /\ srv'[p].cur = srv[p].cur
                     \/ srv'[p].pc = "dead" /\ phase' = "aborted"

\* A worker that has no call logs something of its own.
Notes(p) ==
  /\ p \in Target /\ srv[p].pc \notin {"await", "dead", "exited"} /\ srv'[p].pc # "await"
  /\ sock'[p].state = "none"
  /\ \/ \E e \in Event : /\ e.kind \notin {"send", "transport"}
                         /\ Own(p)' = Own(p) \o <<e>>
     \/ \E e, f \in Event : /\ {e.kind, f.kind} \cap {"send", "transport"} = {}
                            /\ Own(p)' = Own(p) \o <<e, f>>

Opening(p, req) ==
  /\ Sending(p, req) /\ sock[p].state = "none"
  /\ p = Controller => phase = "dispatch" /\ phase' = "dispatch"
  /\ p \in Target => /\ srv'[p].pc = "await" /\ srv'[p].cur = srv[p].cur
                     /\ req.parent = AidOf(srv[p].cur)

Recording(p) ==
  /\ Returned(p) /\ sock[p].req.op = "pause"
  /\ Own(p)' = Own(p) \o <<TransportEvent(p)>> /\ sock'[p].state = "none"
  /\ p \in Target => srv'[p].pc \in {"forward", "reply"} /\ srv'[p].cur = srv[p].cur

\* The call returns or expires.
Hearing(p) ==
  /\ Own(p)' = Own(p)
  /\ sock[p].state = "waiting" /\ sock'[p].state \notin {"none", "waiting"}
  /\ sock'[p].req = sock[p].req
  /\ p \in Target => srv'[p].pc = srv[p].pc /\ srv'[p].cur = srv[p].cur

\* The caller dies, or the call was none of those that are logged.
Ending(p) ==
  /\ Own(p)' = Own(p) /\ sock'[p].state = "none"
  /\ IF p = Controller THEN sock[p].req.op # "pause" ELSE srv'[p].pc \in {"dead", "exited"}

Asking(p) ==
  /\ p = Controller /\ Own(p)' = Own(p)
  /\ sock[p].state = "none" /\ sock'[p].state # "none" /\ sock'[p].req.op # "pause"

PartyStep(p) ==
  \/ Stays(p) \/ Notes(p) \/ Recording(p) \/ Hearing(p) \/ Ending(p) \/ Asking(p)
  \/ \E req \in Command : Opening(p, req)

\* The pauses that a target has accepted or may still accept.
Pending(t) ==
  {queue[t][k] : k \in {l \in DOMAIN queue[t] : queue[t][l].op = "pause"}}
  \cup (IF srv[t].pc \in Busy THEN {srv[t].cur} ELSE {})

\* A pause gets pending by being sent, and is none any more when it is answered.
PendingStep(t) ==
  /\ \A req \in Pending(t)' :
       req \in Pending(t) \/ \E p \in Party : Opening(p, req) /\ sock'[p].state = "waiting"
  /\ \A p \in Party :
       /\ sock[p].state = "waiting" /\ sock[p].req.op = "pause" /\ sock[p].req.to = t
       /\ sock'[p].state \notin {"none", "waiting", "TimeoutError"}
       => sock[p].req \notin Pending(t)'

\* A server handles what it handled, or what it has just received.
HandlingStep(t) ==
  srv'[t].pc \in Busy => \/ srv[t].pc \in Busy /\ srv'[t].cur = srv[t].cur
                         \/ srv'[t].cur \in Receipts(log'[t])

\* The dispatches end when the last outcome is recorded, or by an exception.
Leaving ==
  /\ phase = "dispatch" /\ phase' \notin {"dispatch", "aborted"} => sock'[Controller].state = "none"
  /\ phase = "aborted" => phase' = "aborted"

Tracks ==
  /\ \A p \in Party : PartyStep(p)
  /\ \A t \in Target : HandlingStep(t)
  /\ phase' # "aborted" => \A t \in Target : PendingStep(t)
  /\ Leaving
-----------------------------------------------------------------------------
(* How results and ends reach the callers.                                 *)

\* The outstanding call of q gets a result.
Told(q, states) ==
  /\ sock[q].state = "waiting" /\ sock'[q].state \in states
  /\ sock'[q].req = sock[q].req

\* A result reaches at most the client of the request.
LEMMA ResultTells ==
  ASSUME TInv, NEW req \in Command, NEW state, NEW answer, sock' = Result(req, state, answer),
         NEW q \in Party
  PROVE  sock'[q] = sock[q] \/ (sock[q].req = req /\ Told(q, {state}))
<1>1. req.from \in Party
  BY DEF Command
<1>2. CASE Connected(req) /\ sock[req.from].state = "waiting"
  <2>1. /\ sock'[req.from].req = sock[req.from].req
        /\ sock'[req.from].state = state
        /\ \A r \in Party \ {req.from} : sock'[r] = sock[r]
    BY <1>1, <1>2 DEF Result, TInv, TypeOK, SockType
  <2>2. sock[req.from].req = req
    BY <1>2 DEF Connected
  <2> QED BY <1>2, <2>1, <2>2 DEF Told
<1>3. CASE ~(Connected(req) /\ sock[req.from].state = "waiting")
  BY <1>3 DEF Result
<1> QED BY <1>2, <1>3

\* The end of a process reaches those that wait for it, and empties its backlog.
LEMMA EndTells ==
  ASSUME TInv, NEW t \in Target, NEW pc, NEW served, NEW state,
         EndProcess(t, pc, served, state)
  PROVE  /\ sock'[t].state = "none" /\ srv'[t].pc = pc /\ queue'[t] = <<>>
         /\ \A u \in Target \ {t} : srv'[u] = srv[u] /\ queue'[u] = queue[u]
         /\ \A q \in Party \ {t} :
              \/ sock'[q] = sock[q]
              \/ sock[q].req.to = t /\ Told(q, {state, "ConnectionResetError"})
<1>0. t \in Party
  BY DEF Party
<1>1. /\ srv[t] \in SrvType
      /\ srv' = [srv EXCEPT ![t] = [srv[t] EXCEPT !.pc = pc, !.cur = served]]
  BY DEF EndProcess, TInv, TypeOK, SrvType
<1>2. srv'[t].pc = pc /\ \A u \in Target \ {t} : srv'[u] = srv[u]
  BY <1>1 DEF TInv, TypeOK, SrvType
<1>3. queue'[t] = <<>> /\ \A u \in Target \ {t} : queue'[u] = queue[u]
  BY DEF EndProcess, TInv, TypeOK
<1>4. sock'[t].state = "none"
  BY <1>0 DEF EndProcess, Closed
<1>5. ASSUME NEW q \in Party \ {t}
      PROVE  \/ sock'[q] = sock[q]
             \/ sock[q].req.to = t /\ Told(q, {state, "ConnectionResetError"})
  <2>1. CASE sock[q].state # "waiting" \/ sock[q].req.to # t
    BY <2>1 DEF EndProcess
  <2>2. CASE ~(sock[q].state # "waiting" \/ sock[q].req.to # t)
    <3> DEFINE st == IF sock[q].req = served THEN state ELSE "ConnectionResetError"
    <3>1. sock'[q] = [sock[q] EXCEPT !.state = st] /\ sock[q] \in SockType
      BY <2>2 DEF EndProcess, TInv, TypeOK
    <3>2. sock'[q].req = sock[q].req /\ sock'[q].state = st
      BY <3>1 DEF SockType
    <3> QED BY <2>2, <3>2 DEF Told
  <2> QED BY <2>1, <2>2
<1> QED BY <1>2, <1>3, <1>4, <1>5

\* Opening a socket.
LEMMA ConnectTells ==
  ASSUME TInv, NEW p \in Party, NEW req \in Command, Connect(p, req)
  PROVE  /\ sock'[p].req = req /\ sock'[p].state # "none"
         /\ \A q \in Party \ {p} : sock'[q] = sock[q]
         /\ \A t \in Target :
              \/ queue'[t] = queue[t]
              \/ /\ t = req.to /\ queue'[t] = Append(queue[t], req)
                 /\ sock'[p].state = "waiting"
<1>1. /\ sock'[p].req = req /\ sock'[p].state # "none"
      /\ \A q \in Party \ {p} : sock'[q] = sock[q]
  BY DEF Connect, Opens, TInv, TypeOK
<1>2. CASE queue' = queue
  BY <1>1, <1>2
<1>3. CASE queue' # queue
  <2>1. sock'[p].state = "waiting" /\ queue' = [queue EXCEPT ![req.to] = Append(@, req)]
    BY <1>3 DEF Connect, Opens, TInv, TypeOK
  <2> QED BY <1>1, <2>1 DEF TInv, TypeOK
<1> QED BY <1>2, <1>3
-----------------------------------------------------------------------------
(* What is pending.                                                        *)

\* A backlog that is as it was or shorter by the oldest, or empty.
LEMMA Shorter ==
  ASSUME NEW q \in Seq(Command), NEW r,
         r \in {q, <<>>} \/ (q # <<>> /\ r = Tail(q))
  PROVE  \A k \in DOMAIN r : \E l \in DOMAIN q : r[k] = q[l]
<1>1. CASE r = q
  BY <1>1
<1>2. CASE r = <<>>
  BY <1>2
<1>3. CASE q # <<>> /\ r = Tail(q)
  <2>1. \A k \in DOMAIN r : k + 1 \in DOMAIN q /\ r[k] = q[k + 1]
    BY <1>3
  <2> QED BY <2>1
<1> QED BY <1>1, <1>2, <1>3

\* What is pending, said of the members.
LEMMA PendingIs ==
  ASSUME NEW t \in Target, NEW req
  PROVE  req \in Pending(t) <=>
           \/ \E k \in DOMAIN queue[t] : queue[t][k] = req /\ req.op = "pause"
           \/ srv[t].pc \in Busy /\ srv[t].cur = req
BY DEF Pending

\* The same after the step.
LEMMA PendingIsNext ==
  ASSUME NEW t \in Target, NEW req
  PROVE  req \in Pending(t)' <=>
           \/ \E k \in DOMAIN queue'[t] : queue'[t][k] = req /\ req.op = "pause"
           \/ srv'[t].pc \in Busy /\ srv'[t].cur = req
BY DEF Pending

\* Where the backlog gets nothing and the server takes nothing.
LEMMA PendingShrinks ==
  ASSUME TInv, NEW t \in Target,
         queue'[t] \in {queue[t], <<>>} \/ (queue[t] # <<>> /\ queue'[t] = Tail(queue[t])),
         srv'[t].pc \in Busy => srv[t].pc \in Busy /\ srv'[t].cur = srv[t].cur
  PROVE  Pending(t)' \subseteq Pending(t)
<1>1. queue[t] \in Seq(Command)
  BY DEF TInv, TypeOK
<1>2. \A k \in DOMAIN queue'[t] : \E l \in DOMAIN queue[t] : queue'[t][k] = queue[t][l]
  <2> DEFINE q == queue[t]
             r == queue'[t]
  <2>1. q \in Seq(Command) /\ (r \in {q, <<>>} \/ (q # <<>> /\ r = Tail(q)))
    BY <1>1
  <2> HIDE DEF q, r
  <2>2. \A k \in DOMAIN r : \E l \in DOMAIN q : r[k] = q[l]
    BY <2>1, Shorter
  <2> QED BY <2>2 DEF q, r
<1> QED BY <1>2, PendingIs, PendingIsNext

\* A step that makes nothing pending, and answers no pause that is pending.
LEMMA PendingStays ==
  ASSUME NEW t \in Target, Pending(t)' \subseteq Pending(t),
         \A p \in Party :
           \/ sock'[p] = sock[p]
           \/ sock[p].state # "waiting" \/ sock[p].req.op # "pause" \/ sock[p].req.to # t
           \/ sock'[p].state \in {"none", "waiting", "TimeoutError"}
           \/ sock[p].req \notin Pending(t)'
  PROVE  PendingStep(t)
BY DEF PendingStep
-----------------------------------------------------------------------------
(* The kind of each step.                                                  *)

\* Where nobody logs anything.
LEMMA NobodyLogs ==
  ASSUME UNCHANGED <<events, log>>
  PROVE  \A q \in Party : Own(q)' = Own(q)
BY DEF Own

\* Where one worker logs.
LEMMA OneLogs ==
  ASSUME TInv, UNCHANGED events, NEW t \in Target, NEW es, Emit(t, es)
  PROVE  Own(t)' = Own(t) \o es /\ \A q \in Party \ {t} : Own(q)' = Own(q)
<1>1. log'[t] = log[t] \o es /\ \A u \in Target \ {t} : log'[u] = log[u]
  BY DEF Emit, TInv, TypeOK
<1> QED BY <1>1, OwnIs DEF Own, Party

\* One party takes a step, of the others at most the calls return.
LEMMA OthersHear ==
  ASSUME NEW p, PartyStep(p), NEW states, {"none", "waiting"} \cap states = {},
         \A q \in Party \ {p} : /\ Own(q)' = Own(q)
                                /\ q \in Target => srv'[q] = srv[q]
                                /\ sock'[q] = sock[q] \/ Told(q, states)
  PROVE  \A q \in Party : PartyStep(q)
<1> SUFFICES ASSUME NEW q \in Party \ {p} PROVE PartyStep(q)
  OBVIOUS
<1>1. CASE sock'[q] = sock[q]
  <2>1. Stays(q)
    BY <1>1 DEF Stays
  <2> QED BY <2>1 DEF PartyStep
<1>2. CASE Told(q, states)
  <2>1. Hearing(q)
    BY <1>2 DEF Told, Hearing
  <2> QED BY <2>1 DEF PartyStep
<1> QED BY <1>1, <1>2

\* A worker process ends.
LEMMA EndTracks ==
  ASSUME TInv, NEW t \in Target, NEW pc \in {"dead", "exited"}, NEW served, NEW state,
         state \notin {"none", "waiting"}, EndProcess(t, pc, served, state),
         Own(t)' = Own(t) \/ Notes(t), \A q \in Party \ {t} : Own(q)' = Own(q), Leaving
  PROVE  Tracks
<1>1. /\ sock'[t].state = "none" /\ srv'[t].pc = pc /\ queue'[t] = <<>>
      /\ \A u \in Target \ {t} : srv'[u] = srv[u] /\ queue'[u] = queue[u]
      /\ \A q \in Party \ {t} :
           \/ sock'[q] = sock[q]
           \/ sock[q].req.to = t /\ Told(q, {state, "ConnectionResetError"})
  BY EndTells
<1>2. PartyStep(t)
  BY <1>1, PartiesAreDistinct DEF PartyStep, Ending
<1>3. {"none", "waiting"} \cap {state, "ConnectionResetError"} = {}
  OBVIOUS
<1>4. \A q \in Party : PartyStep(q)
  <2> DEFINE states == {state, "ConnectionResetError"}
  <2>1. \A q \in Party \ {t} : /\ Own(q)' = Own(q)
                               /\ q \in Target => srv'[q] = srv[q]
                               /\ sock'[q] = sock[q] \/ Told(q, states)
    BY <1>1
  <2>2. {"none", "waiting"} \cap states = {}
    BY <1>3
  <2> HIDE DEF states
  <2> QED BY <1>2, <2>1, <2>2, OthersHear
<1>5. \A u \in Target : HandlingStep(u)
  BY <1>1 DEF HandlingStep, Busy
<1>6. PendingStep(t)
  <2>1. Pending(t)' = {}
    BY <1>1, PendingIsNext DEF Busy
  <2> QED BY <2>1 DEF PendingStep
<1>7. ASSUME NEW u \in Target \ {t}
      PROVE  PendingStep(u)
  <2>1. Pending(u)' \subseteq Pending(u)
    BY <1>1, PendingShrinks
  <2>2. ASSUME NEW q \in Party
        PROVE  \/ sock'[q] = sock[q] \/ sock[q].req.to # u
               \/ sock'[q].state \in {"none", "waiting", "TimeoutError"}
    BY <1>1
  <2> QED BY <2>1, <2>2, PendingStays
<1> QED BY <1>4, <1>5, <1>6, <1>7 DEF Tracks

\* A step that leaves servers and backlogs as they are.
LEMMA PendingFrame ==
  ASSUME TInv, UNCHANGED <<srv, queue>>,
         \A p \in Party : \/ sock'[p] = sock[p] \/ sock[p].state # "waiting"
                          \/ sock[p].req.op # "pause"
                          \/ sock'[p].state \in {"none", "waiting", "TimeoutError"}
  PROVE  \A t \in Target : HandlingStep(t) /\ PendingStep(t)
<1>1. \A t \in Target : Pending(t)' \subseteq Pending(t)
  BY PendingShrinks
<1> QED BY <1>1, PendingStays DEF HandlingStep

\* A step that touches no log, no server, no socket and no backlog.
LEMMA FrameTracks ==
  ASSUME TInv, UNCHANGED <<events, log, srv, queue, sock>>, Leaving
  PROVE  Tracks
<1>1. \A p \in Party : PartyStep(p)
  BY NobodyLogs DEF PartyStep, Stays
<1>2. \A t \in Target : HandlingStep(t) /\ PendingStep(t)
  BY PendingFrame
<1> QED BY <1>1, <1>2 DEF Tracks

\* An exception in the harness.
LEMMA AbortTracks ==
  ASSUME TInv, Abort
  PROVE  Tracks
<1>1. /\ phase' = "aborted" /\ UNCHANGED <<events, log, queue, sock>>
      /\ \A t \in Target : srv'[t] = srv[t] \/ srv'[t] = [srv[t] EXCEPT !.pc = "dead"]
  BY DEF Abort
<1>2. \A t \in Target : srv[t] \in SrvType
  BY DEF TInv, TypeOK
<1>3. \A t \in Target : \/ srv'[t].pc = srv[t].pc /\ srv'[t].cur = srv[t].cur
                        \/ srv'[t].pc = "dead"
  BY <1>1, <1>2 DEF SrvType
<1>4. \A p \in Party : PartyStep(p)
  BY <1>1, <1>3, NobodyLogs DEF PartyStep, Stays
<1>5. \A t \in Target : HandlingStep(t)
  BY <1>3 DEF HandlingStep, Busy
<1> QED BY <1>1, <1>4, <1>5 DEF Tracks, Leaving

\* The backlogs when a pause is sent.
LEMMA OpenedPending ==
  ASSUME TInv, NEW u \in Target, NEW p \in Party, NEW req \in Command, Opening(p, req),
         \A q \in Party \ {p} : sock'[q] = sock[q],
         srv'[u].pc \in Busy => srv[u].pc \in Busy /\ srv'[u].cur = srv[u].cur,
         \/ queue'[u] = queue[u]
         \/ queue'[u] = Append(queue[u], req) /\ sock'[p].state = "waiting"
  PROVE  PendingStep(u)
<1>1. queue[u] \in Seq(Command)
  BY DEF TInv, TypeOK
<1>2. \A k \in DOMAIN queue'[u] :
        \/ k \in DOMAIN queue[u] /\ queue'[u][k] = queue[u][k]
        \/ queue'[u][k] = req /\ sock'[p].state = "waiting"
  <2>1. CASE queue'[u] = queue[u]
    BY <2>1
  <2>2. CASE queue'[u] = Append(queue[u], req) /\ sock'[p].state = "waiting"
    BY <1>1, <2>2
  <2> QED BY <2>1, <2>2
<1>3. \A c \in Pending(u)' : c \in Pending(u) \/ (c = req /\ sock'[p].state = "waiting")
  BY <1>2, PendingIs, PendingIsNext
<1>4. \A q \in Party : sock'[q] = sock[q] \/ sock[q].state # "waiting"
  BY DEF Opening
<1> QED BY <1>3, <1>4 DEF PendingStep

\* The harness.
LEMMA ControllerTracks ==
  ASSUME CallsInv, NEW t \in Target, ControllerStep(t)
  PROVE  Tracks
<1> USE DEF ctlVars
<1>a. /\ PauseInv /\ TInv /\ Controller \in Party /\ Calls(t) /\ Dispatching
      /\ t \in Party /\ t # Controller /\ Controller \notin Target
  BY OwnIs, PartiesAreDistinct DEF CallsInv, ResponseInv, DeliveryInv, PauseInv, Party
<1>1. CASE Spawn(t)
  <2>1. srv[t].pc = "down" /\ phase = "start"
    BY <1>1, <1>a, OrderAssumption DEF Spawn, PauseInv, Started
  <2>2. /\ srv' = [srv EXCEPT ![t].pc = "idle"] /\ log' = [log EXCEPT ![t] = <<[kind |-> "ready"]>>]
        /\ UNCHANGED <<events, queue, sock>>
    BY <1>1 DEF Spawn
  <2>3. srv'[t].pc = "idle" /\ \A u \in Target \ {t} : srv'[u] = srv[u] /\ log'[u] = log[u]
    BY <1>a, <2>2 DEF TInv, TypeOK, SrvType
  <2>4. Own(t)' = Own(t) \o <<[kind |-> "ready"]>>
    <3>1. log[t] = <<>> /\ log'[t] = <<[kind |-> "ready"]>>
      BY <1>a, <2>1, <2>2 DEF PauseInv, Quiet, TInv, TypeOK
    <3>2. <<>> \o <<[kind |-> "ready"]>> = <<[kind |-> "ready"]>>
      OBVIOUS
    <3> QED BY <1>a, <3>1, <3>2, OwnIs
  <2>5. Notes(t)
    <3>1. sock'[t].state = "none"
      BY <1>a, <2>1, <2>2 DEF Calls
    <3>2. [kind |-> "ready"] \in Event /\ [kind |-> "ready"].kind \notin {"send", "transport"}
      BY EventType
    <3> QED BY <2>1, <2>3, <2>4, <3>1, <3>2 DEF Notes
  <2>6. \A q \in Party : PartyStep(q)
    <3>1. \A q \in Party \ {t} : Own(q)' = Own(q)
      BY <2>2, <2>3 DEF Own, Party
    <3> QED BY <2>2, <2>3, <2>5, <3>1 DEF PartyStep, Stays
  <2>7. \A u \in Target : HandlingStep(u)
    BY <2>3 DEF HandlingStep, Busy
  <2>8. \A u \in Target : PendingStep(u)
    <3>1. \A u \in Target : Pending(u)' \subseteq Pending(u)
      BY <1>a, <2>2, <2>3, PendingShrinks DEF Busy
    <3> QED BY <2>2, <3>1, PendingStays
  <2> QED BY <2>1, <2>6, <2>7, <2>8 DEF Tracks, Leaving
<1>2. CASE Ask(t)
  <2> DEFINE req == [op |-> ControlOp(t), from |-> Controller, to |-> t,
                     n |-> 0, parent |-> NoAid]
  <2>1. /\ Connect(Controller, req) /\ req.op # "pause" /\ req \in Command /\ phase # "dispatch"
        /\ sock[Controller].state = "none" /\ UNCHANGED <<phase, events, log, srv>>
    BY <1>2 DEF Ask, ControlOp, Command, Party, Closed
  <2> HIDE DEF req
  <2>2. /\ sock'[Controller].req = req /\ sock'[Controller].state # "none"
        /\ \A q \in Party \ {Controller} : sock'[q] = sock[q]
        /\ \A u \in Target : \/ queue'[u] = queue[u]
                             \/ queue'[u] = Append(queue[u], req)
    BY <1>a, <2>1, ConnectTells
  <2>3. \A q \in Party : PartyStep(q)
    BY <2>1, <2>2, NobodyLogs DEF PartyStep, Stays, Asking
  <2>4. ASSUME NEW u \in Target PROVE PendingStep(u)
    <3>1. queue[u] \in Seq(Command)
      BY <1>a DEF TInv, TypeOK
    <3>2. \A k \in DOMAIN queue'[u] : queue'[u][k].op = "pause" =>
            k \in DOMAIN queue[u] /\ queue'[u][k] = queue[u][k]
      <4>1. CASE queue'[u] = queue[u]
        BY <4>1
      <4>2. CASE queue'[u] = Append(queue[u], req)
        BY <2>1, <3>1, <4>2
      <4> QED BY <2>2, <4>1, <4>2
    <3>3. Pending(u)' \subseteq Pending(u)
      BY <2>1, <3>2, PendingIs, PendingIsNext
    <3>4. \A p \in Party : sock'[p] = sock[p] \/ sock[p].state # "waiting"
      BY <2>1, <2>2
    <3> QED BY <3>3, <3>4, PendingStays
  <2>5. \A u \in Target : HandlingStep(u)
    BY <2>1 DEF HandlingStep
  <2> QED BY <2>1, <2>3, <2>4, <2>5 DEF Tracks, Leaving
<1>3. CASE Acknowledged(t)
  <2>1. /\ phase \in {"configure", "snapshot", "cleanup"} /\ sock[Controller].state = "reply"
        /\ UNCHANGED <<events, log, srv, queue>> /\ sock' = [sock EXCEPT ![Controller] = Closed]
    BY <1>3 DEF Acknowledged, ControlOp
  <2>2. sock[Controller].req.op # "pause"
    BY <1>a, <2>1 DEF Dispatching
  <2>3. /\ sock'[Controller].state = "none"
        /\ \A q \in Party \ {Controller} : sock'[q] = sock[q]
    BY <1>a, <2>1 DEF Closed, TInv, TypeOK
  <2>4. \A q \in Party : PartyStep(q)
    BY <2>1, <2>2, <2>3, NobodyLogs DEF PartyStep, Stays, Ending
  <2>5. \A u \in Target : HandlingStep(u) /\ PendingStep(u)
    BY <1>a, <2>1, <2>3, PendingFrame
  <2> QED BY <2>1, <2>4, <2>5 DEF Tracks, Leaving
<1>4. CASE Dispatch(t)
  <2> DEFINE req == [op |-> "pause", from |-> Controller, to |-> t,
                     n |-> Len(events), parent |-> NoAid]
             e == [kind |-> "send", req |-> req]
  <2>1. /\ req \in Command /\ req.op = "pause" /\ req.from = Controller /\ req.n = Len(events)
        /\ events' = events \o <<e>>
        /\ phase = "dispatch" /\ phase' = "dispatch" /\ UNCHANGED <<log, srv>>
        /\ Connect(Controller, req) /\ sock[Controller].state = "none"
    BY <1>4, <1>a DEF Dispatch, Command, Party, Closed, TInv, TypeOK
  <2>2. Opening(Controller, req)
    <3>1. \A q \in Party \ {Controller} : Own(q)' = Own(q)
      BY <2>1 DEF Own
    <3>2. Own(Controller) = events /\ Own(Controller)' = events'
      BY <1>a, OwnIs
    <3>3. Sending(Controller, req)
      <4> HIDE DEF req
      <4> QED BY <2>1, <3>1, <3>2 DEF Sending
    <3> HIDE DEF req
    <3> QED BY <1>a, <2>1, <3>3 DEF Opening
  <2> HIDE DEF req
  <2>3. /\ sock'[Controller].req = req
        /\ \A q \in Party \ {Controller} : sock'[q] = sock[q]
        /\ \A u \in Target : \/ queue'[u] = queue[u]
                             \/ queue'[u] = Append(queue[u], req) /\ sock'[Controller].state = "waiting"
    BY <1>a, <2>1, ConnectTells
  <2>4. \A q \in Party : PartyStep(q)
    <3>1. PartyStep(Controller)
      BY <2>1, <2>2 DEF PartyStep
    <3>2. \A q \in Party \ {Controller} : Own(q)' = Own(q)
      BY <2>1 DEF Own
    <3> QED BY <2>1, <2>3, <3>1, <3>2 DEF PartyStep, Stays
  <2>5. ASSUME NEW u \in Target PROVE PendingStep(u)
    BY <1>a, <2>1, <2>2, <2>3, <2>5, OpenedPending
  <2>6. \A u \in Target : HandlingStep(u)
    BY <2>1 DEF HandlingStep
  <2> QED BY <2>1, <2>4, <2>5, <2>6 DEF Tracks, Leaving
<1>5. CASE Dispatched
  <2>1. /\ phase = "dispatch" /\ Returned(Controller)
        /\ UNCHANGED <<log, srv, queue>> /\ sock' = [sock EXCEPT ![Controller] = Closed]
        /\ events' = Append(events, TransportEvent(Controller))
    BY <1>5 DEF Dispatched
  <2>2. /\ sock'[Controller].state = "none"
        /\ \A q \in Party \ {Controller} : sock'[q] = sock[q]
    BY <1>a, <2>1 DEF Closed, TInv, TypeOK
  <2>3. events' = events \o <<TransportEvent(Controller)>>
    <3>1. TransportEvent(Controller) \in Event
      BY <1>a, <2>1, TransportEventType
    <3> QED BY <1>a, <2>1, <3>1 DEF TInv, TypeOK
  <2>4. Recording(Controller)
    <3>1. sock[Controller].req.op = "pause"
      BY <1>a, <2>1 DEF CallsInv, ResponseInv, Calling, Returned
    <3>2. Own(Controller)' = Own(Controller) \o <<TransportEvent(Controller)>>
      BY <1>a, <2>3, OwnIs
    <3> QED BY <1>a, <2>1, <2>2, <3>1, <3>2 DEF Recording
  <2>5. \A q \in Party : PartyStep(q)
    <3>1. \A q \in Party \ {Controller} : Own(q)' = Own(q)
      BY <2>1 DEF Own
    <3> QED BY <2>1, <2>2, <2>4, <3>1 DEF PartyStep, Stays
  <2>6. \A u \in Target : HandlingStep(u) /\ PendingStep(u)
    BY <1>a, <2>1, <2>2, PendingFrame
  <2> QED BY <2>1, <2>2, <2>5, <2>6 DEF Tracks, Leaving
<1>6. CASE Sample(t)
  BY <1>6, <1>a, FrameTracks DEF Sample, Leaving
<1>7. CASE ForceKill(t)
  <2>1. EndProcess(t, "dead", srv[t].cur, "EOFError") /\ UNCHANGED <<events, log>> /\ Leaving
    BY <1>7 DEF ForceKill, Leaving
  <2> QED BY <1>a, <2>1, NobodyLogs, EndTracks
<1>8. CASE Abort
  BY <1>8, <1>a, AbortTracks
<1> QED
  BY <1>1, <1>2, <1>3, <1>4, <1>5, <1>6, <1>7, <1>8 DEF ControllerStep, ControlFails

\* A worker that is not in a call has a closed socket.
LEMMA NoCall ==
  ASSUME CallsInv, NEW t \in Target, srv[t].pc \notin {"await", "dead"}
  PROVE  sock[t].state = "none"
BY DEF CallsInv, Calls

\* The oldest pause of a backlog is pending.
LEMMA HeadPends ==
  ASSUME TInv, NEW t \in Target, queue[t] # <<>>, Head(queue[t]).op = "pause"
  PROVE  Head(queue[t]) \in Pending(t)
<1>1. 1 \in DOMAIN queue[t] /\ queue[t][1] = Head(queue[t])
  BY DEF TInv, TypeOK
<1> QED BY <1>1, PendingIs

\* A server that handles goes on with its request.
LEMMA GoesOn ==
  ASSUME TInv, NEW t \in Target,
         \A u \in Target \ {t} : srv'[u] = srv[u],
         srv'[t].pc \in Busy => srv[t].pc \in Busy /\ srv'[t].cur = srv[t].cur
  PROVE  \A u \in Target : HandlingStep(u)
BY DEF HandlingStep

\* A server answers a request that is no pause.
LEMMA AnswersControl ==
  ASSUME CallsInv, NEW t \in Target, srv[t].pc = "idle", queue[t] # <<>>,
         Head(queue[t]).op # "pause", UNCHANGED <<phase, srv, events>>,
         queue' = [queue EXCEPT ![t] = Tail(@)],
         sock' = Result(Head(queue[t]), "reply", NoReply),
         \/ UNCHANGED log
         \/ \E e \in Event : e.kind \notin {"send", "transport"} /\ Emit(t, <<e>>)
  PROVE  Tracks
<1>a. TInv /\ t \in Party /\ sock[t].state = "none" /\ t # Controller
  BY NoCall, PartiesAreDistinct DEF CallsInv, ResponseInv, DeliveryInv, PauseInv, Party
<1>b. queue[t] \in Seq(Command) /\ Head(queue[t]) \in Command
  BY <1>a DEF TInv, TypeOK
<1>1. \A q \in Party :
        sock'[q] = sock[q] \/ (sock[q].req = Head(queue[t]) /\ Told(q, {"reply"}))
  BY <1>a, <1>b, ResultTells
<1>2. sock'[t] = sock[t]
  BY <1>a, <1>1 DEF Told
<1>3. PartyStep(t)
  <2>1. CASE UNCHANGED log
    BY <1>2, <2>1, NobodyLogs, <1>a DEF PartyStep, Stays
  <2>2. ASSUME NEW e \in Event, e.kind \notin {"send", "transport"}, Emit(t, <<e>>)
        PROVE  PartyStep(t)
    <3>1. Own(t)' = Own(t) \o <<e>>
      BY <1>a, <2>2, OneLogs
    <3>2. Notes(t)
      BY <1>a, <1>2, <2>2, <3>1 DEF Notes
    <3> QED BY <3>2 DEF PartyStep
  <2> QED BY <2>1, <2>2
<1>4. \A q \in Party \ {t} : Own(q)' = Own(q)
  BY <1>a, NobodyLogs, OneLogs
<1>5. \A q \in Party : PartyStep(q)
  <2> DEFINE states == {"reply"}
  <2>1. \A q \in Party \ {t} :
          /\ Own(q)' = Own(q)
          /\ q \in Target => srv'[q] = srv[q]
          /\ sock'[q] = sock[q] \/ Told(q, states)
    BY <1>1, <1>4
  <2>2. {"none", "waiting"} \cap states = {}
    OBVIOUS
  <2> HIDE DEF states
  <2> QED BY <1>3, <2>1, <2>2, OthersHear
<1>6. \A u \in Target : PendingStep(u)
  <2>1. \A u \in Target : Pending(u)' \subseteq Pending(u)
    <3>1. /\ queue'[t] = Tail(queue[t])
          /\ \A u \in Target \ {t} : queue'[u] = queue[u]
      BY <1>a DEF TInv, TypeOK
    <3> QED BY <1>a, <3>1, PendingShrinks
  <2>2. \A q \in Party : sock'[q] = sock[q] \/ sock[q].req.op # "pause"
    BY <1>1
  <2> QED BY <2>1, <2>2, PendingStays
<1>7. \A u \in Target : HandlingStep(u)
  BY DEF HandlingStep
<1> QED BY <1>5, <1>6, <1>7 DEF Tracks, Leaving

\* The accept loops.
LEMMA ServerTracks ==
  ASSUME CallsInv, NEW t \in Target, ServerStep(t)
  PROVE  Tracks
<1> USE DEF ctlVars
<1>a. /\ TInv /\ t \in Party /\ t # Controller /\ Calls(t) /\ Handling(t) /\ Handles(t)
      /\ srv[t] \in SrvType
      /\ srv[t].pc \in Busy => srv[t].cur \in Command
  BY PartiesAreDistinct
  DEF CallsInv, ResponseInv, DeliveryInv, PauseInv, Party, TInv, CallInv, TypeOK
<1>b. Leaving
  <2>1. UNCHANGED phase
    BY DEF ServerStep, Configure, Snapshot, Exit, ReceivePause, NativePaused, Forward, Forwarded,
           SendReply
  <2> QED BY <2>1 DEF Leaving
<1>c. ASSUME NEW op, Accepts(t, op)
      PROVE  /\ srv[t].pc = "idle" /\ queue[t] # <<>> /\ Head(queue[t]).op = op
             /\ Head(queue[t]) \in Command
  BY <1>a, <1>c, AcceptsType DEF Accepts
<1>d. ASSUME NEW e \in Event, e.kind \notin {"send", "transport"}, Emit(t, <<e>>),
             UNCHANGED <<events, sock>>, srv[t].pc \in {"idle", "waitStop", "reply"},
             srv'[t].pc # "await", \A u \in Target \ {t} : srv'[u] = srv[u]
      PROVE  \A q \in Party : PartyStep(q)
  <2>1. Own(t)' = Own(t) \o <<e>> /\ \A q \in Party \ {t} : Own(q)' = Own(q)
    BY <1>a, <1>d, OneLogs
  <2>2. sock[t].state = "none"
    BY <1>d, NoCall
  <2>3. Notes(t)
    BY <1>d, <2>1, <2>2 DEF Notes
  <2> QED BY <1>d, <2>1, <2>3 DEF PartyStep, Stays
<1>1. CASE Configure(t)
  <2>1. [kind |-> "configured"] \in Event /\ [kind |-> "configured"].kind \notin {"send", "transport"}
    BY EventType
  <2>2. Accepts(t, "configure") /\ Emit(t, <<[kind |-> "configured"]>>)
    BY <1>1 DEF Configure
  <2>3. /\ srv[t].pc = "idle" /\ queue[t] # <<>> /\ Head(queue[t]).op # "pause"
        /\ UNCHANGED <<phase, srv, events>> /\ queue' = [queue EXCEPT ![t] = Tail(@)]
        /\ sock' = Result(Head(queue[t]), "reply", NoReply)
    BY <1>1, <1>c, <2>2 DEF Configure
  <2> QED BY <2>1, <2>2, <2>3, AnswersControl
<1>2. CASE Snapshot(t)
  <2>1. Accepts(t, "snapshot") /\ UNCHANGED <<events, log, phase>>
    BY <1>2 DEF Snapshot
  <2>2. CASE /\ queue' = [queue EXCEPT ![t] = Tail(@)] /\ UNCHANGED srv
             /\ sock' = Result(Head(queue[t]), "reply", NoReply)
    <3>1. srv[t].pc = "idle" /\ queue[t] # <<>> /\ Head(queue[t]).op # "pause"
      BY <1>c, <2>1
    <3> QED BY <2>1, <2>2, <3>1, AnswersControl
  <2>3. CASE EndProcess(t, "dead", Head(queue[t]), "EOFError")
    BY <1>a, <1>b, <2>1, <2>3, NobodyLogs, EndTracks
  <2> QED BY <1>2, <2>2, <2>3 DEF Snapshot
<1>3. CASE Exit(t)
  <2>1. EndProcess(t, "exited", Head(queue[t]), "reply") /\ UNCHANGED <<events, log>>
    BY <1>3 DEF Exit
  <2> QED BY <1>a, <1>b, <2>1, NobodyLogs, EndTracks
<1>4. CASE ReceivePause(t)
  <2> DEFINE req == Head(queue[t])
             receipt == [kind |-> "receipt", req |-> req]
             refusal == [kind |-> "refused", aid |-> AidOf(req)]
  <2>1. /\ srv[t].pc = "idle" /\ queue[t] # <<>> /\ req.op = "pause" /\ req \in Command
        /\ queue' = [queue EXCEPT ![t] = Tail(@)] /\ UNCHANGED <<events, sock>>
        /\ Emit(t, <<receipt>>) \/ Emit(t, <<receipt, refusal>>)
    BY <1>4, <1>c DEF ReceivePause
  <2>2. /\ srv'[t].pc \in {"waitStop", "reply"} /\ srv'[t].cur = req
        /\ \A u \in Target \ {t} : srv'[u] = srv[u]
    BY <1>a, <1>4 DEF ReceivePause, TInv, TypeOK, SrvType
  <2>3. /\ receipt \in Event /\ refusal \in Event
        /\ receipt.kind = "receipt" /\ refusal.kind = "refused" /\ receipt.req = req
    BY <2>1, EventType, AidType
  <2>4. \/ Own(t)' = Own(t) \o <<receipt>>
        \/ Own(t)' = Own(t) \o <<receipt, refusal>>
    BY <1>a, <2>1, OneLogs
  <2>5. \A q \in Party \ {t} : Own(q)' = Own(q)
    BY <1>a, <2>1, OneLogs
  <2>6. sock[t].state = "none"
    BY <2>1, NoCall
  <2>7. req \in Receipts(log'[t])
    <3>1. Own(t) \in Seq(Event) /\ Own(t)' = log'[t]
      BY <1>a, OwnIs
    <3>2. req \in Receipts(Own(t) \o <<receipt>>)
      BY <2>1, <3>1, ReceiptAppend
    <3> HIDE DEF receipt, refusal, req
    <3>3. /\ Own(t) \o <<receipt>> \in Seq(Event)
          /\ Own(t) \o <<receipt, refusal>> = (Own(t) \o <<receipt>>) \o <<refusal>>
      BY <2>3, <3>1, TwoAppends
    <3>4. req \in Receipts((Own(t) \o <<receipt>>) \o <<refusal>>)
      BY <2>3, <3>2, <3>3, ReadAppend
    <3> QED BY <2>4, <3>1, <3>2, <3>3, <3>4
  <2>8. Head(queue[t]) \in Pending(t)
    BY <1>a, <2>1, HeadPends
  <2> HIDE DEF receipt, refusal
  <2>9. Notes(t)
    BY <2>1, <2>2, <2>3, <2>4, <2>6 DEF Notes
  <2>10. \A q \in Party : PartyStep(q)
    BY <2>1, <2>2, <2>5, <2>9 DEF PartyStep, Stays
  <2>11. \A u \in Target : HandlingStep(u)
    BY <2>2, <2>7 DEF HandlingStep
  <2>12. \A u \in Target : PendingStep(u)
    <3>1. queue'[t] = Tail(queue[t]) /\ \A u \in Target \ {t} : queue'[u] = queue[u]
      BY <1>a, <2>1 DEF TInv, TypeOK
    <3>2. \A u \in Target \ {t} : Pending(u)' \subseteq Pending(u)
      BY <1>a, <2>2, <3>1, PendingShrinks
    <3>3. \A k \in DOMAIN queue'[t] : \E l \in DOMAIN queue[t] : queue'[t][k] = queue[t][l]
      <4> DEFINE q == queue[t]
                 r == queue'[t]
      <4>1. q \in Seq(Command) /\ q # <<>> /\ r = Tail(q)
        BY <1>a, <2>1, <3>1 DEF TInv, TypeOK
      <4> HIDE DEF q, r
      <4>2. \A k \in DOMAIN r : k + 1 \in DOMAIN q /\ r[k] = q[k + 1]
        BY <4>1
      <4> QED BY <4>2 DEF q, r
    <3>4. Pending(t)' \subseteq Pending(t)
      BY <2>2, <2>8, <3>3, PendingIs, PendingIsNext
    <3> QED BY <2>1, <3>2, <3>4, PendingStays
  <2> QED BY <1>b, <2>10, <2>11, <2>12 DEF Tracks
<1>5. CASE NativePaused(t)
  <2>1. PICK a \in Aid \cup {NoAid} : Emit(t, <<[kind |-> "native_paused", aid |-> a]>>)
    BY <1>5, <1>a, AidType DEF NativePaused, Busy
  <2>2. /\ [kind |-> "native_paused", aid |-> a] \in Event
        /\ [kind |-> "native_paused", aid |-> a].kind \notin {"send", "transport"}
    BY EventType
  <2>3. /\ srv[t].pc = "waitStop" /\ srv'[t].pc \in {"forward", "reply"}
        /\ srv'[t].cur = srv[t].cur /\ \A u \in Target \ {t} : srv'[u] = srv[u]
        /\ UNCHANGED <<events, queue, sock>>
    BY <1>a, <1>5 DEF NativePaused, TInv, TypeOK, SrvType
  <2>4. \A q \in Party : PartyStep(q)
    BY <1>d, <2>1, <2>2, <2>3
  <2>5. \A u \in Target : HandlingStep(u)
    BY <1>a, <2>3, GoesOn DEF Busy
  <2>6. \A u \in Target : Pending(u)' \subseteq Pending(u)
    BY <1>a, <2>3, PendingShrinks DEF Busy
  <2> QED BY <1>b, <2>3, <2>4, <2>5, <2>6, PendingStays DEF Tracks
<1>6. CASE Forward(t)
  <2> DEFINE req == ForwardedCommand(t)
  <2>1. req \in Command /\ req.op = "pause" /\ req.from = t /\ req.n = Len(log[t])
        /\ req.parent = AidOf(srv[t].cur)
    <3>1. intent.kid[t] \in Target
      BY <1>6, <1>a, CapturesAssumption DEF Forward, TInv, TypeOK, CallInv
    <3>2. AidOf(srv[t].cur) \in Aid
      BY <1>6, <1>a, AidType DEF Forward, Busy
    <3> QED BY <1>a, <3>1, <3>2 DEF ForwardedCommand, Command
  <2> HIDE DEF req
  <2>2. /\ srv[t].pc = "forward" /\ Emit(t, <<[kind |-> "send", req |-> req]>>)
        /\ Connect(t, req) /\ UNCHANGED <<events, phase>>
        /\ srv' = [srv EXCEPT ![t].pc = "await"]
    BY <1>6 DEF Forward, req
  <2>3. /\ srv'[t].pc = "await" /\ srv'[t].cur = srv[t].cur
        /\ \A u \in Target \ {t} : srv'[u] = srv[u]
    BY <1>a, <2>2 DEF TInv, TypeOK, SrvType
  <2>4. /\ Own(t)' = Own(t) \o <<[kind |-> "send", req |-> req]>> /\ Own(t) = log[t]
        /\ \A q \in Party \ {t} : Own(q)' = Own(q)
    BY <1>a, <2>2, OneLogs, OwnIs
  <2>5. sock[t].state = "none"
    BY <2>2, NoCall
  <2>6. Opening(t, req)
    BY <1>a, <2>1, <2>2, <2>3, <2>4, <2>5 DEF Opening, Sending
  <2>7. /\ sock'[t].req = req
        /\ \A q \in Party \ {t} : sock'[q] = sock[q]
        /\ \A u \in Target : \/ queue'[u] = queue[u]
                             \/ queue'[u] = Append(queue[u], req) /\ sock'[t].state = "waiting"
    BY <1>a, <2>1, <2>2, ConnectTells
  <2>8. \A q \in Party : PartyStep(q)
    <3>1. PartyStep(t)
      BY <2>1, <2>6 DEF PartyStep
    <3> QED BY <2>3, <2>4, <2>7, <3>1 DEF PartyStep, Stays
  <2>9. \A u \in Target : HandlingStep(u)
    BY <1>a, <2>2, <2>3, GoesOn DEF Busy
  <2>10. ASSUME NEW u \in Target PROVE PendingStep(u)
    BY <1>a, <2>1, <2>2, <2>3, <2>6, <2>7, OpenedPending DEF Busy
  <2> QED BY <1>b, <2>8, <2>9, <2>10 DEF Tracks
<1>7. CASE Forwarded(t)
  <2> DEFINE again == /\ TransportEvent(t).status # "RESPONSE"
                      /\ Len(srv[t].children) + 1 <
                           (IF t \in intent.retry THEN MaxAttempts ELSE 1)
             place == IF again THEN "forward" ELSE "reply"
  <2>1. /\ srv' = [srv EXCEPT ![t].children = Append(@, TransportEvent(t).status),
                              ![t].pc = place]
        /\ sock' = [sock EXCEPT ![t] = Closed] /\ srv[t].pc = "await" /\ Returned(t)
        /\ Emit(t, <<TransportEvent(t)>>) /\ UNCHANGED <<events, queue>>
    BY <1>7 DEF Forwarded
  <2>2. place \in {"forward", "reply"}
    OBVIOUS
  <2> HIDE DEF place
  <2>3. /\ srv'[t].pc = place /\ srv'[t].cur = srv[t].cur
        /\ \A u \in Target \ {t} : srv'[u] = srv[u]
    BY <1>a, <2>1 DEF TInv, TypeOK
  <2>4. sock'[t].state = "none" /\ \A q \in Party \ {t} : sock'[q] = sock[q]
    BY <1>a, <2>1 DEF Closed, TInv, TypeOK
  <2>5. /\ Own(t)' = Own(t) \o <<TransportEvent(t)>>
        /\ \A q \in Party \ {t} : Own(q)' = Own(q)
    BY <1>a, <2>1, OneLogs
  <2>6. Recording(t)
    BY <1>a, <2>1, <2>2, <2>3, <2>4, <2>5 DEF Recording, Returned, Calls
  <2>7. \A q \in Party : PartyStep(q)
    BY <2>3, <2>4, <2>5, <2>6 DEF PartyStep, Stays
  <2>8. \A u \in Target : HandlingStep(u)
    BY <1>a, <2>1, <2>3, GoesOn DEF Busy
  <2>9. \A u \in Target : Pending(u)' \subseteq Pending(u)
    BY <1>a, <2>1, <2>3, PendingShrinks DEF Busy
  <2> QED BY <1>b, <2>4, <2>7, <2>8, <2>9, PendingStays DEF Tracks
<1>8. CASE SendReply(t)
  <2> DEFINE drop == t \in intent.drop /\ ~srv[t].dropped
             e == [kind |-> "reply", reply |-> ReplyOf(t), dropped |-> drop]
             req == srv[t].cur
  <2>1. /\ srv[t].pc = "reply" /\ req \in Command /\ req.to = t /\ req \in Receipts(log[t])
        /\ Emit(t, <<e>>) /\ e \in Event /\ e.kind = "reply" /\ UNCHANGED events
    BY <1>8, <1>a, ReplyType, EventType DEF SendReply, Busy, Handling, Handles
  <2> HIDE DEF e
  <2>2. Own(t)' = Own(t) \o <<e>> /\ \A q \in Party \ {t} : Own(q)' = Own(q)
    BY <1>a, <2>1, OneLogs
  <2>3. sock[t].state = "none"
    BY <2>1, NoCall
  <2>4. CASE /\ srv' = [srv EXCEPT ![t].pc = "idle", ![t].dropped = @ \/ drop]
             /\ sock' = IF drop THEN Result(req, "EOFError", NoReply)
                               ELSE Result(req, "reply", ReplyOf(t))
             /\ UNCHANGED queue
    <3>1. \A q \in Party :
            sock'[q] = sock[q] \/ (sock[q].req = req /\ Told(q, {"EOFError", "reply"}))
      <4>1. CASE drop
        <5>1. \A q \in Party :
                sock'[q] = sock[q] \/ (sock[q].req = req /\ Told(q, {"EOFError"}))
          BY <1>a, <2>1, <2>4, <4>1, ResultTells
        <5> QED BY <5>1 DEF Told
      <4>2. CASE ~drop
        <5>1. \A q \in Party :
                sock'[q] = sock[q] \/ (sock[q].req = req /\ Told(q, {"reply"}))
          BY <1>a, <2>1, <2>4, <4>2, ResultTells
        <5> QED BY <5>1 DEF Told
      <4> QED BY <4>1, <4>2
    <3>2. srv'[t].pc = "idle" /\ \A u \in Target \ {t} : srv'[u] = srv[u]
      BY <1>a, <2>4 DEF TInv, TypeOK, SrvType
    <3>3. sock'[t].state = "none"
      BY <1>a, <2>3, <3>1 DEF Told
    <3>4. PartyStep(t)
      <4>1. Notes(t)
        BY <2>1, <2>2, <3>2, <3>3 DEF Notes
      <4> QED BY <4>1 DEF PartyStep
    <3>5. \A q \in Party : PartyStep(q)
      <4> DEFINE states == {"EOFError", "reply"}
      <4>1. \A q \in Party \ {t} :
              /\ Own(q)' = Own(q)
              /\ q \in Target => srv'[q] = srv[q]
              /\ sock'[q] = sock[q] \/ Told(q, states)
        BY <2>2, <3>1, <3>2
      <4>2. {"none", "waiting"} \cap states = {}
        OBVIOUS
      <4> HIDE DEF states
      <4> QED BY <3>4, <4>1, <4>2, OthersHear
    <3>6. \A u \in Target : HandlingStep(u)
      BY <1>a, <3>2, GoesOn DEF Busy
    <3>7. \A u \in Target : Pending(u)' \subseteq Pending(u)
      BY <1>a, <2>4, <3>2, PendingShrinks DEF Busy
    <3>8. req \notin Pending(t)'
      <4>1. \A k \in DOMAIN queue[t] : queue[t][k].op = "pause" => queue[t][k] \notin Receipts(log[t])
        BY DEF CallsInv, ResponseInv, DeliveryInv, Backlog
      <4>2. srv'[t].pc \notin Busy /\ queue'[t] = queue[t] /\ req \in Receipts(log[t])
        BY <2>1, <2>4, <3>2 DEF Busy
      <4> HIDE DEF req
      <4> QED BY <4>1, <4>2, PendingIsNext
    <3>9. ASSUME NEW u \in Target PROVE PendingStep(u)
      <4>1. \A q \in Party : \/ sock'[q] = sock[q] \/ sock[q].req.to # u
                             \/ sock[q].req \notin Pending(u)'
        BY <2>1, <3>1, <3>8
      <4> QED BY <3>7, <4>1, PendingStays
    <3> QED BY <1>b, <3>5, <3>6, <3>9 DEF Tracks
  <2>5. CASE EndProcess(t, "dead", req, "EOFError")
    <3>1. sock'[t].state = "none" /\ srv'[t].pc = "dead"
      BY <1>a, <2>5, EndTells
    <3>2. Notes(t)
      BY <2>1, <2>2, <3>1 DEF Notes
    <3> QED BY <1>a, <1>b, <2>2, <2>5, <3>2, EndTracks
  <2> QED BY <1>8, <2>4, <2>5 DEF SendReply
<1> QED
  BY <1>1, <1>2, <1>3, <1>4, <1>5, <1>6, <1>7, <1>8 DEF ServerStep

\* Every step is one of these for each party.
LEMMA NextTracks ==
  ASSUME CallsInv, [Next]_vars
  PROVE  Tracks
<1> USE DEF ctlVars
<1>a. TInv
  BY DEF CallsInv, ResponseInv, DeliveryInv, PauseInv
<1>1. CASE UNCHANGED <<phase, events, log, srv, queue, sock>>
  BY <1>1, <1>a, FrameTracks DEF Leaving
<1>2. ASSUME NEW t \in Target, BusinessStep(t) \/ BusinessFails(t)
      PROVE  UNCHANGED <<phase, events, log, srv, queue, sock>>
  BY <1>2 DEF BusinessStep, BusinessFails, BeginRow, WriteRow, Interrupt, Business
<1>3. CASE SpawnFails
  BY <1>3, <1>a, AbortTracks DEF SpawnFails
<1>4. ASSUME NEW p \in Party, Expire(p)
      PROVE  Tracks
  <2>1. /\ sock' = [sock EXCEPT ![p].state = "TimeoutError"] /\ sock[p].state = "waiting"
        /\ UNCHANGED <<phase, events, log, srv, queue>>
    BY <1>4 DEF Expire
  <2>2. /\ sock'[p].req = sock[p].req /\ sock'[p].state = "TimeoutError"
        /\ \A q \in Party \ {p} : sock'[q] = sock[q]
    BY <1>a, <2>1 DEF TInv, TypeOK, SockType
  <2>3. \A q \in Party : PartyStep(q)
    BY <2>1, <2>2, NobodyLogs DEF PartyStep, Stays, Hearing
  <2>4. \A t \in Target : HandlingStep(t) /\ PendingStep(t)
    BY <1>a, <2>1, <2>2, PendingFrame
  <2> QED BY <2>1, <2>3, <2>4 DEF Tracks, Leaving
<1>5. ASSUME NEW t \in Target, PauseTimesOut(t)
      PROVE  Tracks
  <2>1. EndProcess(t, "dead", srv[t].cur, "EOFError") /\ UNCHANGED <<phase, events, log>>
    BY <1>5 DEF PauseTimesOut
  <2>2. Leaving
    BY <2>1 DEF Leaving
  <2>3. Own(t)' = Own(t) /\ \A q \in Party \ {t} : Own(q)' = Own(q)
    BY <2>1, NobodyLogs DEF Party
  <2> QED BY <1>a, <2>1, <2>2, <2>3, EndTracks
<1>6. CASE Terminated \/ UNCHANGED vars
  BY <1>6, <1>1 DEF Terminated, vars
<1> QED
  BY <1>1, <1>2, <1>3, <1>4, <1>5, <1>6, ControllerTracks, ServerTracks DEF Next, Environment
-----------------------------------------------------------------------------
(* Sends and outcomes in a log.                                            *)

\* One more event, in its place.
LEMMA OutlinedAppend ==
  ASSUME NEW s \in Seq(Event), NEW e \in Event, Outlined(s)
  PROVE  /\ ~OpenSend(s) /\ e.kind \notin {"send", "transport"}
              => Outlined(s \o <<e>>) /\ ~OpenSend(s \o <<e>>)
         /\ ~OpenSend(s) /\ e.kind = "send" /\ e.req.op = "pause"
              => /\ Outlined(s \o <<e>>) /\ OpenSend(s \o <<e>>)
                 /\ (s \o <<e>>)[Len(s \o <<e>>)] = e
         /\ OpenSend(s) /\ e.kind = "transport" /\ e.aid = AidOf(s[Len(s)].req)
                 /\ (e.status = "RESPONSE" => e.error = "none")
              => Outlined(s \o <<e>>) /\ ~OpenSend(s \o <<e>>)
<1> DEFINE u == s \o <<e>>
<1>1. /\ Len(s) \in Nat /\ Len(u) = Len(s) + 1 /\ u # <<>> /\ u[Len(s) + 1] = e
      /\ DOMAIN s = 1 .. Len(s) /\ DOMAIN u = 1 .. (Len(s) + 1)
      /\ \A i \in 1 .. Len(s) : u[i] = s[i]
      /\ s # <<>> <=> Len(s) # 0
  OBVIOUS
<1> HIDE DEF u
<1>2. \A i \in DOMAIN u : i \in DOMAIN s \/ i = Len(s) + 1
  BY <1>1
<1>3. OpenSend(u) <=> e.kind = "send"
  BY <1>1 DEF OpenSend
<1>4. /\ \A i \in At(u, "send") : i \in At(s, "send") \/ (i = Len(s) + 1 /\ e.kind = "send")
      /\ \A i \in At(u, "transport") :
           i \in At(s, "transport") \/ (i = Len(s) + 1 /\ e.kind = "transport")
      /\ \A i \in At(s, "send") : i \in At(u, "send")
  BY <1>1, <1>2 DEF At
<1>5. \A j \in At(s, "transport") : j - 1 \in At(u, "send") /\ u[j - 1] = s[j - 1] /\ u[j] = s[j]
  BY <1>1, <1>4 DEF Outlined, At
<1>6. \A i \in At(s, "send") : i # Len(s) => u[i] = s[i] /\ u[i + 1] = s[i + 1]
  BY <1>1 DEF At
<1>7. OpenSend(s) <=> Len(s) \in At(s, "send")
  BY <1>1 DEF OpenSend, At
<1>8. ASSUME ~OpenSend(s), e.kind # "transport", e.kind = "send" => e.req.op = "pause"
      PROVE  Outlined(u)
  <2>1. ASSUME NEW i \in At(u, "send")
        PROVE  /\ u[i].req.op = "pause"
               /\ i # Len(u) => u[i + 1].kind = "transport" /\ u[i + 1].aid = AidOf(u[i].req)
    <3>1. CASE i \in At(s, "send")
      <4>1. i # Len(s)
        BY <1>7, <1>8, <3>1
      <4> QED BY <1>6, <3>1, <4>1 DEF Outlined
    <3>2. CASE i = Len(s) + 1 /\ e.kind = "send"
      BY <1>1, <1>8, <3>2
    <3> QED BY <1>4, <3>1, <3>2
  <2>2. \A j \in At(u, "transport") : j \in At(s, "transport")
    BY <1>4, <1>8
  <2> QED BY <1>5, <2>1, <2>2 DEF Outlined
<1>9. ASSUME OpenSend(s), e.kind = "transport", e.aid = AidOf(s[Len(s)].req),
             e.status = "RESPONSE" => e.error = "none"
      PROVE  Outlined(u)
  <2>1. ASSUME NEW i \in At(u, "send")
        PROVE  /\ u[i].req.op = "pause"
               /\ i # Len(u) => u[i + 1].kind = "transport" /\ u[i + 1].aid = AidOf(u[i].req)
    <3>1. i \in At(s, "send")
      BY <1>4, <1>9
    <3>2. CASE i # Len(s)
      BY <1>6, <3>1, <3>2 DEF Outlined
    <3>3. CASE i = Len(s)
      BY <1>1, <1>7, <1>9, <3>1, <3>3 DEF Outlined, At
    <3> QED BY <3>2, <3>3
  <2>2. ASSUME NEW j \in At(u, "transport")
        PROVE  /\ j - 1 \in At(u, "send") /\ u[j].aid = AidOf(u[j - 1].req)
               /\ u[j].status = "RESPONSE" => u[j].error = "none"
    <3>1. CASE j \in At(s, "transport")
      BY <1>5, <3>1 DEF Outlined
    <3>2. CASE j = Len(s) + 1
      <4>1. j - 1 = Len(s) /\ Len(s) \in At(u, "send") /\ u[j] = e
        BY <1>1, <1>4, <1>7, <1>9, <3>2
      <4>2. u[j - 1] = s[Len(s)]
        BY <1>1, <1>7, <1>9, <4>1 DEF At
      <4> QED BY <1>9, <4>1, <4>2
    <3> QED BY <1>4, <3>1, <3>2
  <2> QED BY <2>1, <2>2 DEF Outlined
<1> QED BY <1>1, <1>3, <1>8, <1>9 DEF u

\* A log grows at its end; an outcome is added only by the return of its call.
LEMMA Grows ==
  ASSUME TInv, NEW p \in Party, PartyStep(p)
  PROVE  /\ \A i \in DOMAIN Own(p) : i \in DOMAIN Own(p)' /\ Own(p)'[i] = Own(p)[i]
         /\ \A j \in At(Own(p)', "transport") :
              \/ j \in At(Own(p), "transport") /\ Own(p)'[j] = Own(p)[j]
              \/ Recording(p) /\ Own(p)'[j] = TransportEvent(p)
<1> DEFINE s == Own(p)
           Kept(u) == /\ \A i \in DOMAIN s : i \in DOMAIN u /\ u[i] = s[i]
                      /\ \A j \in At(u, "transport") : j \in At(s, "transport") /\ u[j] = s[j]
<1>a. s \in Seq(Event)
  BY OwnIs
<1>1. CASE Own(p)' = s
  BY <1>1
<1>2. ASSUME NEW e \in Event, e.kind # "transport"
      PROVE  Kept(s \o <<e>>)
  <2> HIDE DEF s
  <2> QED BY <1>a, <1>2, ReadAppend DEF At
<1>3. ASSUME NEW e \in Event, NEW f \in Event, e.kind # "transport", f.kind # "transport"
      PROVE  Kept(s \o <<e, f>>)
  <2> DEFINE u == s \o <<e>>
  <2>1. u \in Seq(Event) /\ s \o <<e, f>> = u \o <<f>>
    BY <1>a, TwoAppends
  <2>2. Kept(u)
    BY <1>2, <1>3
  <2> HIDE DEF u, s
  <2>3. /\ \A i \in DOMAIN u : i \in DOMAIN (u \o <<f>>) /\ (u \o <<f>>)[i] = u[i]
        /\ \A j \in At(u \o <<f>>, "transport") : j \in At(u, "transport") /\ (u \o <<f>>)[j] = u[j]
    BY <1>3, <2>1, ReadAppend DEF At
  <2> QED BY <2>1, <2>2, <2>3
<1>4. CASE Notes(p)
  <2>1. PICK e \in Event, f \in Event :
          /\ e.kind # "transport" /\ f.kind # "transport"
          /\ Own(p)' = s \o <<e>> \/ Own(p)' = s \o <<e, f>>
    BY <1>4 DEF Notes
  <2>2. Kept(s \o <<e>>) /\ Kept(s \o <<e, f>>)
    BY <1>2, <1>3, <2>1
  <2> QED BY <2>1, <2>2
<1>5. ASSUME NEW req \in Command, Opening(p, req)
      PROVE  Kept(Own(p)')
  <2>1. Own(p)' = s \o <<[kind |-> "send", req |-> req]>>
    BY <1>5 DEF Opening, Sending
  <2>2. [kind |-> "send", req |-> req] \in Event /\ [kind |-> "send", req |-> req].kind # "transport"
    BY EventType
  <2>3. Kept(s \o <<[kind |-> "send", req |-> req]>>)
    BY <1>2, <2>2
  <2> QED BY <2>1, <2>3
<1>6. CASE Recording(p)
  <2>1. TransportEvent(p) \in Event /\ Own(p)' = s \o <<TransportEvent(p)>>
    BY <1>6, TransportEventType DEF Recording
  <2> HIDE DEF s
  <2>2. /\ \A i \in DOMAIN s : i \in DOMAIN (s \o <<TransportEvent(p)>>)
                             /\ (s \o <<TransportEvent(p)>>)[i] = s[i]
        /\ \A j \in At(s \o <<TransportEvent(p)>>, "transport") :
             \/ j \in At(s, "transport") /\ (s \o <<TransportEvent(p)>>)[j] = s[j]
             \/ (s \o <<TransportEvent(p)>>)[j] = TransportEvent(p)
    BY <1>a, <2>1, ReadAppend DEF At
  <2> QED BY <1>6, <2>1, <2>2 DEF s
<1> QED
  BY <1>1, <1>4, <1>5, <1>6 DEF PartyStep, Stays, Hearing, Ending, Asking

\* So nothing that was sent or received is forgotten.
LEMMA Remembers ==
  ASSUME TInv, NEW p \in Party, PartyStep(p)
  PROVE  Sends(Own(p)) \subseteq Sends(Own(p)') /\ Receipts(Own(p)) \subseteq Receipts(Own(p)')
<1> DEFINE u == Own(p)'
<1>1. \A i \in DOMAIN Own(p) : i \in DOMAIN u /\ u[i] = Own(p)[i]
  BY Grows
<1> HIDE DEF u
<1>2. Sends(Own(p)) \subseteq Sends(u) /\ Receipts(Own(p)) \subseteq Receipts(u)
  BY <1>1 DEF Sends, Receipts, At
<1> QED BY <1>2 DEF u

\* The outstanding pause stays the last thing that its sender logged.
LEMMA OutlinedKept ==
  ASSUME CallsInv, TInv', NEW p \in Party, PartyStep(p)
  PROVE  Outlined(Own(p))' /\ Called(p)' /\ (p \in Target => Calls(p)')
<1> DEFINE s == Own(p)
           Good == Outlined(Own(p))' /\ Called(p)' /\ (p \in Target => Calls(p)')
<1>a. /\ TInv /\ s \in Seq(Event) /\ Outlined(s) /\ Called(p) /\ (p \in Target => Calls(p))
      /\ (p \in Target <=> p # Controller)
  BY OwnIs, PartiesAreDistinct DEF CallsInv, ResponseInv, DeliveryInv, PauseInv, Party
<1> SUFFICES Good
  BY DEF Good
<1>1. CASE Stays(p)
  BY <1>1, <1>a DEF Stays, Called, Calls
<1>2. CASE Notes(p)
  <2>1. ~OpenSend(s)
    BY <1>2, <1>a DEF Notes, Called, Calls
  <2>2. Outlined(Own(p))' /\ ~OpenSend(Own(p)')
    <3>1. ASSUME NEW e \in Event, e.kind \notin {"send", "transport"}, Own(p)' = s \o <<e>>
          PROVE  Outlined(Own(p))' /\ ~OpenSend(Own(p)')
      BY <1>a, <2>1, <3>1, OutlinedAppend
    <3>2. ASSUME NEW e \in Event, NEW f \in Event, Own(p)' = s \o <<e, f>>,
                 e.kind \notin {"send", "transport"}, f.kind \notin {"send", "transport"}
          PROVE  Outlined(Own(p))' /\ ~OpenSend(Own(p)')
      <4> DEFINE u == s \o <<e>>
      <4>1. u \in Seq(Event) /\ Own(p)' = u \o <<f>>
        BY <1>a, <3>2, TwoAppends
      <4>2. Outlined(u) /\ ~OpenSend(u)
        BY <1>a, <2>1, <3>2, OutlinedAppend
      <4> HIDE DEF u
      <4>3. Outlined(u \o <<f>>) /\ ~OpenSend(u \o <<f>>)
        BY <3>2, <4>1, <4>2, OutlinedAppend
      <4> QED BY <4>1, <4>3
    <3> QED BY <1>2, <3>1, <3>2 DEF Notes
  <2> QED BY <1>2, <2>2 DEF Notes, Called, Calls
<1>3. CASE Recording(p)
  <2> DEFINE e == TransportEvent(p)
  <2>1. /\ OpenSend(s) /\ s[Len(s)].req = sock[p].req
        /\ Own(p)' = s \o <<e>> /\ e \in Event /\ sock'[p].state = "none"
    BY <1>3, <1>a, TransportEventType DEF Recording, Returned, Called
  <2>2. /\ e.kind = "transport" /\ e.aid = AidOf(sock[p].req)
        /\ e.status = "RESPONSE" => e.error = "none"
    BY DEF TransportEvent
  <2> HIDE DEF e, s
  <2>3. Outlined(s \o <<e>>) /\ ~OpenSend(s \o <<e>>)
    BY <1>a, <2>1, <2>2, OutlinedAppend
  <2>4. Outlined(Own(p))' /\ ~OpenSend(Own(p)')
    BY <2>1, <2>3
  <2> QED BY <1>3, <1>a, <2>1, <2>4 DEF Called, Calls, Recording
<1>4. CASE Hearing(p)
  BY <1>4, <1>a DEF Hearing, Called, Calls
<1>5. CASE Ending(p)
  BY <1>5, <1>a DEF Ending, Called, Calls
<1>6. CASE Asking(p)
  BY <1>6, <1>a DEF Asking, Called
<1>7. ASSUME NEW req \in Command, Opening(p, req)
      PROVE  Good
  <2> DEFINE e == [kind |-> "send", req |-> req]
  <2>1. Sending(p, req) /\ sock[p].state = "none"
    BY <1>7 DEF Opening
  <2>2. ~OpenSend(s)
    BY <1>a, <2>1 DEF Called, Sending
  <2>3. Own(p)' = s \o <<e>> /\ e \in Event /\ e.kind = "send" /\ e.req = req /\ req.op = "pause"
    BY <2>1, EventType DEF Sending
  <2>4. sock'[p].req = req /\ sock'[p].state # "none"
    BY <1>a, <2>1, ConnectTells DEF Sending
  <2> HIDE DEF e, s
  <2>5. /\ Outlined(s \o <<e>>) /\ OpenSend(s \o <<e>>)
        /\ (s \o <<e>>)[Len(s \o <<e>>)] = e
    BY <1>a, <2>2, <2>3, OutlinedAppend
  <2>6. Outlined(Own(p))' /\ OpenSend(Own(p)') /\ Own(p)'[Len(Own(p)')].req = req
    BY <2>3, <2>5
  <2> QED BY <1>7, <1>a, <2>3, <2>4, <2>6 DEF Called, Calls, Opening
<1> QED
  BY <1>1, <1>2, <1>3, <1>4, <1>5, <1>6, <1>7 DEF PartyStep

\* A party takes a step, and what a worker handles it has received.
LEMMA HandlesKept ==
  ASSUME CallsInv, Tracks, NEW t \in Target
  PROVE  Handles(t)'
<1>1. TInv /\ Own(t) = log[t] /\ Own(t)' = log'[t] /\ t \in Party
  BY OwnIs DEF CallsInv, ResponseInv, DeliveryInv, PauseInv
<1>2. Receipts(log[t]) \subseteq Receipts(log'[t])
  BY <1>1, Remembers DEF Tracks
<1> QED BY <1>2 DEF Tracks, HandlingStep, Handles, CallsInv

\* The pauses of the harness end with its dispatches.
LEMMA DispatchingKept ==
  ASSUME CallsInv, Tracks
  PROVE  Dispatching'
<1>1. PartyStep(Controller) /\ Leaving /\ Dispatching /\ Controller \notin Target
  BY PartiesAreDistinct DEF Tracks, CallsInv, Party
<1>2. CASE sock'[Controller].state = "none"
  BY <1>2 DEF Dispatching
<1>3. CASE sock'[Controller].req = sock[Controller].req /\ sock[Controller].state # "none"
  BY <1>1, <1>3, <1>2 DEF Dispatching, Leaving
<1>4. ASSUME NEW req \in Command, Opening(Controller, req)
      PROVE  Dispatching'
  BY <1>4 DEF Opening, Dispatching
<1>5. CASE Asking(Controller)
  BY <1>5 DEF Asking, Dispatching
<1> QED
  BY <1>1, <1>2, <1>3, <1>4, <1>5
  DEF PartyStep, Stays, Notes, Recording, Hearing, Ending

\* CallsInv is inductive.
LEMMA NextCallsInv ==
  ASSUME CallsInv, [Next]_vars
  PROVE  CallsInv' /\ Tracks
<1>1. ResponseInv' /\ TInv'
  BY NextResponds DEF CallsInv, ResponseInv, DeliveryInv, PauseInv
<1>2. Tracks
  BY NextTracks
<1>3. \A p \in Party : Outlined(Own(p))' /\ Called(p)' /\ (p \in Target => Calls(p)')
  BY <1>1, <1>2, OutlinedKept DEF Tracks
<1>4. \A t \in Target : Calls(t)' /\ Handles(t)'
  BY <1>2, <1>3, HandlesKept DEF Party
<1> QED BY <1>1, <1>2, <1>3, <1>4, DispatchingKept DEF CallsInv

\* At first no log holds anything and no call is outstanding.
LEMMA InitCallsInv == Init => CallsInv
<1> SUFFICES ASSUME Init PROVE CallsInv
  OBVIOUS
<1>1. \A p \in Party : Own(p) = <<>> /\ sock[p].state = "none"
  BY DEF Init, Own, Party, Closed
<1>2. \A p \in Party : Outlined(Own(p)) /\ Called(p)
  BY <1>1 DEF Outlined, Called, OpenSend, At
<1>3. \A t \in Target : Calls(t) /\ Handles(t)
  BY <1>1 DEF Init, Calls, Handles, Busy, Party
<1>4. Dispatching
  BY <1>1, OwnIs DEF Dispatching, Party
<1> QED BY <1>2, <1>3, <1>4, InitResponds DEF CallsInv
-----------------------------------------------------------------------------
(* Calls whose outcome is not settled, and what descends from them.        *)

\* A party waits for the outcome of a pause.
Waits(p) == sock[p].state = "waiting" /\ sock[p].req.op = "pause"

\* The sender recorded what became of an attempt, other than that it gave up.
Settled(p, aid) ==
  \E j \in At(Own(p), "transport") : Own(p)[j].aid = aid /\ Own(p)[j].error # "TimeoutError"

\* The call may still be settled.
Holds(p, req) == sock[p].req = req /\ sock[p].state \notin {"none", "TimeoutError"}

\* The outcome of a sent pause is not settled and never will be.
Lost(p, req) == ~Settled(p, AidOf(req)) /\ ~Holds(p, req)

LostIn(S) == \A p \in Party : \A req \in Sent(p) : Lost(p, req) => AidOf(req) \in S

Descends(S) ==
  \A q \in Target : \A req \in Sends(log[q]) : req.parent \in S => AidOf(req) \in S

RootIn(S) == Waits(Controller) => AidOf(sock[Controller].req) \in S

Carries(S) ==
  \A p \in Target :
    srv[p].pc = "await" /\ Waits(p) /\ AidOf(srv[p].cur) \in S => AidOf(sock[p].req) \in S

\* The attempt is a lost one or descends from a lost one.
Tainted(aid) == \A S : LostIn(S) /\ Descends(S) => aid \in S

\* A chain of callers that wait leads from the attempt up to the harness or to
\* a lost call: nobody handles a pause that somebody above has given up.
Accounted(aid) == \A S : RootIn(S) /\ LostIn(S) /\ Carries(S) => aid \in S

\* Whatever is pending is accounted for.
TaintInv ==
  /\ CallsInv
  /\ phase # "aborted" => \A t \in Target : \A req \in Pending(t) : Accounted(AidOf(req))
-----------------------------------------------------------------------------
\* An attempt identity names one pause of one party.
LEMMA AidsName ==
  ASSUME DeliveryInv, NEW p \in Party, NEW q \in Party, NEW a \in Sent(p), NEW b \in Sent(q),
         AidOf(a) = AidOf(b)
  PROVE  a = b /\ p = q
<1>1. PICK i \in At(Own(p), "send") : Own(p)[i].req = a
  BY DEF Sent, Sends
<1>2. PICK j \in At(Own(q), "send") : Own(q)[j].req = b
  BY DEF Sent, Sends
<1>3. a.from = p /\ a.n = i - 1 /\ b.from = q /\ b.n = j - 1 /\ i \in Int /\ j \in Int
  <2>1. NumberedIn(Own(p), p) /\ NumberedIn(Own(q), q)
    BY DEF DeliveryInv
  <2>2. Own(p) \in Seq(Event) /\ Own(q) \in Seq(Event)
    BY OwnIs DEF DeliveryInv, PauseInv
  <2>3. i \in DOMAIN Own(p) /\ j \in DOMAIN Own(q)
    BY <1>1, <1>2 DEF At
  <2> QED BY <1>1, <1>2, <2>1, <2>2, <2>3 DEF NumberedIn
<1>4. a.from = b.from /\ a.n = b.n
  BY DEF AidOf
<1> QED BY <1>1, <1>2, <1>3, <1>4

\* What is pending was sent to the target that it is pending at.
LEMMA PendingWasSent ==
  ASSUME CallsInv, NEW t \in Target, NEW req \in Pending(t)
  PROVE  /\ req \in Command /\ req.from \in Party /\ req \in Sent(req.from)
         /\ req.to = t /\ req.op = "pause"
<1>a. TInv /\ log[t] \in Seq(Event) /\ queue[t] \in Seq(Command)
  BY DEF CallsInv, ResponseInv, DeliveryInv, PauseInv, TInv, TypeOK
<1>1. CASE \E k \in DOMAIN queue[t] : queue[t][k] = req /\ req.op = "pause"
  <2>1. PICK k \in DOMAIN queue[t] : queue[t][k] = req /\ req.op = "pause"
    BY <1>1
  <2>2. req \in Command
    BY <1>a, <2>1
  <2>3. req.to = t /\ req \in Sent(req.from)
    BY <2>1 DEF CallsInv, ResponseInv, DeliveryInv, Backlog
  <2> QED BY <2>1, <2>2, <2>3 DEF Command
<1>2. CASE srv[t].pc \in Busy /\ srv[t].cur = req
  <2>1. req \in Receipts(log[t]) /\ req.to = t /\ req.op = "pause"
    BY <1>2 DEF CallsInv, Handles, ResponseInv, Handling
  <2>2. req \in Command /\ req \in Sent(req.from)
    BY <1>a, <2>1, ReceiptsType DEF CallsInv, ResponseInv, DeliveryInv, Received
  <2> QED BY <2>1, <2>2 DEF Command
<1> QED BY <1>1, <1>2, PendingIs

\* What is pending after the step was sent, too.
LEMMA PendingWasSentNext ==
  ASSUME CallsInv', NEW t \in Target, NEW req \in Pending(t)'
  PROVE  /\ req \in Command /\ req.from \in Party /\ req \in Sent(req.from)'
         /\ req.to = t /\ req.op = "pause"
<1>a. TInv' /\ log'[t] \in Seq(Event) /\ queue'[t] \in Seq(Command)
  BY DEF CallsInv, ResponseInv, DeliveryInv, PauseInv, TInv, TypeOK
<1>1. CASE \E k \in DOMAIN queue'[t] : queue'[t][k] = req /\ req.op = "pause"
  <2>1. PICK k \in DOMAIN queue'[t] : queue'[t][k] = req /\ req.op = "pause"
    BY <1>1
  <2>2. req \in Command
    BY <1>a, <2>1
  <2>3. req.to = t /\ req \in Sent(req.from)'
    BY <2>1 DEF CallsInv, ResponseInv, DeliveryInv, Backlog
  <2> QED BY <2>1, <2>2, <2>3 DEF Command
<1>2. CASE srv'[t].pc \in Busy /\ srv'[t].cur = req
  <2>1. req \in Receipts(log'[t]) /\ req.to = t /\ req.op = "pause"
    BY <1>2 DEF CallsInv, Handles, ResponseInv, Handling
  <2>2. req \in Command /\ req \in Sent(req.from)'
    BY <1>a, <2>1, ReceiptsType DEF CallsInv, ResponseInv, DeliveryInv, Received
  <2> QED BY <2>1, <2>2 DEF Command
<1> QED BY <1>1, <1>2, PendingIsNext

\* The outstanding pause of a party was sent by it.
LEMMA OutstandingWasSent ==
  ASSUME CallsInv, NEW p \in Party, sock[p].state # "none", sock[p].req.op = "pause"
  PROVE  sock[p].req \in Sent(p)
<1>1. Own(p) \in Seq(Event) /\ OpenSend(Own(p)) /\ Own(p)[Len(Own(p))].req = sock[p].req
  BY OwnIs DEF CallsInv, Called, ResponseInv, DeliveryInv, PauseInv
<1>2. Len(Own(p)) \in At(Own(p), "send")
  BY <1>1 DEF OpenSend, At
<1> QED BY <1>1, <1>2 DEF Sent, Sends

\* What was sent stays sent.
LEMMA StaysSent ==
  ASSUME TInv, Tracks, NEW p \in Party
  PROVE  Sent(p) \subseteq Sent(p)'
BY Remembers DEF Tracks, Sent

\* A lost call stays lost.
LEMMA StaysLost ==
  ASSUME CallsInv, Tracks, NEW p \in Party, NEW req \in Sent(p), Lost(p, req)
  PROVE  Lost(p, req)'
<1>a. /\ TInv /\ DeliveryInv /\ PartyStep(p) /\ Own(p) \in Seq(Event)
      /\ NumberedIn(Own(p), p) /\ req \in Sends(Own(p))
  BY OwnIs DEF CallsInv, ResponseInv, DeliveryInv, PauseInv, Tracks, Sent
<1>b. req.op = "pause"
  BY <1>a DEF CallsInv, Outlined, Sends
<1>1. ~Settled(p, AidOf(req))'
  <2> SUFFICES ASSUME NEW j \in At(Own(p)', "transport"), Own(p)'[j].aid = AidOf(req),
                      Own(p)'[j].error # "TimeoutError"
               PROVE  FALSE
    BY DEF Settled
  <2>1. CASE j \in At(Own(p), "transport") /\ Own(p)'[j] = Own(p)[j]
    BY <2>1 DEF Lost, Settled
  <2>2. CASE Recording(p) /\ Own(p)'[j] = TransportEvent(p)
    <3>1. /\ sock[p].req.op = "pause" /\ sock[p].state \notin {"none", "waiting"}
          /\ AidOf(sock[p].req) = AidOf(req)
      <4>1. TransportEvent(p).aid = AidOf(sock[p].req)
        BY DEF TransportEvent
      <4> QED BY <2>2, <4>1 DEF Recording, Returned
    <3>2. sock[p].state # "TimeoutError"
      BY <2>2 DEF TransportEvent
    <3>3. sock[p].req \in Sent(p)
      BY <3>1, OutstandingWasSent
    <3>4. sock[p].req = req
      BY <1>a, <3>1, <3>3, AidsName
    <3> QED BY <3>1, <3>2, <3>4 DEF Lost, Holds
  <2> QED BY <1>a, <2>1, <2>2, Grows
<1>2. ~Holds(p, req)'
  <2> SUFFICES ASSUME sock'[p].req = req, sock'[p].state \notin {"none", "TimeoutError"}
               PROVE  FALSE
    BY DEF Holds
  <2>1. CASE Stays(p)
    BY <2>1 DEF Stays, Lost, Holds
  <2>2. CASE Hearing(p)
    BY <2>2 DEF Hearing, Lost, Holds
  <2>3. CASE Asking(p)
    BY <1>b, <2>3 DEF Asking
  <2>4. ASSUME NEW c \in Command, Opening(p, c)
        PROVE  FALSE
    <3>1. Sending(p, c)
      BY <2>4 DEF Opening
    <3>2. c = req /\ c.n = Len(Own(p))
      BY <1>a, <3>1, ConnectTells DEF Sending
    <3> QED BY <1>a, <3>2, NumberIsNew
  <2> QED BY <1>a, <2>1, <2>2, <2>3, <2>4 DEF PartyStep, Notes, Recording, Ending
<1> QED BY <1>1, <1>2 DEF Lost

\* A waiting call whose caller gives up or dies is lost.
LEMMA GetsLost ==
  ASSUME CallsInv, Tracks, NEW p \in Party, Waits(p), NEW req, req = sock[p].req,
         sock'[p].state \in {"none", "TimeoutError"}
  PROVE  Lost(p, req)'
<1>a. /\ TInv /\ DeliveryInv /\ PartyStep(p) /\ req \in Sent(p) /\ Own(p) \in Seq(Event)
      /\ OpenSend(Own(p)) /\ Own(p)[Len(Own(p))].req = req /\ Outlined(Own(p))
  BY OwnIs, OutstandingWasSent
  DEF CallsInv, ResponseInv, DeliveryInv, PauseInv, Tracks, Waits, Called
<1>1. ~Holds(p, req)'
  BY DEF Holds
<1>2. Own(p)' = Own(p)
  <2>1. ~Notes(p)
    BY PartiesAreDistinct DEF CallsInv, Calls, Notes, Waits
  <2>2. ~Recording(p) /\ \A c \in Command : ~Opening(p, c)
    BY DEF Recording, Returned, Opening, Waits
  <2> QED BY <1>a, <2>1, <2>2 DEF PartyStep, Stays, Hearing, Ending, Asking
<1>3. ASSUME NEW j \in At(Own(p), "transport"), Own(p)[j].aid = AidOf(req)
      PROVE  FALSE
  <2>1. j - 1 \in At(Own(p), "send") /\ AidOf(Own(p)[j - 1].req) = AidOf(req)
    BY <1>a, <1>3 DEF Outlined
  <2>2. Own(p)[j - 1].req.n = j - 2 /\ req.n = Len(Own(p)) - 1 /\ j \in 1 .. Len(Own(p))
    <3>1. Len(Own(p)) \in At(Own(p), "send") /\ Len(Own(p)) \in Nat /\ j \in 1 .. Len(Own(p))
      BY <1>a, <1>3 DEF OpenSend, At
    <3> QED BY <1>a, <2>1, <3>1 DEF DeliveryInv, NumberedIn
  <2>3. j - 2 = Len(Own(p)) - 1
    BY <2>1, <2>2 DEF AidOf
  <2> QED BY <1>a, <2>2, <2>3
<1>4. ~Settled(p, AidOf(req))'
  <2> SUFFICES ASSUME NEW j \in At(Own(p)', "transport"), Own(p)'[j].aid = AidOf(req)
               PROVE  FALSE
    BY DEF Settled
  <2> QED BY <1>2, <1>3
<1> QED BY <1>1, <1>4 DEF Lost

\* What descends from lost calls goes on to do so.
LEMMA StaysTainted ==
  ASSUME CallsInv, Tracks, NEW aid, Tainted(aid)
  PROVE  Tainted(aid)'
<1> SUFFICES ASSUME NEW S, LostIn(S)', Descends(S)'
             PROVE  aid \in S
  BY DEF Tainted
<1>a. TInv
  BY DEF CallsInv, ResponseInv, DeliveryInv, PauseInv
<1>1. LostIn(S)
  BY <1>a, StaysSent, StaysLost DEF LostIn
<1>2. Descends(S)
  <2>1. \A q \in Target : Sends(log[q]) \subseteq Sends(log[q])'
    BY <1>a, StaysSent, OwnIs DEF Sent
  <2> QED BY <2>1 DEF Descends
<1> QED BY <1>1, <1>2 DEF Tainted
-----------------------------------------------------------------------------
(* Whatever is pending stays accounted for.                                *)

\* The calls that a step answers.
Concludes(p) == Waits(p) /\ sock'[p].state \notin {"none", "waiting", "TimeoutError"}

\* What is pending after the step is none of the pauses that it answers.
LEMMA AnsweredIsNotPending ==
  ASSUME CallsInv, CallsInv', Tracks, phase' # "aborted", NEW t \in Target,
         NEW req \in Pending(t)', NEW p \in Party, Concludes(p),
         AidOf(sock[p].req) = AidOf(req), req \in Sent(req.from)
  PROVE  FALSE
<1>1. req.from \in Party /\ req.to = t
  BY PendingWasSentNext
<1>2. sock[p].req \in Sent(p)
  BY OutstandingWasSent DEF Concludes, Waits
<1>3. DeliveryInv
  BY DEF CallsInv, ResponseInv
<1>4. sock[p].req = req
  BY <1>1, <1>2, <1>3, AidsName
<1>5. PendingStep(t)
  BY DEF Tracks
<1> QED BY <1>1, <1>4, <1>5 DEF PendingStep, Concludes, Waits

\* A set that is closed after the step is closed before it, once the calls that
\* the step answers are put in.
LEMMA ClosedBefore ==
  ASSUME CallsInv, CallsInv', Tracks, phase' # "aborted", NEW S, NEW K,
         K = {AidOf(sock[p].req) : p \in {q \in Party : Concludes(q)}},
         RootIn(S)', LostIn(S)', Carries(S)'
  PROVE  RootIn(S \cup K) /\ LostIn(S \cup K) /\ Carries(S \cup K)
<1>a. /\ TInv /\ Controller \in Party /\ Controller \notin Target /\ Target \subseteq Party
      /\ \A p \in Party : PartyStep(p)
  BY PartiesAreDistinct DEF CallsInv, ResponseInv, DeliveryInv, PauseInv, Tracks, Party
<1>1. ASSUME NEW p \in Party, Waits(p), ~Waits(p)' \/ sock'[p].req # sock[p].req
      PROVE  AidOf(sock[p].req) \in S \cup K
  <2> DEFINE req == sock[p].req
  <2>1. CASE sock'[p].state \in {"none", "TimeoutError"}
    <3>1. PICK c : c = sock[p].req
      OBVIOUS
    <3>2. Lost(p, c)'
      BY <1>1, <2>1, <3>1, GetsLost
    <3>3. c \in Sent(p)'
      BY <1>a, <1>1, <3>1, OutstandingWasSent, StaysSent DEF Waits
    <3>4. AidOf(c) \in S
      BY <3>2, <3>3 DEF LostIn
    <3> QED BY <3>1, <3>4
  <2>2. CASE sock'[p].state = "waiting"
    <3>1. sock'[p] = sock[p]
      BY <1>a, <1>1, <2>2
      DEF PartyStep, Stays, Notes, Recording, Returned, Hearing, Ending, Asking, Opening, Waits
    <3> QED BY <1>1, <3>1 DEF Waits
  <2>3. CASE sock'[p].state \notin {"none", "waiting", "TimeoutError"}
    BY <1>1, <2>3 DEF Concludes
  <2> QED BY <2>1, <2>2, <2>3
<1>2. RootIn(S \cup K)
  BY <1>a, <1>1 DEF RootIn
<1>3. LostIn(S \cup K)
  <2>1. ASSUME NEW p \in Party, NEW req \in Sent(p), Lost(p, req)
        PROVE  AidOf(req) \in S
    BY <1>a, <2>1, StaysLost, StaysSent DEF LostIn
  <2> QED BY <2>1 DEF LostIn
<1>4. Carries(S \cup K)
  <2> SUFFICES ASSUME NEW p \in Target, srv[p].pc = "await", Waits(p), AidOf(srv[p].cur) \in S \cup K
               PROVE  AidOf(sock[p].req) \in S \cup K
    BY DEF Carries
  <2>1. CASE ~Waits(p)' \/ sock'[p].req # sock[p].req
    BY <1>a, <1>1, <2>1
  <2>2. CASE Waits(p)' /\ sock'[p].req = sock[p].req
    <3>1. srv'[p].pc = "await" /\ srv'[p].cur = srv[p].cur
      BY <1>a, <2>2
      DEF PartyStep, Stays, Notes, Recording, Returned, Hearing, Ending, Asking, Opening, Waits
    <3>2. AidOf(srv[p].cur) \notin K
      <4>1. PICK c : c = srv[p].cur
        OBVIOUS
      <4>2. c \in Pending(p) /\ c \in Pending(p)'
        BY <3>1, <4>1, PendingIs, PendingIsNext DEF Busy
      <4>3. c \in Sent(c.from)
        BY <4>2, PendingWasSent
      <4>4. ASSUME NEW q \in Party, Concludes(q), AidOf(sock[q].req) = AidOf(c)
            PROVE  FALSE
        BY <4>2, <4>3, <4>4, AnsweredIsNotPending
      <4> QED BY <4>1, <4>4
    <3>3. AidOf(srv'[p].cur) \in S
      BY <3>1, <3>2
    <3> QED BY <2>2, <3>1, <3>3 DEF Carries
  <2> QED BY <2>1, <2>2
<1> QED BY <1>2, <1>3, <1>4

\* What was pending and still is stays accounted for.
LEMMA StaysAccounted ==
  ASSUME TaintInv, CallsInv', Tracks, phase' # "aborted", NEW t \in Target,
         NEW req \in Pending(t), req \in Pending(t)'
  PROVE  Accounted(AidOf(req))'
<1>a. CallsInv /\ phase # "aborted"
  BY DEF TaintInv, Tracks, Leaving
<1> SUFFICES ASSUME NEW S, RootIn(S)', LostIn(S)', Carries(S)'
             PROVE  AidOf(req) \in S
  <2>1. \A S : RootIn(S)' /\ LostIn(S)' /\ Carries(S)' => AidOf(req) \in S
    OBVIOUS
  <2> QED BY <2>1 DEF Accounted
<1>1. PICK K : K = {AidOf(sock[p].req) : p \in {q \in Party : Concludes(q)}}
  OBVIOUS
<1>2. RootIn(S \cup K) /\ LostIn(S \cup K) /\ Carries(S \cup K)
  BY <1>a, <1>1, ClosedBefore
<1>3. AidOf(req) \in S \cup K
  BY <1>a, <1>2 DEF TaintInv, Accounted
<1>4. ASSUME AidOf(req) \in K PROVE FALSE
  <2>1. PICK p \in Party : Concludes(p) /\ AidOf(sock[p].req) = AidOf(req)
    BY <1>1, <1>4
  <2>2. req \in Sent(req.from)
    BY <1>a, PendingWasSent
  <2> QED BY <1>a, <2>1, <2>2, AnsweredIsNotPending
<1> QED BY <1>3, <1>4

\* A pause that gets pending is the outstanding one of its sender: of the
\* harness, or of a worker whose own request is pending.
LEMMA GetsAccounted ==
  ASSUME TaintInv, CallsInv', Tracks, phase' # "aborted", NEW p \in Party, NEW req \in Command,
         Opening(p, req), sock'[p].state = "waiting"
  PROVE  Accounted(AidOf(req))'
<1>a. /\ CallsInv /\ TInv /\ (p \in Target <=> p # Controller)
      /\ sock'[p].req = req /\ req.op = "pause"
  BY PartiesAreDistinct, ConnectTells
  DEF TaintInv, CallsInv, ResponseInv, DeliveryInv, PauseInv, Party, Opening, Sending
<1> SUFFICES ASSUME NEW S, RootIn(S)', LostIn(S)', Carries(S)'
             PROVE  AidOf(req) \in S
  <2>1. \A S : RootIn(S)' /\ LostIn(S)' /\ Carries(S)' => AidOf(req) \in S
    OBVIOUS
  <2> QED BY <2>1 DEF Accounted
<1>0. Waits(p)'
  BY <1>a DEF Waits
<1>1. CASE p = Controller
  BY <1>0, <1>1, <1>a DEF RootIn
<1>2. CASE p \in Target
  <2>1. /\ srv[p].pc = "forward" /\ srv'[p].pc = "await" /\ srv'[p].cur = srv[p].cur
        /\ req.parent = AidOf(srv[p].cur)
    BY <1>2, <1>a DEF Opening, Sending
  <2>2. PICK c : c = srv[p].cur
    OBVIOUS
  <2>3. c \in Pending(p) /\ c \in Pending(p)'
    BY <1>2, <2>1, <2>2, PendingIs, PendingIsNext DEF Busy
  <2>4. Accounted(AidOf(c))'
    BY <1>2, <2>3, StaysAccounted
  <2>5. AidOf(c) \in S
    BY <2>4 DEF Accounted
  <2> QED BY <1>0, <1>2, <1>a, <2>1, <2>2, <2>5 DEF Carries
<1> QED BY <1>1, <1>2, <1>a

\* TaintInv is inductive.
LEMMA NextTaints ==
  ASSUME TaintInv, [Next]_vars
  PROVE  TaintInv' /\ Tracks
<1>1. CallsInv' /\ Tracks
  BY NextCallsInv DEF TaintInv
<1>2. ASSUME phase' # "aborted", NEW t \in Target, NEW req \in Pending(t)'
      PROVE  Accounted(AidOf(req))'
  <2>1. \/ req \in Pending(t)
        \/ \E p \in Party : Opening(p, req) /\ sock'[p].state = "waiting"
    BY <1>1, <1>2 DEF Tracks, PendingStep
  <2>2. req \in Command
    BY <1>1, PendingWasSentNext
  <2> QED BY <1>1, <1>2, <2>1, <2>2, StaysAccounted, GetsAccounted
<1> QED BY <1>1, <1>2 DEF TaintInv

\* At first nothing is pending.
LEMMA InitTaints == Init => TaintInv
<1> SUFFICES ASSUME Init PROVE TaintInv
  OBVIOUS
<1>1. \A t \in Target : Pending(t) = {}
  BY PendingIs DEF Init, Busy
<1> QED BY <1>1, InitCallsInv DEF TaintInv

\* Once the harness waits for nobody, what is pending descends from lost calls.
LEMMA PendingIsTainted ==
  ASSUME TaintInv, phase \notin {"dispatch", "aborted"}, NEW t \in Target, NEW req \in Pending(t)
  PROVE  Tainted(AidOf(req))
<1> SUFFICES ASSUME NEW S, LostIn(S), Descends(S)
             PROVE  AidOf(req) \in S
  BY DEF Tainted
<1>1. RootIn(S)
  BY DEF TaintInv, CallsInv, Dispatching, RootIn, Waits
<1>2. Carries(S)
  <2> SUFFICES ASSUME NEW p \in Target, srv[p].pc = "await", Waits(p), AidOf(srv[p].cur) \in S
               PROVE  AidOf(sock[p].req) \in S
    BY DEF Carries
  <2>1. p \in Party /\ CallsInv /\ TInv
    BY DEF Party, TaintInv, CallsInv, ResponseInv, DeliveryInv, PauseInv
  <2>2. sock[p].req \in Sends(log[p])
    BY <2>1, OutstandingWasSent, OwnIs DEF Waits, Sent
  <2>3. sock[p].req.parent = AidOf(srv[p].cur)
    BY <2>1 DEF CallsInv, Calls
  <2> QED BY <2>2, <2>3 DEF Descends
<1> QED BY <1>1, <1>2 DEF TaintInv, Accounted
-----------------------------------------------------------------------------
(* Reports of a pause, and the first sample.                               *)

\* The first sample of a target is still to come.
Unsampled(t) ==
  \/ phase \in {"start", "configure", "dispatch"}
  \/ phase = "before" /\ \E k \in DOMAIN Order : k >= idx /\ Order[k] = t

\* A pause reported with its command stopped the business, and unless it
\* descends from a lost call it came before the first sample.
Timely(t) ==
  \A i \in Paused(t) : log[t][i].aid # NoAid =>
    /\ biz[t].pc = "paused"
    /\ Tainted(log[t][i].aid) \/ Unsampled(t) \/ seen[t].before = biz[t].rows

\* What was delivered is the log, as far as it had got.
Snapped(t) ==
  \A i \in DOMAIN delivery[t] : i \in DOMAIN log[t] /\ delivery[t][i] = log[t][i]

CreditInv ==
  /\ TaintInv
  /\ phase # "aborted" => \A t \in Target : Timely(t)
  /\ \A t \in Target : Snapped(t)

\* The server reports the pause that it handles.
Reporting(t, i) ==
  /\ srv[t].pc = "waitStop" /\ UNCHANGED phase
  /\ log'[t][i].aid # NoAid =>
       biz'[t].pc = "paused" /\ log'[t][i].aid = AidOf(srv[t].cur)

\* A paused thread stays, a report is one of the pause being handled, a sample
\* sees all rows, and a snapshot is the whole log.
WatchStep(t) ==
  /\ biz[t].pc = "paused" => biz'[t].pc = "paused" /\ biz'[t].rows = biz[t].rows
  /\ \A i \in Paused(t)' : i \in Paused(t) \/ Reporting(t, i)
  /\ seen'[t].before \in {seen[t].before, biz'[t].rows}
  /\ Unsampled(t) /\ phase' # "aborted" => Unsampled(t)' \/ seen'[t].before = biz'[t].rows
  /\ delivery'[t] \in {delivery[t], log[t]}
-----------------------------------------------------------------------------
\* Until the samples begin they are still to come.
LEMMA AdvanceUnsampled ==
  ASSUME Advance, phase \in {"start", "configure", "dispatch"}, NEW t \in Target
  PROVE  Unsampled(t)'
<1>1. CASE phase' \in {"start", "configure", "dispatch"}
  BY <1>1 DEF Unsampled
<1>2. CASE phase' \notin {"start", "configure", "dispatch"}
  <2>1. phase' = "before" /\ idx' = 1
    BY <1>2 DEF Advance, NextPhase
  <2>2. \E k \in DOMAIN Order : k >= 1 /\ Order[k] = t
    BY OrderAssumption
  <2> QED BY <2>1, <2>2 DEF Unsampled
<1> QED BY <1>1, <1>2

\* Where none of this changes.
LEMMA FrameWatches ==
  ASSUME UNCHANGED <<phase, idx, seen, delivery>>, NEW t \in Target, UNCHANGED biz,
         Paused(t)' = Paused(t)
  PROVE  WatchStep(t)
BY DEF WatchStep, Unsampled

\* The harness.
LEMMA ControllerWatches ==
  ASSUME PauseInv, NEW t \in Target, ControllerStep(t), NEW u \in Target
  PROVE  WatchStep(u)
<1> USE DEF ctlVars
<1>a. TInv /\ idx \in Nat
  BY DEF PauseInv, TInv, TypeOK
<1>b. ASSUME UNCHANGED <<log, delivery, biz>>,
             seen'[u].before \in {seen[u].before, biz[u].rows},
             Unsampled(u) /\ phase' # "aborted" => Unsampled(u)' \/ seen'[u].before = biz[u].rows
      PROVE  WatchStep(u)
  BY <1>b DEF WatchStep, Paused
<1>1. CASE Spawn(t)
  <2>1. log[t] = <<>> /\ biz[t].pc = "off"
    BY <1>1, OrderAssumption DEF Spawn, PauseInv, Started, Quiet
  <2>2. /\ phase = "start" /\ Advance /\ UNCHANGED <<seen, delivery>>
        /\ log' = [log EXCEPT ![t] = <<[kind |-> "ready"]>>]
        /\ biz' = [biz EXCEPT ![t].pc = "wait", ![t].rows = 1]
    BY <1>1 DEF Spawn
  <2>3. Paused(u)' = Paused(u)
    <3>1. log'[t] = <<[kind |-> "ready"]>> /\ \A v \in Target \ {t} : log'[v] = log[v]
      BY <1>a, <2>2 DEF TInv, TypeOK
    <3>2. At(<<[kind |-> "ready"]>>, "native_paused") = {}
      BY DEF At
    <3>3. At(<<>>, "native_paused") = {}
      BY DEF At
    <3> QED BY <2>1, <3>1, <3>2, <3>3 DEF Paused
  <2>4. biz[u].pc = "paused" => biz'[u] = biz[u]
    BY <1>a, <2>1, <2>2 DEF TInv, TypeOK
  <2> QED BY <2>2, <2>3, <2>4, AdvanceUnsampled DEF WatchStep
<1>2. CASE Ask(t)
  BY <1>2, FrameWatches DEF Ask, Paused
<1>3. CASE Acknowledged(t)
  <2>1. phase \in {"configure", "snapshot", "cleanup"} /\ Advance /\ UNCHANGED <<log, delivery, biz>>
    BY <1>3 DEF Acknowledged, ControlOp
  <2>2. seen'[u].before = seen[u].before
    <3>1. \/ seen' = seen \/ seen' = [seen EXCEPT ![t].cleanup = "exited"]
      BY <1>3 DEF Acknowledged
    <3>2. seen[u] \in [before: Nat, after: Nat, cleanup: Cleanup]
      BY <1>a DEF TInv, TypeOK
    <3>3. seen'[u] = seen[u] \/ seen'[u] = [seen[u] EXCEPT !.cleanup = "exited"]
      BY <1>a, <3>1 DEF TInv, TypeOK
    <3> QED BY <3>2, <3>3
  <2>3. Unsampled(u) => Unsampled(u)'
    BY <2>1, AdvanceUnsampled DEF Unsampled
  <2> QED BY <1>b, <2>1, <2>2, <2>3
<1>4. CASE Dispatch(t)
  BY <1>4, FrameWatches DEF Dispatch, Paused
<1>5. CASE Dispatched
  <2>1. phase = "dispatch" /\ Advance /\ UNCHANGED <<log, delivery, biz, seen>>
    BY <1>5 DEF Dispatched
  <2>2. Unsampled(u)'
    BY <2>1, AdvanceUnsampled
  <2> QED BY <1>b, <2>1, <2>2
<1>6. CASE Sample(t)
  <2>1. /\ phase \in {"before", "after"} /\ t = Order[idx] /\ Advance
        /\ UNCHANGED <<log, delivery, biz>>
        /\ seen' = IF phase = "before" THEN [seen EXCEPT ![t].before = biz[t].rows]
                                       ELSE [seen EXCEPT ![t].after = biz[t].rows]
    BY <1>6 DEF Sample
  <2>2. /\ seen'[u].before \in {seen[u].before, biz[u].rows}
        /\ u = t /\ phase = "before" => seen'[u].before = biz[u].rows
    <3>1. CASE phase = "before"
      BY <1>a, <2>1, <3>1 DEF TInv, TypeOK
    <3>2. CASE phase # "before"
      BY <1>a, <2>1, <3>2 DEF TInv, TypeOK
    <3> QED BY <3>1, <3>2
  <2>3. ASSUME Unsampled(u), u # t
        PROVE  Unsampled(u)'
    <3>1. phase = "before"
      BY <2>1, <2>3 DEF Unsampled
    <3>2. PICK k \in DOMAIN Order : k >= idx /\ Order[k] = u
      BY <3>1, <2>3 DEF Unsampled
    <3>3. k >= idx + 1 /\ k <= Len(Order) /\ Len(Order) \in Nat /\ k \in Nat
      BY <1>a, <2>1, <2>3, <3>2, OrderAssumption
    <3>4. phase' = "before" /\ idx' = idx + 1
      BY <1>a, <2>1, <3>1, <3>3 DEF Advance
    <3> QED BY <3>2, <3>3, <3>4 DEF Unsampled
  <2>4. Unsampled(u) => phase = "before"
    BY <2>1 DEF Unsampled
  <2> QED BY <1>b, <2>1, <2>2, <2>3, <2>4
<1>7. CASE ForceKill(t)
  <2>1. /\ phase = "cleanup" /\ UNCHANGED <<log, delivery, biz>>
        /\ seen' = [seen EXCEPT ![t].cleanup = "killed"]
    BY <1>7 DEF ForceKill
  <2>2. seen'[u].before = seen[u].before
    BY <1>a, <2>1 DEF TInv, TypeOK
  <2>3. ~Unsampled(u)
    BY <2>1 DEF Unsampled
  <2> QED BY <1>b, <2>1, <2>2, <2>3
<1>8. CASE Abort
  BY <1>8, <1>b DEF Abort
<1> QED
  BY <1>1, <1>2, <1>3, <1>4, <1>5, <1>6, <1>7, <1>8 DEF ControllerStep, ControlFails

\* The accept loops.
LEMMA ServerWatches ==
  ASSUME TInv, NEW t \in Target, ServerStep(t), NEW u \in Target
  PROVE  WatchStep(u)
<1> USE DEF ctlVars
<1>a. /\ log[t] \in Seq(Event) /\ log[u] \in Seq(Event)
      /\ srv[t].pc \in Busy => srv[t].cur \in Command
  BY DEF TInv, TypeOK, CallInv
<1>b. ASSUME NEW e \in Event, e.kind # "native_paused", Emit(t, <<e>>)
      PROVE  Paused(u)' = Paused(u)
  BY <1>b, EmitKeepsPaused DEF Paused
<1>1. CASE Configure(t)
  <2>1. [kind |-> "configured"] \in Event /\ [kind |-> "configured"].kind # "native_paused"
    BY EventType
  <2>2. Emit(t, <<[kind |-> "configured"]>>)
    BY <1>1 DEF Configure
  <2>3. Paused(u)' = Paused(u)
    BY <1>b, <2>1, <2>2
  <2> QED BY <1>1, <2>3, FrameWatches DEF Configure
<1>2. CASE Snapshot(t)
  <2>1. /\ UNCHANGED <<phase, idx, seen, log, biz>>
        /\ delivery' = [delivery EXCEPT ![t] = log[t]] \/ delivery' = delivery
    BY <1>2 DEF Snapshot
  <2>2. delivery'[u] \in {delivery[u], log[u]}
    BY <2>1 DEF TInv, TypeOK
  <2> QED BY <2>1, <2>2 DEF WatchStep, Unsampled, Paused
<1>3. CASE Exit(t)
  BY <1>3, FrameWatches DEF Exit, Paused
<1>4. CASE ReceivePause(t)
  <2> DEFINE req == Head(queue[t])
             receipt == [kind |-> "receipt", req |-> req]
             refusal == [kind |-> "refused", aid |-> AidOf(req)]
  <2>1. /\ Emit(t, <<receipt>>) \/ Emit(t, <<receipt, refusal>>)
        /\ UNCHANGED <<phase, idx, seen, delivery>>
        /\ biz' = biz \/ biz' = [biz EXCEPT ![t].cancel = TRUE]
    BY <1>4 DEF ReceivePause
  <2>2. receipt \in Event /\ refusal \in Event
    <3>1. Head(queue[t]) \in Command
      BY <1>4, AcceptsType DEF ReceivePause
    <3> QED BY <3>1, EventType, AidType
  <2>3. receipt.kind # "native_paused" /\ refusal.kind # "native_paused"
    OBVIOUS
  <2>4. Paused(u)' = Paused(u)
    <3> HIDE DEF receipt, refusal
    <3>1. CASE Emit(t, <<receipt>>)
      BY <1>b, <2>2, <2>3, <3>1
    <3>2. CASE Emit(t, <<receipt, refusal>>)
      <4>1. log'[t] = log[t] \o <<receipt, refusal>> /\ \A v \in Target \ {t} : log'[v] = log[v]
        BY <3>2 DEF Emit, TInv, TypeOK
      <4>2. At(log[t] \o <<receipt, refusal>>, "native_paused") = At(log[t], "native_paused")
        BY <1>a, <2>2, <2>3, AtAppend2
      <4> QED BY <4>1, <4>2 DEF Paused
    <3> QED BY <2>1, <3>1, <3>2
  <2>5. biz'[u].pc = biz[u].pc /\ biz'[u].rows = biz[u].rows
    <3>1. biz[u] \in BizType /\ (biz'[u] = biz[u] \/ biz'[u] = [biz[u] EXCEPT !.cancel = TRUE])
      BY <2>1 DEF TInv, TypeOK
    <3> QED BY <3>1 DEF BizType
  <2> QED BY <2>1, <2>4, <2>5 DEF WatchStep, Unsampled
<1>5. CASE NativePaused(t)
  <2> DEFINE a == IF biz[t].pc = "paused" THEN AidOf(srv[t].cur) ELSE NoAid
             e == [kind |-> "native_paused", aid |-> a]
  <2>1. /\ srv[t].pc = "waitStop" /\ Emit(t, <<e>>)
        /\ UNCHANGED <<phase, idx, seen, delivery, biz>>
    BY <1>5 DEF NativePaused
  <2>2. e \in Event /\ e.kind = "native_paused" /\ e.aid = a
    <3>1. a \in Aid \cup {NoAid}
      BY <1>a, <2>1, AidType DEF Busy
    <3> HIDE DEF a
    <3> QED BY <3>1, EventType
  <2>3. a # NoAid => biz'[t].pc = "paused" /\ a = AidOf(srv[t].cur)
    BY <2>1
  <2> HIDE DEF e, a
  <2>4. log'[t] = log[t] \o <<e>> /\ \A v \in Target \ {t} : log'[v] = log[v]
    BY <2>1 DEF Emit, TInv, TypeOK
  <2>5. \A i \in Paused(t)' : i \in Paused(t) \/ Reporting(t, i)
    <3>1. At(log[t] \o <<e>>, "native_paused") = At(log[t], "native_paused") \cup {Len(log[t]) + 1}
      BY <1>a, <2>2, AtAppend
    <3>2. (log[t] \o <<e>>)[Len(log[t]) + 1] = e
      BY <1>a, <2>2, ReadAppend
    <3> QED BY <2>1, <2>2, <2>3, <2>4, <3>1, <3>2 DEF Paused, Reporting
  <2>6. \A i \in Paused(u)' : i \in Paused(u) \/ Reporting(u, i)
    BY <2>4, <2>5 DEF Paused
  <2> QED BY <2>1, <2>6 DEF WatchStep, Unsampled
<1>6. CASE Forward(t)
  <2>1. ForwardedCommand(t) \in Command
    <3>1. intent.kid[t] \in Target
      BY <1>6, CapturesAssumption DEF Forward, TInv, TypeOK, CallInv
    <3>2. AidOf(srv[t].cur) \in Aid
      BY <1>6, <1>a, AidType DEF Forward, Busy
    <3> QED BY <1>a, <3>1, <3>2 DEF ForwardedCommand, Command, Party
  <2> DEFINE e == [kind |-> "send", req |-> ForwardedCommand(t)]
  <2>2. e \in Event /\ e.kind # "native_paused" /\ Emit(t, <<e>>)
    BY <1>6, <2>1, EventType DEF Forward
  <2> HIDE DEF e
  <2>3. Paused(u)' = Paused(u)
    BY <1>b, <2>2
  <2> QED BY <1>6, <2>3, FrameWatches DEF Forward
<1>7. CASE Forwarded(t)
  <2>1. TransportEvent(t) \in Event /\ Emit(t, <<TransportEvent(t)>>)
    BY <1>7, TransportEventType DEF Forwarded, Party
  <2>2. TransportEvent(t).kind # "native_paused"
    BY DEF TransportEvent
  <2>3. Paused(u)' = Paused(u)
    BY <1>b, <2>1, <2>2
  <2> QED BY <1>7, <2>3, FrameWatches DEF Forwarded
<1>8. CASE SendReply(t)
  <2> DEFINE drop == t \in intent.drop /\ ~srv[t].dropped
             e == [kind |-> "reply", reply |-> ReplyOf(t), dropped |-> drop]
  <2>1. e \in Event /\ e.kind # "native_paused" /\ Emit(t, <<e>>)
    BY <1>8, ReplyType, EventType DEF SendReply, Busy
  <2> HIDE DEF e
  <2>2. Paused(u)' = Paused(u)
    BY <1>b, <2>1
  <2> QED BY <1>8, <2>2, FrameWatches DEF SendReply
<1> QED
  BY <1>1, <1>2, <1>3, <1>4, <1>5, <1>6, <1>7, <1>8 DEF ServerStep

\* Every step.
LEMMA NextWatches ==
  ASSUME PauseInv, [Next]_vars, NEW u \in Target
  PROVE  WatchStep(u)
<1> USE DEF ctlVars
<1>a. TInv
  BY DEF PauseInv
<1>1. CASE UNCHANGED <<phase, idx, seen, log, delivery, biz>>
  BY <1>1, FrameWatches DEF Paused
<1>2. ASSUME NEW t \in Target, BusinessStep(t) \/ BusinessFails(t)
      PROVE  WatchStep(u)
  <2>1. ASSUME NEW from \in {"wait", "write"}, NEW to, NEW rows, Business(t, from, to, rows)
        PROVE  /\ UNCHANGED <<phase, idx, seen, log, delivery>> /\ biz[t].pc # "paused"
               /\ \A v \in Target \ {t} : biz'[v] = biz[v]
    BY <2>1, <1>a DEF Business, TInv, TypeOK
  <2>2. /\ UNCHANGED <<phase, idx, seen, log, delivery>> /\ biz[t].pc # "paused"
        /\ \A v \in Target \ {t} : biz'[v] = biz[v]
    BY <1>2, <2>1 DEF BusinessStep, BusinessFails, BeginRow, WriteRow, Interrupt
  <2>3. biz[u].pc = "paused" => biz'[u] = biz[u]
    BY <2>2
  <2> QED BY <2>2, <2>3 DEF WatchStep, Unsampled, Paused
<1>3. CASE SpawnFails
  BY <1>3 DEF SpawnFails, Abort, WatchStep, Paused
<1>4. CASE \/ \E p \in Party : Expire(p)
           \/ \E t \in Target : PauseTimesOut(t)
  BY <1>4, <1>1 DEF Expire, PauseTimesOut
<1>5. CASE Terminated \/ UNCHANGED vars
  BY <1>5, <1>1 DEF Terminated, vars
<1> QED
  BY <1>a, <1>1, <1>2, <1>3, <1>4, <1>5, ControllerWatches, ServerWatches DEF Next, Environment

\* Reports stay timely.
LEMMA StaysTimely ==
  ASSUME CreditInv, Tracks, phase' # "aborted", NEW t \in Target, WatchStep(t)
  PROVE  Timely(t)'
<1>a. /\ TaintInv /\ CallsInv /\ TInv /\ phase # "aborted" /\ Timely(t)
      /\ t \in Party /\ Own(t) = log[t] /\ Own(t)' = log'[t]
  BY OwnIs DEF CreditInv, TaintInv, CallsInv, ResponseInv, DeliveryInv, PauseInv, Tracks, Leaving
<1> SUFFICES ASSUME NEW i \in Paused(t)', log'[t][i].aid # NoAid
             PROVE  /\ biz'[t].pc = "paused"
                    /\ \/ Tainted(log[t][i].aid)' \/ Unsampled(t)'
                       \/ seen'[t].before = biz'[t].rows
  BY DEF Timely
<1>1. PICK a : a = log'[t][i].aid
  OBVIOUS
<1>2. Tainted(a)' => Tainted(log[t][i].aid)'
  BY <1>1
<1>3. CASE i \in Paused(t)
  <2>1. log'[t][i] = log[t][i]
    BY <1>a, <1>3, Grows DEF Tracks, Paused, At
  <2>2. biz[t].pc = "paused" /\ (Tainted(a) \/ Unsampled(t) \/ seen[t].before = biz[t].rows)
    BY <1>a, <1>1, <1>3, <2>1 DEF Timely
  <2>3. biz'[t].pc = "paused" /\ biz'[t].rows = biz[t].rows
    BY <2>2 DEF WatchStep
  <2>4. CASE Tainted(a)
    BY <1>a, <1>2, <2>3, <2>4, StaysTainted
  <2>5. CASE Unsampled(t)
    BY <2>3, <2>5 DEF WatchStep
  <2>6. CASE seen[t].before = biz[t].rows
    BY <2>3, <2>6 DEF WatchStep
  <2> QED BY <2>2, <2>4, <2>5, <2>6
<1>4. CASE Reporting(t, i)
  <2>1. /\ srv[t].pc = "waitStop" /\ phase' = phase
        /\ biz'[t].pc = "paused" /\ a = AidOf(srv[t].cur)
    BY <1>1, <1>4 DEF Reporting
  <2>2. CASE phase \in {"start", "configure", "dispatch"}
    BY <2>1, <2>2 DEF Unsampled
  <2>3. CASE phase \notin {"start", "configure", "dispatch"}
    <3>1. srv[t].cur \in Pending(t)
      BY <2>1, PendingIs DEF Busy
    <3>2. Tainted(a)
      BY <1>a, <2>1, <2>3, <3>1, PendingIsTainted
    <3> QED BY <1>a, <1>2, <2>1, <3>2, StaysTainted
  <2> QED BY <2>2, <2>3
<1> QED BY <1>3, <1>4 DEF WatchStep

\* CreditInv is inductive.
LEMMA NextCredits ==
  ASSUME CreditInv, [Next]_vars
  PROVE  CreditInv'
<1>a. PauseInv /\ TInv
  BY DEF CreditInv, TaintInv, CallsInv, ResponseInv, DeliveryInv, PauseInv
<1>1. TaintInv' /\ Tracks
  BY NextTaints DEF CreditInv
<1>2. \A t \in Target : WatchStep(t)
  BY <1>a, NextWatches
<1>3. phase' # "aborted" => \A t \in Target : Timely(t)'
  BY <1>1, <1>2, StaysTimely
<1>4. ASSUME NEW t \in Target PROVE Snapped(t)'
  <2>1. \A i \in DOMAIN log[t] : i \in DOMAIN log'[t] /\ log'[t][i] = log[t][i]
    BY <1>a, <1>1, OwnIs, Grows DEF Tracks
  <2>2. delivery'[t] \in {delivery[t], log[t]} /\ Snapped(t)
    BY <1>2 DEF WatchStep, CreditInv
  <2> QED BY <2>1, <2>2 DEF Snapped
<1> QED BY <1>1, <1>3, <1>4 DEF CreditInv

\* At first nothing is reported and nothing delivered.
LEMMA InitCredits == Init => CreditInv
<1> SUFFICES ASSUME Init PROVE CreditInv
  OBVIOUS
<1>1. \A t \in Target : Timely(t) /\ Snapped(t)
  BY DEF Init, Timely, Snapped, Paused, At
<1> QED BY <1>1, InitTaints DEF CreditInv

\* The invariant of credit.
LEMMA CreditInvariant == Spec => []CreditInv
<1>1. CreditInv /\ [Next]_vars => CreditInv'
  BY NextCredits
<1> QED BY InitCredits, <1>1, PTL DEF Spec
-----------------------------------------------------------------------------
(* What an admitted report rules out.                                      *)

\* A receipt that was delivered is a send whose outcome its sender settled.
LEMMA AdmittedSettles ==
  ASSUME CreditInv, Admitted(Source), NEW u \in Target, NEW r \in Receipts(delivery[u])
  PROVE  /\ r \in Command /\ r.from \in Party /\ r \in Sent(r.from)
         /\ Settled(r.from, AidOf(r))
         /\ r.parent # NoAid =>
              \E c \in Receipts(delivery[r.from]) : AidOf(c) = r.parent
<1>a. /\ CallsInv /\ DeliveryInv /\ TInv
      /\ \A t \in Target : Snapped(t) /\ delivery[t] \in Seq(Event)
      /\ Source = [intent |-> intent, events |-> events, nodes |-> delivery, seen |-> seen]
  BY DEF CreditInv, TaintInv, CallsInv, ResponseInv, DeliveryInv, PauseInv, TInv, TypeOK, Source
<1>1. r \in Receipts(log[u]) /\ r \in Command
  <2>1. Receipts(delivery[u]) \subseteq Receipts(log[u])
    BY <1>a DEF Snapped, Receipts, At
  <2> QED BY <1>a, <2>1, ReceiptsType
<1>2. r.to = u /\ r.from \in Party /\ r \in Sent(r.from)
  BY <1>a, <1>1 DEF DeliveryInv, Received, Command
<1>3. PICK a \in Attempts(Source) : a.req = r
  BY <1>a DEF Admitted
<1>4. AttemptOk(Source, a)
  BY DEF Admitted
<1>5. ASSUME r.parent # NoAid
      PROVE  \E c \in Receipts(delivery[r.from]) : AidOf(c) = r.parent
  BY <1>a, <1>3, <1>4, <1>5 DEF AttemptOk
<1>6. a.outcome.status = "RESPONSE" \/ a.outcome.error = "EOFError"
  BY <1>a, <1>2, <1>3, <1>4 DEF AttemptOk, LossOk
<1> DEFINE Outcome(s) == \E i \in At(s, "send") : /\ s[i].req = r /\ i + 1 \in DOMAIN s
                                                /\ s[i + 1] = a.outcome
<1>7. Outcome(events) \/ \E q \in Target : Outcome(delivery[q])
  <2>1. CASE \E i \in At(events, "send") : a = [req |-> events[i].req, outcome |-> events[i + 1]]
    <3>1. PICK i \in At(events, "send") : a = [req |-> events[i].req, outcome |-> events[i + 1]]
      BY <2>1
    <3>2. i + 1 \in DOMAIN events
      <4> DEFINE n == Len(intent.roots)
      <4>1. /\ Len(events) = 2 * n
            /\ \A k \in DOMAIN intent.roots : events[2 * k].kind = "transport"
        BY <1>a DEF Admitted, DispatchOk
      <4>2. intent.roots \in Seq(Target) /\ n \in Nat /\ DOMAIN intent.roots = 1 .. n
        BY <1>a, CapturesAssumption DEF TInv, TypeOK
      <4>3. i \in 1 .. Len(events) /\ events[i].kind = "send" /\ Len(events) \in Nat
            /\ DOMAIN events = 1 .. Len(events)
        BY <1>a DEF At, TInv, TypeOK
      <4> HIDE DEF n
      <4>4. n \in DOMAIN intent.roots
        BY <4>1, <4>2, <4>3
      <4>5. i # Len(events)
        BY <4>1, <4>3, <4>4
      <4>6. \A m \in Nat : \A k \in 1 .. m : k # m => k + 1 \in 1 .. m
        OBVIOUS
      <4> QED BY <4>3, <4>5, <4>6
    <3> QED BY <1>3, <3>1, <3>2
  <2>2. CASE \E q \in Target : \E i \in At(delivery[q], "send") :
               a = [req |-> delivery[q][i].req, outcome |-> delivery[q][i + 1]]
    <3>0. PICK q \in Target : \E i \in At(delivery[q], "send") :
            a = [req |-> delivery[q][i].req, outcome |-> delivery[q][i + 1]]
      BY <2>2
    <3>1. PICK i \in At(delivery[q], "send") :
            a = [req |-> delivery[q][i].req, outcome |-> delivery[q][i + 1]]
      BY <3>0
    <3>2. i + 1 \in DOMAIN delivery[q]
      <4>1. NodeOk(intent, q, delivery[q])
        BY <1>a DEF Admitted
      <4>2. /\ i \in 1 .. Len(delivery[q]) /\ delivery[q][i].kind = "send"
            /\ Len(delivery[q]) \in Nat /\ DOMAIN delivery[q] = 1 .. Len(delivery[q])
        BY <1>a DEF At
      <4>3. i # Len(delivery[q])
        BY <4>1, <4>2 DEF NodeOk
      <4> QED BY <4>2, <4>3
    <3> QED BY <1>3, <3>1, <3>2
  <2>3. \/ \E i \in At(events, "send") : a = [req |-> events[i].req, outcome |-> events[i + 1]]
        \/ \E q \in Target : \E i \in At(delivery[q], "send") :
             a = [req |-> delivery[q][i].req, outcome |-> delivery[q][i + 1]]
    BY <1>a DEF Attempts, OutcomeOf
  <2> QED BY <2>1, <2>2, <2>3
<1>8. \E p \in Party : Outcome(Own(p))
  <2>1. ASSUME NEW q \in Target, Outcome(delivery[q])
        PROVE  Outcome(log[q])
    <3>1. \A i \in DOMAIN delivery[q] : i \in DOMAIN log[q] /\ delivery[q][i] = log[q][i]
      BY <1>a DEF Snapped
    <3> QED BY <2>1, <3>1 DEF At
  <2>2. CASE Outcome(events)
    <3>1. Own(Controller) = events /\ Controller \in Party
      BY <1>a, OwnIs
    <3> QED BY <2>2, <3>1
  <2>3. ASSUME NEW q \in Target, Outcome(delivery[q])
        PROVE  \E p \in Party : Outcome(Own(p))
    <3>1. Own(q) = log[q] /\ q \in Party
      BY <1>a, OwnIs
    <3>2. Outcome(log[q])
      BY <2>1, <2>3
    <3>3. Outcome(Own(q))
      BY <3>1, <3>2
    <3> HIDE DEF Outcome
    <3> QED BY <3>1, <3>3
  <2> QED BY <1>7, <2>2, <2>3
<1>9. PICK p \in Party : Outcome(Own(p))
  BY <1>8
<1>10. PICK i \in At(Own(p), "send") :
         Own(p)[i].req = r /\ i + 1 \in DOMAIN Own(p) /\ Own(p)[i + 1] = a.outcome
  BY <1>9
<1>11. r.from = p
  <2>1. r \in Sent(p)
    BY <1>10 DEF Sent, Sends
  <2> QED BY <1>a, <1>2, <2>1, AidsName
<1>12. Settled(p, AidOf(r))
  <2>1. /\ i # Len(Own(p)) /\ i + 1 \in DOMAIN Own(p)
    <3>1. Own(p) \in Seq(Event)
      BY <1>a, OwnIs
    <3> QED BY <1>10, <3>1
  <2>2. Own(p)[i + 1].kind = "transport" /\ Own(p)[i + 1].aid = AidOf(r)
    BY <1>a, <1>10, <2>1 DEF CallsInv, Outlined
  <2>3. i + 1 \in At(Own(p), "transport")
    BY <2>1, <2>2 DEF At
  <2>4. Own(p)[i + 1].error # "TimeoutError"
    BY <1>a, <1>6, <1>10, <2>3 DEF CallsInv, Outlined
  <2> QED BY <2>2, <2>3, <2>4 DEF Settled
<1> QED BY <1>1, <1>2, <1>5, <1>11, <1>12

\* So no delivered receipt is a lost call or descends from one.
LEMMA AdmittedIsClean ==
  ASSUME CreditInv, Admitted(Source), NEW t \in Target, NEW r \in Receipts(delivery[t])
  PROVE  ~Tainted(AidOf(r))
<1>a. DeliveryInv /\ TInv
  BY DEF CreditInv, TaintInv, CallsInv, ResponseInv, DeliveryInv, PauseInv
<1> DEFINE S == {a \in Aid : \A u \in Target : \A c \in Receipts(delivery[u]) : AidOf(c) # a}
<1>1. AidOf(r) \notin S
  OBVIOUS
<1>2. ASSUME NEW p \in Party, NEW req \in Sent(p), AidOf(req) \notin S
      PROVE  \E u \in Target : req \in Receipts(delivery[u])
  <2>1. req \in Command
    <3>1. Own(p) \in Seq(Event)
      BY <1>a, OwnIs
    <3>2. \A e \in Event : e.kind = "send" => e.req \in Command
      BY DEF Event
    <3> QED BY <3>1, <3>2 DEF Sent, Sends, At
  <2>2. PICK u \in Target : \E c \in Receipts(delivery[u]) : AidOf(c) = AidOf(req)
    BY <1>2, <2>1, AidType
  <2>2a. PICK c \in Receipts(delivery[u]) : AidOf(c) = AidOf(req)
    BY <2>2
  <2>3. c.from \in Party /\ c \in Sent(c.from)
    BY <2>2a, AdmittedSettles
  <2>4. c = req
    BY <1>a, <2>2a, <2>3, AidsName
  <2> QED BY <2>2a, <2>4
<1>3. LostIn(S)
  <2> SUFFICES ASSUME NEW p \in Party, NEW req \in Sent(p), Lost(p, req), AidOf(req) \notin S
               PROVE  FALSE
    BY DEF LostIn
  <2>1. PICK u \in Target : req \in Receipts(delivery[u])
    BY <1>2
  <2>2. Settled(req.from, AidOf(req)) /\ req.from \in Party /\ req \in Sent(req.from)
    BY <2>1, AdmittedSettles
  <2>3. req.from = p
    BY <1>a, <2>2, AidsName
  <2> QED BY <2>2, <2>3 DEF Lost
<1>4. Descends(S)
  <2> SUFFICES ASSUME NEW q \in Target, NEW req \in Sends(log[q]), req.parent \in S,
                      AidOf(req) \notin S
               PROVE  FALSE
    BY DEF Descends
  <2>1. q \in Party /\ req \in Sent(q)
    BY <1>a, OwnIs DEF Sent
  <2>2. PICK u \in Target : req \in Receipts(delivery[u])
    BY <1>2, <2>1
  <2>3. req.from = q
    BY <1>a, <2>1, <2>2, AdmittedSettles, AidsName
  <2>4. req.parent # NoAid
    <3>1. req.parent \in Aid
      OBVIOUS
    <3>2. \A x \in Aid : DOMAIN x = 1 .. 3
      BY DEF Aid
    <3>3. DOMAIN NoAid = 1 .. 0
      BY DEF NoAid
    <3> QED BY <3>1, <3>2, <3>3
  <2>5. \E c \in Receipts(delivery[q]) : AidOf(c) = req.parent
    BY <2>2, <2>3, <2>4, AdmittedSettles
  <2> QED BY <2>5
<1> HIDE DEF S
<1> QED BY <1>1, <1>3, <1>4 DEF Tainted

\* The report of a pause in an accepted log names a pause that was received.
LEMMA ReportNamesReceipt ==
  ASSUME NEW c, NEW t, NEW s \in Seq(Event), NodeOk(c, t, s), NEW i \in At(s, "native_paused")
  PROVE  \E r \in Receipts(s) : s[i].aid = AidOf(r)
<1>1. i \in 1 .. Len(s) /\ s[i].kind = "native_paused" /\ Len(s) \in Nat
  BY DEF At
<1>2. i \in 3 .. Len(s)
  BY <1>1 DEF NodeOk
<1>3. EventOk(c, t, s, i)
  BY <1>2 DEF NodeOk
<1> DEFINE active == {j \in {k \in At(s, "receipt") : k < i} :
                       \A k \in {l \in At(s, "reply") : l < i} : k < j}
           a == CHOOSE j \in active : TRUE
<1>4. active # {} /\ s[i].aid = AidOf(s[a].req)
  BY <1>1, <1>3 DEF EventOk
<1>5. a \in active
  BY <1>4
<1>6. s[a].req \in Receipts(s)
  BY <1>5 DEF Receipts
<1> QED BY <1>4, <1>6

\* A credited target really stopped, and before the first sample: the equal
\* counts of the two samples are its final count.  A pause that came too late
\* descends from a call whose outcome is lost, and evaluate admits no report
\* that delivers such a pause.
THEOREM CreditIsEarned == Spec => []CreditedTargetsAreSettled
<1>1. ASSUME CreditInv PROVE CreditedTargetsAreSettled
  <2> SUFFICES ASSUME phase = "done", Admitted(Source), NEW t \in Target, BoundedPause(Source, t)
               PROVE  biz[t].pc = "paused" /\ biz[t].rows = seen[t].before
    BY DEF CreditedTargetsAreSettled
  <2>1. /\ Source.nodes = delivery /\ Source.intent = intent
        /\ delivery[t] \in Seq(Event) /\ Snapped(t) /\ Timely(t)
    BY <1>1
    DEF CreditInv, TaintInv, CallsInv, ResponseInv, DeliveryInv, PauseInv, TInv, TypeOK, Source
  <2>2. PICK i : i \in At(delivery[t], "native_paused")
    <3>1. Execution(delivery[t]) = "PAUSED_REPORTED"
      BY <2>1 DEF BoundedPause
    <3> QED BY <3>1 DEF Execution
  <2>3. NodeOk(intent, t, delivery[t])
    BY <2>1 DEF Admitted
  <2>4. PICK r \in Receipts(delivery[t]) : delivery[t][i].aid = AidOf(r)
    BY <2>1, <2>2, <2>3, ReportNamesReceipt
  <2>5. i \in Paused(t) /\ log[t][i].aid = AidOf(r)
    BY <2>1, <2>2, <2>4 DEF Snapped, Paused, At
  <2>6. AidOf(r) # NoAid
    BY DEF AidOf, NoAid
  <2>7. ~Tainted(AidOf(r))
    BY <1>1, AdmittedIsClean
  <2>8. ~Unsampled(t)
    BY DEF Unsampled
  <2> QED BY <2>1, <2>5, <2>6, <2>7, <2>8 DEF Timely
<1> QED BY <1>1, CreditInvariant, PTL
-----------------------------------------------------------------------------
(***************************************************************************)
(* A finished capture is admitted exactly if no send of it expired, for    *)
(* every set of targets in any topology, every set of intents and every    *)
(* combination of faults.                                                  *)
(***************************************************************************)

Gone(t) == srv[t].pc \in {"dead", "exited"}

\* The phases before the snapshots are asked for.
EarlyPhases == {"start", "configure", "dispatch", "before", "after"}

\* The harness has been through the loop of phase ph for target t.
Rank == [start |-> 1, configure |-> 2, dispatch |-> 3, before |-> 4, after |-> 5,
           snapshot |-> 6, cleanup |-> 7, done |-> 8, aborted |-> 0]

Visited(ph, t) ==
  \/ Rank[phase] > Rank[ph]
  \/ phase = ph /\ \E k \in DOMAIN Order : k < idx /\ Order[k] = t

VisitsOK(t) ==
  /\ Visited("start", t) => biz[t].rows >= 1
  /\ Visited("before", t) => 1 <= seen[t].before /\ seen[t].before <= biz[t].rows
  /\ Visited("after", t) => seen[t].before <= seen[t].after
  /\ Visited("snapshot", t) => delivery[t] # <<>>
  /\ Visited("cleanup", t) => seen[t].cleanup \in {"exited", "killed"}

IndexOK ==
  /\ phase \in {"start", "configure", "before", "after", "snapshot", "cleanup"} => idx \in DOMAIN Order
  /\ phase = "dispatch" => idx \in DOMAIN intent.roots

\* The dispatches, each with its outcome.
RootSend(i) ==
  LET e == events[2 * i - 1] IN
  /\ e.kind = "send" /\ e.req.op = "pause" /\ e.req.to = intent.roots[i]
  /\ e.req.from = Controller /\ e.req.parent = NoAid

RootOutcome(i) ==
  events[2 * i].kind = "transport" /\ TransportOk(events[2 * i], events[2 * i - 1].req)

Roots(n) == /\ Len(events) = 2 * n
            /\ \A i \in 1 .. n : RootSend(i) /\ RootOutcome(i)

OpenRoots(n) == /\ Len(events) = 2 * n - 1 /\ RootSend(n)
                /\ \A i \in 1 .. (n - 1) : RootSend(i) /\ RootOutcome(i)
                /\ events[2 * n - 1].req = sock[Controller].req

EventsOK ==
  /\ phase \in {"start", "configure"} => events = <<>>
  /\ phase = "dispatch" => IF sock[Controller].state = "none" THEN Roots(idx - 1) ELSE OpenRoots(idx)
  /\ phase \in {"before", "after", "snapshot", "cleanup", "done"} => Roots(Len(intent.roots))

SnapOK ==
  /\ \A t \in Target :
       /\ delivery[t] # <<>> => NodeOk(intent, t, delivery[t]) /\ phase \notin EarlyPhases
       /\ \A k \in DOMAIN queue[t] : queue[t][k].op = "snapshot" => phase \notin EarlyPhases
       /\ sock[t].state # "none" /\ phase # "aborted" => srv[t].pc = "await"
  /\ sock[Controller].state = "reply" /\ sock[Controller].req.op = "snapshot"
        => delivery[sock[Controller].req.to] # <<>>
  /\ phase = "snapshot" /\ sock[Controller].state # "none"
        => sock[Controller].req.op = "snapshot" /\ sock[Controller].req.to = Order[idx]
  /\ phase \in {"start", "before", "after"} => sock[Controller].state = "none"

AnswersOK == \A p \in Party : sock[p].state # "reply" => sock[p].answer = NoReply

\* Sent after the sender's own snapshot.
Late(p, req) == p \in Target /\ delivery[p] # <<>> /\ req \notin Sends(delivery[p])

LateOK ==
  (\E p \in Party : \E req \in Sent(p) : Late(p, req)) =>
    \E p \in Party : \E req \in Sent(p) : Lost(p, req) /\ ~Late(p, req)

\* The request reached the backlog of its target.
Arrived(p, req) ==
  \/ sock[p].req = req /\ sock[p].state \in {"waiting", "reply", "TimeoutError"}
  \/ \E j \in At(Own(p), "transport") :
       /\ Own(p)[j].aid = AidOf(req)
       /\ Own(p)[j].status = "RESPONSE" \/ Own(p)[j].error = "TimeoutError"

Ahead(t, req) ==
  \E k \in DOMAIN queue[t] :
    queue[t][k] = req /\ \A l \in DOMAIN queue[t] : queue[t][l].op = "snapshot" => l > k

InTime(t, req) ==
  \/ req \in Receipts(delivery[t])
  \/ delivery[t] = <<>> /\ (Gone(t) \/ req \in Receipts(log[t]) \/ Ahead(t, req))

ReachOK ==
  \A p \in Party : \A req \in Sent(p) :
    Arrived(p, req) => Tainted(req.parent) \/ InTime(req.to, req)

Turn == {"receipt", "reply"}

AnswersReceipt(s, i) ==
  \E j \in At(s, "receipt") : /\ j < i /\ AidOf(s[j].req) = s[i].reply.aid
                              /\ \A k \in j + 1 .. i - 1 : s[k].kind \notin Turn

TurnsIn(s) == \A i \in At(s, "reply") : AnswersReceipt(s, i)

\* The last receipt, of this request, is not answered.
LastTurn(s, req) ==
  \E j \in At(s, "receipt") : /\ s[j].req = req
                              /\ \A k \in j + 1 .. Len(s) : s[k].kind \notin Turn

Replied(s, aid) == \E j \in At(s, "reply") : s[j].reply.aid = aid

Handled(t, req) == srv[t].pc \in Busy /\ srv[t].cur = req

\* Replies and receipts take turns; what was received is answered, being
\* handled, or lost with the process.
RepliesOK(t) ==
  /\ TurnsIn(log[t])
  /\ srv[t].pc \in Busy => LastTurn(log[t], srv[t].cur)
  /\ \A req \in Receipts(log[t]) : Replied(log[t], AidOf(req)) \/ Handled(t, req) \/ Gone(t)
  /\ \A req \in Receipts(delivery[t]) : Replied(delivery[t], AidOf(req))

\* Whoever waits for a pause waits for one that is pending.
WaitsOK ==
  phase # "aborted" =>
    \A p \in Party : Waits(p) => sock[p].req \in Pending(sock[p].req.to)

Failed(p, req, error) ==
  /\ error \in TransportErrors \ {"TimeoutError"}
  /\ \/ sock[p].req = req /\ sock[p].state = error
     \/ \E j \in At(Own(p), "transport") : Own(p)[j].aid = AidOf(req) /\ Own(p)[j].error = error

DroppedIn(s, aid) == \E j \in At(s, "reply") : s[j].reply.aid = aid /\ s[j].dropped

LossOK ==
  phase # "aborted" =>
  \A p \in Party : \A req \in Sent(p), error \in TransportErrors :
    Failed(p, req, error) =>
      \/ Tainted(req.parent)
      \/ delivery[req.to] = <<>> /\ Gone(req.to)
      \/ req \notin Receipts(log[req.to]) /\ req \notin Pending(req.to)
      \/ error = "EOFError" /\ DroppedIn(log[req.to], AidOf(req))

AdmitInv ==
  /\ IndexOK /\ EventsOK /\ SnapOK /\ AnswersOK /\ (phase # "aborted" => LateOK) /\ LossOK /\ WaitsOK
  /\ phase # "aborted" => ReachOK
  /\ \A t \in Target : RepliesOK(t) /\ (phase # "aborted" => VisitsOK(t))

-----------------------------------------------------------------------------
\* What the invariant of credit rests on.
LEMMA CreditBase ==
  ASSUME CreditInv
  PROVE  /\ TInv /\ PauseInv /\ DeliveryInv /\ ResponseInv /\ CallsInv /\ TaintInv
         /\ \A t \in Target : log[t] \in Seq(Event) /\ delivery[t] \in Seq(Event)
                              /\ queue[t] \in Seq(Command) /\ Snapped(t)
         /\ events \in Seq(Event)
BY DEF CreditInv, TaintInv, CallsInv, ResponseInv, DeliveryInv, PauseInv, TInv, TypeOK

\* The same after the step.
LEMMA CreditBaseNext ==
  ASSUME CreditInv'
  PROVE  /\ TInv' /\ PauseInv' /\ DeliveryInv' /\ ResponseInv' /\ CallsInv' /\ TaintInv'
         /\ \A t \in Target : log'[t] \in Seq(Event) /\ delivery'[t] \in Seq(Event)
                              /\ queue'[t] \in Seq(Command) /\ Snapped(t)'
         /\ events' \in Seq(Event)
BY DEF CreditInv, TaintInv, CallsInv, ResponseInv, DeliveryInv, PauseInv, TInv, TypeOK

-----------------------------------------------------------------------------
(* The loops of the harness.                                               *)

\* The harness stands still, fails, or is done with the target it stands at.
HarnessStep ==
  \/ phase' = "aborted"
  \/ UNCHANGED <<phase, idx, seen>>
  \/ phase = "dispatch" /\ Advance /\ UNCHANGED seen
  \/ /\ phase \in DOMAIN NextPhase \ {"dispatch"} /\ Advance
     /\ \A u \in Target \ {Order[idx]} : seen'[u] = seen[u]
     /\ phase # "before" => seen'[Order[idx]].before = seen[Order[idx]].before
     /\ phase # "after" => seen'[Order[idx]].after = seen[Order[idx]].after
     /\ phase # "cleanup" => seen'[Order[idx]].cleanup = seen[Order[idx]].cleanup
     /\ phase = "start" => biz'[Order[idx]].rows >= 1
     /\ phase = "before" => seen'[Order[idx]].before = biz[Order[idx]].rows
     /\ phase = "after" => seen'[Order[idx]].after = biz[Order[idx]].rows
     /\ phase = "snapshot" => delivery[Order[idx]] # <<>>
     /\ phase = "cleanup" => seen'[Order[idx]].cleanup \in {"exited", "killed"}

\* What the harness may do to its places: none is left but for a next one.
LEMMA AdvanceVisits ==
  ASSUME TInv, IndexOK, phase \in DOMAIN NextPhase, Advance, NEW u \in Target,
         NEW ph \in DOMAIN NextPhase \ {"dispatch"}, Visited(ph, u)'
  PROVE  Visited(ph, u) \/ (phase = ph /\ idx \in DOMAIN Order /\ u = Order[idx])
<1>1. Order \in Seq(Target) /\ Len(Order) \in Nat /\ DOMAIN Order = 1 .. Len(Order)
  BY OrderAssumption
<1>2. DOMAIN NextPhase = {"start", "configure", "dispatch", "before", "after", "snapshot", "cleanup"}
  BY DEF NextPhase
<1>3. idx \in Nat
  BY DEF TInv, TypeOK
<1>4. CASE phase = "dispatch"
  BY <1>1, <1>2, <1>3, <1>4 DEF Visited, Advance, NextPhase, Rank
<1>5. CASE phase # "dispatch" /\ idx < Len(Order)
  <2>1. phase' = phase /\ idx' = idx + 1
    BY <1>5 DEF Advance
  <2>2. CASE phase = ph
    <3>1. PICK k \in DOMAIN Order : k < idx + 1 /\ Order[k] = u
      BY <1>2, <2>1, <2>2 DEF Visited, Rank
    <3>2. k < idx \/ k = idx
      BY <1>1, <1>3, <3>1
    <3> QED BY <2>2, <3>1, <3>2 DEF Visited
  <2>3. CASE phase # ph
    BY <2>1, <2>3 DEF Visited
  <2> QED BY <2>2, <2>3
<1>6. CASE phase # "dispatch" /\ ~(idx < Len(Order))
  <2>1. phase' = NextPhase[phase] /\ idx' = 1
    BY <1>6 DEF Advance
  <2>2. idx \in DOMAIN Order /\ idx = Len(Order)
    <3>1. phase \in {"start", "configure", "before", "after", "snapshot", "cleanup"}
      BY <1>2, <1>6
    <3>2. idx \in DOMAIN Order
      BY <3>1 DEF IndexOK
    <3> QED BY <1>1, <1>6, <3>2
  <2>3. \A k \in DOMAIN Order : ~(k < 1)
    BY <1>1
  <2>4. CASE phase = ph
    <3>1. PICK k \in DOMAIN Order : Order[k] = u
      BY OrderAssumption
    <3>2. k < idx \/ k = idx
      BY <1>1, <1>3, <2>2, <3>1
    <3> QED BY <2>2, <2>4, <3>1, <3>2 DEF Visited
  <2>5. CASE phase # ph
    <3>1. Rank[phase'] > Rank[ph]
      BY <2>1, <2>3 DEF Visited
    <3>2. Rank[phase] > Rank[ph]
      BY <1>2, <2>1, <2>5, <3>1 DEF NextPhase, Rank
    <3> QED BY <3>2 DEF Visited
  <2> QED BY <2>4, <2>5
<1> QED BY <1>4, <1>5, <1>6

\* IndexOK is kept.
LEMMA IndexKept ==
  ASSUME TInv, IndexOK, UNCHANGED intent,
         \/ UNCHANGED <<phase, idx>> \/ phase' = "aborted"
         \/ phase \in DOMAIN NextPhase /\ Advance
  PROVE  IndexOK'
<1>1. /\ Order \in Seq(Target) /\ Len(Order) \in Nat \ {0} /\ DOMAIN Order = 1 .. Len(Order)
  BY OrderAssumption
<1>2. /\ Len(intent.roots) \in Nat \ {0} /\ DOMAIN intent.roots = 1 .. Len(intent.roots)
  BY CapturesAssumption DEF TInv, TypeOK
<1>3. DOMAIN NextPhase = {"start", "configure", "dispatch", "before", "after", "snapshot", "cleanup"}
  BY DEF NextPhase
<1>4. CASE UNCHANGED <<phase, idx>> \/ phase' = "aborted"
  BY <1>4 DEF IndexOK
<1>5. CASE phase \in DOMAIN NextPhase /\ Advance
  <2>1. idx \in Nat /\ idx >= 1
    BY <1>1, <1>2, <1>3, <1>5 DEF IndexOK
  <2>2. CASE phase = "dispatch"
    BY <1>1, <1>2, <1>3, <1>5, <2>1, <2>2 DEF IndexOK, Advance, NextPhase
  <2>3. CASE phase # "dispatch"
    BY <1>1, <1>2, <1>3, <1>5, <2>1, <2>3 DEF IndexOK, Advance, NextPhase
  <2> QED BY <2>2, <2>3
<1> QED BY <1>4, <1>5

\* VisitsOK is kept.
LEMMA VisitsKept ==
  ASSUME TInv, TInv', IndexOK, HarnessStep, phase' # "aborted", NEW t \in Target, VisitsOK(t),
         biz'[t].rows >= biz[t].rows, delivery[t] # <<>> => delivery'[t] # <<>>
  PROVE  VisitsOK(t)'
<1>1. /\ biz[t].rows \in Nat /\ biz'[t].rows \in Nat
      /\ seen[t].before \in Nat /\ seen[t].after \in Nat
      /\ seen'[t].before \in Nat /\ seen'[t].after \in Nat
  BY DEF TInv, TypeOK, BizType
<1>2. CASE UNCHANGED <<phase, idx, seen>> \/ (phase = "dispatch" /\ Advance /\ UNCHANGED seen)
  <2>1. ASSUME NEW ph \in DOMAIN NextPhase \ {"dispatch"}, Visited(ph, t)'
        PROVE  Visited(ph, t)
    <3>1. CASE UNCHANGED <<phase, idx, seen>>
      BY <2>1, <3>1 DEF Visited
    <3>2. CASE phase = "dispatch" /\ Advance
      <4>1. phase \in DOMAIN NextPhase
        BY <3>2 DEF NextPhase
      <4> QED BY <2>1, <3>2, <4>1, AdvanceVisits
    <3> QED BY <1>2, <3>1, <3>2
  <2>2. seen' = seen
    BY <1>2
  <2>3. {"start", "before", "after", "snapshot", "cleanup"} \subseteq DOMAIN NextPhase \ {"dispatch"}
    BY DEF NextPhase
  <2> QED BY <1>1, <2>1, <2>2, <2>3 DEF VisitsOK
<1>3. CASE HarnessStep /\ phase \in DOMAIN NextPhase \ {"dispatch"} /\ Advance
           /\ ~UNCHANGED <<phase, idx, seen>>
  <2>1. ASSUME NEW ph \in DOMAIN NextPhase \ {"dispatch"}, Visited(ph, t)'
        PROVE  Visited(ph, t) \/ (phase = ph /\ idx \in DOMAIN Order /\ t = Order[idx])
    BY <1>3, <2>1, AdvanceVisits
  <2>2. {"start", "before", "after", "snapshot", "cleanup"} \subseteq DOMAIN NextPhase \ {"dispatch"}
    BY DEF NextPhase
  <2>3. /\ t # Order[idx] => seen'[t] = seen[t]
        /\ phase # "before" => seen'[t].before = seen[t].before
        /\ phase # "after" => seen'[t].after = seen[t].after
        /\ phase # "cleanup" => seen'[t].cleanup = seen[t].cleanup
    BY <1>3 DEF HarnessStep
  <2>4. t = Order[idx] =>
          /\ phase = "start" => biz'[t].rows >= 1
          /\ phase = "before" => seen'[t].before = biz[t].rows
          /\ phase = "after" => seen'[t].after = biz[t].rows
          /\ phase = "snapshot" => delivery[t] # <<>>
          /\ phase = "cleanup" => seen'[t].cleanup \in {"exited", "killed"}
    BY <1>3 DEF HarnessStep
  <2>5. Visited("start", t)' => biz'[t].rows >= 1
    BY <1>1, <2>1, <2>2, <2>4 DEF VisitsOK
  <2>6. Visited("before", t)' => 1 <= seen'[t].before /\ seen'[t].before <= biz'[t].rows
    <3>1. phase = "before" => Visited("start", t)
      BY DEF Visited, Rank
    <3> QED BY <1>1, <2>1, <2>2, <2>3, <2>4, <3>1 DEF VisitsOK
  <2>7. Visited("after", t)' => seen'[t].before <= seen'[t].after
    <3>1. phase = "after" => Visited("before", t)
      BY DEF Visited, Rank
    <3>2. phase = "before" => ~Visited("after", t)'
      <4>1. phase = "before" => ~Visited("after", t)
        BY DEF Visited, Rank
      <4> QED BY <2>1, <2>2, <4>1
    <3> QED BY <1>1, <2>1, <2>2, <2>3, <2>4, <3>1, <3>2 DEF VisitsOK
  <2>8. Visited("snapshot", t)' => delivery'[t] # <<>>
    BY <2>1, <2>2, <2>4 DEF VisitsOK
  <2>9. Visited("cleanup", t)' => seen'[t].cleanup \in {"exited", "killed"}
    <3>1. CASE t = Order[idx] /\ phase = "cleanup"
      BY <2>4, <3>1
    <3>2. CASE ~(t = Order[idx] /\ phase = "cleanup")
      BY <2>1, <2>2, <2>3, <3>2 DEF VisitsOK
    <3> QED BY <3>1, <3>2
  <2> QED BY <2>5, <2>6, <2>7, <2>8, <2>9 DEF VisitsOK
<1> QED BY <1>2, <1>3 DEF HarnessStep

\* Each action is such a step.
LEMMA NextHarness ==
  ASSUME CreditInv, SnapOK, [Next]_vars
  PROVE  /\ HarnessStep
         /\ UNCHANGED intent
         /\ UNCHANGED <<phase, idx>> \/ phase' = "aborted" \/ (phase \in DOMAIN NextPhase /\ Advance)
         /\ \A u \in Target : biz'[u].rows >= biz[u].rows
<1>a. /\ TInv
      /\ phase \in PhaseType /\ idx \in Nat /\ biz \in [Target -> BizType]
      /\ seen \in [Target -> [before : Nat, after : Nat, cleanup : Cleanup]]
  BY DEF CreditInv, TaintInv, CallsInv, ResponseInv, DeliveryInv, PauseInv, TInv, TypeOK
<1>b. DOMAIN NextPhase = {"start", "configure", "dispatch", "before", "after", "snapshot", "cleanup"}
  BY DEF NextPhase
<1>c. \A u \in Target : biz[u].rows \in Nat
  BY <1>a DEF BizType
<1>d. ASSUME UNCHANGED biz PROVE \A u \in Target : biz'[u].rows >= biz[u].rows
  BY <1>c, <1>d
<1> DEFINE Fine == /\ HarnessStep
                   /\ UNCHANGED <<phase, idx>> \/ phase' = "aborted" \/ (phase \in DOMAIN NextPhase /\ Advance)
                   /\ \A u \in Target : biz'[u].rows >= biz[u].rows
<1>e. UNCHANGED intent
  BY DEF Next, vars
<1>1. ASSUME NEW t \in Target, ControllerStep(t) PROVE Fine
  <2>1. CASE Spawn(t)
    <3>1. biz'[t].rows = 1 /\ \A u \in Target \ {t} : biz'[u] = biz[u]
      BY <1>a, <2>1 DEF Spawn, BizType
    <3>2. srv[t].pc = "down" /\ biz[t].rows = 0
      <4>1. Quiet(t) /\ Started
        BY DEF CreditInv, TaintInv, CallsInv, ResponseInv, DeliveryInv, PauseInv
      <4>2. idx \in DOMAIN Order
        BY <2>1, <4>1 DEF Spawn, Started
      <4>3. DOMAIN Order \subseteq Nat
        BY OrderAssumption
      <4> QED BY <2>1, <1>a, <4>1, <4>2, <4>3 DEF Spawn, Started, Quiet
    <3>3. \A u \in Target : biz'[u].rows >= biz[u].rows
      BY <1>c, <3>1, <3>2
    <3>4. phase = "start" /\ t = Order[idx] /\ seen' = seen /\ Advance /\ biz'[t].rows >= 1
      BY <2>1, <3>1 DEF Spawn
    <3>5. HarnessStep
      BY <1>b, <3>4 DEF HarnessStep
    <3> QED BY <1>b, <3>3, <3>4, <3>5
  <2>2. CASE Ask(t)
    BY <1>d, <2>2 DEF Ask, ctlVars, HarnessStep
  <2>3. CASE Acknowledged(t)
    <3>1. phase \in {"configure", "snapshot", "cleanup"}
      BY <2>3 DEF Acknowledged, ControlOp
    <3>2. phase = "snapshot" => delivery[t] # <<>>
      BY <2>3 DEF Acknowledged, SnapOK
    <3>3. CASE phase = "cleanup"
      <4>1. /\ seen'[t].cleanup = "exited" /\ seen'[t].before = seen[t].before
            /\ seen'[t].after = seen[t].after
            /\ \A u \in Target \ {t} : seen'[u] = seen[u]
        BY <1>a, <2>3, <3>3 DEF Acknowledged
      <4> QED BY <1>b, <1>d, <2>3, <3>3, <4>1 DEF Acknowledged, HarnessStep
    <3>4. CASE phase # "cleanup"
      <4>1. seen' = seen
        BY <2>3, <3>4 DEF Acknowledged
      <4> QED BY <1>b, <1>d, <2>3, <3>1, <3>2, <3>4, <4>1 DEF Acknowledged, HarnessStep
    <3> QED BY <3>3, <3>4
  <2>4. CASE Dispatch(t)
    BY <1>d, <2>4 DEF Dispatch, HarnessStep
  <2>5. CASE Dispatched
    BY <1>b, <1>d, <2>5 DEF Dispatched, HarnessStep
  <2>6. CASE Sample(t)
    <3>1. CASE phase = "before"
      <4>1. /\ seen'[t].before = biz[t].rows /\ seen'[t].cleanup = seen[t].cleanup
            /\ seen'[t].after = seen[t].after
            /\ \A u \in Target \ {t} : seen'[u] = seen[u]
        BY <1>a, <2>6, <3>1 DEF Sample
      <4> QED BY <1>b, <1>d, <2>6, <3>1, <4>1 DEF Sample, HarnessStep
    <3>2. CASE phase = "after"
      <4>1. /\ seen'[t].after = biz[t].rows /\ seen'[t].cleanup = seen[t].cleanup
            /\ seen'[t].before = seen[t].before
            /\ \A u \in Target \ {t} : seen'[u] = seen[u]
        BY <1>a, <2>6, <3>2 DEF Sample
      <4> QED BY <1>b, <1>d, <2>6, <3>2, <4>1 DEF Sample, HarnessStep
    <3> QED BY <2>6, <3>1, <3>2 DEF Sample
  <2>7. CASE ForceKill(t)
    <3>1. phase = "cleanup"
      BY <2>7 DEF ForceKill
    <3>2. /\ seen'[t].cleanup = "killed" /\ seen'[t].before = seen[t].before
          /\ seen'[t].after = seen[t].after
          /\ \A u \in Target \ {t} : seen'[u] = seen[u]
      BY <1>a, <2>7 DEF ForceKill
    <3> QED BY <1>b, <1>d, <2>7, <3>1, <3>2 DEF ForceKill, HarnessStep
  <2>8. CASE ControlFails
    BY <1>d, <2>8 DEF ControlFails, Abort, HarnessStep
  <2> QED BY <1>1, <2>1, <2>2, <2>3, <2>4, <2>5, <2>6, <2>7, <2>8 DEF ControllerStep
<1>2. ASSUME UNCHANGED <<ctlVars>>, UNCHANGED biz PROVE Fine
  BY <1>2, <1>d DEF ctlVars, HarnessStep
<1>3. ASSUME NEW t \in Target, ServerStep(t) PROVE Fine
  <2>1. CASE ReceivePause(t)
    <3>1. \A u \in Target : biz'[u].rows = biz[u].rows
      BY <1>a, <2>1 DEF ReceivePause, BizType
    <3> QED BY <1>c, <2>1, <3>1 DEF ReceivePause, ctlVars, HarnessStep
  <2>2. CASE ~ReceivePause(t)
    <3>1. UNCHANGED ctlVars /\ UNCHANGED biz
      BY <1>3, <2>2 DEF ServerStep, Configure, Snapshot, Exit, NativePaused, Forward, Forwarded,
                        SendReply
    <3> QED BY <1>2, <3>1
  <2> QED BY <2>1, <2>2
<1>4. ASSUME NEW t \in Target, BusinessStep(t) \/ BusinessFails(t) PROVE Fine
  <2>1. UNCHANGED ctlVars
    BY <1>4 DEF BusinessStep, BusinessFails, BeginRow, WriteRow, Interrupt, Business
  <2>2. PICK rows \in Nat, from \in {"wait", "write"}, to \in {"wait", "write", "paused", "failed"} :
          Business(t, from, to, rows) /\ rows >= biz[t].rows
    BY <1>4, <1>c DEF BusinessStep, BusinessFails, BeginRow, WriteRow, Interrupt
  <2>3. \A u \in Target : biz'[u].rows >= biz[u].rows
    BY <1>a, <1>c, <2>2 DEF Business, BizType
  <2> QED BY <2>1, <2>3 DEF ctlVars, HarnessStep
<1>5. ASSUME Environment PROVE Fine
  <2>1. CASE SpawnFails
    BY <1>d, <2>1 DEF SpawnFails, Abort, HarnessStep
  <2>2. CASE \E p \in Party : Expire(p)
    <3>1. UNCHANGED ctlVars /\ UNCHANGED biz
      BY <2>2 DEF Expire
    <3> QED BY <1>2, <3>1
  <2>3. CASE \E t \in Target : PauseTimesOut(t)
    <3>1. UNCHANGED ctlVars /\ UNCHANGED biz
      BY <2>3 DEF PauseTimesOut
    <3> QED BY <1>2, <3>1
  <2>4. CASE \E t \in Target : BusinessFails(t)
    BY <1>4, <2>4
  <2> QED BY <1>5, <2>1, <2>2, <2>3, <2>4 DEF Environment
<1>6. ASSUME UNCHANGED vars \/ Terminated PROVE Fine
  <2>1. UNCHANGED ctlVars /\ UNCHANGED biz
    BY <1>6 DEF vars, ctlVars, Terminated
  <2> QED BY <1>2, <2>1
<1>7. Fine
  <2> HIDE DEF Fine
  <2> QED BY <1>1, <1>3, <1>4, <1>5, <1>6 DEF Next
<1> QED BY <1>7, <1>e

-----------------------------------------------------------------------------
(* Backlogs, snapshots and the calls of the harness.                       *)

\* A snapshot takes the log as it is, which the worker's own projection accepts.
Snaps(t) ==
  /\ queue[t] # <<>> /\ Head(queue[t]).op = "snapshot" /\ queue'[t] = Tail(queue[t])
  /\ delivery'[t] = log[t] /\ log'[t] = log[t] /\ NodeOk(intent, t, log[t])
  /\ srv[t].pc = "idle" /\ srv'[t].pc = "idle"

\* A backlog stays, ends with its server, gets a request or loses its oldest,
\* which, if it is a pause, is received.
QueueStep(t) ==
  /\ Gone(t) => Gone(t)'
  /\ \/ Snaps(t)
     \/ /\ delivery'[t] = delivery[t]
        /\ \/ queue'[t] = queue[t]
           \/ queue'[t] = <<>> /\ Gone(t)'
           \/ \E x \in Command : /\ queue'[t] = Append(queue[t], x)
                                 /\ x.op = "snapshot" => phase \notin EarlyPhases
           \/ /\ queue[t] # <<>> /\ queue'[t] = Tail(queue[t])
              /\ Head(queue[t]).op # "snapshot"
              /\ Head(queue[t]).op = "pause" => Head(queue[t]) \in Receipts(log'[t])

\* Where nothing is taken from the backlog of u.
LEMMA QueueFrame ==
  ASSUME NEW u \in Target, delivery'[u] = delivery[u], queue'[u] = queue[u],
         srv'[u].pc = srv[u].pc \/ Gone(u)' \/ (~Gone(u) /\ ~Gone(u)')
  PROVE  QueueStep(u)
BY DEF QueueStep, Gone

\* Where a process ends.
LEMMA QueueEnds ==
  ASSUME TInv, NEW t \in Target, NEW pc \in {"dead", "exited"}, NEW served, NEW state,
         EndProcess(t, pc, served, state), UNCHANGED delivery, NEW u \in Target
  PROVE  QueueStep(u)
<1>1. /\ srv'[t].pc = pc /\ queue'[t] = <<>>
      /\ \A v \in Target \ {t} : srv'[v] = srv[v] /\ queue'[v] = queue[v]
  BY EndTells
<1>2. CASE u = t
  BY <1>1, <1>2 DEF QueueStep, Gone
<1>3. CASE u # t
  BY <1>1, <1>3, QueueFrame
<1> QED BY <1>2, <1>3

\* Where a request is sent.
LEMMA QueueGets ==
  ASSUME TInv, NEW p \in Party, NEW req \in Command, Connect(p, req), UNCHANGED delivery,
         req.op = "snapshot" => phase \notin EarlyPhases, NEW u \in Target,
         Gone(u) => Gone(u)'
  PROVE  QueueStep(u)
<1>1. queue'[u] = queue[u] \/ queue'[u] = Append(queue[u], req)
  BY ConnectTells
<1> QED BY <1>1 DEF QueueStep

\* Where the oldest request of t is taken, other than by a snapshot.
LEMMA QueueTakes ==
  ASSUME TInv, NEW t \in Target, queue[t] # <<>>, queue' = [queue EXCEPT ![t] = Tail(@)],
         UNCHANGED delivery, Head(queue[t]).op # "snapshot",
         Head(queue[t]).op = "pause" => Head(queue[t]) \in Receipts(log'[t]),
         srv[t].pc = "idle", \A v \in Target \ {t} : srv'[v] = srv[v], NEW u \in Target
  PROVE  QueueStep(u)
<1>1. queue \in [Target -> Seq(Command)]
  BY DEF TInv, TypeOK
<1>2. CASE u = t
  BY <1>1, <1>2 DEF QueueStep, Gone
<1>3. CASE u # t
  <2>1. queue'[u] = queue[u] /\ srv'[u] = srv[u] /\ delivery'[u] = delivery[u]
    BY <1>1, <1>3
  <2> QED BY <2>1, QueueFrame
<1> QED BY <1>2, <1>3

\* The harness.
LEMMA ControllerQueues ==
  ASSUME TInv, NEW t \in Target, ControllerStep(t), PauseInv, NEW u \in Target
  PROVE  QueueStep(u)
<1>a. srv \in [Target -> SrvType]
  BY DEF TInv, TypeOK
<1>1. CASE Spawn(t)
  <2>1. ~Gone(t)
    <3>1. srv[t].pc = "down"
      <4>1. Started
        BY DEF PauseInv
      <4>2. idx \in DOMAIN Order
        BY <1>1, <4>1 DEF Spawn, Started
      <4>3. DOMAIN Order \subseteq Nat
        BY OrderAssumption
      <4> QED BY <1>1, <4>1, <4>2, <4>3 DEF Spawn, Started
    <3> QED BY <3>1 DEF Gone
  <2>2. Gone(u) => Gone(u)'
    BY <1>a, <1>1, <2>1 DEF Spawn, Gone
  <2> QED BY <1>1, <2>2 DEF Spawn, QueueStep
<1>2. CASE Ask(t)
  <2> DEFINE req == [op |-> ControlOp(t), from |-> Controller, to |-> t, n |-> 0, parent |-> NoAid]
  <2>1. ControlOp(t) \in {"configure", "snapshot", "exit"}
    BY <1>2 DEF Ask, ControlOp
  <2>2. req \in Command
    BY <2>1 DEF Command, Party
  <2>3. req.op = "snapshot" => phase \notin EarlyPhases
    BY DEF ControlOp, EarlyPhases
  <2>4. Connect(Controller, req) /\ UNCHANGED delivery /\ UNCHANGED srv
    BY <1>2 DEF Ask
  <2>5. Controller \in Party
    BY DEF Party
  <2> HIDE DEF req
  <2> QED BY <2>2, <2>3, <2>4, <2>5, QueueGets DEF Gone
<1>3. CASE Acknowledged(t)
  BY <1>3 DEF Acknowledged, QueueStep, Gone
<1>4. CASE Dispatch(t)
  <2> DEFINE req == [op |-> "pause", from |-> Controller, to |-> t, n |-> Len(events), parent |-> NoAid]
  <2>1. req \in Command
    <3>1. Len(events) \in Nat
      BY DEF TInv, TypeOK
    <3> QED BY <3>1 DEF Command, Party
  <2>2. Connect(Controller, req) /\ UNCHANGED delivery /\ UNCHANGED srv
    BY <1>4 DEF Dispatch
  <2>3. Controller \in Party
    BY DEF Party
  <2>4. req.op = "pause"
    OBVIOUS
  <2> HIDE DEF req
  <2> QED BY <2>1, <2>2, <2>3, <2>4, QueueGets DEF Gone
<1>5. CASE Dispatched
  BY <1>5 DEF Dispatched, QueueStep, Gone
<1>6. CASE Sample(t)
  BY <1>6 DEF Sample, QueueStep, Gone
<1>7. CASE ForceKill(t)
  BY <1>7, QueueEnds DEF ForceKill
<1>8. CASE ControlFails
  BY <1>8, <1>a DEF ControlFails, Abort, QueueStep, Gone
<1> QED BY <1>1, <1>2, <1>3, <1>4, <1>5, <1>6, <1>7, <1>8 DEF ControllerStep

\* The accept loops.
LEMMA ServerQueues ==
  ASSUME CallsInv, NEW t \in Target, ServerStep(t), NEW u \in Target
  PROVE  QueueStep(u)
<1>a. /\ TInv /\ t \in Party /\ Handling(t)
      /\ srv \in [Target -> SrvType] /\ log \in [Target -> Seq(Event)]
      /\ queue \in [Target -> Seq(Command)]
      /\ srv[t].pc \in Busy => srv[t].cur \in Command
  BY DEF CallsInv, ResponseInv, DeliveryInv, PauseInv, Party, TInv, CallInv, TypeOK
<1>b. ASSUME NEW op, Accepts(t, op)
      PROVE  /\ srv[t].pc = "idle" /\ queue[t] # <<>> /\ Head(queue[t]).op = op
             /\ Head(queue[t]) \in Command
  BY <1>a, <1>b, AcceptsType DEF Accepts
<1>1. CASE Configure(t)
  <2>1. /\ Accepts(t, "configure") /\ queue' = [queue EXCEPT ![t] = Tail(@)]
        /\ UNCHANGED <<srv, delivery>>
    BY <1>1 DEF Configure
  <2>2. srv[t].pc = "idle" /\ queue[t] # <<>> /\ Head(queue[t]).op = "configure"
    BY <1>b, <2>1
  <2>3. \A v \in Target \ {t} : srv'[v] = srv[v]
    BY <2>1
  <2> QED BY <1>a, <2>1, <2>2, <2>3, QueueTakes
<1>2. CASE Snapshot(t)
  <2>1. Accepts(t, "snapshot") /\ UNCHANGED log
    BY <1>2 DEF Snapshot
  <2>2. CASE /\ NodeOk(intent, t, log[t]) /\ queue' = [queue EXCEPT ![t] = Tail(@)] /\ UNCHANGED srv
             /\ delivery' = [delivery EXCEPT ![t] = log[t]]
    <3>1. delivery \in [Target -> Seq(Event)]
      BY <1>a DEF TInv, TypeOK
    <3>2. CASE u = t
      <4>1. Snaps(t)
        BY <1>a, <1>b, <2>1, <2>2, <3>1 DEF Snaps
      <4> QED BY <2>2, <3>2, <4>1 DEF QueueStep, Gone
    <3>3. CASE u # t
      BY <1>a, <2>2, <3>1, <3>3, QueueFrame
    <3> QED BY <3>2, <3>3
  <2>3. CASE EndProcess(t, "dead", Head(queue[t]), "EOFError") /\ UNCHANGED delivery
    BY <1>a, <2>3, QueueEnds
  <2> QED BY <1>2, <2>2, <2>3 DEF Snapshot
<1>3. CASE Exit(t)
  BY <1>a, <1>3, QueueEnds DEF Exit, ctlVars
<1>4. CASE ReceivePause(t)
  <2> DEFINE req == Head(queue[t])
             receipt == [kind |-> "receipt", req |-> req]
             refusal == [kind |-> "refused", aid |-> AidOf(req)]
  <2>1. /\ Accepts(t, "pause") /\ delivery' = delivery /\ queue' = [queue EXCEPT ![t] = Tail(@)]
        /\ srv[t].pc = "idle" /\ queue[t] # <<>> /\ req.op = "pause"
    BY <1>4, <1>b DEF ReceivePause
  <2>2. Emit(t, <<receipt>>) \/ Emit(t, <<receipt, refusal>>)
    BY <1>4 DEF ReceivePause
  <2>3. req \in Receipts(log'[t])
    <3>1. log'[t] = log[t] \o <<receipt>> \/ log'[t] = log[t] \o <<receipt, refusal>>
      BY <1>a, <2>2 DEF Emit
    <3>2. log[t] \in Seq(Event) /\ Len(log[t]) \in Nat
      BY <1>a
    <3>3. Len(log[t]) + 1 \in DOMAIN log'[t] /\ log'[t][Len(log[t]) + 1] = receipt
      BY <3>1, <3>2
    <3>4. Len(log[t]) + 1 \in At(log'[t], "receipt")
      BY <3>3 DEF At
    <3> QED BY <3>3, <3>4 DEF Receipts
  <2>4. \A v \in Target \ {t} : srv'[v] = srv[v]
    BY <1>a, <1>4 DEF ReceivePause
  <2> QED BY <1>a, <1>b, <2>1, <2>3, <2>4, QueueTakes
<1>5. CASE NativePaused(t)
  <2>1. UNCHANGED <<queue, delivery>> /\ (Gone(u) => Gone(u)')
    BY <1>a, <1>5 DEF NativePaused, Gone
  <2> QED BY <2>1 DEF QueueStep
<1>6. CASE Forward(t)
  <2>1. ForwardedCommand(t) \in Command /\ ForwardedCommand(t).op = "pause"
    <3>1. /\ srv[t].pc = "forward" /\ srv[t].cur \in Command
      BY <1>a, <1>6 DEF Forward, Busy
    <3>2. intent.kid[t] \in Target
      BY <1>a, <3>1, CapturesAssumption DEF TInv, CallInv, TypeOK
    <3>3. AidOf(srv[t].cur) \in Aid /\ Len(log[t]) \in Nat
      BY <1>a, <3>1, AidType
    <3> QED BY <1>a, <3>2, <3>3 DEF ForwardedCommand, Command
  <2>2. Connect(t, ForwardedCommand(t)) /\ UNCHANGED delivery /\ (Gone(u) => Gone(u)')
    BY <1>a, <1>6 DEF Forward, Gone
  <2> QED BY <1>a, <2>1, <2>2, QueueGets
<1>7. CASE Forwarded(t)
  <2>1. UNCHANGED <<queue, delivery>> /\ (Gone(u) => Gone(u)')
    BY <1>a, <1>7 DEF Forwarded, Gone
  <2> QED BY <2>1 DEF QueueStep
<1>8. CASE SendReply(t)
  <2>1. UNCHANGED delivery
    BY <1>8 DEF SendReply
  <2>2. CASE UNCHANGED queue /\ srv[t].pc = "reply" /\ \A v \in Target \ {t} : srv'[v] = srv[v]
    <3>1. Gone(u) => Gone(u)'
      BY <2>2 DEF Gone
    <3> QED BY <2>1, <2>2, <3>1 DEF QueueStep
  <2>3. CASE EndProcess(t, "dead", srv[t].cur, "EOFError")
    BY <1>a, <2>1, <2>3, QueueEnds
  <2>4. \/ EndProcess(t, "dead", srv[t].cur, "EOFError")
        \/ UNCHANGED queue /\ srv[t].pc = "reply" /\ \A v \in Target \ {t} : srv'[v] = srv[v]
    BY <1>a, <1>8 DEF SendReply
  <2> QED BY <2>2, <2>3, <2>4
<1> QED BY <1>1, <1>2, <1>3, <1>4, <1>5, <1>6, <1>7, <1>8 DEF ServerStep

\* Every step.
LEMMA NextQueues ==
  ASSUME CallsInv, [Next]_vars, NEW u \in Target
  PROVE  QueueStep(u)
<1>a. TInv /\ PauseInv /\ srv \in [Target -> SrvType]
  BY DEF CallsInv, ResponseInv, DeliveryInv, PauseInv, TInv, TypeOK
<1>b. ASSUME UNCHANGED <<queue, delivery, srv>> PROVE QueueStep(u)
  BY <1>b DEF QueueStep, Gone
<1>1. CASE \E t \in Target : BusinessStep(t) \/ BusinessFails(t)
  <2>1. UNCHANGED <<queue, delivery, srv>>
    BY <1>1 DEF BusinessStep, BusinessFails, BeginRow, WriteRow, Interrupt, Business
  <2> QED BY <1>b, <2>1
<1>2. CASE SpawnFails
  BY <1>a, <1>2 DEF SpawnFails, Abort, QueueStep, Gone
<1>3. CASE \E p \in Party : Expire(p)
  BY <1>b, <1>3 DEF Expire
<1>4. CASE \E t \in Target : PauseTimesOut(t)
  BY <1>a, <1>4, QueueEnds DEF PauseTimesOut
<1>5. CASE UNCHANGED vars \/ Terminated
  <2>1. UNCHANGED <<queue, delivery, srv>>
    BY <1>5 DEF vars, Terminated
  <2> QED BY <1>b, <2>1
<1>6. CASE \E t \in Target : ControllerStep(t) \/ ServerStep(t)
  BY <1>a, <1>6, ControllerQueues, ServerQueues
<1> QED BY <1>1, <1>2, <1>3, <1>4, <1>5, <1>6 DEF Next, Environment

-----------------------------------------------------------------------------
\* The harness hears of a snapshot only when it was taken.
HearsSnapshot ==
  sock'[Controller].state = "reply" /\ sock'[Controller].req.op = "snapshot" =>
    sock'[Controller] = sock[Controller] \/ delivery'[sock'[Controller].req.to] # <<>>

\* Its call goes on, or is a new one, in the snapshots to the target at which
\* it stands.
AskStep ==
  /\ HearsSnapshot
  /\ \/ phase' \in {"aborted", "cleanup", "done"} \/ sock'[Controller].state = "none"
     \/ /\ UNCHANGED <<phase, idx>>
        /\ \/ sock[Controller].state # "none" /\ sock'[Controller].req = sock[Controller].req
           \/ /\ phase \notin {"start", "before", "after"}
              /\ phase = "snapshot" => /\ sock'[Controller].req.op = "snapshot"
                                       /\ sock'[Controller].req.to = Order[idx]

\* Where the harness stands still and its call at most returns.
LEMMA AskFrame ==
  ASSUME UNCHANGED <<phase, idx>>, NEW states,
         sock'[Controller] = sock[Controller] \/ Told(Controller, states),
         HearsSnapshot
  PROVE  AskStep
<1>1. CASE sock'[Controller].state = "none"
  BY <1>1 DEF AskStep
<1>2. CASE sock[Controller].state # "none" /\ sock'[Controller].req = sock[Controller].req
  BY <1>2 DEF AskStep
<1> QED BY <1>1, <1>2 DEF Told

\* Every step of the harness is an AskStep.
LEMMA ControllerAsks ==
  ASSUME TInv, SnapOK, NEW t \in Target, ControllerStep(t)
  PROVE  AskStep
<1>a. Controller \in Party /\ sock \in [Party -> SockType] /\ Closed.state = "none"
  BY DEF TInv, TypeOK, Party, Closed
<1>b. ASSUME UNCHANGED sock PROVE HearsSnapshot
  BY <1>b DEF HearsSnapshot
<1>c. ASSUME sock'[Controller].state # "reply" PROVE HearsSnapshot
  BY <1>c DEF HearsSnapshot
<1>1. CASE Spawn(t)
  BY <1>1, <1>b DEF Spawn, SnapOK, AskStep
<1>2. CASE Ask(t)
  <2> DEFINE req == [op |-> ControlOp(t), from |-> Controller, to |-> t, n |-> 0, parent |-> NoAid]
  <2>1. ControlOp(t) \in {"configure", "snapshot", "exit"} /\ phase \in {"configure", "snapshot", "cleanup"}
        /\ (phase = "snapshot" => ControlOp(t) = "snapshot")
    BY <1>2 DEF Ask, ControlOp
  <2>2. req \in Command /\ req.op = ControlOp(t) /\ req.to = t
    BY <2>1 DEF Command, Party
  <2>3. Connect(Controller, req) /\ UNCHANGED <<phase, idx>> /\ t = Order[idx]
    BY <1>2 DEF Ask, ctlVars
  <2> HIDE DEF req
  <2>4. sock'[Controller].req = req /\ sock'[Controller].state # "reply"
    BY <1>a, <2>3 DEF Connect, Opens
  <2> QED BY <1>c, <2>1, <2>2, <2>3, <2>4 DEF AskStep
<1>3. CASE Acknowledged(t)
  <2>1. sock'[Controller].state = "none"
    BY <1>a, <1>3 DEF Acknowledged
  <2> QED BY <1>c, <2>1 DEF AskStep
<1>4. CASE Dispatch(t)
  <2>1. PICK req : Connect(Controller, req)
    BY <1>4 DEF Dispatch
  <2>2. sock'[Controller].state # "reply"
    BY <1>a, <2>1 DEF Connect, Opens
  <2> QED BY <1>4, <1>c, <2>2 DEF Dispatch, AskStep
<1>5. CASE Dispatched
  <2>1. sock'[Controller].state = "none"
    BY <1>a, <1>5 DEF Dispatched
  <2> QED BY <1>c, <2>1 DEF AskStep
<1>6. CASE Sample(t)
  BY <1>6, <1>b DEF Sample, SnapOK, AskStep
<1>7. CASE ForceKill(t)
  <2>1. phase' \in {"cleanup", "done"}
    BY <1>7 DEF ForceKill, Advance, NextPhase
  <2>2. sock'[Controller] = sock[Controller] \/ Told(Controller, {"EOFError", "ConnectionResetError"})
    BY <1>a, <1>7, EndTells, PartiesAreDistinct DEF ForceKill
  <2>3. HearsSnapshot
    BY <2>2 DEF Told, HearsSnapshot
  <2> QED BY <2>1, <2>3 DEF AskStep
<1>8. CASE ControlFails
  BY <1>8, <1>b DEF ControlFails, Abort, AskStep
<1> QED BY <1>1, <1>2, <1>3, <1>4, <1>5, <1>6, <1>7, <1>8 DEF ControllerStep

\* So is every step of a worker.
LEMMA ServerAsks ==
  ASSUME CallsInv, NEW t \in Target, ServerStep(t)
  PROVE  AskStep
<1>a. /\ TInv /\ Controller \in Party /\ t # Controller /\ t \in Party /\ Handling(t) /\ Backlog(t)
      /\ sock \in [Party -> SockType] /\ queue[t] \in Seq(Command)
      /\ srv[t].pc \in Busy => srv[t].cur \in Command
  BY PartiesAreDistinct
  DEF CallsInv, ResponseInv, DeliveryInv, PauseInv, Party, TInv, CallInv, TypeOK
<1>b. UNCHANGED <<phase, idx>>
  BY DEF ServerStep, Configure, Snapshot, Exit, ReceivePause, NativePaused, Forward, Forwarded,
         SendReply, ctlVars
<1>c. ASSUME sock'[Controller] = sock[Controller] PROVE AskStep
  <2>1. HearsSnapshot
    BY <1>c DEF HearsSnapshot
  <2> QED BY <1>b, <1>c, <2>1, AskFrame
<1>d. ASSUME NEW req \in Command, NEW state, NEW answer, sock' = Result(req, state, answer),
             state = "reply" /\ req.op = "snapshot" => delivery'[req.to] # <<>>
      PROVE  AskStep
  <2>1. sock'[Controller] = sock[Controller] \/ (sock[Controller].req = req /\ Told(Controller, {state}))
    BY <1>a, <1>d, ResultTells
  <2>2. HearsSnapshot
    BY <1>d, <2>1 DEF HearsSnapshot, Told
  <2> QED BY <1>b, <2>1, <2>2, AskFrame
<1>e. ASSUME NEW pc, NEW served, NEW state, EndProcess(t, pc, served, state),
             state = "reply" => served.op # "snapshot"
      PROVE  AskStep
  <2>1. sock'[Controller] = sock[Controller] \/ Told(Controller, {state, "ConnectionResetError"})
    BY <1>a, <1>e, EndTells
  <2>2. \/ sock'[Controller] = sock[Controller]
        \/ sock'[Controller] = [sock[Controller] EXCEPT !.state =
               IF sock[Controller].req = served THEN state ELSE "ConnectionResetError"]
    BY <1>a, <1>e DEF EndProcess
  <2>3. sock[Controller] \in SockType
    BY <1>a
  <2>4. HearsSnapshot
    BY <1>e, <2>2, <2>3 DEF HearsSnapshot, SockType
  <2> QED BY <1>b, <2>1, <2>4, AskFrame
<1>f. ASSUME NEW op, Accepts(t, op)
      PROVE  /\ queue[t] # <<>> /\ Head(queue[t]).op = op /\ Head(queue[t]) \in Command
             /\ Head(queue[t]).to = t
  <2>1. /\ queue[t] # <<>> /\ Head(queue[t]).op = op /\ Head(queue[t]) \in Command
    BY <1>a, <1>f, AcceptsType DEF Accepts
  <2>2. 1 \in DOMAIN queue[t] /\ Head(queue[t]) = queue[t][1]
    BY <1>a, <2>1
  <2> QED BY <1>a, <2>1, <2>2 DEF Backlog
<1>1. CASE Configure(t)
  <2>1. Accepts(t, "configure") /\ sock' = Result(Head(queue[t]), "reply", NoReply)
    BY <1>1 DEF Configure
  <2> QED BY <1>d, <1>f, <2>1
<1>2. CASE Snapshot(t)
  <2>1. Accepts(t, "snapshot")
    BY <1>2 DEF Snapshot
  <2>2. CASE /\ NodeOk(intent, t, log[t]) /\ sock' = Result(Head(queue[t]), "reply", NoReply)
             /\ delivery' = [delivery EXCEPT ![t] = log[t]]
    <3>1. delivery'[t] # <<>>
      <4>1. delivery'[t] = log[t] /\ Len(log[t]) >= 2
        BY <1>a, <2>2 DEF TInv, TypeOK, NodeOk
      <4> QED BY <4>1
    <3>2. Head(queue[t]) \in Command /\ Head(queue[t]).to = t
      BY <1>f, <2>1
    <3> QED BY <1>d, <2>2, <3>1, <3>2
  <2>3. CASE EndProcess(t, "dead", Head(queue[t]), "EOFError")
    BY <1>e, <2>3
  <2> QED BY <1>2, <2>2, <2>3 DEF Snapshot
<1>3. CASE Exit(t)
  <2>1. Accepts(t, "exit") /\ EndProcess(t, "exited", Head(queue[t]), "reply")
    BY <1>3 DEF Exit
  <2>2. Head(queue[t]).op = "exit"
    BY <1>f, <2>1
  <2> QED BY <1>e, <2>1, <2>2
<1>4. CASE ReceivePause(t)
  BY <1>4, <1>c DEF ReceivePause
<1>5. CASE NativePaused(t)
  BY <1>5, <1>c DEF NativePaused
<1>6. CASE Forward(t)
  <2>1. Connect(t, ForwardedCommand(t))
    BY <1>6 DEF Forward
  <2> QED BY <1>a, <1>c, <2>1 DEF Connect, Opens
<1>7. CASE Forwarded(t)
  BY <1>a, <1>7, <1>c DEF Forwarded
<1>8. CASE SendReply(t)
  <2>1. srv[t].cur \in Command /\ srv[t].cur.op = "pause"
    BY <1>a, <1>8 DEF SendReply, Busy, Handling
  <2>2. \/ \E state, answer : sock' = Result(srv[t].cur, state, answer)
        \/ EndProcess(t, "dead", srv[t].cur, "EOFError")
    BY <1>8 DEF SendReply
  <2> QED BY <1>d, <1>e, <2>1, <2>2
<1> QED BY <1>1, <1>2, <1>3, <1>4, <1>5, <1>6, <1>7, <1>8 DEF ServerStep

\* So is every step.
LEMMA NextAsks ==
  ASSUME CallsInv, SnapOK, [Next]_vars
  PROVE  AskStep
<1>a. TInv /\ Controller \in Party /\ Controller \notin Target /\ sock \in [Party -> SockType]
  BY PartiesAreDistinct
  DEF CallsInv, ResponseInv, DeliveryInv, PauseInv, TInv, TypeOK, Party
<1>b. ASSUME UNCHANGED <<phase, idx, sock>> PROVE AskStep
  <2>1. HearsSnapshot
    BY <1>b DEF HearsSnapshot
  <2> QED BY <1>b, <2>1, AskFrame
<1>1. CASE \E t \in Target : BusinessStep(t) \/ BusinessFails(t)
  <2>1. UNCHANGED <<phase, idx, sock>>
    BY <1>1 DEF BusinessStep, BusinessFails, BeginRow, WriteRow, Interrupt, Business, ctlVars
  <2> QED BY <1>b, <2>1
<1>2. CASE SpawnFails
  BY <1>2 DEF SpawnFails, Abort, AskStep, HearsSnapshot
<1>3. CASE \E p \in Party : Expire(p)
  <2>1. sock'[Controller] = sock[Controller] \/ Told(Controller, {"TimeoutError"})
    BY <1>a, <1>3 DEF Expire, Told, SockType
  <2>2. HearsSnapshot
    BY <2>1 DEF HearsSnapshot, Told
  <2>3. UNCHANGED <<phase, idx>>
    BY <1>3 DEF Expire, ctlVars
  <2> QED BY <2>1, <2>2, <2>3, AskFrame
<1>4. CASE \E t \in Target : PauseTimesOut(t)
  <2>1. PICK t \in Target : EndProcess(t, "dead", srv[t].cur, "EOFError") /\ UNCHANGED <<phase, idx>>
    BY <1>4 DEF PauseTimesOut, ctlVars
  <2>2. sock'[Controller] = sock[Controller] \/ Told(Controller, {"EOFError", "ConnectionResetError"})
    BY <1>a, <2>1, EndTells
  <2>3. HearsSnapshot
    BY <2>2 DEF HearsSnapshot, Told
  <2> QED BY <2>1, <2>2, <2>3, AskFrame
<1>5. CASE UNCHANGED vars \/ Terminated
  <2>1. UNCHANGED <<phase, idx, sock>>
    BY <1>5 DEF vars, Terminated, ctlVars
  <2> QED BY <1>b, <2>1
<1>6. CASE \E t \in Target : ControllerStep(t) \/ ServerStep(t)
  BY <1>a, <1>6, ControllerAsks, ServerAsks
<1> QED BY <1>1, <1>2, <1>3, <1>4, <1>5, <1>6 DEF Next, Environment

-----------------------------------------------------------------------------
\* The harness does not go back to the phases before the snapshots.
LEMMA StaysLate ==
  ASSUME phase \in PhaseType, phase \notin EarlyPhases,
         UNCHANGED <<phase, idx>> \/ phase' = "aborted" \/ (phase \in DOMAIN NextPhase /\ Advance)
  PROVE  phase' \notin EarlyPhases
<1>1. DOMAIN NextPhase = {"start", "configure", "dispatch", "before", "after", "snapshot", "cleanup"}
  BY DEF NextPhase
<1>2. CASE phase \in {"snapshot", "cleanup"} /\ Advance
  BY <1>2 DEF Advance, NextPhase, EarlyPhases
<1> QED BY <1>1, <1>2 DEF EarlyPhases

\* What is queued after the step was queued before it, or was just sent.
LEMMA QueuedBefore ==
  ASSUME TInv, NEW t \in Target, QueueStep(t), NEW k \in DOMAIN queue'[t]
  PROVE  \/ \E l \in DOMAIN queue[t] : queue[t][l] = queue'[t][k]
         \/ queue'[t][k].op = "snapshot" => phase \notin EarlyPhases
<1>1. queue[t] \in Seq(Command)
  BY DEF TInv, TypeOK
<1>2. CASE queue'[t] \in {queue[t], <<>>} \/ (queue[t] # <<>> /\ queue'[t] = Tail(queue[t]))
  <2>1. \A m \in DOMAIN queue'[t] : \E l \in DOMAIN queue[t] : queue'[t][m] = queue[t][l]
    <3> DEFINE q == queue[t]
               r == queue'[t]
    <3>1. q \in Seq(Command) /\ (r \in {q, <<>>} \/ (q # <<>> /\ r = Tail(q)))
      BY <1>1, <1>2
    <3> HIDE DEF q, r
    <3>2. \A m \in DOMAIN r : \E l \in DOMAIN q : r[m] = q[l]
      BY <3>1, Shorter
    <3> QED BY <3>2 DEF q, r
  <2> QED BY <2>1
<1>3. ASSUME NEW x \in Command, queue'[t] = Append(queue[t], x),
             x.op = "snapshot" => phase \notin EarlyPhases
      PROVE  \/ \E l \in DOMAIN queue[t] : queue[t][l] = queue'[t][k]
             \/ queue'[t][k].op = "snapshot" => phase \notin EarlyPhases
  <2>1. (k \in DOMAIN queue[t] /\ queue'[t][k] = queue[t][k]) \/ queue'[t][k] = x
    BY <1>1, <1>3
  <2> QED BY <1>3, <2>1
<1> QED BY <1>2, <1>3 DEF QueueStep, Snaps

\* What is delivered stays, or a snapshot is taken.
LEMMA DeliveryStays ==
  ASSUME NEW t \in Target, QueueStep(t)
  PROVE  delivery'[t] = delivery[t] \/ (Snaps(t) /\ delivery'[t] # <<>>)
<1>1. CASE Snaps(t)
  <2>1. delivery'[t] = log[t] /\ Len(log[t]) >= 2
    BY <1>1 DEF Snaps, NodeOk
  <2> QED BY <1>1, <2>1
<1> QED BY <1>1 DEF QueueStep

\* Snapshots are taken in their phase, and the harness waits for those it asked
\* for.
LEMMA SnapKept ==
  ASSUME CreditInv, CreditInv', SnapOK, Tracks, AskStep, UNCHANGED intent,
         UNCHANGED <<phase, idx>> \/ phase' = "aborted" \/ (phase \in DOMAIN NextPhase /\ Advance),
         \A u \in Target : QueueStep(u)
  PROVE  SnapOK'
<1>a. TInv /\ TInv' /\ CallsInv /\ CallsInv'
  BY CreditBase, CreditBaseNext
<1>b. phase \in PhaseType /\ \A u \in Target : queue[u] \in Seq(Command)
  BY <1>a DEF TInv, TypeOK
<1>c. phase \notin EarlyPhases => phase' \notin EarlyPhases
  BY <1>b, StaysLate
<1>1. ASSUME NEW t \in Target, delivery'[t] # <<>>
      PROVE  NodeOk(intent', t, delivery'[t]) /\ phase' \notin EarlyPhases
  <2>1. CASE delivery'[t] = delivery[t]
    BY <1>1, <1>c, <2>1 DEF SnapOK
  <2>2. CASE Snaps(t)
    <3>1. 1 \in DOMAIN queue[t] /\ queue[t][1].op = "snapshot"
      BY <1>b, <2>2 DEF Snaps
    <3>2. phase \notin EarlyPhases
      BY <3>1 DEF SnapOK
    <3> QED BY <1>c, <2>2, <3>2 DEF Snaps
  <2> QED BY <2>1, <2>2, DeliveryStays
<1>2. ASSUME NEW t \in Target, NEW k \in DOMAIN queue'[t], queue'[t][k].op = "snapshot"
      PROVE  phase' \notin EarlyPhases
  <2>1. CASE \E l \in DOMAIN queue[t] : queue[t][l] = queue'[t][k]
    BY <1>2, <1>c, <2>1 DEF SnapOK
  <2>2. CASE phase \notin EarlyPhases
    BY <1>c, <2>2
  <2> QED BY <1>a, <1>2, <2>1, <2>2, QueuedBefore
<1>3. ASSUME NEW t \in Target, sock'[t].state # "none", phase' # "aborted"
      PROVE  srv'[t].pc = "await"
  <2>1. PartyStep(t) /\ t \in Party /\ t # Controller /\ phase # "aborted"
    BY <1>3, PartiesAreDistinct DEF Tracks, Leaving, Party
  <2>2. srv[t].pc = "await" \/ sock[t].state = "none"
    BY <2>1 DEF SnapOK
  <2> QED BY <1>3, <2>1, <2>2
          DEF PartyStep, Stays, Notes, Recording, Hearing, Ending, Asking, Opening
<1>4. sock'[Controller].state = "reply" /\ sock'[Controller].req.op = "snapshot"
        => delivery'[sock'[Controller].req.to] # <<>>
  <2> SUFFICES ASSUME sock'[Controller].state = "reply", sock'[Controller].req.op = "snapshot",
                      sock'[Controller] = sock[Controller]
               PROVE  delivery'[sock'[Controller].req.to] # <<>>
    BY DEF AskStep, HearsSnapshot
  <2>1. delivery[sock[Controller].req.to] # <<>>
    BY DEF SnapOK
  <2>2. sock[Controller].req.to \in Target
    <3>1. Controller \in Party
      BY DEF Party
    <3>2. sock[Controller].req \in Command
      BY <1>a, <3>1 DEF TInv, CallInv
    <3> QED BY <3>2 DEF Command
  <2> QED BY <2>1, <2>2, DeliveryStays
<1>5. /\ phase' = "snapshot" /\ sock'[Controller].state # "none"
           => sock'[Controller].req.op = "snapshot" /\ sock'[Controller].req.to = Order[idx']
      /\ phase' \in {"start", "before", "after"} => sock'[Controller].state = "none"
  BY DEF AskStep, SnapOK
<1> QED BY <1>1, <1>2, <1>3, <1>4, <1>5 DEF SnapOK
-----------------------------------------------------------------------------
\* An answer is with a call that was answered.
AnswerStep(p) ==
  sock'[p].state # "reply" =>
    \/ sock'[p].answer = NoReply
    \/ sock'[p].answer = sock[p].answer /\ sock[p].state # "reply"

\* Every step is an AnswerStep of every party.
LEMMA NextAnswers ==
  ASSUME TInv, [Next]_vars, NEW q \in Party
  PROVE  AnswerStep(q)
<1>a. sock \in [Party -> SockType] /\ Target \subseteq Party /\ Controller \in Party
      /\ Closed.answer = NoReply
  BY DEF TInv, TypeOK, Party, Closed
<1>1. ASSUME sock'[q] = sock[q] PROVE AnswerStep(q)
  BY <1>1 DEF AnswerStep
<1>2. ASSUME NEW p \in Party, NEW req, Connect(p, req) PROVE AnswerStep(q)
  BY <1>a, <1>2 DEF AnswerStep, Connect, Opens
<1>3. ASSUME NEW p \in Party, sock' = [sock EXCEPT ![p] = Closed] PROVE AnswerStep(q)
  BY <1>a, <1>3 DEF AnswerStep
<1>4. ASSUME NEW req, NEW state, NEW answer, sock' = Result(req, state, answer),
             state = "reply" \/ answer = NoReply
      PROVE  AnswerStep(q)
  <2>1. CASE sock' = [sock EXCEPT ![req.from].state = state, ![req.from].answer = answer]
    <3>1. CASE q = req.from
      <4>1. sock'[q].state = state /\ sock'[q].answer = answer
        BY <1>a, <2>1, <3>1 DEF SockType
      <4> QED BY <1>4, <4>1 DEF AnswerStep
    <3>2. CASE q # req.from
      BY <1>a, <1>1, <2>1, <3>2
    <3> QED BY <3>1, <3>2
  <2> QED BY <1>1, <1>4, <2>1 DEF Result
<1>5. ASSUME NEW t \in Target, NEW pc, NEW served, NEW state, EndProcess(t, pc, served, state)
      PROVE  AnswerStep(q)
  <2>1. \/ sock'[q] = Closed \/ sock'[q] = sock[q]
        \/ sock[q].state = "waiting" /\ \E x : sock'[q] = [sock[q] EXCEPT !.state = x]
    BY <1>5 DEF EndProcess
  <2>2. sock[q] \in SockType
    BY <1>a
  <2> QED BY <1>a, <2>1, <2>2 DEF AnswerStep, SockType
<1>6. ASSUME NEW t \in Target, ControllerStep(t) PROVE AnswerStep(q)
  BY <1>a, <1>1, <1>2, <1>3, <1>5, <1>6
  DEF ControllerStep, Spawn, Ask, Acknowledged, Dispatch, Dispatched, Sample, ForceKill,
      ControlFails, Abort
<1>7. ASSUME NEW t \in Target, ServerStep(t) PROVE AnswerStep(q)
  BY <1>a, <1>1, <1>2, <1>3, <1>4, <1>5, <1>7
  DEF ServerStep, Configure, Snapshot, Exit, ReceivePause, NativePaused, Forward, Forwarded,
      SendReply
<1>8. ASSUME NEW p \in Party, Expire(p) PROVE AnswerStep(q)
  <2>1. sock[p].state = "waiting" /\ sock' = [sock EXCEPT ![p].state = "TimeoutError"]
    BY <1>8 DEF Expire
  <2> QED BY <1>a, <2>1 DEF AnswerStep, SockType
<1>9. CASE UNCHANGED sock
  BY <1>1, <1>9
<1>10. CASE Next
  BY <1>1, <1>5, <1>6, <1>7, <1>8, <1>10
  DEF Next, Environment, BusinessStep, BusinessFails, BeginRow, WriteRow, Interrupt, Business,
      SpawnFails, Abort, PauseTimesOut, Terminated
<1> QED BY <1>9, <1>10 DEF vars

\* AnswersOK is kept.
LEMMA AnswersKept ==
  ASSUME AnswersOK, \A p \in Party : AnswerStep(p)
  PROVE  AnswersOK'
BY DEF AnswersOK, AnswerStep

-----------------------------------------------------------------------------
(* The dispatches.                                                         *)

\* What the steps of the dispatches are.
LEMMA NextDispatches ==
  ASSUME CallsInv, [Next]_vars, phase = "dispatch"
  PROVE  \/ phase' = "aborted"
         \/ \E t \in Target : Dispatch(t)
         \/ Dispatched
         \/ /\ UNCHANGED <<phase, idx, events>>
            /\ \/ sock'[Controller] = sock[Controller]
               \/ \E states : Told(Controller, states) /\ "none" \notin states
<1> DEFINE Rests == /\ UNCHANGED <<phase, idx, events>>
                    /\ \/ sock'[Controller] = sock[Controller]
                       \/ \E states : Told(Controller, states) /\ "none" \notin states
<1>a. /\ TInv /\ Controller \in Party /\ Controller \notin Target /\ Target \subseteq Party
      /\ sock \in [Party -> SockType]
      /\ \A t \in Target : queue[t] \in Seq(Command) /\ (srv[t].pc \in Busy => srv[t].cur \in Command)
  BY PartiesAreDistinct
  DEF CallsInv, ResponseInv, DeliveryInv, PauseInv, Party, TInv, TypeOK, CallInv
<1>b. ASSUME NEW t \in Target, ServerStep(t) PROVE Rests
  <2>1. UNCHANGED <<phase, idx, events>>
    BY <1>b DEF ServerStep, Configure, Snapshot, Exit, ReceivePause, NativePaused, Forward,
                Forwarded, SendReply, ctlVars
  <2>2. ASSUME NEW pc, NEW served, NEW state, state # "none", EndProcess(t, pc, served, state)
        PROVE  Rests
    <3>1. \/ sock'[Controller] = sock[Controller]
          \/ Told(Controller, {state, "ConnectionResetError"})
      BY <1>a, <2>2, EndTells
    <3>2. "none" \notin {state, "ConnectionResetError"}
      BY <2>2
    <3> QED BY <2>1, <3>1, <3>2
  <2>3. ASSUME NEW req \in Command, NEW state, NEW answer, state # "none",
               sock' = Result(req, state, answer)
        PROVE  Rests
    <3>1. sock'[Controller] = sock[Controller] \/ Told(Controller, {state})
      BY <1>a, <2>3, ResultTells
    <3>2. "none" \notin {state}
      BY <2>3
    <3> QED BY <2>1, <3>1, <3>2
  <2>4. ASSUME sock'[Controller] = sock[Controller] PROVE Rests
    BY <2>1, <2>4
  <2> HIDE DEF Rests
  <2>5. CASE Configure(t)
    <3>1. Head(queue[t]) \in Command /\ sock' = Result(Head(queue[t]), "reply", NoReply)
      BY <1>a, <2>5 DEF Configure, Accepts
    <3> QED BY <2>3, <3>1
  <2>6. CASE Snapshot(t)
    <3>1. Head(queue[t]) \in Command
      BY <1>a, <2>6 DEF Snapshot, Accepts
    <3>2. \/ sock' = Result(Head(queue[t]), "reply", NoReply)
          \/ EndProcess(t, "dead", Head(queue[t]), "EOFError")
      BY <2>6 DEF Snapshot
    <3> QED BY <2>2, <2>3, <3>1, <3>2
  <2>7. CASE Exit(t)
    BY <2>2, <2>7 DEF Exit
  <2>8. CASE ReceivePause(t) \/ NativePaused(t)
    BY <2>4, <2>8 DEF ReceivePause, NativePaused
  <2>9. CASE Forward(t)
    <3>1. Connect(t, ForwardedCommand(t))
      BY <2>9 DEF Forward
    <3> QED BY <1>a, <2>4, <3>1 DEF Connect, Opens
  <2>10. CASE Forwarded(t)
    BY <1>a, <2>4, <2>10 DEF Forwarded
  <2>11. CASE SendReply(t)
    <3>1. srv[t].cur \in Command
      BY <1>a, <2>11 DEF SendReply, Busy
    <3>2. \/ sock' = Result(srv[t].cur, "EOFError", NoReply)
          \/ sock' = Result(srv[t].cur, "reply", ReplyOf(t))
          \/ EndProcess(t, "dead", srv[t].cur, "EOFError")
      BY <2>11 DEF SendReply
    <3> QED BY <2>2, <2>3, <3>1, <3>2
  <2> QED BY <1>b, <2>5, <2>6, <2>7, <2>8, <2>9, <2>10, <2>11 DEF ServerStep
<1>c. ASSUME NEW t \in Target, ControllerStep(t)
      PROVE  phase' = "aborted" \/ Dispatch(t) \/ Dispatched
  <2>1. ~Spawn(t) /\ ~Ask(t) /\ ~Acknowledged(t) /\ ~Sample(t) /\ ~ForceKill(t)
    BY DEF Spawn, Ask, Acknowledged, Sample, ForceKill, ControlOp
  <2>2. ControlFails => phase' = "aborted"
    BY DEF ControlFails, Abort
  <2> QED BY <1>c, <2>1, <2>2 DEF ControllerStep
<1>d. ASSUME UNCHANGED <<ctlVars, sock>> PROVE Rests
  BY <1>d DEF ctlVars
<1>e. ASSUME NEW t \in Target, BusinessStep(t) \/ BusinessFails(t) PROVE Rests
  BY <1>d, <1>e DEF BusinessStep, BusinessFails, BeginRow, WriteRow, Interrupt, Business
<1>f. ASSUME NEW p \in Party, Expire(p) PROVE Rests
  <2>1. sock'[Controller] = sock[Controller] \/ Told(Controller, {"TimeoutError"})
    BY <1>a, <1>f DEF Expire, Told, SockType
  <2>2. "none" \notin {"TimeoutError"}
    OBVIOUS
  <2> QED BY <1>f, <2>1, <2>2 DEF Expire, ctlVars
<1>g. ASSUME NEW t \in Target, PauseTimesOut(t) PROVE Rests
  <2>1. EndProcess(t, "dead", srv[t].cur, "EOFError") /\ UNCHANGED <<phase, idx, events>>
    BY <1>g DEF PauseTimesOut, ctlVars
  <2>2. \/ sock'[Controller] = sock[Controller]
        \/ Told(Controller, {"EOFError", "ConnectionResetError"})
    BY <1>a, <2>1, EndTells
  <2>3. "none" \notin {"EOFError", "ConnectionResetError"}
    OBVIOUS
  <2> QED BY <2>1, <2>2, <2>3
<1>h. ASSUME UNCHANGED vars \/ Terminated PROVE Rests
  <2>1. UNCHANGED <<ctlVars, sock>>
    BY <1>h DEF vars, Terminated, ctlVars
  <2> QED BY <1>d, <2>1
<1>i. ASSUME Environment PROVE phase' = "aborted" \/ Rests
  <2> HIDE DEF Rests
  <2>1. SpawnFails => phase' = "aborted"
    BY DEF SpawnFails, Abort
  <2> QED BY <1>i, <1>e, <1>f, <1>g, <2>1 DEF Environment
<1> QED
  <2> HIDE DEF Rests
  <2>1. ASSUME NEW t \in Target, ControllerStep(t) \/ ServerStep(t) \/ BusinessStep(t)
        PROVE  phase' = "aborted" \/ Dispatch(t) \/ Dispatched \/ Rests
    BY <1>b, <1>c, <1>e, <2>1
  <2>2. phase' = "aborted" \/ (\E t \in Target : Dispatch(t)) \/ Dispatched \/ Rests
    BY <1>h, <1>i, <2>1 DEF Next
  <2> QED BY <2>2 DEF Rests

\* Dispatches that are recorded stay recorded.
LEMMA RootsStay ==
  ASSUME events \in Seq(Event), NEW e \in Event, events' = events \o <<e>>, UNCHANGED intent,
         NEW n \in Nat, 2 * n <= Len(events),
         \A i \in 1 .. n : RootSend(i) /\ RootOutcome(i)
  PROVE  \A i \in 1 .. n : RootSend(i)' /\ RootOutcome(i)'
<1> SUFFICES ASSUME NEW i \in 1 .. n PROVE RootSend(i)' /\ RootOutcome(i)'
  OBVIOUS
<1>1. events'[2 * i - 1] = events[2 * i - 1] /\ events'[2 * i] = events[2 * i]
  <2>1. Len(events) \in Nat /\ 2 * i - 1 \in 1 .. Len(events) /\ 2 * i \in 1 .. Len(events)
    OBVIOUS
  <2> QED BY <2>1
<1>2. RootSend(i) /\ RootOutcome(i)
  OBVIOUS
<1> QED BY <1>1, <1>2 DEF RootSend, RootOutcome

\* The outcome that is recorded is one that transport_check accepts.
LEMMA OutcomeIsOk ==
  ASSUME CallsInv, AnswersOK, NEW p \in Party, Returned(p), sock[p].req.op = "pause"
  PROVE  TransportOk(TransportEvent(p), sock[p].req)
<1>1. sock[p] \in SockType /\ ReplyKept(p) /\ sock[p].req \in Command
      /\ (\A t \in Target : log[t] \in Seq(Event))
  BY DEF CallsInv, ResponseInv, DeliveryInv, PauseInv, TInv, TypeOK, CallInv, Returned
<1>2. CASE sock[p].state = "reply"
  <2>1. PICK j \in At(log[sock[p].req.to], "reply") : log[sock[p].req.to][j].reply = sock[p].answer
    BY <1>1, <1>2 DEF ReplyKept, ToldIn
  <2>2. sock[p].req.to \in Target
    BY <1>1 DEF Command
  <2>3. log[sock[p].req.to][j] \in Event /\ log[sock[p].req.to][j].kind = "reply"
    BY <1>1, <2>2 DEF At
  <2>4. sock[p].answer \in Reply
    BY <2>1, <2>3 DEF Event
  <2> QED BY <1>2, <2>4, NoCommandIsNone DEF TransportOk, TransportEvent
<1>3. CASE sock[p].state # "reply"
  <2>1. sock[p].answer = NoReply /\ sock[p].state \in TransportErrors
    BY <1>1, <1>3 DEF AnswersOK, Returned, SockType
  <2> QED BY <1>3, <2>1 DEF TransportOk, TransportEvent
<1> QED BY <1>2, <1>3

\* Outside of the dispatches the harness logs nothing.
LEMMA EventsStay ==
  ASSUME CreditInv, Tracks, phase # "dispatch", phase' # "aborted"
  PROVE  events' = events
<1>a. /\ CallsInv /\ Dispatching /\ Own(Controller) = events /\ Own(Controller)' = events'
      /\ Controller \in Party /\ Controller \notin Target
  BY CreditBase, PartiesAreDistinct DEF Own, Party, CallsInv
<1>1. PartyStep(Controller) /\ phase # "aborted"
  BY <1>a DEF Tracks, Leaving
<1>2. ~Recording(Controller)
  BY <1>a, <1>1 DEF Recording, Dispatching, Returned
<1> QED BY <1>a, <1>1, <1>2 DEF PartyStep, Stays, Notes, Hearing, Ending, Asking, Opening

\* Each root is dispatched in its turn and gets its outcome.
LEMMA EventsKept ==
  ASSUME CreditInv, IndexOK, EventsOK, AnswersOK, Tracks, KeepsCalls, [Next]_vars,
         UNCHANGED <<phase, idx>> \/ phase' = "aborted" \/ (phase \in DOMAIN NextPhase /\ Advance)
  PROVE  EventsOK'
<1>a. /\ CallsInv /\ events \in Seq(Event) /\ TInv /\ Controller \in Party /\ Calling(Controller)
      /\ sock \in [Party -> SockType] /\ Closed.state = "none" /\ intent' = intent
  BY CreditBase DEF Party, CallsInv, ResponseInv, Closed, TInv, TypeOK, vars, Next
<1>b. /\ Len(intent.roots) \in Nat \ {0} /\ DOMAIN intent.roots = 1 .. Len(intent.roots)
      /\ Len(events) \in Nat /\ idx \in Nat
  BY <1>a, CapturesAssumption DEF TInv, TypeOK
<1>c. DOMAIN NextPhase = {"start", "configure", "dispatch", "before", "after", "snapshot", "cleanup"}
  BY DEF NextPhase
<1>1. CASE phase' = "aborted"
  BY <1>1 DEF EventsOK
<1>2. CASE phase # "dispatch" /\ phase' # "aborted"
  <2>1. events' = events /\ phase # "aborted"
    BY <1>2, EventsStay DEF Tracks, Leaving
  <2>2. phase' \in {"start", "configure"} => phase \in {"start", "configure"}
    BY <1>2, <1>c DEF Advance, NextPhase
  <2>3. phase' \in {"before", "after", "snapshot", "cleanup", "done"} =>
          phase \in {"before", "after", "snapshot", "cleanup", "done"}
    BY <1>2, <1>c DEF Advance, NextPhase
  <2>4. phase' = "dispatch" => phase = "configure" /\ idx' = 1 /\ sock'[Controller].state = "none"
    <3>1. phase' = "dispatch" => phase \in DOMAIN NextPhase /\ Advance
      BY <1>2
    <3>2. phase' = "dispatch" => phase = "configure" /\ idx' = 1
      BY <1>2, <1>c, <3>1 DEF Advance, NextPhase
    <3> QED BY <1>2, <3>2 DEF KeepsCalls, PhaseStep
  <2>5. events = <<>> => Roots(0)'
    BY <1>a, <2>1 DEF Roots
  <2>6. Roots(Len(intent.roots)) => Roots(Len(intent.roots))'
    BY <1>a, <2>1 DEF Roots, RootSend, RootOutcome
  <2>7. phase' = "dispatch" => Roots(idx - 1)'
    <3> SUFFICES ASSUME phase' = "dispatch" PROVE Roots(idx - 1)'
      OBVIOUS
    <3>1. events' = <<>> /\ idx' - 1 = 0
      BY <2>1, <2>4 DEF EventsOK
    <3> QED BY <3>1 DEF Roots
  <2>8. phase' \in {"start", "configure"} => events' = <<>>
    BY <2>1, <2>2 DEF EventsOK
  <2>9. phase' \in {"before", "after", "snapshot", "cleanup", "done"} => Roots(Len(intent.roots))'
    BY <2>3, <2>6 DEF EventsOK
  <2> QED BY <1>a, <2>4, <2>7, <2>8, <2>9 DEF EventsOK
<1>3. CASE phase = "dispatch" /\ phase' # "aborted"
  <2>a. PICK n \in Nat : n = idx
    BY <1>b
  <2>b. n \in 1 .. Len(intent.roots)
    BY <1>3, <1>b, <2>a DEF IndexOK
  <2>1. ASSUME NEW t \in Target, Dispatch(t) PROVE EventsOK'
    <3> DEFINE req == [op |-> "pause", from |-> Controller, to |-> t, n |-> Len(events),
                       parent |-> NoAid]
    <3>1. PICK e : e = [kind |-> "send", req |-> req]
      OBVIOUS
    <3>2. /\ sock[Controller] = Closed /\ events' = events \o <<e>> /\ Connect(Controller, req)
          /\ UNCHANGED <<phase, idx>> /\ t = intent.roots[n]
      <4>1. events' = Append(events, e)
        BY <2>1, <3>1 DEF Dispatch
      <4>2. events' = events \o <<e>>
        BY <1>a, <4>1
      <4>3. sock[Controller] = Closed /\ Connect(Controller, req)
        BY <2>1 DEF Dispatch
      <4>4. UNCHANGED <<phase, idx>> /\ t = intent.roots[n]
        BY <2>1, <2>a DEF Dispatch
      <4> QED BY <4>2, <4>3, <4>4
    <3>3. sock'[Controller].req = req /\ sock'[Controller].state # "none"
      BY <1>a, <3>2 DEF Connect, Opens
    <3>4. Roots(n - 1)
      BY <1>3, <1>a, <2>a, <3>2 DEF EventsOK
    <3>5. e \in Event
      <4>1. req \in Command
        BY <1>a, <1>b DEF Command
      <4> QED BY <3>1, <4>1, EventType
    <3>6. Len(events) = 2 * (n - 1) /\ n - 1 \in Nat
      BY <2>b, <3>4 DEF Roots
    <3>7. \A i \in 1 .. (n - 1) : RootSend(i)' /\ RootOutcome(i)'
      <4>1. PICK m \in Nat : m = n - 1
        BY <3>6
      <4>2. 2 * m <= Len(events) /\ \A i \in 1 .. m : RootSend(i) /\ RootOutcome(i)
        BY <1>b, <3>4, <3>6, <4>1 DEF Roots
      <4>3. \A i \in 1 .. m : RootSend(i)' /\ RootOutcome(i)'
        BY <1>a, <3>2, <3>5, <4>2, RootsStay
      <4> QED BY <4>1, <4>3
    <3>8. Len(events') = 2 * n - 1 /\ events'[2 * n - 1] = e
      <4>1. Len(events') = Len(events) + 1 /\ events'[Len(events) + 1] = e
        BY <1>a, <3>2
      <4>2. Len(events) + 1 = 2 * n - 1
        BY <3>6
      <4> QED BY <4>1, <4>2
    <3>9. RootSend(n)' /\ events'[2 * n - 1].req = sock'[Controller].req
      <4>1. e.kind = "send" /\ e.req = req
        BY <3>1
      <4> QED BY <1>a, <3>2, <3>3, <3>8, <4>1 DEF RootSend
    <3>10. OpenRoots(n)'
      BY <3>7, <3>8, <3>9 DEF OpenRoots
    <3>11. OpenRoots(idx)'
      <4>1. idx' = n
        BY <2>a, <3>2
      <4> QED BY <3>10, <4>1
    <3> QED BY <1>3, <3>2, <3>3, <3>11 DEF EventsOK
  <2>2. CASE Dispatched
    <3> DEFINE req == sock[Controller].req
    <3>0. PICK e : e = TransportEvent(Controller)
      OBVIOUS
    <3>1. /\ Returned(Controller) /\ events' = events \o <<e>> /\ sock'[Controller].state = "none"
          /\ Advance /\ sock[Controller].state # "none"
      BY <1>a, <2>2, <3>0 DEF Dispatched, Returned
    <3>2. OpenRoots(n)
      BY <1>3, <1>a, <2>a, <3>1 DEF EventsOK
    <3>3. e \in Event
      BY <1>a, <3>0, <3>1, TransportEventType
    <3>4. req.op = "pause"
      BY <1>3, <1>a, <3>1 DEF Calling
    <3>5. TransportOk(e, req) /\ e.kind = "transport"
      BY <1>a, <3>0, <3>1, <3>4, OutcomeIsOk DEF TransportEvent
    <3>6. Len(events) = 2 * n - 1
      BY <3>2 DEF OpenRoots
    <3>7. /\ Len(events') = 2 * n /\ events'[2 * n] = e
          /\ events'[2 * n - 1] = events[2 * n - 1]
      <4>1. /\ Len(events') = Len(events) + 1 /\ events'[Len(events) + 1] = e
            /\ \A i \in 1 .. Len(events) : events'[i] = events[i]
        BY <1>a, <3>1
      <4>2. Len(events) + 1 = 2 * n /\ 2 * n - 1 \in 1 .. Len(events)
        BY <2>b, <3>6
      <4> QED BY <4>1, <4>2
    <3>8. \A i \in 1 .. (n - 1) : RootSend(i)' /\ RootOutcome(i)'
      <4>1. PICK m \in Nat : m = n - 1
        BY <2>b
      <4>2. 2 * m <= Len(events) /\ \A i \in 1 .. m : RootSend(i) /\ RootOutcome(i)
        BY <1>b, <2>b, <3>2, <3>6, <4>1 DEF OpenRoots
      <4>3. \A i \in 1 .. m : RootSend(i)' /\ RootOutcome(i)'
        BY <1>a, <3>1, <3>3, <4>2, RootsStay
      <4> QED BY <4>1, <4>3
    <3>9. RootSend(n)' /\ RootOutcome(n)'
      <4>1. RootSend(n) /\ events[2 * n - 1].req = req
        BY <3>2 DEF OpenRoots
      <4> QED BY <1>a, <3>5, <3>7, <4>1 DEF RootSend, RootOutcome
    <3>10. Roots(n)'
      <4>1. \A i \in 1 .. n : i \in 1 .. (n - 1) \/ i = n
        BY <2>b
      <4>2. \A i \in 1 .. n : RootSend(i)' /\ RootOutcome(i)'
        BY <3>8, <3>9, <4>1
      <4> QED BY <3>7, <4>2 DEF Roots
    <3>11. CASE n < Len(intent.roots)
      <4>1. phase' = "dispatch" /\ idx' - 1 = n
        BY <1>3, <1>b, <2>a, <3>1, <3>11 DEF Advance
      <4>2. Roots(idx - 1)'
        BY <3>10, <4>1
      <4> QED BY <3>1, <4>1, <4>2 DEF EventsOK
    <3>12. CASE ~(n < Len(intent.roots))
      <4>1. phase' = "before" /\ n = Len(intent'.roots)
        BY <1>3, <1>a, <1>b, <2>a, <2>b, <3>1, <3>12 DEF Advance, NextPhase
      <4>2. Roots(Len(intent.roots))'
        BY <3>10, <4>1
      <4> QED BY <4>1, <4>2 DEF EventsOK
    <3> QED BY <3>11, <3>12
  <2>3. CASE /\ UNCHANGED <<phase, idx, events>>
             /\ \/ sock'[Controller] = sock[Controller]
                \/ \E states : Told(Controller, states) /\ "none" \notin states
    <3>1. /\ sock'[Controller].state = "none" <=> sock[Controller].state = "none"
          /\ sock[Controller].state # "none" => sock'[Controller].req = sock[Controller].req
      BY <2>3 DEF Told
    <3> QED BY <1>3, <1>a, <2>3, <3>1 DEF EventsOK, Roots, OpenRoots, RootSend, RootOutcome
  <2> QED BY <1>3, <1>a, <2>1, <2>2, <2>3, NextDispatches
<1> QED BY <1>1, <1>2, <1>3

-----------------------------------------------------------------------------
(* Receipts and replies take turns.                                        *)

\* What was in its place stays there.
LEMMA AnswersStay ==
  ASSUME NEW s \in Seq(Event), NEW e \in Event, NEW i \in DOMAIN s, AnswersReceipt(s, i)
  PROVE  AnswersReceipt(s \o <<e>>, i)
<1>1. PICK j \in At(s, "receipt") : /\ j < i /\ AidOf(s[j].req) = s[i].reply.aid
                                    /\ \A k \in j + 1 .. i - 1 : s[k].kind \notin Turn
  BY DEF AnswersReceipt
<1>2. DOMAIN s = 1 .. Len(s) /\ Len(s) \in Nat /\ j \in 1 .. Len(s) /\ s[j].kind = "receipt"
  BY <1>1 DEF At
<1>3. \A k \in 1 .. Len(s) : (s \o <<e>>)[k] = s[k] /\ k \in DOMAIN (s \o <<e>>)
  OBVIOUS
<1>4. j \in At(s \o <<e>>, "receipt")
  BY <1>2, <1>3 DEF At
<1>5. \A k \in j + 1 .. i - 1 : k \in 1 .. Len(s)
  BY <1>2
<1>6. \A k \in j + 1 .. i - 1 : (s \o <<e>>)[k].kind \notin Turn
  BY <1>1, <1>3, <1>5
<1>7. (s \o <<e>>)[j] = s[j] /\ (s \o <<e>>)[i] = s[i]
  BY <1>2, <1>3
<1> QED BY <1>1, <1>4, <1>6, <1>7 DEF AnswersReceipt

\* One more event.
LEMMA TurnsAppend ==
  ASSUME NEW s \in Seq(Event), NEW e \in Event
  PROVE  /\ TurnsIn(s) /\ e.kind # "reply" => TurnsIn(s \o <<e>>)
         /\ \A req : /\ LastTurn(s, req) /\ e.kind \notin Turn => LastTurn(s \o <<e>>, req)
                     /\ LastTurn(s, req) /\ TurnsIn(s) /\ e.kind = "reply"
                             /\ e.reply.aid = AidOf(req) => TurnsIn(s \o <<e>>)
         /\ e.kind = "receipt" => LastTurn(s \o <<e>>, e.req)
         /\ \A aid : Replied(s, aid) => Replied(s \o <<e>>, aid)
         /\ e.kind = "reply" => Replied(s \o <<e>>, e.reply.aid)
<1> DEFINE r == s \o <<e>>
<1>1. PICK n \in Nat : n = Len(s)
  OBVIOUS
<1>2. /\ DOMAIN s = 1 .. n /\ DOMAIN r = 1 .. (n + 1) /\ Len(r) = n + 1 /\ r[n + 1] = e
      /\ \A k \in 1 .. n : r[k] = s[k]
  BY <1>1
<1> HIDE DEF r
<1>3. \A k : At(r, k) = At(s, k) \cup (IF e.kind = k THEN {n + 1} ELSE {})
  BY <1>1, AtAppend DEF r
<1>4. ASSUME TurnsIn(s), NEW i \in At(s, "reply") PROVE AnswersReceipt(r, i)
  BY <1>4, AnswersStay DEF TurnsIn, At, r
<1>5. TurnsIn(s) /\ e.kind # "reply" => TurnsIn(r)
  BY <1>3, <1>4 DEF TurnsIn
<1>6. ASSUME NEW req, LastTurn(s, req) PROVE /\ e.kind \notin Turn => LastTurn(r, req)
                                             /\ TurnsIn(s) /\ e.kind = "reply"
                                                  /\ e.reply.aid = AidOf(req) => TurnsIn(r)
  <2>1. PICK j \in At(s, "receipt") : s[j].req = req /\ \A k \in j + 1 .. n : s[k].kind \notin Turn
    BY <1>1, <1>6 DEF LastTurn
  <2>2. j \in 1 .. n /\ j \in At(r, "receipt") /\ r[j] = s[j]
    BY <1>2, <1>3, <2>1 DEF At
  <2>3. \A k \in j + 1 .. n : r[k].kind \notin Turn
    BY <1>2, <2>1, <2>2
  <2>4. e.kind \notin Turn => LastTurn(r, req)
    <3>1. \A k \in j + 1 .. (n + 1) : k \in j + 1 .. n \/ k = n + 1
      BY <2>2
    <3> QED BY <1>2, <2>1, <2>2, <2>3, <3>1 DEF LastTurn
  <2>5. ASSUME TurnsIn(s), e.kind = "reply", e.reply.aid = AidOf(req) PROVE TurnsIn(r)
    <3>1. AnswersReceipt(r, n + 1)
      <4>1. j < n + 1 /\ n + 1 - 1 = n
        BY <2>2
      <4> QED BY <1>2, <2>1, <2>2, <2>3, <2>5, <4>1 DEF AnswersReceipt
    <3> QED BY <1>3, <1>4, <2>5, <3>1 DEF TurnsIn
  <2> QED BY <2>4, <2>5
<1>7. e.kind = "receipt" => LastTurn(r, e.req)
  <2>1. e.kind = "receipt" => n + 1 \in At(r, "receipt") /\ r[n + 1].req = e.req
    BY <1>2, <1>3
  <2>2. \A k \in n + 1 + 1 .. n + 1 : FALSE
    BY <1>1
  <2> QED BY <1>2, <2>1, <2>2 DEF LastTurn
<1>8. \A aid : Replied(s, aid) => Replied(r, aid)
  <2> SUFFICES ASSUME NEW aid, NEW j \in At(s, "reply"), s[j].reply.aid = aid PROVE Replied(r, aid)
    BY DEF Replied
  <2>1. j \in At(r, "reply") /\ r[j] = s[j]
    BY <1>2, <1>3 DEF At
  <2> QED BY <2>1 DEF Replied
<1>9. e.kind = "reply" => Replied(r, e.reply.aid)
  BY <1>2, <1>3 DEF Replied
<1> QED BY <1>5, <1>6, <1>7, <1>8, <1>9 DEF r

\* A server goes on with its request, or ends.
Keeps(t) ==
  /\ srv'[t].pc \in Busy => srv[t].pc \in Busy /\ srv'[t].cur = srv[t].cur
  /\ srv[t].pc \in Busy => srv'[t].pc \in Busy \/ Gone(t)'

\* A worker logs nothing, or one event that is no receipt and no reply, or a
\* receipt that it goes on to handle, or the reply to what it handles.
TurnStep(t) ==
  \/ log'[t] = log[t] /\ Keeps(t)
  \/ \E e \in Event : e.kind \notin Turn /\ log'[t] = log[t] \o <<e>> /\ Keeps(t)
  \/ \E e, f \in Event :
       /\ srv[t].pc = "idle" /\ e.kind = "receipt" /\ Handled(t, e.req)' /\ f.kind \notin Turn
       /\ log'[t] = log[t] \o <<e>> \/ log'[t] = (log[t] \o <<e>>) \o <<f>>
  \/ \E e \in Event :
       /\ srv[t].pc \in Busy /\ srv'[t].pc \notin Busy
       /\ e.kind = "reply" /\ e.reply.aid = AidOf(srv[t].cur) /\ log'[t] = log[t] \o <<e>>

\* RepliesOK is kept.
LEMMA RepliesKept ==
  ASSUME CreditInv, CreditInv', NEW t \in Target, RepliesOK(t), TurnStep(t), QueueStep(t)
  PROVE  RepliesOK(t)'
<1>a. log[t] \in Seq(Event) /\ delivery[t] \in Seq(Event) /\ (Gone(t) => Gone(t)')
  BY CreditBase DEF QueueStep
<1>b. \A req \in Receipts(delivery'[t]) : Replied(delivery'[t], AidOf(req))
  <2>1. CASE delivery'[t] = delivery[t]
    BY <2>1 DEF RepliesOK
  <2>2. CASE Snaps(t)
    <3>1. srv[t].pc = "idle" /\ delivery'[t] = log[t]
      BY <2>2 DEF Snaps
    <3> QED BY <3>1 DEF RepliesOK, Gone, Handled, Busy
  <2> QED BY <2>1, <2>2, DeliveryStays
<1> DEFINE Fine == /\ TurnsIn(log'[t])
                   /\ srv'[t].pc \in Busy => LastTurn(log'[t], srv'[t].cur)
                   /\ \A req \in Receipts(log'[t]) :
                        Replied(log'[t], AidOf(req)) \/ Handled(t, req)' \/ Gone(t)'
<1>c. Gone(t) <=> srv[t].pc \in {"dead", "exited"}
  BY DEF Gone
<1>1. ASSUME log'[t] = log[t], Keeps(t) PROVE Fine
  BY <1>1, <1>a DEF RepliesOK, Keeps, Handled, Busy, Gone
<1>2. ASSUME NEW e \in Event, e.kind \notin Turn, log'[t] = log[t] \o <<e>>, Keeps(t) PROVE Fine
  <2>1. e.kind # "reply" /\ e.kind # "receipt"
    BY <1>2 DEF Turn
  <2>2. Receipts(log'[t]) = Receipts(log[t])
    BY <1>2, <1>a, <2>1, ReadAppend
  <2>3. TurnsIn(log'[t]) /\ (\A req : LastTurn(log[t], req) => LastTurn(log'[t], req))
        /\ (\A aid : Replied(log[t], aid) => Replied(log'[t], aid))
    BY <1>2, <1>a, <2>1, TurnsAppend DEF RepliesOK
  <2>4. srv'[t].pc \in Busy => LastTurn(log'[t], srv'[t].cur)
    BY <1>2, <2>3 DEF RepliesOK, Keeps
  <2>5. \A req \in Receipts(log'[t]) : Replied(log'[t], AidOf(req)) \/ Handled(t, req)' \/ Gone(t)'
    BY <1>2, <1>a, <2>2, <2>3 DEF RepliesOK, Keeps, Handled
  <2> QED BY <2>3, <2>4, <2>5
<1>3. ASSUME NEW e \in Event, NEW f \in Event, srv[t].pc = "idle", e.kind = "receipt",
             Handled(t, e.req)', f.kind \notin Turn,
             log'[t] = log[t] \o <<e>> \/ log'[t] = (log[t] \o <<e>>) \o <<f>>
      PROVE  Fine
  <2> DEFINE s == log[t]
             r == s \o <<e>>
  <2>0. s \in Seq(Event) /\ r \in Seq(Event)
    BY <1>a
  <2>1. TurnsIn(r) /\ LastTurn(r, e.req) /\ (\A aid : Replied(s, aid) => Replied(r, aid))
    BY <2>0, <1>3, TurnsAppend DEF RepliesOK
  <2>2. Receipts(r) = Receipts(s) \cup {e.req}
    <3>1. At(r, "receipt") = At(s, "receipt") \cup {Len(s) + 1}
      <4>1. At(s \o <<e>>, "receipt") =
              At(s, "receipt") \cup (IF e.kind = "receipt" THEN {Len(s) + 1} ELSE {})
        <5> HIDE DEF s
        <5> QED BY <2>0, AtAppend
      <4> QED BY <1>3, <4>1
    <3>2. \A i \in DOMAIN s : r[i] = s[i]
      BY <2>0
    <3>3. r[Len(s) + 1] = e
      BY <2>0
    <3> HIDE DEF r
    <3> QED BY <3>1, <3>2, <3>3 DEF Receipts, At
  <2>3. /\ f.kind # "receipt" /\ f.kind # "reply"
    BY <1>3 DEF Turn
  <2>4. /\ TurnsIn(r \o <<f>>) /\ LastTurn(r \o <<f>>, e.req)
        /\ \A aid : Replied(r, aid) => Replied(r \o <<f>>, aid)
    BY <1>3, <2>0, <2>1, <2>3, TurnsAppend
  <2>5. Receipts(r \o <<f>>) = Receipts(r)
    BY <2>0, <2>3, ReadAppend
  <2> HIDE DEF r, s
  <2>6. /\ TurnsIn(log'[t]) /\ LastTurn(log'[t], e.req)
        /\ \A aid : Replied(s, aid) => Replied(log'[t], aid)
        /\ Receipts(log'[t]) = Receipts(s) \cup {e.req}
    BY <1>3, <2>1, <2>2, <2>4, <2>5 DEF r, s
  <2>7. \A req \in Receipts(s) : Replied(s, AidOf(req))
    BY <1>3 DEF RepliesOK, Handled, Gone, Busy, s
  <2>8. srv'[t].cur = e.req
    BY <1>3 DEF Handled
  <2> QED BY <1>3, <2>6, <2>7, <2>8
<1>4. ASSUME NEW e \in Event, srv[t].pc \in Busy, srv'[t].pc \notin Busy, e.kind = "reply",
             e.reply.aid = AidOf(srv[t].cur), log'[t] = log[t] \o <<e>>
      PROVE  Fine
  <2>1. LastTurn(log[t], srv[t].cur) /\ TurnsIn(log[t])
    BY <1>4 DEF RepliesOK
  <2>2. /\ TurnsIn(log'[t]) /\ Replied(log'[t], AidOf(srv[t].cur))
        /\ \A aid : Replied(log[t], aid) => Replied(log'[t], aid)
    BY <1>4, <1>a, <2>1, TurnsAppend
  <2>3. Receipts(log'[t]) = Receipts(log[t])
    BY <1>4, <1>a, ReadAppend
  <2> QED BY <1>4, <1>a, <2>2, <2>3 DEF RepliesOK, Handled
<1>5. Fine
  <2> HIDE DEF Fine
  <2> QED BY <1>1, <1>2, <1>3, <1>4 DEF TurnStep
<1> QED BY <1>b, <1>5 DEF RepliesOK

\* Where a server stays as it is, or ends, and logs nothing.
LEMMA TurnFrame ==
  ASSUME NEW u \in Target, log'[u] = log[u], srv'[u] = srv[u] \/ srv'[u].pc \in {"dead", "exited"}
  PROVE  TurnStep(u)
BY DEF TurnStep, Keeps, Gone, Busy

\* Every step of a worker is a TurnStep of every worker.
LEMMA ServerTurns ==
  ASSUME CallsInv, NEW t \in Target, ServerStep(t), NEW u \in Target
  PROVE  TurnStep(u)
<1>a. /\ TInv /\ srv \in [Target -> SrvType] /\ log \in [Target -> Seq(Event)]
      /\ queue[t] \in Seq(Command) /\ (srv[t].pc \in Busy => srv[t].cur \in Command)
      /\ intent.kid \in [Target -> Target \cup {NoTarget}]
  BY CapturesAssumption
  DEF CallsInv, ResponseInv, DeliveryInv, PauseInv, TInv, CallInv, TypeOK
<1>b. ASSUME u # t PROVE TurnStep(u)
  <2>1. log'[u] = log[u]
    BY <1>a, <1>b DEF ServerStep, Configure, Snapshot, Exit, ReceivePause, NativePaused, Forward,
                      Forwarded, SendReply, Emit
  <2>2. srv'[u] = srv[u]
    BY <1>a, <1>b DEF ServerStep, Configure, Snapshot, Exit, ReceivePause, NativePaused, Forward,
                      Forwarded, SendReply, EndProcess
  <2> QED BY <2>1, <2>2, TurnFrame
<1>c. ASSUME NEW e \in Event, e.kind \notin Turn, Emit(t, <<e>>), Keeps(t) PROVE TurnStep(t)
  BY <1>a, <1>c DEF Emit, TurnStep
<1>1. CASE Configure(t)
  <2>1. [kind |-> "configured"] \in Event /\ [kind |-> "configured"].kind \notin Turn
    BY EventType DEF Turn
  <2>2. Emit(t, <<[kind |-> "configured"]>>) /\ Keeps(t)
    BY <1>1 DEF Configure, Keeps
  <2> QED BY <1>b, <1>c, <2>1, <2>2
<1>2. CASE Snapshot(t)
  <2>1. log' = log /\ (srv' = srv \/ srv'[t].pc = "dead")
    <3>1. log' = log /\ (srv' = srv \/ EndProcess(t, "dead", Head(queue[t]), "EOFError"))
      BY <1>2 DEF Snapshot
    <3> QED BY <1>a, <3>1, EndTells
  <2> QED BY <1>b, <2>1, TurnFrame
<1>3. CASE Exit(t)
  <2>1. log' = log /\ srv'[t].pc = "exited"
    BY <1>a, <1>3 DEF Exit, EndProcess
  <2> QED BY <1>b, <2>1, TurnFrame
<1>4. CASE ReceivePause(t)
  <2>1. PICK req : req = Head(queue[t])
    OBVIOUS
  <2>2. PICK receipt, refusal : /\ receipt = [kind |-> "receipt", req |-> req]
                                /\ refusal = [kind |-> "refused", aid |-> AidOf(req)]
    OBVIOUS
  <2>3. req \in Command /\ srv[t].pc = "idle"
    BY <1>a, <1>4, <2>1 DEF ReceivePause, Accepts
  <2>4. Emit(t, <<receipt>>) \/ Emit(t, <<receipt, refusal>>)
    BY <1>4, <2>1, <2>2 DEF ReceivePause
  <2>5. /\ receipt \in Event /\ refusal \in Event
        /\ receipt.kind = "receipt" /\ receipt.req = req /\ refusal.kind \notin Turn
    BY <2>2, <2>3, EventType, AidType DEF Turn
  <2>6. log'[t] = log[t] \o <<receipt>> \/ log'[t] = (log[t] \o <<receipt>>) \o <<refusal>>
    <3>1. log'[t] = log[t] \o <<receipt>> \/ log'[t] = log[t] \o <<receipt, refusal>>
      BY <1>a, <2>4 DEF Emit
    <3>2. log[t] \o <<receipt, refusal>> = (log[t] \o <<receipt>>) \o <<refusal>>
      BY <1>a, <2>5, TwoAppends
    <3> QED BY <3>1, <3>2
  <2>7. srv'[t].cur = req /\ srv'[t].pc \in Busy
    BY <1>a, <1>4, <2>1 DEF ReceivePause, Busy
  <2>8. Handled(t, receipt.req)'
    BY <2>5, <2>7 DEF Handled
  <2>9. TurnStep(t)
    BY <2>3, <2>5, <2>6, <2>8 DEF TurnStep
  <2> QED BY <1>b, <2>9
<1>5. CASE NativePaused(t)
  <2>1. PICK e : Emit(t, <<e>>) /\ e = [kind |-> "native_paused", aid |->
                   IF biz[t].pc = "paused" THEN AidOf(srv[t].cur) ELSE NoAid]
    BY <1>5 DEF NativePaused
  <2>2. srv[t].pc = "waitStop" /\ srv[t].cur \in Command
    BY <1>a, <1>5 DEF NativePaused, Busy
  <2>3. e \in Event /\ e.kind \notin Turn
    BY <2>1, <2>2, EventType, AidType DEF Turn
  <2>4. Keeps(t)
    BY <1>a, <1>5 DEF NativePaused, Keeps, Busy
  <2> QED BY <1>b, <1>c, <2>1, <2>3, <2>4
<1>6. CASE Forward(t)
  <2>1. ForwardedCommand(t) \in Command
    <3>1. /\ srv[t].pc = "forward" /\ srv[t].cur \in Command
      BY <1>a, <1>6 DEF Forward, Busy
    <3>2. intent.kid[t] \in Target
      BY <1>a, <3>1 DEF TInv, CallInv
    <3>3. AidOf(srv[t].cur) \in Aid /\ Len(log[t]) \in Nat
      BY <1>a, <3>1, AidType
    <3> QED BY <1>a, <3>2, <3>3 DEF ForwardedCommand, Command, Party
  <2>2. PICK e : Emit(t, <<e>>) /\ e = [kind |-> "send", req |-> ForwardedCommand(t)]
    BY <1>6 DEF Forward
  <2>3. e \in Event /\ e.kind \notin Turn
    BY <2>1, <2>2, EventType DEF Turn
  <2>4. Keeps(t)
    BY <1>a, <1>6 DEF Forward, Keeps, Busy
  <2> QED BY <1>b, <1>c, <2>2, <2>3, <2>4
<1>7. CASE Forwarded(t)
  <2>1. PICK e : Emit(t, <<e>>) /\ e = TransportEvent(t)
    BY <1>7 DEF Forwarded
  <2>2. e \in Event /\ e.kind \notin Turn
    <3>1. Returned(t) /\ t \in Party
      BY <1>7 DEF Forwarded, Party
    <3>2. e.kind = "transport"
      BY <2>1 DEF TransportEvent
    <3> QED BY <1>a, <2>1, <3>1, <3>2, TransportEventType DEF Turn
  <2>3. Keeps(t)
    BY <1>a, <1>7 DEF Forwarded, Keeps, Busy
  <2> QED BY <1>b, <1>c, <2>1, <2>2, <2>3
<1>8. CASE SendReply(t)
  <2>0. PICK drop \in BOOLEAN :
          Emit(t, <<[kind |-> "reply", reply |-> ReplyOf(t), dropped |-> drop]>>)
    <3>1. (t \in intent.drop /\ ~srv[t].dropped) \in BOOLEAN
      OBVIOUS
    <3> QED BY <1>8, <3>1 DEF SendReply
  <2>1. PICK e : /\ Emit(t, <<e>>)
                 /\ e = [kind |-> "reply", reply |-> ReplyOf(t), dropped |-> drop]
    BY <2>0
  <2>2. srv[t].pc \in Busy
    BY <1>8 DEF SendReply, Busy
  <2>3. e \in Event /\ e.kind = "reply" /\ e.reply.aid = AidOf(srv[t].cur)
    BY <1>a, <2>1, <2>2, ReplyType, EventType DEF ReplyOf
  <2>4. srv'[t].pc \notin Busy
    <3>1. \/ EndProcess(t, "dead", srv[t].cur, "EOFError")
          \/ \E d : srv' = [srv EXCEPT ![t].pc = "idle", ![t].dropped = d]
      BY <1>8 DEF SendReply
    <3>2. srv'[t].pc \in {"dead", "idle"}
      <4>1. CASE EndProcess(t, "dead", srv[t].cur, "EOFError")
        BY <1>a, <4>1, EndTells
      <4>2. CASE \E d : srv' = [srv EXCEPT ![t].pc = "idle", ![t].dropped = d]
        BY <1>a, <4>2 DEF SrvType
      <4> QED BY <3>1, <4>1, <4>2
    <3> QED BY <3>2 DEF Busy
  <2>5. log'[t] = log[t] \o <<e>>
    BY <1>a, <2>1 DEF Emit
  <2> QED BY <1>b, <2>2, <2>3, <2>4, <2>5 DEF TurnStep
<1> QED BY <1>1, <1>2, <1>3, <1>4, <1>5, <1>6, <1>7, <1>8 DEF ServerStep

\* So is every step.
LEMMA NextTurns ==
  ASSUME CallsInv, [Next]_vars, NEW u \in Target
  PROVE  TurnStep(u)
<1>a. TInv /\ PauseInv /\ srv \in [Target -> SrvType] /\ log \in [Target -> Seq(Event)]
  BY DEF CallsInv, ResponseInv, DeliveryInv, PauseInv, TInv, TypeOK
<1>b. ASSUME UNCHANGED <<srv, log>> PROVE TurnStep(u)
  BY <1>b, TurnFrame
<1>c. ASSUME NEW t \in Target, NEW pc \in {"dead", "exited"}, NEW served, NEW state,
             EndProcess(t, pc, served, state), UNCHANGED log
      PROVE  TurnStep(u)
  <2>1. srv'[u] = srv[u] \/ srv'[u].pc \in {"dead", "exited"}
    BY <1>a, <1>c DEF EndProcess
  <2> QED BY <1>c, <2>1, TurnFrame
<1>d. ASSUME Abort PROVE TurnStep(u)
  <2>1. srv'[u] = srv[u] \/ srv'[u].pc \in {"dead", "exited"}
    BY <1>a, <1>d DEF Abort, SrvType
  <2> QED BY <1>d, <2>1, TurnFrame DEF Abort
<1>1. ASSUME NEW t \in Target, ControllerStep(t) PROVE TurnStep(u)
  <2>1. CASE Spawn(t)
    <3>1. srv[t].pc = "down" /\ log[t] = <<>>
      <4>1. Quiet(t) /\ Started
        BY <1>a DEF PauseInv
      <4>2. idx \in DOMAIN Order
        BY <2>1, <4>1 DEF Spawn, Started
      <4>3. DOMAIN Order \subseteq Nat
        BY OrderAssumption
      <4> QED BY <2>1, <4>1, <4>2, <4>3 DEF Spawn, Started, Quiet
    <3>2. CASE u = t
      <4>1. log'[t] = log[t] \o <<[kind |-> "ready"]>>
        BY <1>a, <2>1, <3>1 DEF Spawn
      <4>2. Keeps(t)
        BY <1>a, <2>1, <3>1 DEF Spawn, Keeps, Busy
      <4>3. [kind |-> "ready"] \in Event /\ [kind |-> "ready"].kind \notin Turn
        BY EventType DEF Turn
      <4> QED BY <3>2, <4>1, <4>2, <4>3 DEF TurnStep
    <3>3. CASE u # t
      BY <1>a, <2>1, <3>3, TurnFrame DEF Spawn
    <3> QED BY <3>2, <3>3
  <2>2. CASE ForceKill(t)
    BY <1>c, <2>2 DEF ForceKill
  <2>3. CASE ControlFails
    BY <1>d, <2>3 DEF ControlFails
  <2>4. CASE Ask(t) \/ Acknowledged(t) \/ Dispatch(t) \/ Dispatched \/ Sample(t)
    BY <1>b, <2>4 DEF Ask, Acknowledged, Dispatch, Dispatched, Sample
  <2> QED BY <1>1, <2>1, <2>2, <2>3, <2>4 DEF ControllerStep
<1>2. CASE \E t \in Target : BusinessStep(t) \/ BusinessFails(t)
  <2>1. UNCHANGED <<srv, log>>
    BY <1>2 DEF BusinessStep, BusinessFails, BeginRow, WriteRow, Interrupt, Business
  <2> QED BY <1>b, <2>1
<1>3. CASE SpawnFails
  BY <1>d, <1>3 DEF SpawnFails
<1>4. CASE \E p \in Party : Expire(p)
  BY <1>b, <1>4 DEF Expire
<1>5. CASE \E t \in Target : PauseTimesOut(t)
  BY <1>c, <1>5 DEF PauseTimesOut
<1>6. CASE UNCHANGED vars \/ Terminated
  <2>1. UNCHANGED <<srv, log>>
    BY <1>6 DEF vars, Terminated
  <2> QED BY <1>b, <2>1
<1> QED BY <1>1, <1>2, <1>3, <1>4, <1>5, <1>6, ServerTurns DEF Next, Environment

-----------------------------------------------------------------------------
(* Why a call fails.                                                       *)

\* What is pending stays so until whoever waits for it hears of it.
KeepStep(t) ==
  \A req \in Pending(t) :
    req \in Pending(t)' \/ \A p \in Party : Waits(p) /\ sock[p].req = req => sock'[p].state # "waiting"

\* A call fails when its target ends or drops the response.
ErrorStep(p) ==
  Waits(p) /\ sock'[p].state \in TransportErrors \ {"TimeoutError"} =>
    \/ /\ srv'[sock[p].req.to].pc \in {"dead", "exited"}
       /\ delivery'[sock[p].req.to] = delivery[sock[p].req.to]
    \/ sock'[p].state = "EOFError" /\ DroppedIn(log'[sock[p].req.to], AidOf(sock[p].req))

\* Where nothing is taken from a backlog and the server goes on.
LEMMA PendingGrows ==
  ASSUME TInv, NEW t \in Target,
         queue'[t] = queue[t] \/ \E x \in Command : queue'[t] = Append(queue[t], x),
         srv[t].pc \in Busy => srv'[t].pc \in Busy /\ srv'[t].cur = srv[t].cur
  PROVE  KeepStep(t)
<1>1. \A k \in DOMAIN queue[t] : k \in DOMAIN queue'[t] /\ queue'[t][k] = queue[t][k]
  <2>1. queue[t] \in Seq(Command)
    BY DEF TInv, TypeOK
  <2>2. ASSUME NEW x \in Command, queue'[t] = Append(queue[t], x)
        PROVE  \A k \in DOMAIN queue[t] : k \in DOMAIN queue'[t] /\ queue'[t][k] = queue[t][k]
    BY <2>1, <2>2
  <2> QED BY <2>2
<1>2. ASSUME NEW req \in Pending(t) PROVE req \in Pending(t)'
  <2>1. CASE \E k \in DOMAIN queue[t] : queue[t][k] = req /\ req.op = "pause"
    BY <1>1, <2>1, PendingIsNext
  <2>2. CASE srv[t].pc \in Busy /\ srv[t].cur = req
    BY <2>2, PendingIsNext
  <2> QED BY <1>2, <2>1, <2>2, PendingIs
<1> QED BY <1>2 DEF KeepStep

\* Where the oldest request is taken, and handled if it is a pause.
LEMMA PendingMoves ==
  ASSUME TInv, NEW t \in Target, queue[t] # <<>>, queue'[t] = Tail(queue[t]), srv[t].pc \notin Busy,
         Head(queue[t]).op = "pause" => srv'[t].pc \in Busy /\ srv'[t].cur = Head(queue[t])
  PROVE  KeepStep(t)
<1>1. queue[t] \in Seq(Command)
  BY DEF TInv, TypeOK
<1>2. ASSUME NEW req \in Pending(t) PROVE req \in Pending(t)'
  <2>1. PICK k \in DOMAIN queue[t] : queue[t][k] = req /\ req.op = "pause"
    BY PendingIs
  <2>2. CASE k = 1
    BY <1>1, <2>1, <2>2, PendingIsNext
  <2>3. CASE k # 1
    <3>1. k - 1 \in DOMAIN Tail(queue[t]) /\ Tail(queue[t])[k - 1] = queue[t][k]
      <4>1. PICK n \in Nat : n = Len(queue[t])
        BY <1>1
      <4>2. k \in 2 .. n /\ DOMAIN Tail(queue[t]) = 1 .. n - 1
        BY <1>1, <2>3, <4>1
      <4> QED BY <1>1, <4>1, <4>2
    <3> QED BY <2>1, <3>1, PendingIsNext
  <2> QED BY <2>2, <2>3
<1> QED BY <1>2 DEF KeepStep

\* Where a process ends.
LEMMA EndLoses ==
  ASSUME CallsInv, NEW t \in Target, NEW pc \in {"dead", "exited"}, NEW served, NEW state,
         EndProcess(t, pc, served, state), UNCHANGED delivery, state # "waiting"
  PROVE  (\A u \in Target : KeepStep(u)) /\ (\A q \in Party : ErrorStep(q))
<1>a. TInv /\ sock \in [Party -> SockType]
  BY DEF CallsInv, ResponseInv, DeliveryInv, PauseInv, TInv, TypeOK
<1>1. /\ sock'[t].state = "none" /\ srv'[t].pc = pc
      /\ \A u \in Target \ {t} : srv'[u] = srv[u] /\ queue'[u] = queue[u]
      /\ \A q \in Party \ {t} : \/ sock'[q] = sock[q]
                                \/ sock[q].req.to = t /\ Told(q, {state, "ConnectionResetError"})
  BY <1>a, EndTells
<1>2. \A q \in Party : Waits(q) /\ sock[q].req.to = t => sock'[q].state # "waiting"
  <2> SUFFICES ASSUME NEW q \in Party, Waits(q), sock[q].req.to = t PROVE sock'[q].state # "waiting"
    OBVIOUS
  <2>1. CASE q = t
    BY <1>1, <2>1
  <2>2. CASE q # t
    <3>1. sock'[q] = [sock[q] EXCEPT !.state =
                        IF sock[q].req = served THEN state ELSE "ConnectionResetError"]
      BY <2>2 DEF EndProcess, Waits
    <3> QED BY <1>a, <3>1 DEF SockType
  <2> QED BY <2>1, <2>2
<1>3. KeepStep(t)
  BY <1>2, PendingWasSent DEF KeepStep
<1>4. \A u \in Target \ {t} : KeepStep(u)
  BY <1>a, <1>1, PendingGrows
<1>5. \A q \in Party : ErrorStep(q)
  <2> SUFFICES ASSUME NEW q \in Party, Waits(q), sock'[q].state \in TransportErrors
               PROVE  /\ srv'[sock[q].req.to].pc \in {"dead", "exited"}
                      /\ delivery'[sock[q].req.to] = delivery[sock[q].req.to]
    BY DEF ErrorStep
  <2>1. sock'[q].state # "none" /\ sock'[q].state # "waiting" /\ sock[q].state = "waiting"
    BY DEF TransportErrors, Waits
  <2>2. sock[q].req.to = t
    BY <1>1, <2>1
  <2> QED BY <1>1, <2>2
<1> QED BY <1>3, <1>4, <1>5

\* Where a server answers what it has accepted.
LEMMA ResultLoses ==
  ASSUME TInv, NEW req \in Command, NEW state, NEW answer, sock' = Result(req, state, answer),
         NEW q \in Party, state = "EOFError" => DroppedIn(log'[req.to], AidOf(req)),
         state \in {"reply", "EOFError"}
  PROVE  ErrorStep(q)
<1>1. sock'[q] = sock[q] \/ (sock[q].req = req /\ Told(q, {state}))
  BY ResultTells
<1>2. CASE sock'[q] = sock[q]
  BY <1>2 DEF ErrorStep, Waits, TransportErrors
<1>3. CASE sock[q].req = req /\ Told(q, {state})
  BY <1>3 DEF ErrorStep, Told, TransportErrors
<1> QED BY <1>1, <1>2, <1>3

\* Where the calls stay, open, close or expire.
LEMMA NothingFails ==
  ASSUME NEW q \in Party,
         \/ sock'[q] = sock[q] \/ sock'[q].state \in {"none", "TimeoutError"}
         \/ sock[q].state # "waiting"
  PROVE  ErrorStep(q)
BY DEF ErrorStep, Waits, TransportErrors

\* What a step must do to those who wait.
Loses == (\A u \in Target : KeepStep(u)) /\ (\A q \in Party : ErrorStep(q))

\* Every step of the harness keeps what is pending and fails calls so.
LEMMA ControllerLoses ==
  ASSUME CallsInv, NEW t \in Target, ControllerStep(t), phase' # "aborted"
  PROVE  Loses
<1>a. /\ TInv /\ sock \in [Party -> SockType] /\ Controller \in Party /\ Closed.state = "none"
      /\ srv \in [Target -> SrvType]
  BY DEF CallsInv, ResponseInv, DeliveryInv, PauseInv, TInv, TypeOK, Party, Closed
<1>b. ASSUME UNCHANGED srv, NEW x, \A u \in Target : queue'[u] \in {queue[u], Append(queue[u], x)},
             x \in Command, NEW p \in Party, \A q \in Party \ {p} : sock'[q] = sock[q],
             sock'[p] = sock[p] \/ sock'[p].state = "none" \/ sock[p].state # "waiting"
      PROVE  Loses
  <2>1. \A u \in Target : KeepStep(u)
    BY <1>a, <1>b, PendingGrows
  <2>2. \A q \in Party : ErrorStep(q)
    BY <1>b, NothingFails
  <2> QED BY <2>1, <2>2 DEF Loses
<1>c. ASSUME UNCHANGED <<srv, queue>>, \A q \in Party \ {Controller} : sock'[q] = sock[q],
             sock'[Controller] = sock[Controller] \/ sock'[Controller].state = "none"
      PROVE  Loses
  <2>1. \A u \in Target : KeepStep(u)
    BY <1>a, <1>c, PendingGrows
  <2>2. \A q \in Party : ErrorStep(q)
    BY <1>c, NothingFails
  <2> QED BY <2>1, <2>2 DEF Loses
<1>d. ASSUME UNCHANGED srv, NEW req \in Command, Connect(Controller, req), sock[Controller] = Closed
      PROVE  Loses
  <2>1. /\ \A q \in Party \ {Controller} : sock'[q] = sock[q]
        /\ \A u \in Target : queue'[u] \in {queue[u], Append(queue[u], req)}
    BY <1>a, <1>d, ConnectTells
  <2> QED BY <1>a, <1>b, <1>d, <2>1
<1>1. CASE Spawn(t)
  <2>1. UNCHANGED <<queue, sock>> /\ \A u \in Target \ {t} : srv'[u] = srv[u]
    BY <1>a, <1>1 DEF Spawn
  <2>2. srv[t].pc = "down"
    <3>1. Started
      BY DEF CallsInv, ResponseInv, DeliveryInv, PauseInv
    <3>2. idx \in DOMAIN Order
      BY <1>1, <3>1 DEF Spawn, Started
    <3>3. DOMAIN Order \subseteq Nat
      BY OrderAssumption
    <3> QED BY <1>1, <3>1, <3>2, <3>3 DEF Spawn, Started
  <2>3. \A u \in Target : KeepStep(u)
    BY <1>a, <2>1, <2>2, PendingGrows DEF Busy
  <2>4. \A q \in Party : ErrorStep(q)
    BY <2>1, NothingFails
  <2> QED BY <2>3, <2>4 DEF Loses
<1>2. CASE Ask(t)
  <2>1. ControlOp(t) \in {"configure", "snapshot", "exit"}
    BY <1>2 DEF Ask, ControlOp
  <2>2. [op |-> ControlOp(t), from |-> Controller, to |-> t, n |-> 0, parent |-> NoAid] \in Command
    BY <2>1 DEF Command, Party
  <2> QED BY <1>2, <1>d, <2>2 DEF Ask
<1>3. CASE Acknowledged(t)
  <2>1. UNCHANGED <<srv, queue>> /\ sock' = [sock EXCEPT ![Controller] = Closed]
    BY <1>3 DEF Acknowledged
  <2> QED BY <1>a, <1>c, <2>1
<1>4. CASE Dispatch(t)
  <2>1. Len(events) \in Nat
    BY <1>a DEF TInv, TypeOK
  <2>2. [op |-> "pause", from |-> Controller, to |-> t, n |-> Len(events), parent |-> NoAid] \in Command
    BY <2>1 DEF Command, Party
  <2> QED BY <1>4, <1>d, <2>2 DEF Dispatch
<1>5. CASE Dispatched
  <2>1. UNCHANGED <<srv, queue>> /\ sock' = [sock EXCEPT ![Controller] = Closed]
    BY <1>5 DEF Dispatched
  <2> QED BY <1>a, <1>c, <2>1
<1>6. CASE Sample(t)
  <2>1. UNCHANGED <<srv, queue, sock>>
    BY <1>6 DEF Sample
  <2> QED BY <1>c, <2>1
<1>7. CASE ForceKill(t)
  BY <1>7, EndLoses DEF ForceKill, Loses
<1>8. CASE ControlFails
  BY <1>8 DEF ControlFails, Abort
<1> QED BY <1>1, <1>2, <1>3, <1>4, <1>5, <1>6, <1>7, <1>8 DEF ControllerStep

\* So does every step of a worker.
LEMMA ServerLoses ==
  ASSUME CallsInv, NEW t \in Target, ServerStep(t)
  PROVE  Loses
<1>a. /\ TInv /\ t \in Party /\ sock \in [Party -> SockType] /\ Closed.state = "none"
      /\ srv \in [Target -> SrvType] /\ log \in [Target -> Seq(Event)]
      /\ queue \in [Target -> Seq(Command)] /\ Backlog(t) /\ Handling(t)
      /\ (srv[t].pc \in Busy => srv[t].cur \in Command)
  BY DEF CallsInv, ResponseInv, DeliveryInv, PauseInv, TInv, CallInv, TypeOK, Party, Closed
<1>b. ASSUME NEW op, Accepts(t, op)
      PROVE  /\ queue[t] # <<>> /\ Head(queue[t]).op = op /\ Head(queue[t]) \in Command
             /\ srv[t].pc \notin Busy
  BY <1>a, <1>b, AcceptsType DEF Accepts, Busy
<1>c. ASSUME NEW op, op # "pause", Accepts(t, op), UNCHANGED srv, queue' = [queue EXCEPT ![t] = Tail(@)],
             sock' = Result(Head(queue[t]), "reply", NoReply)
      PROVE  Loses
  <2>1. KeepStep(t)
    BY <1>a, <1>b, <1>c, PendingMoves
  <2>2. \A u \in Target \ {t} : KeepStep(u)
    BY <1>a, <1>c, PendingGrows
  <2>3. \A q \in Party : ErrorStep(q)
    BY <1>a, <1>b, <1>c, ResultLoses
  <2> QED BY <2>1, <2>2, <2>3 DEF Loses
<1>d. ASSUME UNCHANGED queue, \A u \in Target \ {t} : srv'[u] = srv[u],
             srv[t].pc \in Busy => srv'[t].pc \in Busy /\ srv'[t].cur = srv[t].cur,
             \A q \in Party \ {t} : sock'[q] = sock[q],
             sock'[t] = sock[t] \/ sock'[t].state = "none"
      PROVE  Loses
  <2>1. \A u \in Target : KeepStep(u)
    BY <1>a, <1>d, PendingGrows
  <2>2. \A q \in Party : ErrorStep(q)
    BY <1>d, NothingFails
  <2> QED BY <2>1, <2>2 DEF Loses
<1>1. CASE Configure(t)
  <2>1. /\ Accepts(t, "configure") /\ UNCHANGED srv /\ queue' = [queue EXCEPT ![t] = Tail(@)]
        /\ sock' = Result(Head(queue[t]), "reply", NoReply)
    BY <1>1 DEF Configure
  <2> QED BY <1>c, <2>1
<1>2. CASE Snapshot(t)
  <2>1. Accepts(t, "snapshot")
    BY <1>2 DEF Snapshot
  <2>2. CASE /\ UNCHANGED srv /\ queue' = [queue EXCEPT ![t] = Tail(@)]
             /\ sock' = Result(Head(queue[t]), "reply", NoReply)
    BY <1>c, <2>1, <2>2
  <2>3. CASE EndProcess(t, "dead", Head(queue[t]), "EOFError") /\ UNCHANGED delivery
    BY <2>3, EndLoses DEF Loses
  <2> QED BY <1>2, <2>2, <2>3 DEF Snapshot
<1>3. CASE Exit(t)
  BY <1>3, EndLoses DEF Exit, ctlVars, Loses
<1>4. CASE ReceivePause(t)
  <2>1. /\ Accepts(t, "pause") /\ queue' = [queue EXCEPT ![t] = Tail(@)] /\ UNCHANGED sock
        /\ \A u \in Target \ {t} : srv'[u] = srv[u]
    BY <1>a, <1>4 DEF ReceivePause
  <2>2. srv'[t].cur = Head(queue[t]) /\ srv'[t].pc \in Busy
    BY <1>a, <1>4 DEF ReceivePause, Busy
  <2>3. KeepStep(t)
    BY <1>a, <1>b, <2>1, <2>2, PendingMoves
  <2>4. \A u \in Target \ {t} : KeepStep(u)
    BY <1>a, <2>1, PendingGrows
  <2>5. \A q \in Party : ErrorStep(q)
    BY <2>1, NothingFails
  <2> QED BY <2>3, <2>4, <2>5 DEF Loses
<1>5. CASE NativePaused(t)
  <2>1. /\ UNCHANGED <<queue, sock>> /\ \A u \in Target \ {t} : srv'[u] = srv[u]
        /\ srv'[t].pc \in Busy /\ srv'[t].cur = srv[t].cur
    BY <1>a, <1>5 DEF NativePaused, Busy
  <2> QED BY <1>d, <2>1
<1>6. CASE Forward(t)
  <2>1. /\ srv[t].pc = "forward" /\ srv'[t].pc = "await" /\ srv'[t].cur = srv[t].cur
        /\ \A u \in Target \ {t} : srv'[u] = srv[u]
        /\ Connect(t, ForwardedCommand(t))
    BY <1>a, <1>6 DEF Forward
  <2>2. ForwardedCommand(t) \in Command
    <3>1. srv[t].cur \in Command
      BY <1>a, <2>1 DEF Busy
    <3>2. intent.kid[t] \in Target
      BY <1>a, <2>1, CapturesAssumption DEF TInv, CallInv, TypeOK
    <3>3. AidOf(srv[t].cur) \in Aid /\ Len(log[t]) \in Nat
      BY <1>a, <3>1, AidType
    <3> QED BY <1>a, <3>2, <3>3 DEF ForwardedCommand, Command
  <2>3. /\ \A q \in Party \ {t} : sock'[q] = sock[q]
        /\ \A u \in Target : queue'[u] \in {queue[u], Append(queue[u], ForwardedCommand(t))}
    BY <1>a, <2>1, <2>2, ConnectTells
  <2>4. sock[t].state = "none"
    BY <2>1, NoCall
  <2>5. \A u \in Target : KeepStep(u)
    BY <1>a, <2>1, <2>2, <2>3, PendingGrows DEF Busy
  <2>6. \A q \in Party : ErrorStep(q)
    BY <2>3, <2>4, NothingFails
  <2> QED BY <2>5, <2>6 DEF Loses
<1>7. CASE Forwarded(t)
  <2>1. /\ UNCHANGED queue /\ \A u \in Target \ {t} : srv'[u] = srv[u]
        /\ srv'[t].pc \in Busy /\ srv'[t].cur = srv[t].cur
        /\ sock' = [sock EXCEPT ![t] = Closed]
    BY <1>a, <1>7 DEF Forwarded, Busy
  <2>2. sock'[t].state = "none" /\ \A q \in Party \ {t} : sock'[q] = sock[q]
    BY <1>a, <2>1
  <2> QED BY <1>d, <2>1, <2>2
<1>8. CASE SendReply(t)
  <2>1. PICK req : req = srv[t].cur
    OBVIOUS
  <2>2. req \in Command /\ req.to = t /\ req.op = "pause" /\ srv[t].pc \in Busy
    BY <1>a, <1>8, <2>1 DEF SendReply, Busy, Handling
  <2>3. CASE EndProcess(t, "dead", req, "EOFError") /\ UNCHANGED delivery
    BY <2>3, EndLoses DEF Loses
  <2>4. ASSUME NEW state \in {"reply", "EOFError"}, NEW answer, sock' = Result(req, state, answer),
               UNCHANGED queue, \A u \in Target \ {t} : srv'[u] = srv[u],
               state = "EOFError" => DroppedIn(log'[t], AidOf(req))
        PROVE  Loses
    <3>1. ASSUME NEW p \in Party, Waits(p), sock[p].req = req PROVE sock'[p].state # "waiting"
      <4>1. req \in Sent(p)
        BY <3>1, OutstandingWasSent DEF Waits
      <4>2. NumberedIn(Own(p), p) /\ Own(p) \in Seq(Event)
        BY <1>a, OwnIs DEF CallsInv, ResponseInv, DeliveryInv
      <4>3. req.from = p
        BY <4>1, <4>2, NumberIsNew DEF Sent
      <4>4. sock' = [sock EXCEPT ![p].state = state, ![p].answer = answer]
        BY <2>4, <3>1, <4>3 DEF Result, Connected, Waits
      <4>5. sock'[p].state = state
        BY <1>a, <4>4 DEF SockType
      <4> QED BY <4>5
    <3>2. KeepStep(t)
      <4> SUFFICES ASSUME NEW r \in Pending(t), r # req PROVE r \in Pending(t)'
        BY <3>1 DEF KeepStep
      <4>1. \E k \in DOMAIN queue[t] : queue[t][k] = r /\ r.op = "pause"
        BY <2>1, PendingIs
      <4> QED BY <2>4, <4>1, PendingIsNext
    <3>3. \A u \in Target \ {t} : KeepStep(u)
      BY <1>a, <2>4, PendingGrows
    <3>4. \A q \in Party : ErrorStep(q)
      BY <1>a, <2>2, <2>4, ResultLoses
    <3> QED BY <3>2, <3>3, <3>4 DEF Loses
  <2>p. PICK drop \in BOOLEAN : \E e :
          /\ Emit(t, <<e>>) /\ e = [kind |-> "reply", reply |-> ReplyOf(t), dropped |-> drop]
          /\ \/ /\ UNCHANGED queue /\ \A u \in Target \ {t} : srv'[u] = srv[u]
                /\ sock' = IF drop THEN Result(req, "EOFError", NoReply)
                                   ELSE Result(req, "reply", ReplyOf(t))
             \/ EndProcess(t, "dead", req, "EOFError")
    <3>1. PICK drop \in BOOLEAN : drop = (t \in intent.drop /\ ~srv[t].dropped)
      OBVIOUS
    <3>2. Emit(t, <<[kind |-> "reply", reply |-> ReplyOf(t), dropped |-> drop]>>)
      BY <1>8, <3>1 DEF SendReply
    <3>3. \/ /\ UNCHANGED queue /\ \A u \in Target \ {t} : srv'[u] = srv[u]
             /\ sock' = IF drop THEN Result(req, "EOFError", NoReply)
                                ELSE Result(req, "reply", ReplyOf(t))
          \/ EndProcess(t, "dead", req, "EOFError")
      BY <1>a, <1>8, <2>1, <3>1 DEF SendReply
    <3> QED BY <3>2, <3>3
  <2>5. PICK e :
          /\ Emit(t, <<e>>) /\ e = [kind |-> "reply", reply |-> ReplyOf(t), dropped |-> drop]
          /\ \/ /\ UNCHANGED queue /\ \A u \in Target \ {t} : srv'[u] = srv[u]
                /\ sock' = IF drop THEN Result(req, "EOFError", NoReply)
                                   ELSE Result(req, "reply", ReplyOf(t))
             \/ EndProcess(t, "dead", req, "EOFError")
    BY <2>p
  <2>6. UNCHANGED delivery
    BY <1>8 DEF SendReply
  <2>7. drop => DroppedIn(log'[t], AidOf(req))
    <3>1. e \in Event /\ e.kind = "reply" /\ e.reply.aid = AidOf(req) /\ e.dropped = drop
      BY <1>a, <2>1, <2>2, <2>5, ReplyType, EventType DEF ReplyOf
    <3>2. log'[t] = log[t] \o <<e>> /\ log[t] \in Seq(Event)
      BY <1>a, <2>5 DEF Emit
    <3>3. PICK n \in Nat : n = Len(log[t])
      BY <3>2
    <3>4. n + 1 \in DOMAIN log'[t] /\ log'[t][n + 1] = e
      BY <3>2, <3>3
    <3>5. n + 1 \in At(log'[t], "reply")
      BY <3>1, <3>4 DEF At
    <3> QED BY <3>1, <3>4, <3>5 DEF DroppedIn
  <2> QED BY <2>3, <2>4, <2>5, <2>6, <2>7
<1> QED BY <1>1, <1>2, <1>3, <1>4, <1>5, <1>6, <1>7, <1>8 DEF ServerStep

\* So does every step of a capture that goes on.
LEMMA NextLoses ==
  ASSUME CallsInv, [Next]_vars, phase' # "aborted"
  PROVE  Loses
<1>a. TInv /\ sock \in [Party -> SockType]
  BY DEF CallsInv, ResponseInv, DeliveryInv, PauseInv, TInv, TypeOK
<1>b. ASSUME UNCHANGED <<srv, queue>>,
             \A q \in Party : sock'[q] = sock[q] \/ sock'[q].state = "TimeoutError"
      PROVE  Loses
  <2>1. \A u \in Target : KeepStep(u)
    BY <1>a, <1>b, PendingGrows
  <2>2. \A q \in Party : ErrorStep(q)
    BY <1>b, NothingFails
  <2> QED BY <2>1, <2>2 DEF Loses
<1>1. ASSUME NEW t \in Target, BusinessStep(t) \/ BusinessFails(t) PROVE Loses
  <2>1. UNCHANGED <<srv, queue, sock>>
    BY <1>1 DEF BusinessStep, BusinessFails, BeginRow, WriteRow, Interrupt, Business
  <2> QED BY <1>b, <2>1
<1>2. ~SpawnFails
  BY DEF SpawnFails, Abort
<1>3. ASSUME NEW p \in Party, Expire(p) PROVE Loses
  <2>1. UNCHANGED <<srv, queue>> /\ sock' = [sock EXCEPT ![p].state = "TimeoutError"]
    BY <1>3 DEF Expire
  <2>2. \A q \in Party : sock'[q] = sock[q] \/ sock'[q].state = "TimeoutError"
    BY <1>a, <2>1 DEF SockType
  <2> QED BY <1>b, <2>1, <2>2
<1>4. ASSUME NEW t \in Target, PauseTimesOut(t) PROVE Loses
  BY <1>4, EndLoses DEF PauseTimesOut, Loses
<1>5. ASSUME UNCHANGED vars \/ Terminated PROVE Loses
  <2>1. UNCHANGED <<srv, queue, sock>>
    BY <1>5 DEF vars, Terminated
  <2> QED BY <1>b, <2>1
<1> QED BY <1>1, <1>2, <1>3, <1>4, <1>5, ControllerLoses, ServerLoses DEF Next, Environment

\* What a party has sent are pauses.
LEMMA SentIsPause ==
  ASSUME CallsInv, NEW p \in Party, NEW req \in Sent(p)
  PROVE  req \in Command /\ req.op = "pause"
<1>1. Own(p) \in Seq(Event) /\ Outlined(Own(p))
  BY OwnIs DEF CallsInv, ResponseInv, DeliveryInv, PauseInv
<1>2. PICK i \in At(Own(p), "send") : Own(p)[i].req = req
  BY DEF Sent, Sends
<1>3. Own(p)[i] \in Event /\ Own(p)[i].kind = "send"
  BY <1>1, <1>2 DEF At
<1>4. \A e \in Event : e.kind = "send" => e.req \in Command
  BY DEF Event
<1> QED BY <1>1, <1>2, <1>3, <1>4 DEF Outlined

\* A call that is being made was made by nobody before.
LEMMA OpeningIsNew ==
  ASSUME CreditInv, NEW q \in Party, NEW req \in Command, Opening(q, req), NEW p \in Party
  PROVE  req \notin Sent(p)
<1>1. /\ Own(p) \in Seq(Event) /\ NumberedIn(Own(p), p)
      /\ Own(q) \in Seq(Event) /\ NumberedIn(Own(q), q)
  BY CreditBase, OwnIs DEF DeliveryInv
<1> SUFFICES ASSUME req \in Sent(p) PROVE FALSE
  OBVIOUS
<1>2. req.from = q /\ req.n = Len(Own(q))
  BY DEF Opening, Sending
<1>3. req.from = p
  BY <1>1 DEF Sent, Sends, NumberedIn
<1>4. req \in Sends(Own(q))
  BY <1>2, <1>3 DEF Sent
<1> QED BY <1>1, <1>2, <1>4, NumberIsNew

-----------------------------------------------------------------------------
(* Calls whose answers may come too late.                                  *)

\* Whoever waits after the step has waited before it, or has just called.
LEMMA WaitsKept ==
  ASSUME CreditInv, CreditInv', WaitsOK, Tracks, Loses
  PROVE  WaitsOK'
<1> SUFFICES ASSUME phase' # "aborted", NEW p \in Party, Waits(p)'
             PROVE  sock'[p].req \in Pending(sock[p].req.to)'
  BY DEF WaitsOK
<1>a. TInv /\ TInv' /\ phase # "aborted" /\ PartyStep(p)
  BY CreditBase, CreditBaseNext DEF Tracks, Leaving
<1>1. CASE sock'[p] = sock[p]
  <2>1. Waits(p)
    BY <1>1 DEF Waits
  <2>2. sock[p].req.to \in Target
    BY <1>a, <2>1 DEF TInv, CallInv, Waits, Command
  <2>3. PICK t \in Target : t = sock[p].req.to
    BY <2>2
  <2>4. sock[p].req \in Pending(t) /\ KeepStep(t)
    BY <1>a, <2>1, <2>3 DEF WaitsOK, Loses
  <2>5. sock[p].req \in Pending(t)'
    BY <1>1, <2>1, <2>4 DEF KeepStep, Waits
  <2> QED BY <1>1, <2>3, <2>5
<1>2. ASSUME NEW req \in Command, Opening(p, req) PROVE sock'[p].req \in Pending(sock[p].req.to)'
  <2>1. Connect(p, req) /\ req.op = "pause"
    BY <1>2 DEF Opening, Sending
  <2>2. sock'[p].req = req /\ Alive(req.to) /\ queue' = [queue EXCEPT ![req.to] = Append(@, req)]
    BY <1>a, <2>1 DEF Connect, Opens, Waits, TInv, TypeOK
  <2>3. PICK t \in Target : t = req.to
    BY DEF Command
  <2>4. queue[t] \in Seq(Command) /\ queue'[t] = Append(queue[t], req)
    BY <1>a, <2>2, <2>3 DEF TInv, TypeOK
  <2>5. PICK n \in Nat : n = Len(queue[t])
    BY <2>4
  <2>6. n + 1 \in DOMAIN queue'[t] /\ queue'[t][n + 1] = req
    BY <2>4, <2>5
  <2>7. req \in Pending(t)'
    BY <2>1, <2>6, PendingIsNext
  <2> QED BY <2>2, <2>3, <2>7
<1> QED
  BY <1>a, <1>1, <1>2 DEF PartyStep, Stays, Notes, Recording, Hearing, Ending, Asking, Waits

\* A call that is still to be answered is tainted only from above.
LEMMA TaintFromAbove ==
  ASSUME CreditInv, NEW p \in Party, NEW req \in Sent(p), ~Lost(p, req), Tainted(AidOf(req))
  PROVE  Tainted(req.parent)
<1>a. DeliveryInv
  BY CreditBase
<1> SUFFICES ASSUME NEW S, LostIn(S), Descends(S), req.parent \notin S PROVE FALSE
  BY DEF Tainted
<1> DEFINE R == S \ {AidOf(req)}
<1>1. LostIn(R)
  BY <1>a, AidsName DEF LostIn
<1>2. Descends(R)
  <2> SUFFICES ASSUME NEW q \in Target, NEW r \in Sends(log[q]), r.parent \in R, AidOf(r) \notin R
               PROVE  FALSE
    BY DEF Descends
  <2>1. AidOf(r) = AidOf(req)
    BY DEF Descends
  <2>2. q \in Party /\ r \in Sent(q)
    BY PartiesAreDistinct DEF Party, Sent, Own
  <2>3. r = req
    BY <1>a, <2>1, <2>2, AidsName
  <2> QED BY <2>3
<1> HIDE DEF R
<1>3. AidOf(req) \in R
  BY <1>1, <1>2 DEF Tainted
<1> QED BY <1>3 DEF R

\* What a party has sent it sent before, or it has just called, with a new
\* identity.
LEMMA NewlySent ==
  ASSUME CreditInv, Tracks, NEW p \in Party, NEW req \in Sent(p)'
  PROVE  req \in Sent(p) \/ (req \in Command /\ Opening(p, req) /\ req \notin Sent(p))
<1>a. TInv /\ PartyStep(p) /\ Own(p) \in Seq(Event) /\ NumberedIn(Own(p), p)
  BY CreditBase, OwnIs DEF Tracks, DeliveryInv
<1>1. CASE \E r \in Command : Opening(p, r)
  <2>1. PICK r \in Command : Opening(p, r)
    BY <1>1
  <2>2. Own(p)' = Own(p) \o <<[kind |-> "send", req |-> r]>> /\ r.n = Len(Own(p))
    BY <2>1 DEF Opening, Sending
  <2>3. Sent(p)' = Sent(p) \cup {r}
    BY <1>a, <2>2, SendAppend DEF Sent
  <2>4. r \notin Sent(p)
    BY <1>a, <2>2, NumberIsNew DEF Sent
  <2> QED BY <2>1, <2>3, <2>4
<1>2. CASE Own(p)' = Own(p)
  BY <1>2 DEF Sent
<1>3. ASSUME NEW e \in Event, e.kind # "send", Own(p)' = Own(p) \o <<e>>
      PROVE  req \in Sent(p)
  BY <1>a, <1>3, ReadAppend DEF Sent
<1>4. ASSUME NEW e \in Event, NEW f \in Event, e.kind # "send", f.kind # "send",
             Own(p)' = Own(p) \o <<e, f>>
      PROVE  req \in Sent(p)
  <2>1. /\ Own(p) \o <<e>> \in Seq(Event)
        /\ Own(p)' = (Own(p) \o <<e>>) \o <<f>>
    BY <1>a, <1>4, TwoAppends
  <2>2. Sends(Own(p) \o <<e>>) = Sends(Own(p))
    BY <1>a, <1>4, ReadAppend
  <2>3. Sends((Own(p) \o <<e>>) \o <<f>>) = Sends(Own(p) \o <<e>>)
    BY <1>4, <2>1, ReadAppend
  <2> QED BY <2>1, <2>2, <2>3 DEF Sent
<1>5. CASE Notes(p)
  BY <1>2, <1>3, <1>4, <1>5 DEF Notes
<1>6. CASE Recording(p)
  <2>1. TransportEvent(p) \in Event /\ TransportEvent(p).kind # "send"
    BY <1>a, <1>6, TransportEventType DEF Recording, TransportEvent
  <2> QED BY <1>3, <1>6, <2>1 DEF Recording
<1> QED BY <1>a, <1>1, <1>2, <1>5, <1>6 DEF PartyStep, Stays, Hearing, Ending, Asking

\* The outcome of a call was recorded before, or is recorded now.
LEMMA RecordedBefore ==
  ASSUME CreditInv, Tracks, NEW p \in Party, NEW req \in Sent(p),
         NEW j \in At(Own(p)', "transport"), Own(p)'[j].aid = AidOf(req)
  PROVE  \/ j \in At(Own(p), "transport") /\ Own(p)'[j] = Own(p)[j]
         \/ Returned(p) /\ sock[p].req = req /\ Own(p)'[j] = TransportEvent(p)
<1>a. TInv /\ CallsInv /\ DeliveryInv /\ PartyStep(p)
  BY CreditBase DEF Tracks
<1>1. CASE Recording(p) /\ Own(p)'[j] = TransportEvent(p)
  <2>1. Returned(p) /\ sock[p].state # "none" /\ sock[p].req.op = "pause"
    BY <1>1 DEF Recording, Returned
  <2>2. sock[p].req \in Sent(p)
    BY <1>a, <2>1, OutstandingWasSent
  <2>3. AidOf(sock[p].req) = AidOf(req)
    BY <1>1 DEF TransportEvent
  <2> QED BY <1>a, <1>1, <2>1, <2>2, <2>3, AidsName
<1> QED BY <1>a, <1>1, Grows

\* A call that is just made has no outcome.
LEMMA NotRecorded ==
  ASSUME CreditInv, NEW p \in Party, NEW req \in Command, PartyStep(p), Opening(p, req),
         NEW j \in At(Own(p)', "transport")
  PROVE  Own(p)'[j].aid # AidOf(req)
<1>a. TInv /\ Own(p) \in Seq(Event) /\ NumberedIn(Own(p), p) /\ Outlined(Own(p))
  BY CreditBase, OwnIs DEF DeliveryInv, CallsInv
<1>1. ~Recording(p)
  BY DEF Opening, Recording, Returned
<1>2. j \in At(Own(p), "transport") /\ Own(p)'[j] = Own(p)[j]
  BY <1>a, <1>1, Grows
<1>3. j - 1 \in At(Own(p), "send") /\ Own(p)[j].aid = AidOf(Own(p)[j - 1].req)
  BY <1>a, <1>2 DEF Outlined
<1>4. Own(p)[j - 1].req \in Sends(Own(p))
  BY <1>3 DEF Sends
<1>5. Own(p)[j - 1].req.n # Len(Own(p)) /\ req.n = Len(Own(p))
  BY <1>a, <1>4, NumberIsNew DEF Opening, Sending
<1> QED BY <1>2, <1>3, <1>5 DEF AidOf

\* A call that reached its target had reached it, or is just made.
LEMMA ArrivedBefore ==
  ASSUME CreditInv, Tracks, NEW p \in Party, NEW req \in Sent(p), Arrived(p, req)'
  PROVE  Arrived(p, req)
<1>a. PartyStep(p) /\ TInv /\ Own(p) \in Seq(Event) /\ NumberedIn(Own(p), p) /\ Outlined(Own(p))
  BY CreditBase, OwnIs DEF Tracks, DeliveryInv, CallsInv
<1>1. CASE \E j \in At(Own(p)', "transport") :
              /\ Own(p)'[j].aid = AidOf(req)
              /\ Own(p)'[j].status = "RESPONSE" \/ Own(p)'[j].error = "TimeoutError"
  <2>1. PICK j \in At(Own(p)', "transport") :
              /\ Own(p)'[j].aid = AidOf(req)
              /\ Own(p)'[j].status = "RESPONSE" \/ Own(p)'[j].error = "TimeoutError"
    BY <1>1
  <2>2. CASE j \in At(Own(p), "transport") /\ Own(p)'[j] = Own(p)[j]
    BY <2>1, <2>2 DEF Arrived
  <2>3. CASE Returned(p) /\ sock[p].req = req /\ Own(p)'[j] = TransportEvent(p)
    BY <2>1, <2>3 DEF Arrived, TransportEvent
  <2> QED BY <2>1, <2>2, <2>3, RecordedBefore
<1>2. CASE sock'[p].req = req /\ sock'[p].state \in {"waiting", "reply", "TimeoutError"}
  <2>1. CASE sock'[p] = sock[p]
    BY <1>2, <2>1 DEF Arrived
  <2>2. CASE Hearing(p)
    BY <1>2, <2>2 DEF Hearing, Arrived
  <2>3. req.op = "pause"
    BY <1>a DEF Outlined, Sent, Sends
  <2>4. ~Asking(p)
    BY <1>2, <2>3 DEF Asking
  <2>5. ASSUME NEW r \in Command, Opening(p, r) PROVE FALSE
    <3>1. r.n = Len(Own(p)) /\ Connect(p, r)
      BY <2>5 DEF Opening, Sending
    <3>2. sock'[p].req = r
      BY <1>a, <3>1, ConnectTells
    <3>3. req.n # Len(Own(p))
      BY <1>a, NumberIsNew DEF Sent
    <3> QED BY <1>2, <3>1, <3>2, <3>3
  <2> QED BY <1>a, <1>2, <2>1, <2>2, <2>4, <2>5 DEF PartyStep, Stays, Notes, Recording, Ending
<1> QED BY <1>1, <1>2 DEF Arrived

\* A request that is in time stays so: it is received before the snapshot.
LEMMA InTimeStays ==
  ASSUME CreditInv, CreditInv', Tracks, NEW t \in Target, QueueStep(t), NEW req,
         req.op = "pause", InTime(t, req)
  PROVE  InTime(t, req)'
<1>a. /\ log[t] \in Seq(Event) /\ delivery[t] \in Seq(Event) /\ queue[t] \in Seq(Command)
      /\ TInv /\ Snapped(t)
  BY CreditBase
<1>b. Receipts(delivery[t]) \subseteq Receipts(log[t])
  BY <1>a DEF Snapped, Receipts, At
<1>c. Receipts(log[t]) \subseteq Receipts(log'[t])
  <2>1. t \in Party /\ Own(t) = log[t] /\ Own(t)' = log'[t]
    BY PartiesAreDistinct DEF Party, Own
  <2> QED BY <1>a, <2>1, Remembers DEF Tracks
<1>d. Gone(t) => Gone(t)'
  BY DEF QueueStep
<1>1. CASE Snaps(t)
  <2>1. /\ delivery'[t] = log[t] /\ ~Gone(t) /\ Head(queue[t]).op = "snapshot" /\ queue[t] # <<>>
    BY <1>1 DEF Snaps, Gone
  <2>2. ~Ahead(t, req)
    <3>1. 1 \in DOMAIN queue[t] /\ queue[t][1].op = "snapshot" /\ \A k \in DOMAIN queue[t] : k >= 1
      BY <1>a, <2>1
    <3>2. \A k \in DOMAIN queue[t] : ~(1 > k)
      BY <1>a
    <3> QED BY <3>1, <3>2 DEF Ahead
  <2> QED BY <1>b, <2>1, <2>2 DEF InTime
<1>2. CASE delivery'[t] = delivery[t] /\ ~Ahead(t, req)
  BY <1>2, <1>c, <1>d DEF InTime
<1>3. CASE delivery'[t] = delivery[t] /\ Ahead(t, req) /\ ~Snaps(t)
  <2>1. PICK k \in DOMAIN queue[t] : /\ queue[t][k] = req
                                     /\ \A l \in DOMAIN queue[t] : queue[t][l].op = "snapshot" => l > k
    BY <1>3 DEF Ahead
  <2>2. PICK n \in Nat : n = Len(queue[t]) /\ k \in 1 .. n /\ DOMAIN queue[t] = 1 .. n
    BY <1>a
  <2>3. CASE queue'[t] = queue[t]
    BY <1>c, <1>d, <1>3, <2>3 DEF InTime, Ahead
  <2>4. CASE queue'[t] = <<>> /\ Gone(t)'
    BY <1>c, <1>d, <1>3, <2>4 DEF InTime
  <2>5. ASSUME NEW x \in Command, queue'[t] = Append(queue[t], x) PROVE Ahead(t, req)'
    <3>1. /\ DOMAIN queue'[t] = 1 .. n + 1 /\ \A l \in 1 .. n : queue'[t][l] = queue[t][l]
      BY <1>a, <2>2, <2>5
    <3>2. n + 1 > k /\ k \in 1 .. n + 1
      BY <2>2
    <3>3. \A l \in 1 .. n + 1 : l \in 1 .. n \/ l = n + 1
      OBVIOUS
    <3> QED BY <2>1, <2>2, <3>1, <3>2, <3>3 DEF Ahead
  <2>6. CASE /\ queue[t] # <<>> /\ queue'[t] = Tail(queue[t])
             /\ Head(queue[t]).op = "pause" => Head(queue[t]) \in Receipts(log'[t])
    <3>1. CASE k = 1
      <4>1. req \in Receipts(log'[t])
        BY <1>a, <2>1, <2>6, <3>1
      <4> QED BY <1>c, <1>d, <1>3, <4>1 DEF InTime
    <3>2. CASE k # 1
      <4>1. /\ DOMAIN queue'[t] = 1 .. n - 1
            /\ \A l \in 1 .. n - 1 : queue'[t][l] = queue[t][l + 1]
        BY <1>a, <2>2, <2>6
      <4>2. k - 1 \in 1 .. n - 1 /\ queue'[t][k - 1] = req
        BY <2>1, <2>2, <3>2, <4>1
      <4>3. \A l \in 1 .. n - 1 : queue'[t][l].op = "snapshot" => l > k - 1
        <5> SUFFICES ASSUME NEW l \in 1 .. n - 1, queue'[t][l].op = "snapshot" PROVE l > k - 1
          OBVIOUS
        <5>1. l + 1 \in DOMAIN queue[t] /\ queue[t][l + 1].op = "snapshot"
          BY <2>2, <4>1
        <5>2. l + 1 > k
          BY <2>1, <5>1
        <5> QED BY <2>2, <5>2
      <4>4. Ahead(t, req)'
        BY <4>1, <4>2, <4>3 DEF Ahead
      <4> QED BY <1>c, <1>d, <1>3, <4>4 DEF InTime
    <3> QED BY <3>1, <3>2
  <2>7. Ahead(t, req)' => InTime(t, req)'
    <3>1. InTime(t, req) => req \in Receipts(delivery[t]) \/ delivery[t] = <<>>
      BY DEF InTime
    <3> QED BY <1>3, <3>1 DEF InTime
  <2> QED BY <1>3, <2>3, <2>4, <2>5, <2>6, <2>7 DEF QueueStep
<1> QED BY <1>1, <1>2, <1>3 DEF QueueStep

-----------------------------------------------------------------------------
(* What reached its target was received before the snapshot, or descends   *)
(* from a lost call.                                                       *)

\* Where a worker passes on a pause, that pause is pending.
LEMMA OpeningHandles ==
  ASSUME CreditInv, NEW p \in Target, NEW req \in Command, Opening(p, req),
         phase \notin EarlyPhases, phase # "aborted"
  PROVE  Tainted(req.parent) /\ \E c \in Pending(p) : AidOf(c) = req.parent
<1>1. srv[p].pc = "forward" /\ req.parent = AidOf(srv[p].cur)
  BY PartiesAreDistinct DEF Opening, Sending
<1>2. PICK c : c = srv[p].cur
  OBVIOUS
<1>3. c \in Pending(p)
  BY <1>1, <1>2, PendingIs DEF Busy
<1>4. Tainted(AidOf(c))
  BY <1>3, CreditBase, PendingIsTainted DEF EarlyPhases
<1> QED BY <1>1, <1>2, <1>3, <1>4

\* A pause that is sent before the snapshots are asked for is ahead of them.
LEMMA OpensInTime ==
  ASSUME CreditInv, SnapOK, Tracks, NEW p \in Party, NEW req \in Command, Opening(p, req),
         QueueStep(req.to), sock'[p].state = "waiting", phase # "aborted"
  PROVE  Tainted(req.parent)' \/ InTime(req.to, req)'
<1>a. /\ TInv /\ CallsInv /\ Connect(p, req) /\ req.op = "pause"
  BY CreditBase DEF Opening, Sending
<1>1. CASE phase \in EarlyPhases
  <2>1. PICK t \in Target : t = req.to
    BY DEF Command
  <2>2. queue[t] \in Seq(Command) /\ queue'[t] = Append(queue[t], req)
    <3>1. sock'[p].state = "waiting" /\ queue' = [queue EXCEPT ![req.to] = Append(@, req)]
      BY <1>a DEF Connect, Opens, TInv, TypeOK
    <3> QED BY <1>a, <2>1, <3>1 DEF TInv, TypeOK
  <2>3. PICK n \in Nat : n = Len(queue[t])
    BY <2>2
  <2>4. /\ DOMAIN queue[t] = 1 .. n /\ DOMAIN queue'[t] = 1 .. n + 1
        /\ queue'[t][n + 1] = req /\ \A k \in 1 .. n : queue'[t][k] = queue[t][k]
    BY <2>2, <2>3
  <2>5. queue'[t] # Tail(queue[t]) \/ queue[t] = <<>>
    <3>1. queue[t] # <<>> => DOMAIN Tail(queue[t]) = 1 .. n - 1
      BY <2>2, <2>3
    <3>2. n + 1 \in 1 .. n + 1 /\ n + 1 \notin 1 .. n - 1
      BY <2>3
    <3> QED BY <2>4, <3>1, <3>2
  <2>6. delivery'[t] = <<>>
    <3>1. ~Snaps(t)
      BY <2>5 DEF Snaps
    <3>2. delivery[t] = <<>>
      BY <1>1 DEF SnapOK
    <3> QED BY <2>1, <3>1, <3>2 DEF QueueStep
  <2>7. Ahead(t, req)'
    <3>1. \A l \in 1 .. n : queue'[t][l].op # "snapshot"
      BY <1>1, <2>4 DEF SnapOK
    <3>2. \A l \in DOMAIN queue'[t] : queue'[t][l].op = "snapshot" => l > n + 1
      BY <1>a, <2>4, <3>1
    <3> QED BY <2>3, <2>4, <3>2 DEF Ahead
  <2>8. InTime(t, req)'
    BY <2>6, <2>7 DEF InTime
  <2> QED BY <2>1, <2>8
<1>2. CASE phase \notin EarlyPhases
  <2>1. p \in Target
    BY <1>2 DEF Opening, Party, EarlyPhases
  <2>2. Tainted(req.parent)
    BY <1>2, <2>1, OpeningHandles
  <2> QED BY <1>a, <2>2, StaysTainted
<1> QED BY <1>1, <1>2

\* ReachOK is kept.
LEMMA ReachKept ==
  ASSUME CreditInv, CreditInv', ReachOK, SnapOK, Tracks, \A u \in Target : QueueStep(u),
         phase' # "aborted"
  PROVE  ReachOK'
<1>a. CallsInv /\ TInv /\ DeliveryInv /\ phase # "aborted" /\ TInv'
  BY CreditBase, CreditBaseNext DEF Tracks, Leaving
<1> SUFFICES ASSUME NEW p \in Party, NEW req \in Sent(p)', Arrived(p, req)'
             PROVE  Tainted(req.parent)' \/ InTime(req.to, req)'
  BY DEF ReachOK
<1>b. PartyStep(p)
  BY DEF Tracks
<1>1. CASE req \in Sent(p)
  <2>1. Tainted(req.parent) \/ InTime(req.to, req)
    BY <1>1, ArrivedBefore DEF ReachOK
  <2>2. req \in Command /\ req.op = "pause"
    BY <1>1, <1>a, SentIsPause
  <2>3. PICK t \in Target : t = req.to
    BY <2>2 DEF Command
  <2>4. InTime(t, req) => InTime(t, req)'
    BY <2>2, InTimeStays
  <2> QED BY <1>a, <2>1, <2>3, <2>4, StaysTainted
<1>2. CASE req \in Command /\ Opening(p, req) /\ req \notin Sent(p)
  <2>1. sock'[p].state = "waiting"
    <3>1. sock'[p].req = req /\ sock'[p].state \in {"waiting", "FileNotFoundError", "ConnectionRefusedError"}
      BY <1>2, <1>a DEF Opening, Sending, Connect, Opens, TInv, TypeOK
    <3>2. \A j \in At(Own(p)', "transport") : Own(p)'[j].aid # AidOf(req)
      BY <1>2, <1>b, NotRecorded
    <3> QED BY <3>1, <3>2 DEF Arrived
  <2>2. QueueStep(req.to)
    <3>1. req.to \in Target
      BY <1>2 DEF Command
    <3>2. PICK t \in Target : t = req.to
      BY <3>1
    <3> QED BY <3>2
  <2> QED BY <1>2, <1>a, <2>1, <2>2, OpensInTime
<1> QED BY <1>1, <1>2, NewlySent

-----------------------------------------------------------------------------
(* What is sent after the sender's snapshot descends from a lost call that *)
(* was sent before it.                                                     *)

\* A snapshot that is taken again has more sends.
LEMMA LateBefore ==
  ASSUME CreditInv, NEW p \in Party, NEW req \in Sent(p), p \in Target => QueueStep(p),
         Late(p, req)'
  PROVE  Late(p, req)
<1>1. p \in Target /\ delivery'[p] # <<>> /\ req \notin Sends(delivery'[p])
  BY DEF Late
<1>2. QueueStep(p) /\ req \in Sends(log[p])
  BY <1>1, OwnIs, CreditBase DEF Sent
<1>3. ~Snaps(p)
  BY <1>1, <1>2 DEF Snaps
<1>4. delivery'[p] = delivery[p]
  BY <1>1, <1>2, <1>3, DeliveryStays
<1> QED BY <1>1, <1>4 DEF Late

\* If nothing is lost then nothing is tainted.
LEMMA TaintNeedsLoss ==
  ASSUME NEW aid, Tainted(aid)
  PROVE  \E p \in Party : \E req \in Sent(p) : Lost(p, req)
<1> SUFFICES ASSUME \A p \in Party : \A req \in Sent(p) : ~Lost(p, req) PROVE FALSE
  OBVIOUS
<1>1. LostIn({}) /\ Descends({})
  BY DEF LostIn, Descends
<1> QED BY <1>1 DEF Tainted

\* LateOK is kept.
LEMMA LateKept ==
  ASSUME CreditInv, LateOK, SnapOK, Tracks, \A u \in Target : QueueStep(u), phase' # "aborted"
  PROVE  LateOK'
<1>a. CallsInv /\ TInv /\ phase # "aborted"
  BY CreditBase DEF Tracks, Leaving
<1> SUFFICES ASSUME NEW p \in Party, NEW req \in Sent(p)', Late(p, req)'
             PROVE  \E q \in Party : \E r \in Sent(q)' : Lost(q, r)' /\ ~Late(q, r)'
  BY DEF LateOK
<1>1. ASSUME NEW q \in Party, NEW r \in Sent(q), Lost(q, r), ~Late(q, r)
      PROVE  r \in Sent(q)' /\ Lost(q, r)' /\ ~Late(q, r)'
  BY <1>1, <1>a, StaysSent, StaysLost, LateBefore
<1>2. CASE \E q \in Party : \E r \in Sent(q) : Late(q, r)
  <2>1. PICK q \in Party : \E r \in Sent(q) : Lost(q, r) /\ ~Late(q, r)
    BY <1>2 DEF LateOK
  <2> QED BY <1>1, <2>1
<1>3. CASE \A q \in Party : \A r \in Sent(q) : ~Late(q, r)
  <2>1. req \notin Sent(p)
    BY <1>3, LateBefore
  <2>2. req \in Command /\ Opening(p, req)
    BY <2>1, NewlySent
  <2>3. p \in Target /\ delivery'[p] # <<>> /\ srv[p].pc = "forward"
    BY <2>2, PartiesAreDistinct DEF Late, Opening, Sending
  <2>4. delivery'[p] = delivery[p]
    BY <2>3, DeliveryStays DEF Snaps
  <2>5. phase \notin EarlyPhases
    BY <2>3, <2>4 DEF SnapOK
  <2>6. Tainted(req.parent)
    BY <1>a, <2>2, <2>3, <2>5, OpeningHandles
  <2>7. PICK q \in Party : \E r \in Sent(q) : Lost(q, r)
    BY <2>6, TaintNeedsLoss
  <2> QED BY <1>1, <1>3, <2>7
<1> QED BY <1>2, <1>3

-----------------------------------------------------------------------------
(* Why calls fail.                                                         *)

\* What is received is being handled at once.
LEMMA NewlyReceived ==
  ASSUME CreditInv, NEW t \in Target, TurnStep(t), NEW req, req \in Receipts(log'[t])
  PROVE  req \in Receipts(log[t]) \/ req \in Pending(t)'
<1>a. log[t] \in Seq(Event)
  BY CreditBase
<1>1. CASE log'[t] = log[t]
  BY <1>1
<1>2. ASSUME NEW e \in Event, e.kind # "receipt", log'[t] = log[t] \o <<e>>
      PROVE  req \in Receipts(log[t])
  BY <1>a, <1>2, ReadAppend
<1>3. ASSUME NEW e \in Event, NEW f \in Event, e.kind = "receipt", Handled(t, e.req)',
             f.kind # "receipt",
             log'[t] = log[t] \o <<e>> \/ log'[t] = (log[t] \o <<e>>) \o <<f>>
      PROVE  req \in Receipts(log[t]) \/ req \in Pending(t)'
  <2>1. PICK r : r = e.req
    OBVIOUS
  <2>2. r \in Pending(t)'
    BY <1>3, <2>1, PendingIsNext DEF Handled
  <2>3. Receipts(log[t] \o <<e>>) \subseteq Receipts(log[t]) \cup {r}
    <3>1. PICK u : u = log[t] \o <<e>>
      OBVIOUS
    <3>2. \A i \in DOMAIN u : (i \in DOMAIN log[t] /\ u[i] = log[t][i]) \/ u[i] = e
      BY <1>a, <3>1, ReadAppend
    <3> QED BY <2>1, <3>1, <3>2 DEF Receipts, At
  <2>4. log[t] \o <<e>> \in Seq(Event)
    BY <1>a
  <2>5. Receipts((log[t] \o <<e>>) \o <<f>>) = Receipts(log[t] \o <<e>>)
    BY <1>3, <2>4, ReadAppend
  <2> QED BY <1>3, <2>2, <2>3, <2>5
<1> QED BY <1>1, <1>2, <1>3 DEF TurnStep, Turn

\* A call that its target neither received nor may receive stays that.
LEMMA MissedStays ==
  ASSUME CreditInv, Tracks, phase' # "aborted", NEW t \in Target, TurnStep(t),
         NEW req, req \notin Receipts(log[t]), req \notin Pending(t),
         \A q \in Party : Opening(q, req) => sock'[q].state # "waiting"
  PROVE  req \notin Receipts(log'[t]) /\ req \notin Pending(t)'
<1>1. req \notin Pending(t)'
  BY DEF Tracks, PendingStep
<1> QED BY <1>1, NewlyReceived

\* Why a call failed stays so.
LEMMA FailureStays ==
  ASSUME CreditInv, CreditInv', Tracks, phase' # "aborted", NEW p \in Party, NEW req \in Sent(p),
         NEW error, NEW t \in Target, QueueStep(t), TurnStep(t),
         \/ Tainted(req.parent)
         \/ delivery[t] = <<>> /\ Gone(t)
         \/ req \notin Receipts(log[t]) /\ req \notin Pending(t)
         \/ error = "EOFError" /\ DroppedIn(log[t], AidOf(req))
  PROVE  \/ Tainted(req.parent)'
         \/ delivery'[t] = <<>> /\ Gone(t)'
         \/ req \notin Receipts(log'[t]) /\ req \notin Pending(t)'
         \/ error = "EOFError" /\ DroppedIn(log'[t], AidOf(req))
<1>a. CallsInv /\ TInv
  BY CreditBase
<1>1. CASE Tainted(req.parent)
  BY <1>a, <1>1, StaysTainted
<1>2. CASE delivery[t] = <<>> /\ Gone(t)
  BY <1>2 DEF QueueStep, Snaps, Gone
<1>3. CASE req \notin Receipts(log[t]) /\ req \notin Pending(t)
  <2>1. \A q \in Party : ~Opening(q, req)
    BY <1>a, SentIsPause, OpeningIsNew
  <2> QED BY <1>3, <2>1, MissedStays
<1>4. CASE error = "EOFError" /\ DroppedIn(log[t], AidOf(req))
  <2>1. t \in Party /\ Own(t) = log[t] /\ Own(t)' = log'[t] /\ PartyStep(t)
    BY PartiesAreDistinct DEF Party, Own, Tracks
  <2>2. \A i \in DOMAIN log[t] : i \in DOMAIN log'[t] /\ log'[t][i] = log[t][i]
    BY <1>a, <2>1, Grows
  <2> QED BY <1>4, <2>2 DEF DroppedIn, At
<1> QED BY <1>1, <1>2, <1>3, <1>4

\* A call fails where it is made, or where its target ends or drops the response.
LEMMA NewlyFailed ==
  ASSUME CreditInv, CreditInv', WaitsOK, SnapOK, Tracks, Loses, phase' # "aborted",
         NEW p \in Party, NEW req \in Sent(p), NEW t \in Target, t = req.to,
         Hearing(p), sock'[p].req = req, sock'[p].state \in TransportErrors \ {"TimeoutError"}
  PROVE  \/ Tainted(req.parent)'
         \/ delivery'[t] = <<>> /\ Gone(t)'
         \/ sock'[p].state = "EOFError" /\ DroppedIn(log'[t], AidOf(req))
<1>a. CallsInv /\ TInv /\ phase # "aborted" /\ TaintInv
  BY CreditBase DEF Tracks, Leaving
<1>1. Waits(p) /\ sock[p].req = req
  BY <1>a, SentIsPause DEF Hearing, Waits
<1>2. \/ srv'[t].pc \in {"dead", "exited"} /\ delivery'[t] = delivery[t]
      \/ sock'[p].state = "EOFError" /\ DroppedIn(log'[t], AidOf(req))
  BY <1>1 DEF Loses, ErrorStep
<1>3. CASE srv'[t].pc \in {"dead", "exited"} /\ delivery'[t] = delivery[t] /\ delivery[t] # <<>>
  <2>1. phase \notin EarlyPhases
    BY <1>3 DEF SnapOK
  <2>2. req \in Pending(t)
    BY <1>a, <1>1 DEF WaitsOK
  <2>3. Tainted(AidOf(req))
    BY <1>a, <2>1, <2>2, PendingIsTainted DEF EarlyPhases
  <2>4. ~Lost(p, req)
    BY <1>1 DEF Lost, Holds, Waits
  <2>5. Tainted(req.parent)
    BY <2>3, <2>4, TaintFromAbove
  <2> QED BY <1>a, <2>5, StaysTainted
<1> QED BY <1>2, <1>3 DEF Gone

\* LossOK is kept.
LEMMA LossKept ==
  ASSUME CreditInv, CreditInv', LossOK, WaitsOK, SnapOK, Tracks, Loses,
         \A u \in Target : QueueStep(u) /\ TurnStep(u)
  PROVE  LossOK'
<1> SUFFICES ASSUME phase' # "aborted", NEW p \in Party, NEW req \in Sent(p)',
                    NEW error \in TransportErrors, Failed(p, req, error)'
             PROVE  \/ Tainted(req.parent)'
                    \/ delivery'[req.to] = <<>> /\ Gone(req.to)'
                    \/ req \notin Receipts(log'[req.to]) /\ req \notin Pending(req.to)'
                    \/ error = "EOFError" /\ DroppedIn(log'[req.to], AidOf(req))
  BY DEF LossOK
<1>a. CallsInv /\ TInv /\ DeliveryInv /\ phase # "aborted" /\ PartyStep(p) /\ error # "TimeoutError"
  BY CreditBase DEF Tracks, Leaving, Failed
<1>b. req \in Command /\ req.op = "pause"
  <2>1. req \in Sent(p) \/ (req \in Command /\ Opening(p, req))
    BY NewlySent
  <2>2. CASE req \in Sent(p)
    BY <1>a, <2>2, SentIsPause
  <2>3. CASE req \in Command /\ Opening(p, req)
    BY <2>3 DEF Opening, Sending
  <2> QED BY <2>1, <2>2, <2>3
<1>c. PICK t \in Target : t = req.to
  BY <1>b DEF Command
<1>1. CASE req \in Sent(p) /\ Failed(p, req, error)
  <2>1. \/ Tainted(req.parent)
        \/ delivery[t] = <<>> /\ Gone(t)
        \/ req \notin Receipts(log[t]) /\ req \notin Pending(t)
        \/ error = "EOFError" /\ DroppedIn(log[t], AidOf(req))
    BY <1>a, <1>c, <1>1 DEF LossOK
  <2>2. \/ Tainted(req.parent)'
        \/ delivery'[t] = <<>> /\ Gone(t)'
        \/ req \notin Receipts(log'[t]) /\ req \notin Pending(t)'
        \/ error = "EOFError" /\ DroppedIn(log'[t], AidOf(req))
    BY <1>1, <2>1, FailureStays
  <2> QED BY <1>c, <2>2
<1>2. CASE req \in Sent(p) /\ ~Failed(p, req, error)
  <2>1. ASSUME NEW j \in At(Own(p)', "transport"), Own(p)'[j].aid = AidOf(req),
               Own(p)'[j].error = error
        PROVE  FALSE
    <3>1. CASE j \in At(Own(p), "transport") /\ Own(p)'[j] = Own(p)[j]
      BY <1>2, <1>a, <2>1, <3>1 DEF Failed
    <3>2. CASE Returned(p) /\ sock[p].req = req /\ Own(p)'[j] = TransportEvent(p)
      BY <1>2, <1>a, <2>1, <3>2 DEF Failed, TransportEvent, TransportErrors
    <3> QED BY <1>2, <2>1, <3>1, <3>2, RecordedBefore
  <2>2. sock'[p].req = req /\ sock'[p].state = error
    BY <2>1 DEF Failed
  <2>3. error \notin {"none", "waiting"}
    BY DEF TransportErrors
  <2>4. ~Stays(p)
    BY <1>2, <1>a, <2>2 DEF Stays, Failed
  <2>5. \A r \in Command : ~Opening(p, r)
    <3> SUFFICES ASSUME NEW r \in Command, Opening(p, r) PROVE FALSE
      OBVIOUS
    <3>1. r = req
      BY <1>a, <2>2, ConnectTells DEF Opening, Sending
    <3> QED BY <1>2, <3>1, OpeningIsNew
  <2>6. Hearing(p)
    BY <1>a, <1>b, <2>2, <2>3, <2>4, <2>5 DEF PartyStep, Notes, Recording, Ending, Asking
  <2>7. \/ Tainted(req.parent)'
        \/ delivery'[t] = <<>> /\ Gone(t)'
        \/ error = "EOFError" /\ DroppedIn(log'[t], AidOf(req))
    BY <1>2, <1>a, <1>c, <2>2, <2>6, NewlyFailed
  <2> QED BY <1>c, <2>7
<1>3. CASE Opening(p, req) /\ req \notin Sent(p)
  <2>1. sock'[p].state = error
    <3>1. sock'[p].req = req
      BY <1>a, <1>b, <1>3, ConnectTells DEF Opening, Sending
    <3>2. \A j \in At(Own(p)', "transport") : Own(p)'[j].aid # AidOf(req)
      BY <1>a, <1>b, <1>3, NotRecorded
    <3> QED BY <3>1, <3>2 DEF Failed
  <2>2. req.from = p
    BY <1>3 DEF Opening, Sending
  <2>3. \A q \in Party : Opening(q, req) => sock'[q].state # "waiting"
    <3>1. \A q \in Party : Opening(q, req) => req.from = q
      BY DEF Opening, Sending
    <3> QED BY <2>1, <2>2, <3>1 DEF TransportErrors
  <2>4. req \notin Pending(t)
    BY <1>3, <1>a, <2>2, PendingWasSent
  <2>5. req \notin Receipts(log[t])
    BY <1>3, <1>a, <2>2 DEF DeliveryInv, Received
  <2>6. req \notin Receipts(log'[t]) /\ req \notin Pending(t)'
    BY <2>3, <2>4, <2>5, MissedStays
  <2> QED BY <1>c, <2>6
<1> QED BY <1>1, <1>2, <1>3, NewlySent

-----------------------------------------------------------------------------
\* The invariant of admission is inductive beside the invariant of credit.
LEMMA NextAdmits ==
  ASSUME CreditInv, AdmitInv, [Next]_vars
  PROVE  CreditInv' /\ AdmitInv'
<1>a. /\ TInv /\ PauseInv /\ CallsInv /\ DeliveryInv /\ TaintInv
      /\ CreditInv'
  BY CreditBase, NextCredits
<1>b. Tracks /\ TInv'
  BY <1>a, NextTaints, CreditBaseNext
<1>c. phase' # "aborted" => phase # "aborted"
  BY <1>b DEF Tracks, Leaving
<1>d. /\ IndexOK /\ EventsOK /\ SnapOK /\ AnswersOK /\ LossOK /\ WaitsOK
      /\ phase # "aborted" => LateOK /\ ReachOK
      /\ \A t \in Target : RepliesOK(t) /\ (phase # "aborted" => VisitsOK(t))
  BY DEF AdmitInv
<1>1. /\ HarnessStep
      /\ UNCHANGED intent
      /\ UNCHANGED <<phase, idx>> \/ phase' = "aborted" \/ (phase \in DOMAIN NextPhase /\ Advance)
      /\ \A u \in Target : biz'[u].rows >= biz[u].rows
  BY <1>d, NextHarness
<1>2. \A u \in Target : QueueStep(u) /\ TurnStep(u)
  BY <1>a, NextQueues, NextTurns
<1>3. AskStep /\ (\A p \in Party : AnswerStep(p)) /\ (phase' # "aborted" => Loses)
  BY <1>a, <1>d, NextAsks, NextAnswers, NextLoses
<1>4. KeepsCalls
  BY <1>a, NextMoves, NextCalls DEF CallsInv, ResponseInv
<1>5. IndexOK'
  BY <1>a, <1>d, <1>1, IndexKept
<1>6. EventsOK'
  BY <1>a, <1>b, <1>d, <1>1, <1>4, EventsKept
<1>7. SnapOK'
  BY <1>a, <1>b, <1>d, <1>1, <1>2, <1>3, SnapKept
<1>8. AnswersOK'
  BY <1>d, <1>3, AnswersKept
<1>9. ASSUME phase' # "aborted" PROVE LateOK' /\ ReachOK'
  BY <1>a, <1>b, <1>c, <1>d, <1>2, <1>9, LateKept, ReachKept
<1>10. LossOK' /\ WaitsOK'
  <2>1. CASE phase' # "aborted"
    BY <1>a, <1>b, <1>d, <1>2, <1>3, <2>1, LossKept, WaitsKept
  <2>2. CASE phase' = "aborted"
    BY <2>2 DEF LossOK, WaitsOK
  <2> QED BY <2>1, <2>2
<1>11. ASSUME NEW t \in Target PROVE RepliesOK(t)'
  BY <1>a, <1>d, <1>2, RepliesKept
<1>12. ASSUME NEW t \in Target, phase' # "aborted" PROVE VisitsOK(t)'
  <2>1. delivery[t] # <<>> => delivery'[t] # <<>>
    BY <1>2, DeliveryStays
  <2> QED BY <1>a, <1>b, <1>c, <1>d, <1>1, <1>12, <2>1, VisitsKept
<1> QED
  BY <1>a, <1>5, <1>6, <1>7, <1>8, <1>9, <1>10, <1>11, <1>12 DEF AdmitInv

\* At first nothing is sent, received or sampled.
LEMMA InitAdmits == Init => CreditInv /\ AdmitInv
<1> SUFFICES ASSUME Init PROVE AdmitInv
  BY InitCredits
<1>a. /\ phase = "start" /\ idx = 1 /\ events = <<>> /\ intent \in Captures
      /\ \A t \in Target : /\ log[t] = <<>> /\ delivery[t] = <<>> /\ queue[t] = <<>>
                           /\ srv[t].pc = "down"
      /\ \A p \in Party : sock[p] = Closed
      /\ Controller \in Party /\ Target \subseteq Party
  BY DEF Init, Party
<1>b. /\ Closed.state = "none" /\ Closed.answer = NoReply
  BY DEF Closed
<1>c. \A p \in Party : Sent(p) = {}
  BY <1>a DEF Sent, Sends, Own, Party, At
<1>1. IndexOK
  BY <1>a, OrderAssumption DEF IndexOK
<1>2. EventsOK
  BY <1>a DEF EventsOK
<1>3. SnapOK
  BY <1>a, <1>b DEF SnapOK
<1>4. AnswersOK
  BY <1>a, <1>b DEF AnswersOK
<1>5. LateOK /\ ReachOK /\ LossOK
  BY <1>c DEF LateOK, ReachOK, LossOK
<1>6. WaitsOK
  BY <1>a, <1>b DEF WaitsOK, Waits
<1>7. \A t \in Target : RepliesOK(t)
  BY <1>a DEF RepliesOK, TurnsIn, Receipts, At, Busy
<1>8. ASSUME NEW t \in Target PROVE VisitsOK(t)
  <2>1. \A ph \in {"start", "before", "after", "snapshot", "cleanup"} : ~Visited(ph, t)
    <3>1. \A k \in DOMAIN Order : ~(k < 1)
      BY OrderAssumption
    <3> QED BY <1>a, <3>1 DEF Visited, Rank
  <2> QED BY <2>1 DEF VisitsOK
<1> QED BY <1>1, <1>2, <1>3, <1>4, <1>5, <1>6, <1>7, <1>8 DEF AdmitInv

\* The invariant of admission.
LEMMA AdmitInvariant == Spec => [](CreditInv /\ AdmitInv)
<1>1. CreditInv /\ AdmitInv /\ [Next]_vars => (CreditInv /\ AdmitInv)'
  BY NextAdmits
<1> QED BY InitAdmits, <1>1, PTL DEF Spec

-----------------------------------------------------------------------------
(* The finished capture.                                                   *)

\* What the consumer reads of the log of p.
Reported(p) == IF p = Controller THEN events ELSE delivery[p]

\* The outcome of the send at position i follows it, and the send is along an
\* edge, below a pause that was received.
SendReported(p, i) ==
  LET s == Reported(p) IN
  /\ i \in At(Own(p), "send") /\ Own(p)[i] = s[i]
  /\ i + 1 \in DOMAIN s /\ i + 1 \in At(Own(p), "transport") /\ Own(p)[i + 1] = s[i + 1]
  /\ TransportOk(s[i + 1], s[i].req)
  /\ IF p = Controller
     THEN s[i].req.parent = NoAid
     ELSE s[i].req.parent \in {AidOf(r) : r \in Receipts(s)}

\* Every target was snapshot and sampled.
LEMMA DoneVisits ==
  ASSUME AdmitInv, phase = "done", NEW t \in Target
  PROVE  delivery[t] # <<>> /\ NodeOk(intent, t, delivery[t]) /\ ObservationOk(Source, t)
<1>1. VisitsOK(t) /\ SnapOK
  BY DEF AdmitInv
<1>2. \A ph \in {"start", "before", "after", "snapshot", "cleanup"} : Visited(ph, t)
  BY DEF Visited, Rank
<1>3. /\ seen[t].before >= 1 /\ seen[t].before <= seen[t].after
      /\ seen[t].cleanup \in {"exited", "killed"} /\ delivery[t] # <<>>
  BY <1>1, <1>2 DEF VisitsOK
<1> QED BY <1>1, <1>3 DEF SnapOK, ObservationOk, Source

\* The sends of the harness.
LEMMA DoneRoots ==
  ASSUME CreditInv, AdmitInv, phase = "done", NEW i \in At(events, "send")
  PROVE  \E k \in 1 .. Len(intent.roots) : i = 2 * k - 1 /\ RootSend(k) /\ RootOutcome(k)
<1>a. /\ events \in Seq(Event) /\ TInv
      /\ Roots(Len(intent.roots))
  BY CreditBase DEF AdmitInv, EventsOK
<1>b. PICK n \in Nat : n = Len(intent.roots)
  BY <1>a, CapturesAssumption DEF TInv, TypeOK
<1>1. i \in 1 .. 2 * n /\ events[i].kind = "send"
  BY <1>a, <1>b DEF At, Roots
<1>2. PICK k \in Nat : i = 2 * k - 1 \/ i = 2 * k
  <2>1. (i + 1) \div 2 \in Nat
    BY <1>1
  <2>2. i = 2 * ((i + 1) \div 2) - 1 \/ i = 2 * ((i + 1) \div 2)
    BY <1>1
  <2> QED BY <2>1, <2>2
<1>3. k \in 1 .. n
  BY <1>1, <1>2, <1>b
<1>4. RootSend(k) /\ RootOutcome(k)
  BY <1>a, <1>b, <1>3 DEF Roots
<1>5. i # 2 * k
  BY <1>1, <1>4 DEF RootOutcome
<1> QED BY <1>b, <1>2, <1>3, <1>4, <1>5

\* What the consumer finds in an accepted log about a send.
LEMMA DoneNode ==
  ASSUME CreditInv, AdmitInv, phase = "done", NEW t \in Target, NEW i \in At(delivery[t], "send")
  PROVE  /\ i + 1 \in DOMAIN delivery[t] /\ i \in At(log[t], "send") /\ log[t][i] = delivery[t][i]
         /\ i + 1 \in At(log[t], "transport") /\ log[t][i + 1] = delivery[t][i + 1]
         /\ TransportOk(delivery[t][i + 1], delivery[t][i].req)
         /\ delivery[t][i].req.parent \in {AidOf(r) : r \in Receipts(delivery[t])}
<1> DEFINE s == delivery[t]
<1>a. /\ s \in Seq(Event) /\ log[t] \in Seq(Event) /\ Snapped(t) /\ NodeOk(intent, t, s)
      /\ Outlined(log[t]) /\ Len(s) \in Nat /\ DOMAIN s = 1 .. Len(s)
  BY CreditBase, DoneVisits, OwnIs DEF CallsInv
<1>1. i \in 3 .. Len(s) /\ i # Len(s) /\ s[i].kind = "send"
  <2>1. i \in 1 .. Len(s) /\ s[i].kind = "send"
    BY <1>a DEF At
  <2>2. i # 1 /\ i # 2
    BY <1>a, <2>1 DEF NodeOk
  <2>3. i # Len(s)
    BY <1>a, <2>1, <2>2 DEF NodeOk
  <2> QED BY <1>a, <2>1, <2>2, <2>3
<1>2. i + 1 \in 3 .. Len(s) /\ i \in DOMAIN s /\ i + 1 \in DOMAIN s
  BY <1>a, <1>1
<1>3. /\ i \in DOMAIN log[t] /\ i + 1 \in DOMAIN log[t]
      /\ log[t][i] = s[i] /\ log[t][i + 1] = s[i + 1]
  BY <1>a, <1>2 DEF Snapped
<1>4. i \in At(log[t], "send") /\ i # Len(log[t])
  BY <1>a, <1>1, <1>3 DEF At
<1>5. s[i + 1].kind = "transport" /\ s[i + 1].aid = AidOf(s[i].req)
  BY <1>a, <1>3, <1>4 DEF Outlined
<1>6. EventOk(intent, t, s, i) /\ EventOk(intent, t, s, i + 1)
  BY <1>a, <1>1, <1>2 DEF NodeOk
<1> HIDE DEF s
<1>7. TransportOk(s[i + 1], s[i].req)
  <2>1. \E req : TransportOk(s[i + 1], req)
    BY <1>5, <1>6 DEF EventOk
  <2> QED BY <1>5, <2>1 DEF TransportOk
<1>8. s[i].req.parent \in {AidOf(r) : r \in Receipts(s)}
  <2> DEFINE active == {j \in {k \in At(s, "receipt") : k < i} :
                         \A k \in {l \in At(s, "reply") : l < i} : k < j}
             a == CHOOSE j \in active : TRUE
  <2>1. active # {} /\ s[i].req.parent = AidOf(s[a].req)
    BY <1>1, <1>6 DEF EventOk
  <2>2. a \in active
    BY <2>1
  <2>3. s[a].req \in Receipts(s)
    BY <2>2 DEF Receipts
  <2> QED BY <2>1, <2>3
<1>9. i + 1 \in At(log[t], "transport")
  BY <1>3, <1>5 DEF At
<1> QED BY <1>2, <1>3, <1>4, <1>7, <1>8, <1>9 DEF s

\* The same of any party.
LEMMA DoneSends ==
  ASSUME CreditInv, AdmitInv, phase = "done", NEW p \in Party, NEW i \in At(Reported(p), "send")
  PROVE  SendReported(p, i)
<1>1. CASE p = Controller
  <2>a. /\ Own(p) = events /\ Reported(p) = events /\ events \in Seq(Event) /\ TInv
        /\ Outlined(events) /\ Roots(Len(intent.roots))
    BY <1>1, CreditBase DEF Own, Reported, AdmitInv, EventsOK, CallsInv
  <2>0. intent \in Captures
    BY <2>a DEF TInv, TypeOK
  <2>0a. intent.roots \in Seq(Target)
    BY <2>0, CapturesAssumption
  <2>b. PICK n \in Nat : n = Len(intent.roots)
    BY <2>0a
  <2>1. PICK k \in 1 .. n : i = 2 * k - 1 /\ RootSend(k) /\ RootOutcome(k)
    BY <2>a, <2>b, DoneRoots
  <2>2. i + 1 = 2 * k /\ i + 1 \in DOMAIN events
    BY <2>a, <2>b, <2>1 DEF Roots
  <2>3. events[i + 1].kind = "transport" /\ TransportOk(events[i + 1], events[i].req)
    BY <2>1, <2>2 DEF RootOutcome
  <2>4. events[i].req.parent = NoAid
    BY <2>1 DEF RootSend
  <2> QED BY <1>1, <2>a, <2>2, <2>3, <2>4 DEF SendReported, At
<1>2. CASE p \in Target
  BY <1>2, DoneNode, PartiesAreDistinct DEF SendReported, Reported, Own
<1> QED BY <1>1, <1>2 DEF Party

\* The attempts that the consumer finds are the reported sends.
LEMMA AttemptsAre ==
  ASSUME CreditInv, NEW a
  PROVE  a \in Attempts(Source) <=>
           \E p \in Party : \E i \in At(Reported(p), "send") :
             a = [req |-> Reported(p)[i].req, outcome |-> Reported(p)[i + 1]]
<1>1. Source.events = events /\ Source.nodes = delivery
  BY DEF Source
<1>2. /\ Controller \in Party /\ Reported(Controller) = events
      /\ \A t \in Target : t \in Party /\ Reported(t) = delivery[t]
      /\ \A p \in Party : p = Controller \/ p \in Target
  BY PartiesAreDistinct DEF Party, Reported
<1>3. a \in Attempts(Source) <=>
        \/ \E i \in At(events, "send") : a = [req |-> events[i].req, outcome |-> events[i + 1]]
        \/ \E t \in Target : \E i \in At(delivery[t], "send") :
             a = [req |-> delivery[t][i].req, outcome |-> delivery[t][i + 1]]
  BY <1>1 DEF Attempts, OutcomeOf
<1> QED BY <1>2, <1>3

\* No root is tainted.
LEMMA NoAidIsClean ==
  ASSUME CreditInv
  PROVE  ~Tainted(NoAid)
<1>a. CallsInv
  BY CreditBase
<1>1. LostIn(Aid)
  BY <1>a, SentIsPause, AidType DEF LostIn
<1>2. Descends(Aid)
  <2> SUFFICES ASSUME NEW q \in Target, NEW req \in Sends(log[q]) PROVE AidOf(req) \in Aid
    BY DEF Descends
  <2>1. q \in Party /\ req \in Sent(q)
    BY PartiesAreDistinct DEF Party, Sent, Own
  <2> QED BY <1>a, <2>1, SentIsPause, AidType
<1>3. NoAid \notin Aid
  <2>1. \A x \in Aid : DOMAIN x = 1 .. 3
    BY DEF Aid
  <2>2. DOMAIN NoAid = 1 .. 0
    BY DEF NoAid
  <2>3. 1 \in 1 .. 3 /\ 1 \notin 1 .. 0
    OBVIOUS
  <2> QED BY <2>1, <2>2, <2>3
<1> QED BY <1>1, <1>2, <1>3 DEF Tainted

-----------------------------------------------------------------------------
(* The verdict.                                                            *)

\* Of an attempt: where it was sent, and what is known of it.
LEMMA AttemptShows ==
  ASSUME CreditInv, AdmitInv, phase = "done", NEW a \in Attempts(Source)
  PROVE  \E p \in Party : \E i \in At(Own(p), "send") :
           /\ i + 1 \in At(Own(p), "transport")
           /\ a = [req |-> Own(p)[i].req, outcome |-> Own(p)[i + 1]]
           /\ a.req \in Sent(p) /\ a.req \in Command /\ a.req.from = p /\ a.req.n = i - 1
           /\ TransportOk(a.outcome, a.req) /\ Own(p)[i + 1].aid = AidOf(a.req)
           /\ a.req.parent # NoAid =>
                p \in Target /\ a.req.parent \in {AidOf(r) : r \in Receipts(delivery[p])}
<1>1. PICK p \in Party : \E i \in At(Reported(p), "send") :
             a = [req |-> Reported(p)[i].req, outcome |-> Reported(p)[i + 1]]
  BY AttemptsAre
<1>2. PICK i \in At(Reported(p), "send") :
             a = [req |-> Reported(p)[i].req, outcome |-> Reported(p)[i + 1]]
  BY <1>1
<1>3. SendReported(p, i)
  BY DoneSends
<1>4. /\ i \in At(Own(p), "send") /\ i + 1 \in At(Own(p), "transport")
      /\ a = [req |-> Own(p)[i].req, outcome |-> Own(p)[i + 1]]
      /\ TransportOk(a.outcome, a.req)
  BY <1>2, <1>3 DEF SendReported
<1>5. a.req \in Sent(p)
  BY <1>4 DEF Sent, Sends
<1>6. a.req \in Command
  BY <1>5, CreditBase, SentIsPause
<1>7. a.req.from = p /\ a.req.n = i - 1
  BY <1>4, CreditBase DEF DeliveryInv, NumberedIn
<1>8. Own(p)[i + 1].aid = AidOf(a.req)
  BY <1>4 DEF TransportOk
<1>9. a.req.parent # NoAid =>
        p \in Target /\ a.req.parent \in {AidOf(r) : r \in Receipts(delivery[p])}
  <2>1. a.req = Reported(p)[i].req
    BY <1>2
  <2>2. p # Controller => p \in Target /\ Reported(p) = delivery[p]
    BY DEF Party, Reported
  <2> QED BY <1>3, <2>1, <2>2 DEF SendReported
<1> QED BY <1>4, <1>5, <1>6, <1>7, <1>8, <1>9

\* A receipt that was delivered is one that was logged.
LEMMA DeliveredReceipts ==
  ASSUME CreditInv, NEW t \in Target
  PROVE  /\ Receipts(delivery[t]) \subseteq Receipts(log[t])
         /\ \A r \in Receipts(delivery[t]) : r \in Command /\ r.from \in Party /\ r \in Sent(r.from)
<1>1. Receipts(delivery[t]) \subseteq Receipts(log[t])
  BY CreditBase DEF Snapped, Receipts, At
<1>2. \A r \in Receipts(log[t]) : r \in Command /\ r \in Sent(r.from)
  BY CreditBase, ReceiptsType DEF DeliveryInv, Received
<1> QED BY <1>1, <1>2 DEF Command

\* Only one reply answers an attempt.
LEMMA RepliesAreUnique ==
  ASSUME CreditInv, NEW t \in Target, RepliesOK(t), NEW i \in At(log[t], "reply"),
         NEW k \in At(log[t], "reply"), log[t][i].reply.aid = log[t][k].reply.aid
  PROVE  i = k
<1>a. log[t] \in Seq(Event) /\ OnceIn(log[t]) /\ DeliveryInv
  BY CreditBase DEF DeliveryInv, Received
<1>1. PICK x \in At(log[t], "receipt") : /\ x < i /\ AidOf(log[t][x].req) = log[t][i].reply.aid
                                         /\ \A l \in x + 1 .. i - 1 : log[t][l].kind \notin Turn
  BY DEF RepliesOK, TurnsIn, AnswersReceipt
<1>2. PICK y \in At(log[t], "receipt") : /\ y < k /\ AidOf(log[t][y].req) = log[t][k].reply.aid
                                         /\ \A l \in y + 1 .. k - 1 : log[t][l].kind \notin Turn
  BY DEF RepliesOK, TurnsIn, AnswersReceipt
<1>3. log[t][x].req = log[t][y].req
  <2>1. \A r \in Receipts(log[t]) : r \in Sent(r.from) /\ r.from \in Party
    BY <1>a, ReceiptsType DEF DeliveryInv, Received, Command
  <2>2. log[t][x].req \in Receipts(log[t]) /\ log[t][y].req \in Receipts(log[t])
    BY DEF Receipts
  <2>3. PICK r \in Receipts(log[t]), s \in Receipts(log[t]) : r = log[t][x].req /\ s = log[t][y].req
    BY <2>2
  <2>4. AidOf(r) = AidOf(s)
    BY <1>1, <1>2, <2>3
  <2>5. r = s
    BY <1>a, <2>1, <2>4, AidsName
  <2> QED BY <2>3, <2>5
<1>4. x = y
  BY <1>a, <1>3 DEF OnceIn
<1>5. i \in Nat /\ k \in Nat /\ x \in Nat
  BY <1>a DEF At
<1>6. log[t][i].kind = "reply" /\ log[t][k].kind = "reply"
  BY DEF At
<1>7. ~(i < k)
  <2> SUFFICES ASSUME i < k PROVE FALSE
    OBVIOUS
  <2>1. i \in y + 1 .. k - 1
    BY <1>1, <1>4, <1>5
  <2> QED BY <1>2, <1>6, <2>1 DEF Turn
<1>8. ~(k < i)
  <2> SUFFICES ASSUME k < i PROVE FALSE
    OBVIOUS
  <2>1. k \in x + 1 .. i - 1
    BY <1>2, <1>4, <1>5
  <2> QED BY <1>1, <1>6, <2>1 DEF Turn
<1> QED BY <1>5, <1>7, <1>8

\* The reply that the consumer finds is any logged reply of that attempt.
LEMMA ReplyFound ==
  ASSUME CreditInv, NEW t \in Target, RepliesOK(t), NEW req \in Receipts(delivery[t]),
         NEW j \in At(log[t], "reply"), log[t][j].reply.aid = AidOf(req)
  PROVE  ReplyTo(delivery[t], AidOf(req)) = log[t][j]
<1> DEFINE k == CHOOSE i \in At(delivery[t], "reply") : delivery[t][i].reply.aid = AidOf(req)
<1>1. k \in At(delivery[t], "reply") /\ delivery[t][k].reply.aid = AidOf(req)
  BY DEF RepliesOK, Replied
<1>2. ReplyTo(delivery[t], AidOf(req)) = delivery[t][k]
  BY DEF ReplyTo
<1> HIDE DEF k
<1>3. k \in At(log[t], "reply") /\ log[t][k] = delivery[t][k]
  BY <1>1, CreditBase DEF Snapped, At
<1>4. k = j
  BY <1>1, <1>3, RepliesAreUnique
<1> QED BY <1>2, <1>3, <1>4

\* If the report is admitted then no send expired.
LEMMA AdmittedMeansNoneExpired ==
  ASSUME CreditInv, AdmitInv, phase = "done", Admitted(Source), NEW a \in Attempts(Source)
  PROVE  a.outcome.error # "TimeoutError"
<1> SUFFICES ASSUME a.outcome.error = "TimeoutError" PROVE FALSE
  OBVIOUS
<1>0. PICK p \in Party : \E i \in At(Own(p), "send") :
           /\ i + 1 \in At(Own(p), "transport")
           /\ a = [req |-> Own(p)[i].req, outcome |-> Own(p)[i + 1]]
           /\ a.req \in Sent(p) /\ a.req \in Command /\ a.req.from = p /\ a.req.n = i - 1
           /\ TransportOk(a.outcome, a.req) /\ Own(p)[i + 1].aid = AidOf(a.req)
           /\ a.req.parent # NoAid =>
                p \in Target /\ a.req.parent \in {AidOf(r) : r \in Receipts(delivery[p])}
  BY AttemptShows
<1>1. PICK i \in At(Own(p), "send") :
           /\ i + 1 \in At(Own(p), "transport")
           /\ a = [req |-> Own(p)[i].req, outcome |-> Own(p)[i + 1]]
           /\ a.req \in Sent(p) /\ a.req \in Command /\ a.req.from = p /\ a.req.n = i - 1
           /\ TransportOk(a.outcome, a.req) /\ Own(p)[i + 1].aid = AidOf(a.req)
           /\ a.req.parent # NoAid =>
                p \in Target /\ a.req.parent \in {AidOf(r) : r \in Receipts(delivery[p])}
  BY <1>0
<1>2. PICK req \in Command : req = a.req
  BY <1>1
<1>3. PICK t \in Target : t = req.to
  BY DEF Command
<1>4. Arrived(p, req)
  <2>1. a.outcome = Own(p)[i + 1]
    BY <1>1
  <2> QED BY <1>1, <1>2, <2>1 DEF Arrived
<1>5. Tainted(req.parent) \/ InTime(t, req)
  BY <1>1, <1>2, <1>3, <1>4 DEF AdmitInv, ReachOK
<1>6. ~Tainted(req.parent)
  <2>1. CASE req.parent = NoAid
    BY <2>1, NoAidIsClean
  <2>2. CASE req.parent # NoAid
    <3>1. p \in Target /\ req.parent \in {AidOf(r) : r \in Receipts(delivery[p])}
      BY <1>1, <1>2, <2>2
    <3>2. PICK r \in Receipts(delivery[p]) : req.parent = AidOf(r)
      BY <3>1
    <3>3. ~Tainted(AidOf(r))
      BY <3>1, AdmittedIsClean
    <3> QED BY <3>2, <3>3
  <2> QED BY <2>1, <2>2
<1>7. req \in Receipts(delivery[t])
  BY <1>5, <1>6, DoneVisits DEF InTime
<1>8. a.outcome.status = "TRANSPORT_UNKNOWN"
  BY <1>1 DEF TransportOk
<1>9. AttemptOk(Source, a) /\ Source.nodes = delivery
  BY DEF Admitted, Source
<1>10. a.outcome.error = "EOFError"
  BY <1>2, <1>3, <1>7, <1>8, <1>9 DEF AttemptOk, LossOk
<1> QED BY <1>10

\* No call of the finished capture expired.
NoneExpired == \A a \in Attempts(Source) : a.outcome.error # "TimeoutError"

\* If no call expired then everything sent is reported and settled.
LEMMA NoneExpiredSettles ==
  ASSUME CreditInv, AdmitInv, phase = "done", NoneExpired
  PROVE  /\ \A p \in Party : Sent(p) = Sends(Reported(p))
         /\ \A aid : ~Tainted(aid)
<1>1. ASSUME NEW p \in Party, NEW req \in Sends(Reported(p))
      PROVE  req \in Sent(p) /\ Settled(p, AidOf(req))
  <2>1. PICK i \in At(Reported(p), "send") : Reported(p)[i].req = req
    BY <1>1 DEF Sends
  <2>2. SendReported(p, i)
    BY DoneSends
  <2>3. PICK a : a = [req |-> Reported(p)[i].req, outcome |-> Reported(p)[i + 1]]
    OBVIOUS
  <2>4. a \in Attempts(Source)
    BY <2>3, AttemptsAre
  <2>5. Reported(p)[i + 1].error # "TimeoutError"
    BY <2>3, <2>4 DEF NoneExpired
  <2> QED BY <2>1, <2>2, <2>5 DEF SendReported, Settled, TransportOk, Sent, Sends
<1>2. ASSUME NEW p \in Party, NEW req \in Sent(p), ~Late(p, req)
      PROVE  req \in Sends(Reported(p))
  <2>1. CASE p = Controller
    BY <2>1 DEF Reported, Sent, Own
  <2>2. CASE p # Controller
    <3>1. p \in Target /\ Reported(p) = delivery[p]
      BY <2>2 DEF Party, Reported
    <3> QED BY <1>2, <3>1, DoneVisits DEF Late
  <2> QED BY <2>1, <2>2
<1>3. \A p \in Party : \A req \in Sent(p) : ~Late(p, req)
  <2> SUFFICES ASSUME \E p \in Party : \E req \in Sent(p) : Late(p, req) PROVE FALSE
    OBVIOUS
  <2>1. PICK p \in Party : \E req \in Sent(p) : Lost(p, req) /\ ~Late(p, req)
    BY DEF AdmitInv, LateOK
  <2> QED BY <1>1, <1>2, <2>1 DEF Lost
<1>4. \A p \in Party : \A req \in Sent(p) : ~Lost(p, req)
  BY <1>1, <1>2, <1>3 DEF Lost
<1>5. \A aid : ~Tainted(aid)
  BY <1>4, TaintNeedsLoss
<1> QED BY <1>1, <1>2, <1>3, <1>5

\* Then what was received was sent, and the sender reports it.
LEMMA NoneExpiredReceipts ==
  ASSUME CreditInv, AdmitInv, phase = "done", NoneExpired, NEW t \in Target
  PROVE  Receipts(Source.nodes[t]) \subseteq {a.req : a \in Attempts(Source)}
<1> SUFFICES ASSUME NEW req \in Receipts(delivery[t])
             PROVE  \E a \in Attempts(Source) : a.req = req
  BY DEF Source
<1>1. req.from \in Party /\ req \in Sent(req.from)
  BY DeliveredReceipts
<1>2. PICK p \in Party : p = req.from
  BY <1>1
<1>3. req \in Sends(Reported(p))
  BY <1>1, <1>2, NoneExpiredSettles
<1>4. PICK i \in At(Reported(p), "send") : Reported(p)[i].req = req
  BY <1>3 DEF Sends
<1>5. PICK a : a = [req |-> Reported(p)[i].req, outcome |-> Reported(p)[i + 1]]
  OBVIOUS
<1>6. a \in Attempts(Source)
  BY <1>5, AttemptsAre
<1> QED BY <1>4, <1>5, <1>6

\* No identity is used twice.
LEMMA AttemptsAreUnique ==
  ASSUME CreditInv, AdmitInv, phase = "done", NEW a \in Attempts(Source),
         NEW b \in Attempts(Source), AidOf(a.req) = AidOf(b.req)
  PROVE  a = b
<1> DEFINE Fine(x, p, i) ==
             /\ x = [req |-> Own(p)[i].req, outcome |-> Own(p)[i + 1]]
             /\ x.req \in Sent(p) /\ x.req.n = i - 1
<1>1. ASSUME NEW x \in Attempts(Source)
      PROVE  \E p \in Party : \E i \in At(Own(p), "send") : Fine(x, p, i)
  <2>1. PICK p \in Party : \E i \in At(Own(p), "send") :
           /\ i + 1 \in At(Own(p), "transport")
           /\ x = [req |-> Own(p)[i].req, outcome |-> Own(p)[i + 1]]
           /\ x.req \in Sent(p) /\ x.req \in Command /\ x.req.from = p /\ x.req.n = i - 1
    BY AttemptShows
  <2> QED BY <2>1
<1> HIDE DEF Fine
<1>2. PICK p \in Party : \E i \in At(Own(p), "send") : Fine(a, p, i)
  BY <1>1
<1>3. PICK q \in Party : \E i \in At(Own(q), "send") : Fine(b, q, i)
  BY <1>1
<1>4. PICK i \in At(Own(p), "send") : Fine(a, p, i)
  BY <1>2
<1>5. PICK k \in At(Own(q), "send") : Fine(b, q, k)
  BY <1>3
<1>6. a.req = b.req /\ p = q
  BY <1>4, <1>5, CreditBase, AidsName DEF Fine
<1>7. i \in Nat /\ k \in Nat
  <2>1. Own(p) \in Seq(Event) /\ Own(q) \in Seq(Event)
    BY CreditBase, OwnIs
  <2> QED BY <2>1 DEF At
<1>8. i = k
  BY <1>4, <1>5, <1>6, <1>7 DEF Fine
<1> QED BY <1>4, <1>5, <1>6, <1>8 DEF Fine

\* The report of the harness.
LEMMA DispatchesAreOk ==
  ASSUME CreditInv, AdmitInv, phase = "done"
  PROVE  DispatchOk(Source)
<1>a. /\ Roots(Len(intent.roots)) /\ TInv
      /\ Source.events = events /\ Source.intent = intent
  BY CreditBase DEF AdmitInv, EventsOK, Source
<1>b. intent.roots \in Seq(Target)
  <2>1. intent \in Captures
    BY <1>a DEF TInv, TypeOK
  <2> QED BY <2>1, CapturesAssumption
<1>1. ASSUME NEW i \in DOMAIN intent.roots
      PROVE  /\ events[2 * i - 1].kind = "send"
             /\ events[2 * i].kind = "transport"
             /\ CommandOk(intent, events[2 * i - 1].req, intent.roots[i])
             /\ events[2 * i - 1].req.from = Controller
             /\ TransportOk(events[2 * i], events[2 * i - 1].req)
  <2>1. RootSend(i) /\ RootOutcome(i)
    BY <1>a, <1>b DEF Roots
  <2>2. intent.roots[i] \in Children(intent, Controller)
    BY DEF Children
  <2> QED BY <2>1, <2>2 DEF RootSend, RootOutcome, CommandOk
<1> QED BY <1>a, <1>1 DEF DispatchOk, Roots

\* Each attempt agrees with the receiver's report of it.
LEMMA NoneExpiredAttempts ==
  ASSUME CreditInv, AdmitInv, phase = "done", NoneExpired, NEW a \in Attempts(Source)
  PROVE  AttemptOk(Source, a)
<1>0. PICK p \in Party : \E i \in At(Own(p), "send") :
           /\ i + 1 \in At(Own(p), "transport")
           /\ a = [req |-> Own(p)[i].req, outcome |-> Own(p)[i + 1]]
           /\ a.req \in Sent(p) /\ a.req \in Command /\ a.req.from = p /\ a.req.n = i - 1
           /\ TransportOk(a.outcome, a.req) /\ Own(p)[i + 1].aid = AidOf(a.req)
           /\ a.req.parent # NoAid =>
                p \in Target /\ a.req.parent \in {AidOf(r) : r \in Receipts(delivery[p])}
  BY AttemptShows
<1>1. PICK i \in At(Own(p), "send") :
           /\ i + 1 \in At(Own(p), "transport")
           /\ a = [req |-> Own(p)[i].req, outcome |-> Own(p)[i + 1]]
           /\ a.req \in Sent(p) /\ a.req \in Command /\ a.req.from = p /\ a.req.n = i - 1
           /\ TransportOk(a.outcome, a.req) /\ Own(p)[i + 1].aid = AidOf(a.req)
           /\ a.req.parent # NoAid =>
                p \in Target /\ a.req.parent \in {AidOf(r) : r \in Receipts(delivery[p])}
  BY <1>0
<1>2. PICK req \in Command : req = a.req
  BY <1>1
<1>3. PICK t \in Target : t = req.to
  BY DEF Command
<1>4. PICK o : o = a.outcome
  OBVIOUS
<1>5. /\ req \in Sent(p) /\ o = Own(p)[i + 1] /\ o.aid = AidOf(req) /\ TransportOk(o, req)
      /\ o.error # "TimeoutError" /\ req.from = p
  BY <1>1, <1>2, <1>4 DEF NoneExpired
<1>6. Source.nodes = delivery /\ RepliesOK(t) /\ delivery[t] # <<>> /\ ~Tainted(req.parent)
  BY DoneVisits, NoneExpiredSettles DEF Source, AdmitInv
<1> DEFINE received == AidOf(req) \in {AidOf(r) : r \in Receipts(delivery[t])}
           answer == ReplyTo(delivery[t], AidOf(req))
<1>7. received => req \in Receipts(delivery[t])
  <2> SUFFICES ASSUME NEW r \in Receipts(delivery[t]), AidOf(req) = AidOf(r)
               PROVE  req \in Receipts(delivery[t])
    OBVIOUS
  <2>1. r.from \in Party /\ r \in Sent(r.from)
    BY DeliveredReceipts
  <2>2. r = req
    BY <1>5, <2>1, CreditBase, AidsName
  <2> QED BY <2>2
<1>8. ASSUME o.status = "RESPONSE"
      PROVE  received /\ ~answer.dropped /\ answer.reply = o.response
  <2>1. Arrived(p, req)
    BY <1>1, <1>5, <1>8 DEF Arrived
  <2>2. InTime(t, req)
    BY <1>3, <1>5, <1>6, <2>1 DEF AdmitInv, ReachOK
  <2>3. req \in Receipts(delivery[t])
    BY <1>6, <2>2 DEF InTime
  <2>4. ToldIn(log[t], AidOf(req), o.response)
    <3>1. OutcomesTrue(p)
      BY CreditBase DEF ResponseInv
    <3>2. AidOf(req)[2] = t
      BY <1>3 DEF AidOf
    <3> QED BY <1>1, <1>5, <1>8, <3>1, <3>2 DEF OutcomesTrue
  <2>5. PICK j \in At(log[t], "reply") :
          log[t][j].reply = o.response /\ log[t][j].reply.aid = AidOf(req) /\ ~log[t][j].dropped
    BY <2>4 DEF ToldIn
  <2>6. answer = log[t][j]
    BY <1>6, <2>3, <2>5, ReplyFound
  <2> QED BY <2>3, <2>5, <2>6
<1>9. ASSUME o.status # "RESPONSE", received
      PROVE  LossOk(o, answer)
  <2>1. o.error \in TransportErrors
    BY <1>5, <1>9 DEF TransportOk
  <2>2. Failed(p, req, o.error)
    BY <1>1, <1>5, <2>1 DEF Failed
  <2>3. req \in Receipts(delivery[t]) /\ req \in Receipts(log[t])
    BY <1>7, <1>9, DeliveredReceipts
  <2>4. o.error = "EOFError" /\ DroppedIn(log[t], AidOf(req))
    BY <1>3, <1>5, <1>6, <2>1, <2>2, <2>3 DEF AdmitInv, LossOK
  <2>5. PICK j \in At(log[t], "reply") : log[t][j].reply.aid = AidOf(req) /\ log[t][j].dropped
    BY <2>4 DEF DroppedIn
  <2>6. answer = log[t][j]
    BY <1>6, <2>3, <2>5, ReplyFound
  <2> QED BY <2>4, <2>5, <2>6 DEF LossOk
<1>10. req.parent # NoAid => req.parent \in {AidOf(r) : r \in Receipts(delivery[req.from])}
  BY <1>1, <1>2, <1>5
<1> HIDE DEF received, answer
<1>11. AttemptOk(Source, a) <=>
         /\ req.parent # NoAid => req.parent \in {AidOf(r) : r \in Receipts(delivery[req.from])}
         /\ o.status = "RESPONSE" => received /\ ~answer.dropped /\ answer.reply = o.response
         /\ (o.status # "RESPONSE" /\ received) => LossOk(o, answer)
  BY <1>2, <1>3, <1>4, <1>6 DEF AttemptOk, received, answer
<1> QED BY <1>8, <1>9, <1>10, <1>11

\* evaluate admits the report of every capture that finished exactly when no
\* send of it expired: what honest workers report is accepted whatever was
\* injected, and a receiver that may have acted after its sender gave up is
\* never counted.
THEOREM AdmissionIsExact == Spec => []AdmittedUnlessExpired
<1>1. ASSUME CreditInv, AdmitInv PROVE AdmittedUnlessExpired
  <2> SUFFICES ASSUME phase = "done"
               PROVE  Admitted(Source) <=> \A o \in Recorded : o.error # "TimeoutError"
    BY DEF AdmittedUnlessExpired
  <2>1. ASSUME Admitted(Source) PROVE NoneExpired
    BY <1>1, <2>1, AdmittedMeansNoneExpired DEF NoneExpired
  <2>2. ASSUME NoneExpired PROVE Admitted(Source)
    <3>1. \A t \in Target : NodeOk(Source.intent, t, Source.nodes[t]) /\ ObservationOk(Source, t)
      BY <1>1, DoneVisits DEF Source
    <3>2. \A a, b \in Attempts(Source) : AidOf(a.req) = AidOf(b.req) => a = b
      BY <1>1, AttemptsAreUnique
    <3>3. \A t \in Target : Receipts(Source.nodes[t]) \subseteq {a.req : a \in Attempts(Source)}
      BY <1>1, <2>2, NoneExpiredReceipts
    <3>4. DispatchOk(Source) /\ \A a \in Attempts(Source) : AttemptOk(Source, a)
      BY <1>1, <2>2, DispatchesAreOk, NoneExpiredAttempts
    <3> QED BY <3>1, <3>2, <3>3, <3>4 DEF Admitted
  <2>3. NoneExpired <=> \A o \in Recorded : o.error # "TimeoutError"
    BY DEF NoneExpired, Recorded
  <2> QED BY <2>1, <2>2, <2>3
<1> QED BY <1>1, AdmitInvariant, PTL
=============================================================================
