----------------------------- MODULE Delegation -----------------------------
(***************************************************************************)
(* One capture of integrations/langgraph/multitarget: a controller         *)
(* (capture.py) starts one worker process per target, configures all of    *)
(* them with the frozen intent, dispatches a pause to every root, samples  *)
(* every target's effect file twice, collects a signed snapshot from every *)
(* worker and cleans up.  Each worker (worker.py) is a serial socket       *)
(* server beside a business thread that appends effect rows until it is    *)
(* cancelled; an accepted pause is forwarded to the worker's child over    *)
(* transport.py, with a second attempt after a lost response.              *)
(***************************************************************************)
EXTENDS DelegationReport

CONSTANTS
  Order,     \* TARGETS, the order in which the harness visits the targets
  Captures,  \* the intents with injections that a behaviour may run
  Faults,    \* what the environment may do: expire a socket wait ("timeout"),
             \* outlast the wait for the native pause ("pauseTimeout"), make
             \* the business code raise ("business"), fail a start ("start")
  MaxRows    \* bound on the rows one business thread writes

ASSUME OrderAssumption ==
  /\ Order \in Seq(Target) /\ Order # <<>>
  /\ \A t \in Target : \E i \in DOMAIN Order : Order[i] = t
  /\ \A i, j \in DOMAIN Order : Order[i] = Order[j] => i = j

ASSUME CapturesAssumption ==
  \A c \in Captures :
    /\ c.roots \in Seq(Target) /\ c.roots # <<>>
    /\ c.kid \in [Target -> Target \cup {NoTarget}]
    /\ c.refuse \subseteq Target
    /\ c.retry \subseteq Target
    /\ c.drop \subseteq Target
    /\ c.missing \subseteq Party \X Target

ASSUME BoundAssumption == MaxRows \in Nat \ {0}

VARIABLES
  intent,      \* the capture that runs; never changes
  phase, idx,  \* where capture() is, and at which target of that loop
  events,      \* the controller's event log
  seen,        \* per target: rows in the two samples, and how it ended
  srv,         \* per target: the server loop's place, request and variables
  log,         \* per target: the worker's event log
  delivery,    \* per target: the log as it was when the snapshot was signed
  biz,         \* per target: the business thread, its cancel event, its rows
  queue,       \* per target: connected requests not yet accepted
  sock         \* per party: its one outstanding call, and the call's result

vars == <<intent, phase, idx, events, seen, srv, log, delivery, biz, queue, sock>>
ctlVars == <<phase, idx, events, seen>>

NoCommand == [op |-> "none", from |-> NoTarget, to |-> NoTarget, n |-> 0,
              parent |-> NoAid]
Closed == [req |-> NoCommand, state |-> "none", answer |-> NoReply]

NextPhase == [start |-> "configure", configure |-> "dispatch",
              dispatch |-> "before", before |-> "after", after |-> "snapshot",
              snapshot |-> "cleanup", cleanup |-> "done"]

Finished == phase \in {"done", "aborted"}

\* A worker process that exists: its server may accept, its business may run.
Alive(t) == srv[t].pc \notin {"down", "dead", "exited"}

\* stopped.is_set() if the finally clause of run() did not cover failures.
StoppedOnSuccess(t) == biz[t].pc = "paused"

\* stopped.is_set() if the handler waited for the wrong event.
StoppedOnCancel(t) == biz[t].cancel

\* The event "stopped" of worker.py, set in the finally clause of run().
Stopped(t) == biz[t].pc \in {"paused", "failed"}

\* source.json, as the consumer reads it.
Source == [intent |-> intent, events |-> events, nodes |-> delivery, seen |-> seen]

Init ==
  /\ intent \in Captures
  /\ phase = "start" /\ idx = 1 /\ events = <<>>
  /\ seen = [t \in Target |-> [before |-> 0, after |-> 0, cleanup |-> "none"]]
  /\ srv = [t \in Target |->
       [pc |-> "down", cur |-> NoCommand, paused |-> FALSE, dropped |-> FALSE,
        duplicate |-> FALSE, children |-> <<>>]]
  /\ log = [t \in Target |-> <<>>] /\ delivery = [t \in Target |-> <<>>]
  /\ biz = [t \in Target |-> [pc |-> "off", cancel |-> FALSE, rows |-> 0]]
  /\ queue = [t \in Target |-> <<>>]
  /\ sock = [p \in Party |-> Closed]
-----------------------------------------------------------------------------
(* Sockets.                                                                *)

Opens(p, req, state) ==
  sock' = [sock EXCEPT ![p] = [req |-> req, state |-> state, answer |-> NoReply]]

\* call(): connect and send.  A missing path or a dead server fails at once;
\* otherwise the request waits in the server's backlog.
Connect(p, req) ==
  LET missing == req.op = "pause" /\ <<p, req.to>> \in intent.missing IN
  \/ missing /\ Opens(p, req, "FileNotFoundError") /\ UNCHANGED queue
  \/ /\ ~missing /\ ~Alive(req.to)
     /\ Opens(p, req, "ConnectionRefusedError") /\ UNCHANGED queue
  \/ /\ ~missing /\ Alive(req.to)
     /\ Opens(p, req, "waiting")
     /\ queue' = [queue EXCEPT ![req.to] = Append(@, req)]

\* An end of file taken for an empty chunk of an answer still to come.
ReturnedUnlessEof(p) == sock[p].state \notin {"none", "waiting", "EOFError"}

Returned(p) == sock[p].state \notin {"none", "waiting"}

\* Any call to the same server taken for the connection of this request.
ConnectedToPeer(req) == sock[req.from].req.to = req.to

\* The client of this request has not closed its end.
Connected(req) == sock[req.from].req = req

\* A result reaches the client of req if its socket still waits; one that has
\* expired but not yet closed ignores it.
Result(req, state, answer) ==
  IF Connected(req) /\ sock[req.from].state = "waiting"
  THEN [sock EXCEPT ![req.from].state = state, ![req.from].answer = answer]
  ELSE sock

\* A worker process ends.  The connection it was serving gets the given result,
\* those it had not accepted are reset, its own outstanding call is gone.
EndProcess(t, pc, served, state) ==
  /\ srv' = [srv EXCEPT ![t].pc = pc, ![t].cur = served]
  /\ queue' = [queue EXCEPT ![t] = <<>>]
  /\ sock' = [p \in Party |->
       IF p = t THEN Closed
       ELSE IF sock[p].state # "waiting" \/ sock[p].req.to # t THEN sock[p]
       ELSE [sock[p] EXCEPT !.state =
               IF sock[p].req = served THEN state ELSE "ConnectionResetError"]]

\* settimeout(8) expires for a caller that exists and still waits.  The socket
\* stays open until the caller unwinds.
Expire(p) ==
  /\ "timeout" \in Faults
  /\ sock[p].state = "waiting"
  /\ IF p = Controller THEN ~Finished ELSE srv[p].pc = "await"
  /\ sock' = [sock EXCEPT ![p].state = "TimeoutError"]
  /\ UNCHANGED <<ctlVars, srv, log, delivery, biz, queue>>

\* An outcome whose status repeats the error's name.
TransportEventNamingError(p) ==
  [kind |-> "transport", aid |-> AidOf(sock[p].req),
   status |-> IF sock[p].state = "reply" THEN "RESPONSE" ELSE sock[p].state,
   error |-> IF sock[p].state = "reply" THEN "none" ELSE sock[p].state,
   response |-> sock[p].answer]

\* The outcome send_attempt records.
TransportEvent(p) ==
  LET answered == sock[p].state = "reply" IN
  [kind |-> "transport", aid |-> AidOf(sock[p].req),
   status |-> IF answered THEN "RESPONSE" ELSE "TRANSPORT_UNKNOWN",
   error |-> IF answered THEN "none" ELSE sock[p].state,
   response |-> sock[p].answer]
-----------------------------------------------------------------------------
(* The controller: capture().                                              *)

\* The loop over targets goes on, or the harness enters its next phase.
Advance ==
  LET len == IF phase = "dispatch" THEN Len(intent.roots) ELSE Len(Order) IN
  IF idx < len THEN phase' = phase /\ idx' = idx + 1
               ELSE phase' = NextPhase[phase] /\ idx' = 1

\* An exception leaves capture(): the finally clause kills every worker.
Abort ==
  /\ phase' = "aborted"
  /\ srv' = [t \in Target |-> IF Alive(t) THEN [srv[t] EXCEPT !.pc = "dead"]
                                         ELSE srv[t]]
  /\ UNCHANGED <<idx, events, seen, log, delivery, biz, queue, sock>>

\* Popen and the readiness line: the worker has written its first row, bound
\* its socket and logged "ready".
Spawn(t) ==
  /\ phase = "start" /\ t = Order[idx]
  /\ srv' = [srv EXCEPT ![t].pc = "idle"]
  /\ biz' = [biz EXCEPT ![t].pc = "wait", ![t].rows = 1]
  /\ log' = [log EXCEPT ![t] = <<[kind |-> "ready"]>>]
  /\ Advance
  /\ UNCHANGED <<events, seen, delivery, queue, sock>>

SpawnFails == "start" \in Faults /\ phase = "start" /\ Abort

\* The control calls: configure, snapshot, and exit for a paused worker.
ControlOp(t) ==
  CASE phase \in {"configure", "snapshot"} -> phase
    [] phase = "cleanup" /\ Execution(delivery[t]) = "PAUSED_REPORTED" -> "exit"
    [] OTHER -> "none"

Ask(t) ==
  /\ ControlOp(t) # "none" /\ t = Order[idx]
  /\ sock[Controller] = Closed
  /\ Connect(Controller, [op |-> ControlOp(t), from |-> Controller, to |-> t,
                          n |-> 0, parent |-> NoAid])
  /\ UNCHANGED <<ctlVars, srv, log, delivery, biz>>

Acknowledged(t) ==
  /\ ControlOp(t) # "none" /\ t = Order[idx]
  /\ sock[Controller].state = "reply"
  /\ sock' = [sock EXCEPT ![Controller] = Closed]
  /\ seen' = IF phase = "cleanup" THEN [seen EXCEPT ![t].cleanup = "exited"]
                                  ELSE seen
  /\ Advance
  /\ UNCHANGED <<events, srv, log, delivery, biz, queue>>

\* A control call that fails is not caught.
ControlFails ==
  /\ phase \in {"configure", "snapshot", "cleanup"}
  /\ Returned(Controller) /\ sock[Controller].state # "reply"
  /\ Abort

\* send_attempt to the next root.
Dispatch(t) ==
  LET req == [op |-> "pause", from |-> Controller, to |-> t,
              n |-> Len(events), parent |-> NoAid] IN
  /\ phase = "dispatch" /\ t = intent.roots[idx]
  /\ sock[Controller] = Closed
  /\ events' = Append(events, [kind |-> "send", req |-> req])
  /\ Connect(Controller, req)
  /\ UNCHANGED <<phase, idx, seen, srv, log, delivery, biz>>

Dispatched ==
  /\ phase = "dispatch" /\ Returned(Controller)
  /\ events' = Append(events, TransportEvent(Controller))
  /\ sock' = [sock EXCEPT ![Controller] = Closed]
  /\ Advance
  /\ UNCHANGED <<seen, srv, log, delivery, biz, queue>>

\* sample(): all whole rows of one target's file, under the shared lock.
Sample(t) ==
  /\ phase \in {"before", "after"} /\ t = Order[idx]
  /\ seen' = IF phase = "before" THEN [seen EXCEPT ![t].before = biz[t].rows]
                                 ELSE [seen EXCEPT ![t].after = biz[t].rows]
  /\ Advance
  /\ UNCHANGED <<events, srv, log, delivery, biz, queue, sock>>

\* Forced cleanup of a worker whose report does not claim a pause.
ForceKill(t) ==
  /\ phase = "cleanup" /\ t = Order[idx]
  /\ Execution(delivery[t]) # "PAUSED_REPORTED"
  /\ EndProcess(t, "dead", srv[t].cur, "EOFError")
  /\ seen' = [seen EXCEPT ![t].cleanup = "killed"]
  /\ Advance
  /\ UNCHANGED <<events, log, delivery, biz>>
-----------------------------------------------------------------------------
(* The worker's server loop: main() of worker.py.                          *)

Emit(t, es) == log' = [log EXCEPT ![t] = @ \o es]

\* accept() and read_line(): the oldest connection, with its whole request,
\* whether or not its client still waits.
Accepts(t, op) ==
  /\ srv[t].pc = "idle"
  /\ queue[t] # <<>> /\ Head(queue[t]).op = op

Configure(t) ==
  /\ Accepts(t, "configure")
  /\ queue' = [queue EXCEPT ![t] = Tail(@)]
  /\ Emit(t, <<[kind |-> "configured"]>>)
  /\ sock' = Result(Head(queue[t]), "reply", NoReply)
  /\ UNCHANGED <<ctlVars, srv, delivery, biz>>

\* The worker projects its own log before it signs; a log its projection
\* refuses raises and ends the process.
Snapshot(t) ==
  /\ Accepts(t, "snapshot")
  /\ \/ /\ NodeOk(intent, t, log[t])
        /\ delivery' = [delivery EXCEPT ![t] = log[t]]
        /\ queue' = [queue EXCEPT ![t] = Tail(@)]
        /\ sock' = Result(Head(queue[t]), "reply", NoReply)
        /\ UNCHANGED srv
     \/ /\ ~NodeOk(intent, t, log[t])
        /\ EndProcess(t, "dead", Head(queue[t]), "EOFError")
        /\ UNCHANGED delivery
  /\ UNCHANGED <<ctlVars, log, biz>>

Exit(t) ==
  /\ Accepts(t, "exit") /\ srv[t].paused
  /\ EndProcess(t, "exited", Head(queue[t]), "reply")
  /\ UNCHANGED <<ctlVars, log, delivery, biz>>

\* Every request that is not refused pauses again, a repeated one too.
BeginsAgain(t) == t \notin intent.refuse

\* Whether a request makes the worker pause: not refused, and not a duplicate.
Begins(t) == t \notin intent.refuse /\ ~srv[t].paused

\* A pause is received: refused, answered as a duplicate, or begun by setting
\* cancel, after which the loop waits for the business thread.
ReceivePause(t) ==
  LET req      == Head(queue[t])
      receipt  == [kind |-> "receipt", req |-> req]
      refusal  == [kind |-> "refused", aid |-> AidOf(req)]
  IN
  /\ Accepts(t, "pause")
  /\ queue' = [queue EXCEPT ![t] = Tail(@)]
  /\ Emit(t, IF t \in intent.refuse THEN <<receipt, refusal>> ELSE <<receipt>>)
  /\ srv' = [srv EXCEPT ![t].pc = IF Begins(t) THEN "waitStop" ELSE "reply",
                        ![t].cur = req, ![t].children = <<>>,
                        ![t].duplicate = srv[t].paused]
  /\ biz' = IF Begins(t) THEN [biz EXCEPT ![t].cancel = TRUE] ELSE biz
  /\ UNCHANGED <<ctlVars, delivery, sock>>

\* The pause is reported from the command, without waiting for "stopped".
NativePausedUnawaited(t) ==
  /\ srv[t].pc = "waitStop"
  /\ Emit(t, <<[kind |-> "native_paused", aid |-> AidOf(srv[t].cur)]>>)
  /\ srv' = [srv EXCEPT ![t].paused = TRUE, ![t].pc =
               IF intent.kid[t] # NoTarget THEN "forward" ELSE "reply"]
  /\ UNCHANGED <<ctlVars, delivery, biz, queue, sock>>

\* stopped.wait(5) returned: the result of run(), empty if it raised, is
\* reported as the native pause.
NativePaused(t) ==
  /\ srv[t].pc = "waitStop" /\ Stopped(t)
  /\ Emit(t, <<[kind |-> "native_paused", aid |->
                IF biz[t].pc = "paused" THEN AidOf(srv[t].cur) ELSE NoAid]>>)
  /\ srv' = [srv EXCEPT ![t].paused = TRUE, ![t].pc =
               IF intent.kid[t] # NoTarget THEN "forward" ELSE "reply"]
  /\ UNCHANGED <<ctlVars, delivery, biz, queue, sock>>

PauseTimesOut(t) ==
  /\ "pauseTimeout" \in Faults
  /\ srv[t].pc = "waitStop" /\ ~Stopped(t)
  /\ EndProcess(t, "dead", srv[t].cur, "EOFError")
  /\ UNCHANGED <<ctlVars, log, delivery, biz>>

\* One attempt identity for all tries of a forward.
ForwardedCommandOnce(t) ==
  [op |-> "pause", from |-> t, to |-> intent.kid[t], n |-> 0,
   parent |-> AidOf(srv[t].cur)]

\* The command for the child: a fresh attempt that descends from the command
\* being handled.
ForwardedCommand(t) ==
  [op |-> "pause", from |-> t, to |-> intent.kid[t], n |-> Len(log[t]),
   parent |-> AidOf(srv[t].cur)]

\* send_attempt to the child.
Forward(t) ==
  /\ srv[t].pc = "forward"
  /\ Emit(t, <<[kind |-> "send", req |-> ForwardedCommand(t)]>>)
  /\ Connect(t, ForwardedCommand(t))
  /\ srv' = [srv EXCEPT ![t].pc = "await"]
  /\ UNCHANGED <<ctlVars, delivery, biz>>

\* The attempt's outcome: a response ends the loop, and so does the last try.
Forwarded(t) ==
  LET tries == IF t \in intent.retry THEN MaxAttempts ELSE 1
      e     == TransportEvent(t)
      again == e.status # "RESPONSE" /\ Len(srv[t].children) + 1 < tries
  IN
  /\ srv[t].pc = "await" /\ Returned(t)
  /\ Emit(t, <<e>>)
  /\ srv' = [srv EXCEPT ![t].children = Append(@, e.status),
                        ![t].pc = IF again THEN "forward" ELSE "reply"]
  /\ sock' = [sock EXCEPT ![t] = Closed]
  /\ UNCHANGED <<ctlVars, delivery, biz, queue>>

\* A reply that does not tell a repeated request from the first.
ReplyOfFirst(t) ==
  [aid |-> AidOf(srv[t].cur),
   status |-> IF t \in intent.refuse THEN "REFUSED" ELSE "PAUSED_REPORTED",
   duplicate |-> FALSE, kids |-> srv[t].children]

ReplyOf(t) ==
  [aid |-> AidOf(srv[t].cur),
   status |-> IF t \in intent.refuse THEN "REFUSED" ELSE "PAUSED_REPORTED",
   duplicate |-> srv[t].duplicate, kids |-> srv[t].children]

\* The first response may be dropped by closing the connection; otherwise it
\* is sent, and a client that has closed its end ends this process.
SendReply(t) ==
  LET drop == t \in intent.drop /\ ~srv[t].dropped
      req  == srv[t].cur
  IN
  /\ srv[t].pc = "reply"
  /\ Emit(t, <<[kind |-> "reply", reply |-> ReplyOf(t), dropped |-> drop]>>)
  /\ \/ /\ drop \/ Connected(req)
        /\ srv' = [srv EXCEPT ![t].pc = "idle", ![t].dropped = @ \/ drop]
        /\ sock' = IF drop THEN Result(req, "EOFError", NoReply)
                           ELSE Result(req, "reply", ReplyOf(t))
        /\ UNCHANGED queue
     \/ /\ ~drop /\ ~Connected(req)
        /\ EndProcess(t, "dead", req, "EOFError")
  /\ UNCHANGED <<ctlVars, delivery, biz>>
-----------------------------------------------------------------------------
(* The business thread: action() and run() of worker.py.                   *)

\* One step of the thread from one place to another.
Business(t, from, to, rows) ==
  /\ Alive(t) /\ biz[t].pc = from
  /\ biz' = [biz EXCEPT ![t].pc = to, ![t].rows = rows]
  /\ UNCHANGED <<ctlVars, srv, log, delivery, queue, sock>>

\* cancel.wait(0.01) returned false: the next row will be written even if
\* cancel is set from now on.
BeginRow(t) ==
  /\ ~biz[t].cancel /\ biz[t].rows < MaxRows
  /\ Business(t, "wait", "write", biz[t].rows)

WriteRow(t) == Business(t, "write", "wait", biz[t].rows + 1)

\* cancel is seen: the interrupt unwinds through graph.invoke, the result is
\* recorded and stopped is set.
Interrupt(t) == biz[t].cancel /\ Business(t, "wait", "paused", biz[t].rows)

\* The business code raises: stopped is set with an empty result.
BusinessFails(t) ==
  /\ "business" \in Faults
  /\ \E from \in {"wait", "write"} : Business(t, from, "failed", biz[t].rows)
-----------------------------------------------------------------------------
ControllerStep(t) ==
  \/ Spawn(t) \/ Ask(t) \/ Acknowledged(t) \/ Dispatch(t) \/ Dispatched
  \/ Sample(t) \/ ForceKill(t) \/ ControlFails

ServerStep(t) ==
  \/ Configure(t) \/ Snapshot(t) \/ Exit(t) \/ ReceivePause(t)
  \/ NativePaused(t) \/ Forward(t) \/ Forwarded(t) \/ SendReply(t)

BusinessStep(t) == BeginRow(t) \/ WriteRow(t) \/ Interrupt(t)

Environment ==
  \/ SpawnFails
  \/ \E p \in Party : Expire(p)
  \/ \E t \in Target : PauseTimesOut(t) \/ BusinessFails(t)

\* The capture has returned or raised, and no process is left.
Terminated == Finished /\ UNCHANGED <<ctlVars, srv, log, delivery, biz, queue, sock>>

Next ==
  /\ UNCHANGED intent
  /\ \/ \E t \in Target : ControllerStep(t) \/ ServerStep(t) \/ BusinessStep(t)
     \/ Environment
     \/ Terminated

Spec == Init /\ [][Next]_vars

\* The operating system schedules the harness, every server and every business
\* thread.  No fault is ever forced to happen.
Fairness ==
  /\ WF_vars(UNCHANGED intent /\ \E t \in Target : ControllerStep(t))
  /\ \A t \in Target : /\ WF_vars(UNCHANGED intent /\ ServerStep(t))
                       /\ WF_vars(UNCHANGED intent /\ BusinessStep(t))

FairSpec == Spec /\ Fairness
=============================================================================
