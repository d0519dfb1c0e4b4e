--------------------------- MODULE Runtime_proofs ---------------------------
(***************************************************************************)
(* For every set of scenarios and every length of the controlled action:   *)
(* how a run ends, whatever its worker does, what a stop that was reported *)
(* as executed holds, and what a run that returns shows.                   *)
(***************************************************************************)
EXTENDS RuntimeReport, SequenceTheorems, FiniteSetTheorems, TLAPS

\* The parent still has this statement before it.
Owes(st) == \E i \in DOMAIN p.todo : p.todo[i] = st

\* The statements of the finally block.
Closing == {"cleanup", "terminated", "killed", "close all"}

\* Where the worker is once it has told what it did.
Ended == {"finally", "exit", "dead"}

KindsOf(q) == {q[i] : i \in DOMAIN q}

Interrupted == "native_interrupt_observed"

Place ==
  {"spawned", "announce", "wait begin", "wait continue", "checkpoint", "write", "written",
   "interrupted", "complete"} \cup Ended

WorkerKind ==
  {"receiver_endpoint_closed", "worker_ready", "graph_invocation_started", "node_entered",
   "receiver_observed", "enforcement_unavailable", "enforcement_requested",
   "business_step_written", "action_barrier_reached", "native_interrupt_observed",
   "worker_finished", "graph_completed", "worker_error"}

Kind ==
  WorkerKind \cup {"decision_recorded", "control_command_produced", "issuer_dispatched",
                   "delivery_failed", "harness_error", "effect_observed",
                   "observation_disabled", "cleanup_completed"}

Statement ==
  {"start", "close", "send", "begin", "continue", "join", "disable", "observe"}
  \cup Awaited \cup Closing

Failure ==
  {"none", "not started", "worker_error", "telemetry ended", "timeout", "exit code",
   "child remains alive"}

WorkerType ==
  [pc : Place, rows : Nat, code : Int, control : BOOLEAN, out : BOOLEAN]

ParentType ==
  [todo : Seq(Statement), events : Seq(Kind), seen : Seq(Nat), failure : Failure,
   forced : BOOLEAN, barriers : SUBSET Statement, copies : BOOLEAN]

WorldOK == w \in WorkerType /\ p \in ParentType /\ queue \in Seq(WorkerKind)

\* The worker is started once, first, and joined; the finally block comes last.
ScriptOK ==
  /\ \A i \in DOMAIN p.todo : p.todo[i] = "start" => i = 1 /\ Owes("join")
  /\ \A i \in DOMAIN p.todo : p.todo[i] \in Closing => i = Len(p.todo)
  /\ p.todo # <<>> => \E st \in Closing : Owes(st)

\* Past the join the worker has ended by itself, unless the run failed; a run is
\* finished without its worker, or says so.
EndsOK ==
  /\ Owes("join") => ~p.forced
  /\ p.failure = "none" /\ ~Owes("join") => w.pc = "dead" /\ w.code = 0 /\ ~p.forced
  /\ p.todo = <<>> => w.pc = "dead" \/ p.failure = "child remains alive"

\* Nothing runs and nothing is told before the start, and an interrupt only by a worker that
\* leaves its action for good.
StopOK ==
  /\ Owes("start") => p.events = <<>> /\ queue = <<>> /\ w.pc = "dead"
  /\ Interrupted \in KindsOf(p.events) \cup KindsOf(queue) => w.pc \in Ended

RunInv == WorldOK /\ ScriptOK /\ EndsOK /\ StopOK
-----------------------------------------------------------------------------
(* Sequences.                                                              *)

\* A list that continues another holds the kinds of both.
LEMMA KindsJoin ==
  ASSUME NEW S, NEW q \in Seq(S), NEW r \in Seq(S)
  PROVE  q \o r \in Seq(S) /\ KindsOf(q \o r) = KindsOf(q) \cup KindsOf(r)
<1>1. /\ q \o r \in Seq(S) /\ Len(q) \in Nat /\ Len(r) \in Nat
      /\ DOMAIN q = 1 .. Len(q) /\ DOMAIN r = 1 .. Len(r)
      /\ DOMAIN (q \o r) = 1 .. (Len(q) + Len(r))
  OBVIOUS
<1>2. \A i \in DOMAIN q : i \in DOMAIN (q \o r) /\ (q \o r)[i] = q[i]
  BY <1>1
<1>3. \A i \in DOMAIN r : Len(q) + i \in DOMAIN (q \o r) /\ (q \o r)[Len(q) + i] = r[i]
  BY <1>1
<1>4. \A i \in DOMAIN (q \o r) : i \in DOMAIN q \/ \E j \in DOMAIN r : i = Len(q) + j
  <2> TAKE i \in DOMAIN (q \o r)
  <2>1. i \in Nat /\ i = Len(q) + (i - Len(q))
    BY <1>1
  <2>2. i \in DOMAIN q \/ i - Len(q) \in DOMAIN r
    BY <1>1
  <2> QED BY <2>1, <2>2
<1>5. KindsOf(q) \subseteq KindsOf(q \o r)
  BY <1>2 DEF KindsOf
<1>6. KindsOf(r) \subseteq KindsOf(q \o r)
  BY <1>3 DEF KindsOf
<1>7. \A i \in DOMAIN (q \o r) : (q \o r)[i] \in KindsOf(q) \cup KindsOf(r)
  BY <1>2, <1>3, <1>4 DEF KindsOf
<1>8. KindsOf(q \o r) \subseteq KindsOf(q) \cup KindsOf(r)
  BY <1>7 DEF KindsOf
<1> QED BY <1>1, <1>5, <1>6, <1>8

\* What a list loses with its head.
LEMMA KindsTail ==
  ASSUME NEW S, NEW q \in Seq(S), q # <<>>
  PROVE  /\ Tail(q) \in Seq(S) /\ Len(q) \in Nat \ {0} /\ DOMAIN q = 1 .. Len(q)
         /\ DOMAIN Tail(q) = 1 .. (Len(q) - 1)
         /\ \A i \in DOMAIN Tail(q) : i + 1 \in DOMAIN q /\ Tail(q)[i] = q[i + 1]
         /\ Head(q) = q[1] /\ Head(q) \in S /\ Head(q) \in KindsOf(q)
         /\ KindsOf(Tail(q)) \subseteq KindsOf(q)
<1>1. /\ Tail(q) \in Seq(S) /\ Len(q) \in Nat \ {0} /\ DOMAIN q = 1 .. Len(q)
      /\ DOMAIN Tail(q) = 1 .. (Len(q) - 1)
      /\ \A i \in DOMAIN Tail(q) : i + 1 \in DOMAIN q /\ Tail(q)[i] = q[i + 1]
      /\ Head(q) = q[1]
  OBVIOUS
<1>2. 1 \in DOMAIN q /\ q[1] \in S
  BY <1>1
<1> QED BY <1>1, <1>2 DEF KindsOf

\* A list of one has nothing after its head.
LEMMA TailOfOne == ASSUME NEW S, NEW q \in Seq(S), Len(q) = 1 PROVE Tail(q) = <<>>
<1>1. Tail(q) \in Seq(S) /\ Len(Tail(q)) = 0
  OBVIOUS
<1> QED BY <1>1, EmptySeq

\* An entry appended to a list comes last.
LEMMA LastOf ==
  ASSUME NEW S, NEW q \in Seq(S), NEW r \in Seq(S), Len(r) = 1
  PROVE  /\ q \o r \in Seq(S) /\ Len(q \o r) = Len(q) + 1 /\ (q \o r)[Len(q) + 1] = r[1]
         /\ \A i \in DOMAIN q : (q \o r)[i] = q[i]
  BY ConcatProperties

\* Passing a statement: the others stay, and their order.
LEMMA Passes ==
  ASSUME RunInv, p.todo # <<>>, p'.todo = Tail(p.todo)
  PROVE  /\ p'.todo \in Seq(Statement)
         /\ \A st : (Owes(st) /\ Head(p.todo) # st) => Owes(st)'
         /\ \A st : Owes(st)' => Owes(st)
         /\ ~Owes("start")'
         /\ Head(p.todo) \notin Closing => ScriptOK' /\ p'.todo # <<>>
<1>1. p.todo \in Seq(Statement)
  BY DEF RunInv, WorldOK, ParentType
<1>2. /\ p'.todo \in Seq(Statement) /\ Len(p.todo) \in Nat \ {0} /\ DOMAIN p.todo = 1 .. Len(p.todo)
      /\ DOMAIN p'.todo = 1 .. (Len(p.todo) - 1)
      /\ \A i \in DOMAIN p'.todo : i + 1 \in DOMAIN p.todo /\ p'.todo[i] = p.todo[i + 1]
      /\ Head(p.todo) = p.todo[1]
  BY <1>1, KindsTail
<1>3. \A st : (Owes(st) /\ Head(p.todo) # st) => Owes(st)'
  <2> SUFFICES ASSUME NEW st, NEW i \in DOMAIN p.todo, p.todo[i] = st, Head(p.todo) # st
               PROVE  \E j \in DOMAIN p'.todo : p'.todo[j] = st
    BY DEF Owes
  <2>1. i # 1 /\ i - 1 \in DOMAIN p'.todo /\ i = (i - 1) + 1
    BY <1>2
  <2> QED BY <1>2, <2>1
<1>4. \A st : Owes(st)' => Owes(st)
  BY <1>2 DEF Owes
<1>5. ~Owes("start")'
  <2>1. \A i \in DOMAIN p'.todo : i + 1 # 1
    BY <1>2
  <2> QED BY <1>2, <2>1 DEF RunInv, ScriptOK, Owes
<1>6. ASSUME Head(p.todo) \notin Closing PROVE ScriptOK' /\ p'.todo # <<>>
  <2>1. \A i \in DOMAIN p'.todo : p'.todo[i] # "start"
    BY <1>5 DEF Owes
  <2>2. \E st \in Closing : Owes(st)'
    BY <1>3, <1>6 DEF RunInv, ScriptOK
  <2>4. p'.todo # <<>>
    BY <2>2 DEF Owes
  <2>3. \A i \in DOMAIN p'.todo : p'.todo[i] \in Closing => i = Len(p'.todo)
    BY <1>2 DEF RunInv, ScriptOK
  <2> QED BY <2>1, <2>2, <2>3, <2>4 DEF ScriptOK
<1> QED BY <1>2, <1>3, <1>4, <1>5, <1>6
\* The kinds of no entries.
LEMMA KindsOfNone == ASSUME NEW S PROVE <<>> \in Seq(S) /\ KindsOf(<<>>) = {}
  BY DEF KindsOf

\* The kinds of one entry.
LEMMA KindsOfOne ==
  ASSUME NEW S, NEW a \in S PROVE <<a>> \in Seq(S) /\ KindsOf(<<a>>) = {a}
<1>1. <<a>> \in Seq(S) /\ Len(<<a>>) = 1 /\ <<a>>[1] = a
  OBVIOUS
<1>2. DOMAIN <<a>> = {1}
  BY <1>1
<1> QED BY <1>1, <1>2 DEF KindsOf

\* The kinds of two entries.
LEMMA KindsOfTwo ==
  ASSUME NEW S, NEW a \in S, NEW b \in S PROVE <<a, b>> \in Seq(S) /\ KindsOf(<<a, b>>) = {a, b}
<1>1. <<a, b>> \in Seq(S) /\ Len(<<a, b>>) = 2 /\ <<a, b>>[1] = a /\ <<a, b>>[2] = b
  OBVIOUS
<1>2. DOMAIN <<a, b>> = {1, 2}
  BY <1>1
<1> QED BY <1>1, <1>2 DEF KindsOf

\* The kinds of three entries.
LEMMA KindsOfThree ==
  ASSUME NEW S, NEW a \in S, NEW b \in S, NEW d \in S
  PROVE  <<a, b, d>> \in Seq(S) /\ KindsOf(<<a, b, d>>) = {a, b, d}
<1>1. /\ <<a, b, d>> \in Seq(S) /\ Len(<<a, b, d>>) = 3
      /\ <<a, b, d>>[1] = a /\ <<a, b, d>>[2] = b /\ <<a, b, d>>[3] = d
  OBVIOUS
<1>2. DOMAIN <<a, b, d>> = {1, 2, 3}
  BY <1>1
<1> QED BY <1>1, <1>2 DEF KindsOf
-----------------------------------------------------------------------------
(* Steps of the worker.                                                    *)

\* Its ends of the pipes are closed.
LEMMA EndsClosed ==
  ASSUME NEW v \in WorkerType, NEW at \in Place
  PROVE  /\ [v EXCEPT !.pc = at, !.control = FALSE, !.out = FALSE] \in WorkerType
         /\ [v EXCEPT !.pc = at, !.control = FALSE, !.out = FALSE].pc = at
<1>1. PICK m : m = [v EXCEPT !.pc = at]
  OBVIOUS
<1>2. PICK n : n = [m EXCEPT !.control = FALSE]
  OBVIOUS
<1>3. PICK o : o = [n EXCEPT !.out = FALSE]
  OBVIOUS
<1>4. m \in WorkerType /\ m.pc = at
  BY <1>1 DEF WorkerType
<1>5. n \in WorkerType /\ n.pc = at
  BY <1>2, <1>4 DEF WorkerType
<1>6. o \in WorkerType /\ o.pc = at
  BY <1>3, <1>5 DEF WorkerType
<1>7. o = [v EXCEPT !.pc = at, !.control = FALSE, !.out = FALSE]
  BY <1>1, <1>2, <1>3 DEF WorkerType
<1> QED BY <1>6, <1>7

\* A worker that dies keeps the rows it wrote.
LEMMA DeadIsWorker ==
  ASSUME w \in WorkerType, NEW c \in Int
  PROVE  Dead(c) \in WorkerType /\ Dead(c).pc = "dead" /\ Dead(c).rows = w.rows
<1>1. PICK m : m = [w EXCEPT !.pc = "dead", !.control = FALSE, !.out = FALSE]
  OBVIOUS
<1>2. "dead" \in Place
  BY DEF Place, Ended
<1>3. m \in WorkerType /\ m.pc = "dead"
  BY <1>1, <1>2, EndsClosed, Zenon
<1>4. m.rows = w.rows
  BY <1>1 DEF WorkerType
<1>5. Dead(c) = [m EXCEPT !.code = c]
  BY <1>1 DEF Dead, WorkerType
<1> QED BY <1>3, <1>4, <1>5 DEF WorkerType

\* A worker that has ended tells no more; one that tells of an interrupt ends.
LEMMA WorkerKeeps ==
  ASSUME RunInv, NEW pcs, NEW new \in WorkerType, NEW kinds \in Seq(WorkerKind),
         Worker(pcs, new, kinds), w.pc # "dead",
         Interrupted \in KindsOf(kinds) => new.pc \in Ended,
         w.pc \in Ended => new.pc \in Ended
  PROVE  RunInv'
<1>1. w' = new /\ p' = p /\ queue' = queue \o kinds /\ queue \in Seq(WorkerKind)
  BY DEF Worker, RunInv, WorldOK
<1>2. queue' \in Seq(WorkerKind) /\ KindsOf(queue') = KindsOf(queue) \cup KindsOf(kinds)
  BY <1>1, KindsJoin
<1>3. \A st : Owes(st)' <=> Owes(st)
  BY <1>1 DEF Owes
<1>4. WorldOK'
  BY <1>1, <1>2 DEF RunInv, WorldOK
<1>5. ScriptOK'
  BY <1>1, <1>3 DEF RunInv, ScriptOK
<1>6. EndsOK'
  BY <1>1, <1>3 DEF RunInv, EndsOK
<1>7. StopOK'
  BY <1>1, <1>2, <1>3 DEF RunInv, StopOK
<1> QED BY <1>4, <1>5, <1>6, <1>7 DEF RunInv

\* Going from one statement to another.
LEMMA GoesKeeps ==
  ASSUME RunInv, NEW from, NEW to \in Place, NEW kinds \in Seq(WorkerKind), Goes(from, to, kinds),
         from # "dead", Interrupted \in KindsOf(kinds) => to \in Ended,
         from \in Ended => to \in Ended
  PROVE  RunInv'
<1>1. PICK new : new = [w EXCEPT !.pc = to]
  OBVIOUS
<1>2. new \in WorkerType /\ new.pc = to
  BY <1>1 DEF RunInv, WorldOK, WorkerType
<1>3. Worker({from}, new, kinds) /\ w.pc = from
  BY <1>1 DEF Goes, Worker
<1> QED BY <1>2, <1>3, WorkerKeeps

\* A step of the worker: it starts nothing, and interrupts are told at its end.
LEMMA WorkerStepKeeps == ASSUME RunInv, WorkerStep PROVE RunInv'
<1>0. w \in WorkerType
  BY DEF RunInv, WorldOK
<1>1. CASE CloseEndpoint
  <2> DEFINE told == <<"receiver_endpoint_closed">>
  <2>0. "receiver_endpoint_closed" \in WorkerKind /\ "receiver_endpoint_closed" # Interrupted
    BY DEF WorkerKind, Interrupted
  <2>1. /\ <<>> \in Seq(WorkerKind) /\ KindsOf(<<>>) = {}
        /\ told \in Seq(WorkerKind) /\ Interrupted \notin KindsOf(told)
    BY <2>0, KindsOfNone, KindsOfOne
  <2>2. CASE Goes("spawned", "announce", <<>>)
    BY <2>1, <2>2, GoesKeeps DEF Place, Ended
  <2>3. CASE Worker({"spawned"}, [w EXCEPT !.pc = "announce", !.control = FALSE], told)
    <3>1. PICK new : new = [w EXCEPT !.pc = "announce", !.control = FALSE]
      OBVIOUS
    <3>2. new \in WorkerType /\ new.pc = "announce" /\ w.pc = "spawned"
      BY <1>0, <2>3, <3>1 DEF WorkerType, Place, Worker
    <3> HIDE DEF told
    <3> QED BY <2>1, <2>3, <3>1, <3>2, WorkerKeeps DEF Place, Ended
  <2> QED BY <1>1, <2>2, <2>3 DEF CloseEndpoint
<1>2. CASE Announce
  <2>0. "worker_ready" \in WorkerKind /\ "worker_ready" # Interrupted
    BY DEF WorkerKind, Interrupted
  <2>1. <<"worker_ready">> \in Seq(WorkerKind) /\ Interrupted \notin KindsOf(<<"worker_ready">>)
    BY <2>0, KindsOfOne
  <2> QED BY <1>2, <2>1, GoesKeeps DEF Announce, Place, Ended
<1>3. CASE Begin
  <2> DEFINE told == <<"graph_invocation_started", "node_entered">>
  <2>0. /\ "graph_invocation_started" \in WorkerKind /\ "graph_invocation_started" # Interrupted
        /\ "node_entered" \in WorkerKind /\ "node_entered" # Interrupted
    BY DEF WorkerKind, Interrupted
  <2>1. told \in Seq(WorkerKind) /\ Interrupted \notin KindsOf(told)
    BY <2>0, KindsOfTwo
  <2> QED BY <1>3, <2>1, GoesKeeps DEF Begin, Place, Ended
<1>4. CASE Continue \/ NoStop \/ Exit
  <2>1. <<>> \in Seq(WorkerKind) /\ KindsOf(<<>>) = {}
    BY KindsOfNone
  <2>2. AfterCheckpoint \in Place \ Ended
    BY DEF AfterCheckpoint, Place, Ended
  <2> QED BY <1>4, <2>1, <2>2, GoesKeeps DEF Continue, NoStop, Exit, Place, Ended
<1>5. CASE ReadStop
  <2> DEFINE ignores == scenario = "receiver-ignores-stop"
             told == <<"receiver_observed",
                       IF ignores THEN "enforcement_unavailable" ELSE "enforcement_requested">>
             next == IF ignores THEN AfterCheckpoint ELSE "interrupted"
  <2>1. told \in Seq(WorkerKind) /\ Interrupted \notin KindsOf(told)
    <3>1. PICK what \in {"enforcement_unavailable", "enforcement_requested"} :
            what = IF ignores THEN "enforcement_unavailable" ELSE "enforcement_requested"
      OBVIOUS
    <3>2. told = <<"receiver_observed", what>> /\ what \in WorkerKind /\ "receiver_observed" \in WorkerKind
      BY <3>1 DEF WorkerKind
    <3>3. told \in Seq(WorkerKind) /\ KindsOf(told) = {"receiver_observed", what}
      BY <3>2, KindsOfTwo
    <3> QED BY <3>1, <3>3 DEF Interrupted
  <2>2. PICK new : new = [w EXCEPT !.pc = next]
    OBVIOUS
  <2>3. new \in WorkerType
    BY <1>0, <2>2 DEF WorkerType, Place, AfterCheckpoint
  <2>4. Worker({"checkpoint"}, new, told) /\ w.pc = "checkpoint"
    BY <1>5, <2>2 DEF ReadStop, Worker
  <2> HIDE DEF told
  <2> QED BY <2>1, <2>3, <2>4, WorkerKeeps DEF Place, Ended
<1>6. CASE WriteStep
  <2>1. PICK new : new = [w EXCEPT !.pc = "written", !.rows = @ + 1]
    OBVIOUS
  <2>2. new \in WorkerType
    <3>1. w.rows + 1 \in Nat
      BY <1>0 DEF WorkerType
    <3>2. PICK m : m = [w EXCEPT !.pc = "written"]
      OBVIOUS
    <3>3. m \in WorkerType /\ m.rows = w.rows
      BY <1>0, <3>2 DEF WorkerType, Place
    <3>4. new = [m EXCEPT !.rows = w.rows + 1]
      BY <1>0, <2>1, <3>2, <3>3 DEF WorkerType
    <3> QED BY <3>1, <3>3, <3>4 DEF WorkerType
  <2>3. Worker({"write"}, new, <<>>) /\ w.pc = "write"
    BY <1>6, <2>1 DEF WriteStep, Worker
  <2>4. <<>> \in Seq(WorkerKind) /\ KindsOf(<<>>) = {}
    BY KindsOfNone
  <2> QED BY <2>2, <2>3, <2>4, WorkerKeeps DEF Place, Ended
<1>7. CASE TellStep
  <2>1. /\ "business_step_written" \in WorkerKind /\ "action_barrier_reached" \in WorkerKind
        /\ "business_step_written" # Interrupted /\ "action_barrier_reached" # Interrupted
    BY DEF WorkerKind, Interrupted
  <2>2. /\ <<"business_step_written">> \in Seq(WorkerKind)
        /\ Interrupted \notin KindsOf(<<"business_step_written">>)
        /\ <<"business_step_written", "action_barrier_reached">> \in Seq(WorkerKind)
        /\ Interrupted \notin KindsOf(<<"business_step_written", "action_barrier_reached">>)
    BY <2>1, KindsOfOne, KindsOfTwo
  <2> QED BY <1>7, <2>2, GoesKeeps DEF TellStep, Place, Ended
<1>8. CASE Conclude
  <2>1. /\ <<"native_interrupt_observed", "worker_finished">> \in Seq(WorkerKind)
        /\ <<"graph_completed", "worker_finished">> \in Seq(WorkerKind)
    BY KindsOfTwo, "native_interrupt_observed" \in WorkerKind, "worker_finished" \in WorkerKind,
       "graph_completed" \in WorkerKind DEF WorkerKind
  <2> QED BY <1>8, <2>1, GoesKeeps DEF Conclude, Place, Ended
<1>9. CASE Raise
  <2>1. PICK new : new = [w EXCEPT !.pc = "finally", !.code = 1]
    OBVIOUS
  <2>2. new \in WorkerType /\ new.pc \in Ended
    <3>1. "finally" \in Place /\ "finally" \in Ended
      BY DEF Place, Ended
    <3>2. PICK m : m = [w EXCEPT !.pc = "finally"]
      OBVIOUS
    <3>3. m \in WorkerType /\ m.pc = "finally"
      BY <1>0, <3>1, <3>2 DEF WorkerType
    <3>4. new = [m EXCEPT !.code = 1]
      BY <1>0, <2>1, <3>2 DEF WorkerType
    <3> QED BY <3>1, <3>3, <3>4 DEF WorkerType
  <2>3. <<"worker_error">> \in Seq(WorkerKind)
    BY KindsOfOne, "worker_error" \in WorkerKind DEF WorkerKind
  <2>4. w.pc # "dead" /\ \E pcs : Worker(pcs, new, <<"worker_error">>)
    BY <1>9, <2>1 DEF Raise, Worker
  <2> QED BY <2>2, <2>3, <2>4, WorkerKeeps
<1>10. CASE CloseEnds \/ BootFails
  <2>1. PICK new : \/ new = [w EXCEPT !.pc = "exit", !.control = FALSE, !.out = FALSE] /\ CloseEnds
                   \/ new = Dead(1) /\ BootFails
    BY <1>10
  <2>2. new \in WorkerType /\ new.pc \in Ended
    <3>1. /\ "exit" \in Place /\ "exit" \in Ended
          /\ "dead" \in Place /\ "dead" \in Ended /\ 1 \in Int
      BY DEF Place, Ended
    <3>2. CASE new = Dead(1)
      BY <1>0, <3>1, <3>2, DeadIsWorker
    <3>3. CASE new = [w EXCEPT !.pc = "exit", !.control = FALSE, !.out = FALSE]
      BY <1>0, <3>1, <3>3, EndsClosed, Zenon
    <3> QED BY <2>1, <3>2, <3>3
  <2>3. <<>> \in Seq(WorkerKind) /\ KindsOf(<<>>) = {}
    BY KindsOfNone
  <2>4. w.pc # "dead" /\ \E pcs : Worker(pcs, new, <<>>)
    BY <2>1 DEF CloseEnds, BootFails, Worker
  <2> QED BY <2>2, <2>3, <2>4, WorkerKeeps
<1> QED BY <1>1, <1>2, <1>3, <1>4, <1>5, <1>6, <1>7, <1>8, <1>9, <1>10 DEF WorkerStep
-----------------------------------------------------------------------------
(* Steps of the parent.                                                    *)

\* A kind that the parent records may be any, that of an interrupt where it was
\* told.
Recorded(new) ==
  KindsOf(new.events) \subseteq KindsOf(p.events) \cup KindsOf(queue) \cup (Kind \ {Interrupted})

\* Passing a statement, or leaving them for the finally block.
LEMMA PassingKeeps ==
  ASSUME RunInv, p.todo # <<>>, NEW new \in ParentType, p' = new, Recorded(new), w' = w,
         queue' \in Seq(WorkerKind), KindsOf(queue') \subseteq KindsOf(queue),
         new.todo = Tail(p.todo), new.failure = p.failure, new.forced = p.forced,
         Head(p.todo) \notin Closing, Head(p.todo) = "join" => w.pc = "dead" /\ w.code = 0
  PROVE  RunInv'
<1>1. /\ ScriptOK' /\ p'.todo # <<>> /\ ~Owes("start")'
      /\ \A st : (Owes(st) /\ Head(p.todo) # st) => Owes(st)'
      /\ \A st : Owes(st)' => Owes(st)
  BY Passes
<1>2. WorldOK'
  BY DEF RunInv, WorldOK
<1>3. EndsOK'
  <2>1. ASSUME p'.failure = "none", ~Owes("join")' PROVE w.pc = "dead" /\ w.code = 0 /\ ~p.forced
    <3>1. CASE Owes("join")
      BY <1>1, <2>1, <3>1 DEF RunInv, EndsOK
    <3>2. CASE ~Owes("join")
      BY <2>1, <3>2 DEF RunInv, EndsOK
    <3> QED BY <3>1, <3>2
  <2> QED BY <1>1, <2>1 DEF RunInv, EndsOK
<1>4. StopOK'
  BY <1>1 DEF RunInv, StopOK, Recorded
<1> QED BY <1>1, <1>2, <1>3, <1>4 DEF RunInv

\* A statement that fails leads to the finally block.
LEMMA LeavingKeeps ==
  ASSUME RunInv, NEW new \in ParentType, p' = new, Recorded(new), w' = w,
         queue' \in Seq(WorkerKind), KindsOf(queue') \subseteq KindsOf(queue),
         new.todo = <<"cleanup">>, new.failure # "none"
  PROVE  RunInv'
<1>1. \A st : Owes(st)' <=> st = "cleanup"
  BY DEF Owes
<1>2. WorldOK'
  BY DEF RunInv, WorldOK
<1>3. DOMAIN p'.todo = {1} /\ p'.todo[1] = "cleanup" /\ Len(p'.todo) = 1 /\ p'.todo # <<>>
  OBVIOUS
<1>4. ~Owes("start")' /\ ~Owes("join")' /\ Owes("cleanup")'
  BY <1>1
<1>5. ScriptOK'
  BY <1>3, <1>4 DEF ScriptOK, Closing
<1>6. EndsOK'
  BY <1>3, <1>4 DEF EndsOK
<1>7. StopOK'
  BY <1>4 DEF RunInv, StopOK, Recorded
<1> QED BY <1>2, <1>5, <1>6, <1>7 DEF RunInv

\* A statement that succeeds records its kinds and is done.
LEMMA DoneIsParent ==
  ASSUME RunInv, p.todo # <<>>, NEW kinds \in Seq(Kind)
  PROVE  /\ Done(kinds) \in ParentType /\ Done(kinds).todo = Tail(p.todo)
         /\ Done(kinds).failure = p.failure /\ Done(kinds).forced = p.forced
         /\ KindsOf(Done(kinds).events) = KindsOf(p.events) \cup KindsOf(kinds)
<1>1. p \in ParentType /\ p.todo \in Seq(Statement) /\ p.events \in Seq(Kind)
  BY DEF RunInv, WorldOK, ParentType
<1>2. Tail(p.todo) \in Seq(Statement)
  BY <1>1, KindsTail
<1>3. PICK told : told = p.events \o kinds
  OBVIOUS
<1>4. told \in Seq(Kind) /\ KindsOf(told) = KindsOf(p.events) \cup KindsOf(kinds)
  BY <1>1, <1>3, KindsJoin
<1>5. PICK m : m = [p EXCEPT !.todo = Tail(p.todo)]
  OBVIOUS
<1>6. m \in ParentType /\ m.todo = Tail(p.todo) /\ m.failure = p.failure /\ m.forced = p.forced
  BY <1>1, <1>2, <1>5 DEF ParentType
<1>7. Done(kinds) = [m EXCEPT !.events = told]
  BY <1>1, <1>3, <1>5 DEF Done, ParentType
<1> QED BY <1>4, <1>6, <1>7 DEF ParentType

\* A statement that fails records its kinds and the error.
LEMMA FailedIsParent ==
  ASSUME RunInv, NEW kinds \in Seq(Kind), NEW error \in Failure
  PROVE  /\ Failed(kinds, error) \in ParentType /\ Failed(kinds, error).todo = <<"cleanup">>
         /\ Failed(kinds, error).failure = error
         /\ KindsOf(Failed(kinds, error).events) = KindsOf(p.events) \cup KindsOf(kinds) \cup {"harness_error"}
<1>1. p \in ParentType /\ p.events \in Seq(Kind)
  BY DEF RunInv, WorldOK, ParentType
<1>2. "harness_error" \in Kind /\ "cleanup" \in Statement
  BY DEF Kind, Statement, Closing
<1>3. <<"cleanup">> \in Seq(Statement)
  BY <1>2
<1>4. PICK told : told = p.events \o kinds \o <<"harness_error">>
  OBVIOUS
<1>5. told \in Seq(Kind) /\ KindsOf(told) = KindsOf(p.events) \cup KindsOf(kinds) \cup {"harness_error"}
  <2>1. PICK first : first = p.events \o kinds
    OBVIOUS
  <2>2. first \in Seq(Kind) /\ KindsOf(first) = KindsOf(p.events) \cup KindsOf(kinds)
    BY <1>1, <2>1, KindsJoin
  <2>3. PICK last : last = <<"harness_error">>
    OBVIOUS
  <2>4. last \in Seq(Kind) /\ KindsOf(last) = {"harness_error"}
    BY <1>2, <2>3, KindsOfOne
  <2>5. first \o last \in Seq(Kind) /\ KindsOf(first \o last) = KindsOf(first) \cup KindsOf(last)
    BY <2>2, <2>4, KindsJoin
  <2>6. told = first \o last
    BY <1>4, <2>1, <2>3
  <2> QED BY <2>2, <2>4, <2>5, <2>6
<1>6. PICK m : m = [p EXCEPT !.todo = <<"cleanup">>, !.failure = error]
  OBVIOUS
<1>7. m \in ParentType /\ m.todo = <<"cleanup">> /\ m.failure = error
  BY <1>1, <1>3, <1>6 DEF ParentType
<1>8. Failed(kinds, error) = [m EXCEPT !.events = told]
  BY <1>1, <1>4, <1>6 DEF Failed, ParentType
<1> QED BY <1>5, <1>7, <1>8 DEF ParentType

\* The statement at hand is one that is owed; a start is the first.
LEMMA HeadIsOwed ==
  ASSUME RunInv, p.todo # <<>>
  PROVE  /\ Owes(Head(p.todo)) /\ (Owes("start") => Head(p.todo) = "start")
         /\ Head(p.todo) = p.todo[1] /\ Head(p.todo) \in Statement
         /\ Head(p.todo) \in Closing => \A st : Owes(st) => st = Head(p.todo)
<1>1. p.todo \in Seq(Statement)
  BY DEF RunInv, WorldOK, ParentType
<1>2. /\ Len(p.todo) \in Nat \ {0} /\ DOMAIN p.todo = 1 .. Len(p.todo)
      /\ Head(p.todo) = p.todo[1] /\ Head(p.todo) \in Statement
  BY <1>1, KindsTail
<1>3. 1 \in DOMAIN p.todo
  BY <1>2
<1>4. Owes(Head(p.todo)) /\ (Owes("start") => Head(p.todo) = "start")
  BY <1>2, <1>3 DEF Owes, RunInv, ScriptOK
<1>5. ASSUME Head(p.todo) \in Closing, NEW st, Owes(st) PROVE st = Head(p.todo)
  <2>1. Len(p.todo) = 1
    BY <1>2, <1>3, <1>5 DEF RunInv, ScriptOK
  <2> QED BY <1>2, <1>5, <2>1 DEF Owes
<1> QED BY <1>2, <1>4, <1>5

\* The parent's own kinds are no interrupt.
LEMMA OwnKinds ==
  /\ {"decision_recorded", "control_command_produced", "issuer_dispatched", "delivery_failed",
      "effect_observed", "observation_disabled", "cleanup_completed", "harness_error"}
       \subseteq Kind \ {Interrupted}
  /\ WorkerKind \subseteq Kind
  BY DEF Kind, WorkerKind, Interrupted

\* The worker is started.
LEMMA StartKeeps == ASSUME RunInv, Start PROVE RunInv'
<1>1. /\ p.todo # <<>> /\ Head(p.todo) = "start" /\ p' = Done(<<>>) /\ queue' = queue
      /\ w' = [w EXCEPT !.pc = "spawned", !.control = TRUE, !.out = TRUE]
  BY DEF Start, Parent, At
<1>2. <<>> \in Seq(Kind) /\ KindsOf(<<>>) = {}
  BY KindsOfNone
<1>3. /\ p' \in ParentType /\ p'.todo = Tail(p.todo) /\ p'.forced = p.forced
      /\ KindsOf(p'.events) = KindsOf(p.events)
  BY <1>1, <1>2, DoneIsParent
<1>4. p'.todo # <<>> /\ ScriptOK' /\ ~Owes("start")' /\ Owes("join") /\ Owes("join")'
  <2>1. Owes("start") /\ Owes("join")
    BY <1>1, HeadIsOwed DEF RunInv, ScriptOK, Owes
  <2> QED BY <1>1, <1>3, <2>1, Passes DEF Closing
<1>5. w' \in WorkerType
  <2>1. PICK m : m = [w EXCEPT !.pc = "spawned"]
    OBVIOUS
  <2>2. m \in WorkerType
    BY <2>1 DEF RunInv, WorldOK, WorkerType, Place
  <2>3. PICK n : n = [m EXCEPT !.control = TRUE]
    OBVIOUS
  <2>4. n \in WorkerType
    BY <2>2, <2>3 DEF WorkerType
  <2>5. w' = [n EXCEPT !.out = TRUE]
    BY <1>1, <2>1, <2>3 DEF RunInv, WorldOK, WorkerType
  <2> QED BY <2>4, <2>5 DEF WorkerType
<1>6. WorldOK' /\ EndsOK'
  BY <1>1, <1>3, <1>4, <1>5 DEF RunInv, WorldOK, EndsOK
<1>7. StopOK'
  <2>1. Owes("start")
    BY <1>1, HeadIsOwed
  <2>2. p.events = <<>> /\ queue = <<>>
    BY <2>1 DEF RunInv, StopOK
  <2> QED BY <1>1, <1>2, <1>3, <1>4, <2>2 DEF StopOK
<1> QED BY <1>4, <1>6, <1>7 DEF RunInv

\* A failure of any statement leads to the finally block.
LEMMA FailureKeeps ==
  ASSUME RunInv, NEW kinds \in Seq(Kind), NEW error \in Failure \ {"none"},
         KindsOf(kinds) \subseteq KindsOf(queue) \cup (Kind \ {Interrupted}),
         p' = Failed(kinds, error), w' = w,
         queue' \in Seq(WorkerKind), KindsOf(queue') \subseteq KindsOf(queue)
  PROVE  RunInv'
<1>1. PICK new : new = Failed(kinds, error)
  OBVIOUS
<1>2. /\ new \in ParentType /\ new.todo = <<"cleanup">> /\ new.failure = error
      /\ KindsOf(new.events) = KindsOf(p.events) \cup KindsOf(kinds) \cup {"harness_error"}
  BY <1>1, FailedIsParent
<1>3. Recorded(new)
  BY <1>2, OwnKinds DEF Recorded
<1> QED BY <1>1, <1>2, <1>3, LeavingKeeps

\* A statement that succeeds leads to the next.
LEMMA DoneKeeps ==
  ASSUME RunInv, p.todo # <<>>, NEW kinds \in Seq(Kind), NEW new \in ParentType,
         KindsOf(kinds) \subseteq KindsOf(queue) \cup (Kind \ {Interrupted}),
         p' = new, new.todo = Done(kinds).todo, new.failure = Done(kinds).failure,
         new.forced = Done(kinds).forced, new.events = Done(kinds).events, w' = w,
         queue' \in Seq(WorkerKind), KindsOf(queue') \subseteq KindsOf(queue),
         Head(p.todo) \notin Closing, Head(p.todo) = "join" => w.pc = "dead" /\ w.code = 0
  PROVE  RunInv'
<1>1. /\ new.todo = Tail(p.todo) /\ new.failure = p.failure /\ new.forced = p.forced
      /\ KindsOf(new.events) = KindsOf(p.events) \cup KindsOf(kinds)
  BY DoneIsParent
<1>2. Recorded(new)
  BY <1>1 DEF Recorded
<1> QED BY <1>1, <1>2, PassingKeeps

\* until(): a message ends the wait, the run or nothing.
LEMMA HearKeeps == ASSUME RunInv, Hear PROVE RunInv'
<1>1. /\ queue # <<>> /\ queue' = Tail(queue) /\ w' = w /\ p.todo # <<>>
      /\ Head(p.todo) \in Awaited /\ queue \in Seq(WorkerKind)
  BY DEF Hear, Parent, At, RunInv, WorldOK
<1>2. PICK kind : kind = Head(queue)
  OBVIOUS
<1>3. /\ queue' \in Seq(WorkerKind) /\ KindsOf(queue') \subseteq KindsOf(queue)
      /\ kind \in WorkerKind /\ kind \in KindsOf(queue)
  BY <1>1, <1>2, KindsTail
<1>4. Head(p.todo) \notin Closing /\ Head(p.todo) \notin {"join", "start"}
  BY <1>1 DEF Awaited, Closing
<1>5. PICK kinds : kinds = <<kind>>
  OBVIOUS
<1>6. kinds \in Seq(Kind) /\ KindsOf(kinds) = {kind}
  BY <1>3, <1>5, KindsOfOne, OwnKinds
<1>7. CASE kind = "worker_error"
  <2>1. p' = Failed(kinds, kind) /\ kind \in Failure \ {"none"}
    <3>0. kind # Head(p.todo)
      BY <1>1, <1>7 DEF Awaited
    <3>1. p' = Failed(<<kind>>, kind)
      BY <1>2, <1>7, <3>0 DEF Hear, Parent
    <3>2. kind \in Failure \ {"none"}
      BY <1>7 DEF Failure
    <3> QED BY <1>5, <3>1, <3>2
  <2> QED BY <1>1, <1>3, <1>6, <2>1, FailureKeeps
<1>8. CASE kind # "worker_error" /\ kind = Head(p.todo)
  <2>1. p' = Done(kinds)
    BY <1>2, <1>5, <1>8 DEF Hear, Parent
  <2>2. Done(kinds) \in ParentType
    BY <1>1, <1>6, DoneIsParent
  <2> QED BY <1>1, <1>3, <1>4, <1>6, <2>1, <2>2, DoneKeeps
<1>9. CASE kind # "worker_error" /\ kind # Head(p.todo)
  <2>1. p' = [p EXCEPT !.events = Append(@, kind)]
    BY <1>2, <1>9 DEF Hear, Parent
  <2>2. PICK told : told = p.events \o kinds
    OBVIOUS
  <2>3. p \in ParentType /\ p.events \in Seq(Kind)
    BY DEF RunInv, WorldOK, ParentType
  <2>4. told \in Seq(Kind) /\ KindsOf(told) = KindsOf(p.events) \cup {kind}
    BY <1>6, <2>2, <2>3, KindsJoin
  <2>5. told = Append(p.events, kind)
    BY <1>3, <1>5, <2>2, <2>3, OwnKinds
  <2>6. p' = [p EXCEPT !.events = told]
    BY <2>1, <2>3, <2>5 DEF ParentType
  <2>7. /\ p' \in ParentType /\ p'.todo = p.todo /\ p'.failure = p.failure
        /\ p'.forced = p.forced /\ p'.events = told
    BY <2>3, <2>4, <2>6 DEF ParentType
  <2>8. \A st : Owes(st)' <=> Owes(st)
    BY <2>7 DEF Owes
  <2>9. WorldOK' /\ EndsOK'
    BY <1>1, <1>3, <2>7, <2>8 DEF RunInv, WorldOK, EndsOK
  <2>10. ScriptOK'
    BY <2>7, <2>8 DEF RunInv, ScriptOK
  <2>11. ~Owes("start")
    BY <1>1, <1>4, HeadIsOwed
  <2>12. StopOK'
    BY <1>1, <1>3, <2>4, <2>7, <2>8, <2>11 DEF RunInv, StopOK
  <2> QED BY <2>9, <2>10, <2>12 DEF RunInv
<1> QED BY <1>7, <1>8, <1>9

\* The other statements before the finally block.
LEMMA StatementKeeps ==
  ASSUME RunInv,
         \/ StartFails \/ CloseCopies \/ SendStop \/ SetBarrier \/ TelemetryEnds \/ TimeOut
         \/ Join \/ Observe \/ DisableObservation
  PROVE  RunInv'
<1>0. /\ p.todo # <<>> /\ w' = w /\ queue' = queue /\ queue \in Seq(WorkerKind)
      /\ <<>> \in Seq(Kind) /\ KindsOf(<<>>) = {}
  BY KindsOfNone DEF StartFails, CloseCopies, SendStop, SetBarrier, TelemetryEnds, TimeOut, Join,
     Observe, DisableObservation, Parent, At, Silent, RunInv, WorldOK
<1>1. CASE \E error \in Failure \ {"none"} : p' = Failed(<<>>, error)
  BY <1>0, <1>1, FailureKeeps
<1>2. CASE StartFails \/ TelemetryEnds \/ TimeOut
  BY <1>1, <1>2 DEF StartFails, TelemetryEnds, TimeOut, Parent, Failure
<1>3. PICK d : d = Done(<<>>)
  OBVIOUS
<1>4. d \in ParentType
  BY <1>0, <1>3, DoneIsParent
<1>5. CASE CloseCopies
  <2>1. p' = [d EXCEPT !.copies = FALSE] /\ Head(p.todo) = "close"
    BY <1>3, <1>5 DEF CloseCopies, Parent, At
  <2>2. /\ p' \in ParentType /\ p'.todo = d.todo /\ p'.failure = d.failure
        /\ p'.forced = d.forced /\ p'.events = d.events
    BY <1>4, <2>1 DEF ParentType
  <2> QED BY <1>0, <1>3, <2>1, <2>2, DoneKeeps DEF Closing
<1>6. CASE SetBarrier
  <2>1. PICK raised : raised = d.barriers \cup {Head(p.todo)}
    OBVIOUS
  <2>2. p' = [d EXCEPT !.barriers = raised] /\ Head(p.todo) \in {"begin", "continue"}
    BY <1>3, <1>4, <1>6, <2>1 DEF SetBarrier, Parent, At, ParentType
  <2>3. raised \in SUBSET Statement
    BY <1>4, <2>1, <2>2 DEF ParentType, Statement
  <2>4. /\ p' \in ParentType /\ p'.todo = d.todo /\ p'.failure = d.failure
        /\ p'.forced = d.forced /\ p'.events = d.events
    BY <1>4, <2>2, <2>3 DEF ParentType
  <2> QED BY <1>0, <1>3, <2>2, <2>4, DoneKeeps DEF Closing
<1>7. CASE SendStop
  <2>1. PICK out \in {"issuer_dispatched", "delivery_failed"} :
          /\ p' = Done(<<"decision_recorded", "control_command_produced", out>>)
          /\ Head(p.todo) = "send"
    BY <1>7 DEF SendStop, Parent, At
  <2>2. PICK kinds : kinds = <<"decision_recorded", "control_command_produced", out>>
    OBVIOUS
  <2>3. /\ "decision_recorded" \in Kind \ {Interrupted}
        /\ "control_command_produced" \in Kind \ {Interrupted} /\ out \in Kind \ {Interrupted}
    BY OwnKinds
  <2>4. kinds \in Seq(Kind) /\ KindsOf(kinds) \subseteq Kind \ {Interrupted}
    BY <2>2, <2>3, KindsOfThree
  <2>5. p' = Done(kinds) /\ Done(kinds) \in ParentType
    BY <1>0, <2>1, <2>2, <2>4, DoneIsParent
  <2> QED BY <1>0, <2>1, <2>4, <2>5, DoneKeeps DEF Closing
<1>8. CASE Join
  <2>1. w.pc = "dead" /\ Head(p.todo) = "join"
    BY <1>8 DEF Join, Parent, At
  <2>2. CASE w.code = 0
    <3>1. p' = d
      BY <1>3, <1>8, <2>2 DEF Join, Parent
    <3> QED BY <1>0, <1>3, <1>4, <2>1, <2>2, <3>1, DoneKeeps DEF Closing
  <2>3. CASE w.code # 0
    BY <1>1, <1>8, <2>3 DEF Join, Parent, Failure
  <2> QED BY <2>2, <2>3
<1>9. CASE Observe
  <2>1. PICK kinds : kinds = IF p.seen = <<>> THEN <<>> ELSE <<"effect_observed">>
    OBVIOUS
  <2>2. kinds \in Seq(Kind) /\ KindsOf(kinds) \subseteq Kind \ {Interrupted}
    BY <1>0, <2>1, OwnKinds, KindsOfOne
  <2>3. PICK e : e = Done(kinds)
    OBVIOUS
  <2>4. e \in ParentType
    BY <1>0, <2>2, <2>3, DoneIsParent
  <2>5. PICK seen : seen = Append(e.seen, w.rows)
    OBVIOUS
  <2>6. p' = [e EXCEPT !.seen = seen] /\ Head(p.todo) = "observe"
    BY <1>9, <2>1, <2>3, <2>4, <2>5 DEF Observe, Parent, At, ParentType
  <2>7. seen \in Seq(Nat)
    BY <2>4, <2>5 DEF ParentType, RunInv, WorldOK, WorkerType
  <2>8. /\ p' \in ParentType /\ p'.todo = e.todo /\ p'.failure = e.failure
        /\ p'.forced = e.forced /\ p'.events = e.events
    BY <2>4, <2>6, <2>7 DEF ParentType
  <2> QED BY <1>0, <2>2, <2>3, <2>6, <2>8, DoneKeeps DEF Closing
<1>10. CASE DisableObservation
  <2>1. PICK kinds : kinds = <<"observation_disabled">>
    OBVIOUS
  <2>2. kinds \in Seq(Kind) /\ KindsOf(kinds) \subseteq Kind \ {Interrupted}
    BY <2>1, OwnKinds, KindsOfOne
  <2>3. p' = Done(kinds) /\ Done(kinds) \in ParentType /\ Head(p.todo) = "disable"
    BY <1>0, <1>10, <2>1, <2>2, DoneIsParent DEF DisableObservation, Parent, At
  <2> QED BY <1>0, <2>2, <2>3, DoneKeeps DEF Closing
<1> QED BY <1>2, <1>5, <1>6, <1>7, <1>8, <1>9, <1>10

\* The finally block: whoever is left is terminated, then killed, and what is
\* left then is said.
LEMMA ClosingKeeps == ASSUME RunInv, Cleanup \/ Joined \/ CloseAll PROVE RunInv'
<1>0. /\ p.todo # <<>> /\ w' = w /\ queue' = queue /\ p \in ParentType
      /\ Head(p.todo) \in Closing
  BY DEF Cleanup, Joined, CloseAll, Parent, At, Silent, Closing, RunInv, WorldOK
<1>1. /\ \A st : Owes(st) => st = Head(p.todo)
      /\ ~Owes("join") /\ ~Owes("start")
  BY <1>0, HeadIsOwed DEF Closing
<1>2. ASSUME NEW new \in ParentType, p' = new, new.events = p.events, new.failure = p.failure,
             NEW next \in Closing, new.todo = <<next>>,
             p.failure = "none" => ~new.forced
      PROVE  RunInv'
  <2>1. DOMAIN p'.todo = {1} /\ p'.todo[1] = next /\ Len(p'.todo) = 1 /\ p'.todo # <<>>
    BY <1>2
  <2>2. ~Owes("start")' /\ ~Owes("join")' /\ Owes(next)'
    BY <2>1 DEF Owes, Closing
  <2>3. WorldOK' /\ ScriptOK'
    BY <1>0, <1>2, <2>1, <2>2 DEF RunInv, WorldOK, ScriptOK, Closing
  <2>4. EndsOK' /\ StopOK'
    BY <1>0, <1>1, <1>2, <2>1, <2>2 DEF RunInv, EndsOK, StopOK
  <2> QED BY <2>3, <2>4 DEF RunInv
<1>3. ASSUME NEW next \in Closing PROVE <<next>> \in Seq(Statement)
  BY DEF Statement
<1>4. p.failure = "none" => w.pc = "dead" /\ w.code = 0 /\ ~p.forced
  BY <1>1 DEF RunInv, EndsOK
<1>5. CASE Cleanup
  <2>1. PICK next \in Closing, forced \in BOOLEAN :
          /\ p' = [p EXCEPT !.forced = forced, !.todo = <<next>>] /\ forced = (w.pc # "dead")
    BY <1>5 DEF Cleanup, Parent, Closing
  <2>2. PICK list : list = <<next>>
    OBVIOUS
  <2>3. list \in Seq(Statement) /\ p' = [p EXCEPT !.forced = forced, !.todo = list]
    BY <1>3, <2>1, <2>2
  <2>4. /\ p' \in ParentType /\ p'.events = p.events /\ p'.failure = p.failure
        /\ p'.todo = list /\ p'.forced = forced
    BY <1>0, <2>3 DEF ParentType
  <2> QED BY <1>2, <1>4, <2>1, <2>2, <2>4
<1>6. CASE Joined
  <2>1. PICK next \in Closing : p' = [p EXCEPT !.todo = <<next>>]
    BY <1>6 DEF Joined, Parent, Closing
  <2>2. PICK list : list = <<next>>
    OBVIOUS
  <2>3. list \in Seq(Statement) /\ p' = [p EXCEPT !.todo = list]
    BY <1>3, <2>1, <2>2
  <2>4. /\ p' \in ParentType /\ p'.events = p.events /\ p'.failure = p.failure
        /\ p'.todo = list /\ p'.forced = p.forced
    BY <1>0, <2>3 DEF ParentType
  <2> QED BY <1>2, <1>4, <2>1, <2>2, <2>4
<1>7. CASE CloseAll
  <2>1. PICK kinds : kinds = <<"cleanup_completed">>
    OBVIOUS
  <2>2. kinds \in Seq(Kind) /\ Interrupted \notin KindsOf(kinds)
    BY <2>1, OwnKinds, KindsOfOne
  <2>3. PICK d : d = Done(kinds)
    OBVIOUS
  <2>4. /\ d \in ParentType /\ d.todo = Tail(p.todo) /\ d.failure = p.failure
        /\ d.forced = p.forced /\ KindsOf(d.events) = KindsOf(p.events) \cup KindsOf(kinds)
    BY <1>0, <2>2, <2>3, DoneIsParent
  <2>5. PICK failure \in Failure :
          /\ failure = IF w.pc # "dead" THEN "child remains alive" ELSE p.failure
          /\ p' = [d EXCEPT !.copies = FALSE, !.failure = failure]
    BY <1>0, <1>7, <2>1, <2>3, <2>4 DEF CloseAll, Parent, ParentType, Failure
  <2>6. /\ p' \in ParentType /\ p'.todo = Tail(p.todo) /\ p'.failure = failure
        /\ p'.forced = p.forced /\ p'.events = d.events
    BY <2>4, <2>5 DEF ParentType
  <2>7. /\ p'.todo = <<>> /\ (\A i \in DOMAIN p'.todo : FALSE)
        /\ ~Owes("start")' /\ ~Owes("join")'
    <3>1. p.todo \in Seq(Statement)
      BY <1>0 DEF ParentType
    <3>2. /\ Len(p.todo) \in Nat \ {0} /\ DOMAIN p.todo = 1 .. Len(p.todo)
          /\ Head(p.todo) = p.todo[1]
      BY <1>0, <3>1, KindsTail
    <3>3. Len(p.todo) = 1
      <4>1. 1 \in DOMAIN p.todo
        BY <3>2
      <4> QED BY <1>0, <3>2, <4>1 DEF RunInv, ScriptOK
    <3>4. Tail(p.todo) = <<>>
      BY <3>1, <3>3, TailOfOne
    <3>5. p'.todo = <<>>
      BY <2>6, <3>4
    <3>6. \A i \in DOMAIN p'.todo : FALSE
      BY <3>5
    <3> QED BY <3>5, <3>6 DEF Owes
  <2>8. WorldOK' /\ ScriptOK'
    BY <1>0, <2>6, <2>7 DEF RunInv, WorldOK, ScriptOK
  <2>9. EndsOK'
    <3>1. \/ w.pc # "dead" /\ failure = "child remains alive"
          \/ w.pc = "dead" /\ failure = p.failure
      BY <2>5
    <3> QED BY <1>0, <1>4, <2>6, <2>7, <3>1 DEF EndsOK
  <2>10. StopOK'
    BY <1>0, <2>2, <2>4, <2>6, <2>7 DEF RunInv, StopOK
  <2> QED BY <2>8, <2>9, <2>10 DEF RunInv
<1> QED BY <1>5, <1>6, <1>7

\* The signals of the finally block, and the passing of time.
LEMMA SignalKeeps == ASSUME RunInv, SignalEnds PROVE RunInv'
<1>1. /\ w.pc # "dead" /\ p' = p /\ queue' = queue /\ w \in WorkerType /\ w' = Dead(-15)
      /\ p.todo # <<>> /\ Head(p.todo) \in Closing
  BY DEF SignalEnds, At, Closing, RunInv, WorldOK
<1>2. w' \in WorkerType /\ w'.pc = "dead"
  BY <1>1, DeadIsWorker
<1>3. \A st : Owes(st)' <=> Owes(st)
  BY <1>1 DEF Owes
<1>4. ~Owes("start") /\ ~Owes("join")
  BY <1>1, HeadIsOwed DEF Closing
<1>5. WorldOK' /\ ScriptOK'
  BY <1>1, <1>2, <1>3 DEF RunInv, WorldOK, ScriptOK
<1>6. EndsOK' /\ StopOK'
  BY <1>1, <1>2, <1>3, <1>4 DEF RunInv, EndsOK, StopOK, Ended
<1> QED BY <1>5, <1>6 DEF RunInv

\* What stands between the start and the finally block.
Plain == Statement \ (Closing \cup {"start"})

\* A script that begins with its only start and has none of the finally block.
Begun(q) ==
  /\ q \in Seq(Statement) /\ q # <<>>
  /\ \A i \in DOMAIN q : (q[i] = "start" => i = 1) /\ q[i] \notin Closing

\* A script stays well begun when plain statements follow.
LEMMA Continued ==
  ASSUME NEW q, Begun(q), NEW r \in Seq(Plain)
  PROVE  Begun(q \o r) /\ KindsOf(q \o r) = KindsOf(q) \cup KindsOf(r)
<1>0. r \in Seq(Statement) /\ KindsOf(r) \subseteq Plain
  BY DEF Plain, KindsOf
<1>1. /\ q \in Seq(Statement) /\ Len(q) \in Nat /\ Len(r) \in Nat /\ q # <<>>
      /\ DOMAIN q = 1 .. Len(q) /\ DOMAIN r = 1 .. Len(r)
      /\ q \o r \in Seq(Statement) /\ DOMAIN (q \o r) = 1 .. (Len(q) + Len(r))
  BY <1>0 DEF Begun
<1>2. \A i \in DOMAIN q : (q \o r)[i] = q[i]
  BY <1>1
<1>3. \A i \in DOMAIN (q \o r) : i \in DOMAIN q \/ (q \o r)[i] \in KindsOf(r)
  <2> TAKE i \in DOMAIN (q \o r)
  <2>1. i \in Nat /\ (i \in DOMAIN q \/ i - Len(q) \in DOMAIN r)
    BY <1>1
  <2>2. i \notin DOMAIN q => (q \o r)[i] = r[i - Len(q)]
    BY <1>1, <2>1
  <2> QED BY <2>1, <2>2 DEF KindsOf
<1>4. q \o r # <<>>
  BY <1>1
<1>5. KindsOf(q \o r) = KindsOf(q) \cup KindsOf(r)
  BY <1>0, <1>1, KindsJoin
<1> QED BY <1>0, <1>1, <1>2, <1>3, <1>4, <1>5 DEF Begun, Plain

\* The script of every scenario starts its worker first and closes last.
LEMMA ScriptIsOne ==
  ASSUME NEW sc \in Scenarios
  PROVE  /\ Script(sc) \in Seq(Statement) /\ Script(sc) # <<>>
         /\ \A i \in DOMAIN Script(sc) :
              (Script(sc)[i] = "start" => i = 1) /\ (Script(sc)[i] \in Closing => i = Len(Script(sc)))
         /\ "join" \in KindsOf(Script(sc)) /\ "cleanup" \in KindsOf(Script(sc))
<1>1. PICK a : a = <<"start", "close", "worker_ready">>
  OBVIOUS
<1>2. PICK b : b = CASE Early(sc)     -> <<"send", "begin">>
                     [] sc = "normal" -> <<"begin", "action_barrier_reached", "continue">>
                     [] OTHER         -> <<"begin", "action_barrier_reached", "send", "continue">>
  OBVIOUS
<1>3. PICK e : e = <<"worker_finished", "join">>
  OBVIOUS
<1>4. PICK f : f = IF sc = "effect-unobserved" THEN <<"disable">> ELSE <<"observe", "observe">>
  OBVIOUS
<1>5. PICK g : g = <<"cleanup">>
  OBVIOUS
<1>6. Script(sc) = a \o b \o e \o f \o g
  BY <1>1, <1>2, <1>3, <1>4, <1>5 DEF Script
<1>7. Begun(a)
  <2>1. /\ "start" \in Statement /\ "close" \in Plain /\ "worker_ready" \in Plain
        /\ Plain \subseteq Statement
    BY DEF Plain, Statement, Awaited, Closing
  <2>2. a \in Seq(Statement) /\ Len(a) = 3 /\ a[1] = "start" /\ a[2] \in Plain /\ a[3] \in Plain
    BY <1>1, <2>1
  <2>3. DOMAIN a = {1, 2, 3} /\ a # <<>>
    BY <2>2
  <2> QED BY <2>2, <2>3 DEF Begun, Plain, Closing
<1>0. {"send", "begin", "action_barrier_reached", "continue", "worker_finished", "join", "disable",
       "observe"} \subseteq Plain
  BY DEF Plain, Statement, Awaited, Closing
<1>8. b \in Seq(Plain)
  BY <1>0, <1>2
<1>9. e \in Seq(Plain) /\ "join" \in KindsOf(e)
  BY <1>0, <1>3, KindsOfTwo
<1>10. f \in Seq(Plain)
  BY <1>0, <1>4
<1>11. g \in Seq(Statement) /\ Len(g) = 1 /\ g[1] = "cleanup"
  <2>1. "cleanup" \in Statement
    BY DEF Statement, Closing
  <2> QED BY <1>5, <2>1
<1>12. PICK ab : ab = a \o b
  OBVIOUS
<1>13. PICK abe : abe = ab \o e
  OBVIOUS
<1>14. PICK q : q = abe \o f
  OBVIOUS
<1>15. Begun(ab)
  BY <1>7, <1>8, <1>12, Continued
<1>16. Begun(abe) /\ "join" \in KindsOf(abe)
  BY <1>9, <1>13, <1>15, Continued
<1>17. Begun(q) /\ "join" \in KindsOf(q)
  BY <1>10, <1>14, <1>16, Continued
<1>18. PICK s : s = q \o g
  OBVIOUS
<1>19. s = Script(sc)
  BY <1>6, <1>12, <1>13, <1>14, <1>18
<1>24. q \in Seq(Statement) /\ Len(q) \in Nat \ {0} /\ DOMAIN q = 1 .. Len(q)
  BY <1>17 DEF Begun
<1>20. /\ Len(q) \in Nat \ {0} /\ DOMAIN q = 1 .. Len(q) /\ s \in Seq(Statement) /\ s # <<>>
       /\ DOMAIN s = 1 .. (Len(q) + 1) /\ Len(s) = Len(q) + 1 /\ s[Len(q) + 1] = "cleanup"
       /\ \A i \in DOMAIN q : s[i] = q[i]
  <2>1. /\ s \in Seq(Statement) /\ Len(s) = Len(q) + 1 /\ s[Len(q) + 1] = "cleanup"
        /\ \A i \in DOMAIN q : s[i] = q[i]
    BY <1>11, <1>18, <1>24, LastOf
  <2> QED BY <1>24, <2>1
<1>21. \A i \in DOMAIN s : i \in DOMAIN q \/ i = Len(s)
  BY <1>20
<1>22. \A i \in DOMAIN s : (s[i] = "start" => i = 1) /\ (s[i] \in Closing => i = Len(s))
  BY <1>17, <1>20, <1>21 DEF Begun
<1>23. "join" \in KindsOf(s) /\ "cleanup" \in KindsOf(s)
  BY <1>17, <1>20 DEF KindsOf
<1> QED BY <1>19, <1>20, <1>22, <1>23

\* Before the script starts nothing runs and nothing is told.
LEMMA InitRuns == Init => RunInv
<1> SUFFICES ASSUME Init PROVE RunInv
  OBVIOUS
<1>1. scenario \in Scenarios /\ p.todo = Script(scenario)
  BY ScenarioAssumption DEF Init
<1>2. /\ p.todo \in Seq(Statement) /\ p.todo # <<>> /\ Owes("join") /\ Owes("cleanup")
      /\ \A i \in DOMAIN p.todo :
           (p.todo[i] = "start" => i = 1) /\ (p.todo[i] \in Closing => i = Len(p.todo))
  <2>1. p.todo \in Seq(Statement) /\ p.todo # <<>>
    BY <1>1, ScriptIsOne
  <2>2. "join" \in KindsOf(p.todo) /\ "cleanup" \in KindsOf(p.todo)
    BY <1>1, ScriptIsOne
  <2>3. Owes("join") /\ Owes("cleanup")
    BY <2>2 DEF Owes, KindsOf
  <2>4. \A i \in DOMAIN p.todo :
           (p.todo[i] = "start" => i = 1) /\ (p.todo[i] \in Closing => i = Len(p.todo))
    <3>1. PICK sc : sc = scenario
      OBVIOUS
    <3>2. PICK q : q = Script(sc)
      OBVIOUS
    <3>3. \A i \in DOMAIN q : (q[i] = "start" => i = 1) /\ (q[i] \in Closing => i = Len(q))
      BY <1>1, <3>1, <3>2, ScriptIsOne
    <3>4. p.todo = q
      BY <1>1, <3>1, <3>2
    <3> QED BY <3>3, <3>4
  <2> QED BY <2>1, <2>3, <2>4
<1>3. /\ w = [pc |-> "dead", rows |-> 0, code |-> 0, control |-> FALSE, out |-> FALSE]
      /\ p = [todo |-> p.todo, events |-> <<>>, seen |-> <<>>, failure |-> "none",
              forced |-> FALSE, barriers |-> {}, copies |-> TRUE]
      /\ queue = <<>>
  BY DEF Init
<1>4. WorldOK
  <2>1. w \in WorkerType
    BY <1>3 DEF WorkerType, Place, Ended
  <2>2. <<>> \in Seq(Kind) /\ <<>> \in Seq(Nat) /\ <<>> \in Seq(WorkerKind) /\ "none" \in Failure
    BY KindsOfNone DEF Failure
  <2>3. p \in ParentType
    <3>1. PICK todo \in Seq(Statement) :
            p = [todo |-> todo, events |-> <<>>, seen |-> <<>>, failure |-> "none",
                 forced |-> FALSE, barriers |-> {}, copies |-> TRUE]
      BY <1>2, <1>3
    <3> QED BY <2>2, <3>1 DEF ParentType
  <2> QED BY <1>3, <2>1, <2>2, <2>3 DEF WorldOK
<1>5. ScriptOK
  <2>1. \E st \in Closing : Owes(st)
    BY <1>2 DEF Closing
  <2>2. \A i \in DOMAIN p.todo : p.todo[i] = "start" => i = 1 /\ Owes("join")
    BY <1>2
  <2>3. \A i \in DOMAIN p.todo : p.todo[i] \in Closing => i = Len(p.todo)
    BY <1>2
  <2> QED BY <2>1, <2>2, <2>3, Zenon DEF ScriptOK
<1>6. EndsOK
  BY <1>2, <1>3 DEF EndsOK
<1>7. StopOK
  BY <1>3, KindsOfNone DEF StopOK, Ended
<1> QED BY <1>4, <1>5, <1>6, <1>7 DEF RunInv

\* The invariant holds in every run.
LEMMA RunStays == Spec => []RunInv
<1>1. RunInv /\ [Next]_vars => RunInv'
  <2> SUFFICES ASSUME RunInv, [Next]_vars PROVE RunInv'
    OBVIOUS
  <2>1. CASE ParentStep
    BY <2>1, StartKeeps, HearKeeps, StatementKeeps, ClosingKeeps DEF ParentStep
  <2>2. CASE w' = w /\ p' = p /\ queue' = queue
    BY <2>2 DEF RunInv, WorldOK, ScriptOK, EndsOK, StopOK, Owes, KindsOf
  <2> QED BY <2>1, <2>2, WorkerStepKeeps, SignalKeeps DEF Next, Deadline, vars
<1> QED BY <1>1, InitRuns, PTL DEF Spec

\* A run that returns joined a worker that ended by itself, and no run leaves a
\* worker behind without saying so, whatever the worker does and whenever the
\* deadline passes.
THEOREM EveryWorkerIsReaped == Spec => []WorkerReaped
<1>1. RunInv => WorkerReaped
  <2> SUFFICES ASSUME RunInv, p.todo = <<>> PROVE WorkerReaped
    BY DEF WorkerReaped, Finished
  <2>1. \A i \in DOMAIN p.todo : FALSE
    OBVIOUS
  <2>2. ~Owes("join")
    BY <2>1 DEF Owes
  <2> QED BY <2>2 DEF RunInv, EndsOK, WorkerReaped
<1> QED BY <1>1, RunStays, PTL

\* Once the events of a run amount to an executed stop, its action writes no
\* further step, be the run left, ended or terminated.
THEOREM ExecutedStopsHold == Spec => StopHolds
<1>1. RunInv /\ [Next]_vars => ["executed" \in Execution => w'.rows = w.rows]_vars
  <2> SUFFICES ASSUME RunInv, [Next]_vars, "executed" \in Execution PROVE w'.rows = w.rows
    OBVIOUS
  <2>1. w.pc \in Ended /\ w \in WorkerType
    <3>1. Interrupted \in KindsOf(p.events)
      BY DEF Execution, Paused, Has, KindsOf, Interrupted
    <3> QED BY <3>1 DEF RunInv, StopOK, WorldOK
  <2>2. CASE WorkerStep
    <3>1. CloseEnds \/ Exit
      BY <2>1, <2>2 DEF WorkerStep, CloseEndpoint, Announce, Begin, Continue, NoStop, ReadStop,
         WriteStep, TellStep, Conclude, Raise, BootFails, Goes, Worker, Ended
    <3> QED BY <2>1, <3>1 DEF CloseEnds, Exit, Goes, Worker, WorkerType
  <2>3. CASE ParentStep
    <3>1. w' = w \/ Start
      BY <2>3 DEF ParentStep, StartFails, CloseCopies, SendStop, SetBarrier, Hear, TelemetryEnds,
         TimeOut, Join, Observe, DisableObservation, Cleanup, Joined, CloseAll, Silent
    <3> QED BY <2>1, <3>1 DEF Start, WorkerType
  <2>4. CASE SignalEnds
    BY <2>1, <2>4 DEF SignalEnds, Dead, WorkerType
  <2> QED BY <2>2, <2>3, <2>4 DEF Next, Deadline, vars
<1> QED BY <1>1, RunStays, PTL DEF Spec, StopHolds
-----------------------------------------------------------------------------
(* What a run that does not fail leads to.                                 *)

\* The order of the statements, that of the script of every scenario.
Rank(sc, st) ==
  CASE st = "start"                  -> 1
    [] st = "close"                  -> 2
    [] st = "worker_ready"           -> 3
    [] st = "send"                   -> IF Early(sc) THEN 4 ELSE 7
    [] st = "begin"                  -> 5
    [] st = "action_barrier_reached" -> 6
    [] st = "continue"               -> 8
    [] st = "worker_finished"        -> 9
    [] st = "join"                   -> 10
    [] st \in {"disable", "observe"} -> 11
    [] OTHER                         -> 12

\* The statements of a scenario, up to the finally block.
StatementsOf(sc) ==
  {"start", "close", "worker_ready", "begin", "worker_finished", "join"}
  \cup (IF sc = "normal" THEN {} ELSE {"send"})
  \cup (IF Early(sc) THEN {} ELSE {"action_barrier_reached", "continue"})
  \cup (IF sc = "effect-unobserved" THEN {"disable"} ELSE {"observe"})

\* What is owed is what is left of the script, in its order.
OrderOK ==
  /\ \A i, j \in DOMAIN p.todo :
       i < j => \/ Rank(scenario, p.todo[i]) < Rank(scenario, p.todo[j])
                \/ p.todo[i] = "observe" /\ p.todo[j] = "observe"
  /\ \A i \in DOMAIN p.todo : p.todo[i] \in StatementsOf(scenario) \cup Closing
  /\ \A x \in Statement, y \in StatementsOf(scenario) : Owes(x) /\ Rank(scenario, x) < Rank(scenario, y) => Owes(y)

\* The parent recorded the kind.
Heard(kind) == kind \in KindsOf(p.events)

\* All that the worker told, heard or not.
Told(kind) == kind \in KindsOf(p.events) \cup KindsOf(queue)

\* Nothing follows the end of the action in the telemetry.
TelemetryOK ==
  /\ Told("worker_finished") => w.pc \in Ended
  /\ Heard("worker_finished") => queue = <<>>
  /\ \A i \in DOMAIN queue : queue[i] = "worker_finished" => i = Len(queue)

\* What the parent did is what it does not owe any more.
ParentOK ==
  /\ Heard("decision_recorded") <=> "send" \in StatementsOf(scenario) /\ ~Owes("send")
  /\ Heard("issuer_dispatched") \/ Heard("delivery_failed") => Heard("decision_recorded")
  /\ Heard("decision_recorded") => Heard("issuer_dispatched") \/ Heard("delivery_failed")
  /\ "begin" \in p.barriers => ~Owes("begin")
  /\ "continue" \in p.barriers => ~Owes("continue")
  /\ p.copies => Owes("close")
  /\ \A kind \in Awaited \cap StatementsOf(scenario) : Owes(kind) \/ Heard(kind)
  /\ Heard("effect_observed") => scenario # "effect-unobserved"
  /\ scenario # "effect-unobserved" /\ p.seen = <<>> =>
       \E i, j \in DOMAIN p.todo : i < j /\ p.todo[i] = "observe" /\ p.todo[j] = "observe"
  /\ scenario # "effect-unobserved" /\ p.seen # <<>> => Owes("observe") \/ Heard("effect_observed")

\* The worker is in its action.
Acting == {"checkpoint", "write", "written", "wait continue", "interrupted", "complete"}

\* The worker has yet to begin it.
Before == {"spawned", "announce", "wait begin"}

\* The place of the worker in its action.
ActionOK ==
  /\ w.rows <= BusinessSteps
  /\ Owes("start") \/ w.pc \in Before => w.rows = 0
  /\ w.pc \in {"spawned", "announce"} => ~Told("worker_ready")
  /\ w.pc \in Before => ~Told("action_barrier_reached") /\ ~Told("worker_finished")
  /\ w.pc \in Acting \/ Told("worker_finished") => "begin" \in p.barriers
  /\ w.pc = "write" => w.rows < BusinessSteps
  /\ w.pc = "written" => w.rows >= 1
  /\ w.pc = "complete" => w.rows = BusinessSteps
  /\ Told("action_barrier_reached") => w.rows >= 1
  /\ Told("worker_finished") => Told(Interrupted) \/ w.rows = BusinessSteps
  /\ scenario # "receiver-unreachable" /\ w.pc \in Before \cup Acting => w.control
  /\ scenario = "receiver-unreachable" /\ (w.pc = "announce" \/ Told("worker_ready")) => ~w.control

\* A stop in the pipe, or read, was dispatched.
DispatchOK ==
  unread \/ Told("receiver_observed") =>
    Heard("issuer_dispatched") /\ ~Heard("delivery_failed")

\* Without a stop in the pipe nothing is read.
UndisturbedOK ==
  /\ ~unread /\ w.pc # "interrupted"
  /\ ~Told("receiver_observed") /\ ~Told(Interrupted)
  /\ Heard("decision_recorded") => ~Heard("issuer_dispatched")

\* A stop sent before the start is read first.
EarlyOK ==
  /\ w.rows = 0 /\ w.pc \notin {"write", "written", "wait continue", "complete"}
  /\ w.pc \in {"wait begin", "checkpoint"} /\ Heard("decision_recorded") => unread
  /\ w.pc = "interrupted" => Told("receiver_observed") /\ Told("enforcement_requested")
  /\ Told("worker_finished") =>
       Told("receiver_observed") /\ Told("enforcement_requested") /\ Told(Interrupted)

\* A stop sent during the action is read after its first step; one that is
\* ignored does not end it.
LateOK ==
  /\ ~Heard("decision_recorded") => ~unread /\ ~Told("receiver_observed")
  /\ Told("action_barrier_reached") => \/ "continue" \in p.barriers \/ w.pc = "wait continue"
                                       \/ w.pc \in Ended /\ ~Told("worker_finished")
  /\ w.pc = "wait continue" => /\ w.rows = 1 /\ ~Told("receiver_observed")
                               /\ Heard("decision_recorded") => unread
  /\ ~Told("receiver_observed") =>
       /\ w.pc = "checkpoint" => w.rows = 0 \/ (w.rows = 1 /\ unread /\ "continue" \in p.barriers)
       /\ w.pc = "write" => w.rows = 0
       /\ w.pc = "written" => w.rows = 1 /\ ~Told("action_barrier_reached")
       /\ w.pc \notin {"complete", "interrupted"}
  /\ Told("receiver_observed") =>
       /\ w.rows >= 1 /\ "continue" \in p.barriers
       /\ w.pc = "written" => w.rows >= 2
  /\ Told("worker_finished") => Told("receiver_observed")
  /\ Told("receiver_observed") /\ scenario = "stop-during-action" =>
       /\ Told("enforcement_requested") /\ w.rows = 1 /\ w.pc \in {"interrupted"} \cup Ended
       /\ Told("worker_finished") => Told(Interrupted)
  /\ scenario = "receiver-ignores-stop" =>
       /\ Told("receiver_observed") => Told("enforcement_unavailable")
       /\ ~Told(Interrupted) /\ w.pc # "interrupted"

ScenarioOK ==
  /\ scenario \in {"normal", "receiver-unreachable"} => UndisturbedOK
  /\ scenario \in {"stop-before-start", "effect-unobserved"} => EarlyOK
  /\ scenario \in {"stop-during-action", "receiver-ignores-stop"} => LateOK

\* What holds of every run, and of one that has not failed.
PointInv ==
  /\ RunInv /\ OrderOK /\ TelemetryOK /\ scenario \in Scenarios
  /\ p.failure = "none" => ParentOK /\ ActionOK /\ DispatchOK /\ ScenarioOK
-----------------------------------------------------------------------------
(* The order of the statements.                                            *)

\* Two of the same kind, one after the other.
Twice(q) == \E i, j \in DOMAIN q : i < j /\ q[i] = "observe" /\ q[j] = "observe"

\* A list of statements in the order of their ranks.
Ordered(sc, q) ==
  \A i, j \in DOMAIN q :
    i < j => \/ Rank(sc, q[i]) < Rank(sc, q[j])
             \/ q[i] = "observe" /\ q[j] = "observe"

\* All its ranks lie between two.
Within(sc, q, m, n) == \A i \in DOMAIN q : m <= Rank(sc, q[i]) /\ Rank(sc, q[i]) < n

\* The ranks of a scenario.
LEMMA RanksAre ==
  ASSUME NEW sc
  PROVE  /\ Rank(sc, "start") = 1 /\ Rank(sc, "close") = 2 /\ Rank(sc, "worker_ready") = 3
         /\ Rank(sc, "send") = (IF Early(sc) THEN 4 ELSE 7) /\ Rank(sc, "begin") = 5
         /\ Rank(sc, "action_barrier_reached") = 6 /\ Rank(sc, "continue") = 8
         /\ Rank(sc, "worker_finished") = 9 /\ Rank(sc, "join") = 10
         /\ Rank(sc, "disable") = 11 /\ Rank(sc, "observe") = 11
         /\ \A st \in Closing : Rank(sc, st) = 12
         /\ \A st : Rank(sc, st) \in Int /\ Rank(sc, st) <= 12
  BY DEF Rank, Closing

\* A later list continues an earlier one.
LEMMA OrderJoins ==
  ASSUME NEW sc, NEW S, NEW q \in Seq(S), NEW r \in Seq(S), Ordered(sc, q), Ordered(sc, r),
         NEW l \in Nat, NEW m \in Nat, NEW n \in Nat, l <= m, m <= n,
         Within(sc, q, l, m), Within(sc, r, m, n)
  PROVE  /\ Ordered(sc, q \o r) /\ Within(sc, q \o r, l, n)
         /\ q \o r \in Seq(S) /\ KindsOf(q \o r) = KindsOf(q) \cup KindsOf(r)
         /\ Twice(q) \/ Twice(r) => Twice(q \o r)
<1>1. PICK s : s = q \o r
  OBVIOUS
<1>2. /\ s \in Seq(S) /\ Len(q) \in Nat /\ Len(r) \in Nat /\ DOMAIN q = 1 .. Len(q)
      /\ DOMAIN r = 1 .. Len(r) /\ DOMAIN s = 1 .. (Len(q) + Len(r))
  BY <1>1
<1>3. /\ \A i \in DOMAIN q : i \in DOMAIN s /\ s[i] = q[i]
      /\ \A i \in DOMAIN r : Len(q) + i \in DOMAIN s /\ s[Len(q) + i] = r[i]
  BY <1>1, <1>2
<1>4. \A i \in DOMAIN s : i \in DOMAIN q \/ (i - Len(q) \in DOMAIN r /\ i = Len(q) + (i - Len(q)))
  BY <1>2
<1>5. Ordered(sc, s)
  <2> SUFFICES ASSUME NEW i \in DOMAIN s, NEW j \in DOMAIN s, i < j
               PROVE  \/ Rank(sc, s[i]) < Rank(sc, s[j])
                      \/ s[i] = "observe" /\ s[j] = "observe"
    BY DEF Ordered
  <2>1. CASE j \in DOMAIN q
    <3>1. i \in DOMAIN q
      BY <1>2, <2>1
    <3> QED BY <1>3, <2>1, <3>1 DEF Ordered
  <2>2. CASE i \notin DOMAIN q
    <3>1. PICK a \in DOMAIN r, b \in DOMAIN r : i = Len(q) + a /\ j = Len(q) + b /\ a < b
      BY <1>2, <1>4, <2>2
    <3> QED BY <1>3, <3>1 DEF Ordered
  <2>3. CASE i \in DOMAIN q /\ j \notin DOMAIN q
    <3>1. PICK b \in DOMAIN r : j = Len(q) + b
      BY <1>4, <2>3
    <3>2. s[i] = q[i] /\ s[j] = r[b] /\ Rank(sc, q[i]) < m /\ m <= Rank(sc, r[b])
      BY <1>3, <2>3, <3>1 DEF Within
    <3>3. Rank(sc, q[i]) \in Int /\ Rank(sc, r[b]) \in Int
      BY RanksAre
    <3> QED BY <3>2, <3>3
  <2> QED BY <2>1, <2>2, <2>3
<1>6. Twice(q) => Twice(s)
  BY <1>3 DEF Twice
<1>7. Twice(r) => Twice(s)
  <2> SUFFICES ASSUME NEW i \in DOMAIN r, NEW j \in DOMAIN r, i < j, r[i] = "observe", r[j] = "observe"
               PROVE  Twice(s)
    BY DEF Twice
  <2>1. Len(q) + i < Len(q) + j
    BY <1>2
  <2> QED BY <1>3, <2>1 DEF Twice
<1>8. KindsOf(s) = KindsOf(q) \cup KindsOf(r)
  BY <1>1, KindsJoin
<1>9. Within(sc, s, l, n)
  <2> SUFFICES ASSUME NEW i \in DOMAIN s PROVE l <= Rank(sc, s[i]) /\ Rank(sc, s[i]) < n
    BY DEF Within
  <2>1. \/ l <= Rank(sc, s[i]) /\ Rank(sc, s[i]) < m
        \/ m <= Rank(sc, s[i]) /\ Rank(sc, s[i]) < n
    BY <1>3, <1>4 DEF Within
  <2>2. Rank(sc, s[i]) \in Int
    BY RanksAre
  <2> QED BY <2>1, <2>2
<1> QED BY <1>1, <1>2, <1>5, <1>6, <1>7, <1>8, <1>9

\* What lies ahead of the statement at hand is not owed any more.
LEMMA HeadIsFirst ==
  ASSUME RunInv, OrderOK, p.todo # <<>>
  PROVE  /\ \A x : Owes(x) => x = Head(p.todo) \/ Rank(scenario, Head(p.todo)) < Rank(scenario, x)
         /\ Head(p.todo) \in StatementsOf(scenario) \cup Closing /\ Owes(Head(p.todo))
<1>1. p.todo \in Seq(Statement)
  BY DEF RunInv, WorldOK, ParentType
<1>2. /\ Len(p.todo) \in Nat \ {0} /\ DOMAIN p.todo = 1 .. Len(p.todo) /\ Head(p.todo) = p.todo[1]
  BY <1>1, KindsTail
<1>3. 1 \in DOMAIN p.todo /\ \A i \in DOMAIN p.todo : i = 1 \/ 1 < i
  BY <1>2
<1>4. ASSUME NEW x, Owes(x)
      PROVE  x = Head(p.todo) \/ Rank(scenario, Head(p.todo)) < Rank(scenario, x)
  <2>1. PICK i \in DOMAIN p.todo : p.todo[i] = x
    BY <1>4 DEF Owes
  <2> QED BY <1>2, <1>3, <2>1 DEF OrderOK
<1> QED BY <1>2, <1>3, <1>4 DEF OrderOK, Owes

\* A statement passed is not owed, unless it is to be done twice; the order stays.
LEMMA OrderPasses ==
  ASSUME RunInv, OrderOK, p.todo # <<>>, p'.todo = Tail(p.todo), scenario' = scenario
  PROVE  /\ OrderOK'
         /\ \A x : Owes(x)' => Owes(x)
         /\ \A x : Owes(x) /\ x # Head(p.todo) => Owes(x)'
         /\ \A x : x = Head(p.todo) /\ x # "observe" => ~Owes(x)'
         /\ Head(p.todo) # "observe" /\ Twice(p.todo) => Twice(p'.todo)
         /\ Twice(p.todo) => Owes("observe")'
<1>1. p.todo \in Seq(Statement)
  BY DEF RunInv, WorldOK, ParentType
<1>2. /\ p'.todo \in Seq(Statement) /\ Len(p.todo) \in Nat \ {0} /\ DOMAIN p.todo = 1 .. Len(p.todo)
      /\ DOMAIN p'.todo = 1 .. (Len(p.todo) - 1)
      /\ \A i \in DOMAIN p'.todo : i + 1 \in DOMAIN p.todo /\ p'.todo[i] = p.todo[i + 1]
      /\ Head(p.todo) = p.todo[1]
  BY <1>1, KindsTail
<1>3. \A i \in DOMAIN p.todo : i = 1 \/ (i - 1 \in DOMAIN p'.todo /\ p'.todo[i - 1] = p.todo[i])
  <2> TAKE i \in DOMAIN p.todo
  <2>1. i = 1 \/ (i - 1 \in DOMAIN p'.todo /\ (i - 1) + 1 = i)
    BY <1>2
  <2> QED BY <1>2, <2>1
<1>4. \A x : Owes(x)' => Owes(x)
  BY <1>2 DEF Owes
<1>5. \A x : Owes(x) /\ x # Head(p.todo) => Owes(x)'
  BY <1>2, <1>3 DEF Owes
<1>6. ASSUME NEW x, x = Head(p.todo), x # "observe" PROVE ~Owes(x)'
  <2> SUFFICES ASSUME NEW i \in DOMAIN p'.todo, p'.todo[i] = x PROVE FALSE
    BY DEF Owes
  <2>1. 1 \in DOMAIN p.todo /\ i + 1 \in DOMAIN p.todo /\ 1 < i + 1 /\ p.todo[i + 1] = p.todo[1]
    BY <1>2, <1>6
  <2>2. Rank(scenario, p.todo[1]) < Rank(scenario, p.todo[1])
    BY <1>2, <1>6, <2>1 DEF OrderOK
  <2>3. Rank(scenario, p.todo[1]) \in Int
    BY RanksAre
  <2> QED BY <2>2, <2>3
<1>7. OrderOK'
  <2>1. \A i, j \in DOMAIN p'.todo :
          i < j => \/ Rank(scenario, p'.todo[i]) < Rank(scenario, p'.todo[j])
                   \/ p'.todo[i] = "observe" /\ p'.todo[j] = "observe"
    <3> TAKE i, j \in DOMAIN p'.todo
    <3>1. i + 1 \in DOMAIN p.todo /\ j + 1 \in DOMAIN p.todo /\ (i < j => i + 1 < j + 1)
      BY <1>2
    <3> QED BY <1>2, <3>1 DEF OrderOK
  <2>2. \A i \in DOMAIN p'.todo : p'.todo[i] \in StatementsOf(scenario) \cup Closing
    BY <1>2 DEF OrderOK
  <2>3. ASSUME NEW x \in Statement, NEW y \in StatementsOf(scenario), Owes(x)',
               Rank(scenario, x) < Rank(scenario, y)
        PROVE  Owes(y)'
    <3>1. Owes(x) /\ Owes(y)
      BY <1>4, <2>3 DEF OrderOK
    <3>2. y # Head(p.todo)
      <4>1. x = Head(p.todo) \/ Rank(scenario, Head(p.todo)) < Rank(scenario, x)
        BY <3>1, HeadIsFirst
      <4>2. Rank(scenario, x) \in Int /\ Rank(scenario, y) \in Int
        BY RanksAre
      <4> QED BY <2>3, <4>1, <4>2
    <3> QED BY <1>5, <3>1, <3>2
  <2> QED BY <2>1, <2>2, <2>3 DEF OrderOK
<1>8. ASSUME Head(p.todo) # "observe", Twice(p.todo) PROVE Twice(p'.todo)
  <2>1. PICK i, j \in DOMAIN p.todo : i < j /\ p.todo[i] = "observe" /\ p.todo[j] = "observe"
    BY <1>8 DEF Twice
  <2>2. i # 1 /\ j # 1 /\ i - 1 < j - 1
    BY <1>2, <1>8, <2>1
  <2> QED BY <1>3, <2>1, <2>2 DEF Twice
<1>9. ASSUME Twice(p.todo) PROVE Owes("observe")'
  <2>1. PICK i, j \in DOMAIN p.todo : i < j /\ p.todo[i] = "observe" /\ p.todo[j] = "observe"
    BY <1>9 DEF Twice
  <2>2. j # 1
    BY <1>2, <2>1
  <2> QED BY <1>3, <2>1, <2>2 DEF Owes
<1> QED BY <1>4, <1>5, <1>6, <1>7, <1>8, <1>9

\* The finally block is in order whatever was owed.
LEMMA OrderCloses ==
  ASSUME NEW c \in Closing, p'.todo = <<c>> \/ p'.todo = <<>>, scenario' = scenario
  PROVE  OrderOK' /\ \A x : Owes(x)' => x = c
<1>1. /\ p'.todo = <<c>> => DOMAIN p'.todo = {1} /\ p'.todo[1] = c
      /\ p'.todo = <<>> => DOMAIN p'.todo = {}
  OBVIOUS
<1>2. \A x : Owes(x)' => x = c
  BY <1>1 DEF Owes
<1>3. \A y : ~(Rank(scenario, c) < Rank(scenario, y))
  <2> TAKE y
  <2>1. Rank(scenario, c) = 12 /\ Rank(scenario, y) \in Int /\ Rank(scenario, y) <= 12
    BY RanksAre
  <2> QED BY <2>1
<1>4. \A i, j \in DOMAIN p'.todo : ~(i < j)
  BY <1>1
<1> QED BY <1>1, <1>2, <1>3, <1>4 DEF OrderOK

\* The script of every scenario is in order and complete; where the effect is
\* observed it is so twice.
LEMMA ScriptInOrder ==
  ASSUME NEW sc \in Scenarios
  PROVE  /\ Ordered(sc, Script(sc)) /\ KindsOf(Script(sc)) = StatementsOf(sc) \cup {"cleanup"}
         /\ sc # "effect-unobserved" => Twice(Script(sc))
<1>1. PICK a : a = <<"start", "close", "worker_ready">>
  OBVIOUS
<1>2. PICK b : b = CASE Early(sc)     -> <<"send", "begin">>
                     [] sc = "normal" -> <<"begin", "action_barrier_reached", "continue">>
                     [] OTHER         -> <<"begin", "action_barrier_reached", "send", "continue">>
  OBVIOUS
<1>3. PICK e : e = <<"worker_finished", "join">>
  OBVIOUS
<1>4. PICK f : f = IF sc = "effect-unobserved" THEN <<"disable">> ELSE <<"observe", "observe">>
  OBVIOUS
<1>5. PICK g : g = <<"cleanup">>
  OBVIOUS
<1>6. Script(sc) = a \o b \o e \o f \o g
  BY <1>1, <1>2, <1>3, <1>4, <1>5 DEF Script
<1>0. {"start", "close", "worker_ready", "send", "begin", "action_barrier_reached", "continue",
       "worker_finished", "join", "disable", "observe", "cleanup"} \subseteq Statement
  BY DEF Statement, Awaited, Closing
<1>7. /\ a \in Seq(Statement) /\ Ordered(sc, a) /\ KindsOf(a) = {"start", "close", "worker_ready"}
      /\ Within(sc, a, 1, 4)
  <2>1. a \in Seq(Statement) /\ DOMAIN a = {1, 2, 3} /\ a[1] = "start" /\ a[2] = "close" /\ a[3] = "worker_ready"
    BY <1>0, <1>1
  <2> QED BY <2>1, RanksAre DEF Ordered, Within, KindsOf
<1>8. /\ b \in Seq(Statement) /\ Ordered(sc, b) /\ Within(sc, b, 4, 9)
      /\ KindsOf(b) = {"begin"} \cup (IF sc = "normal" THEN {} ELSE {"send"})
                      \cup (IF Early(sc) THEN {} ELSE {"action_barrier_reached", "continue"})
  <2>1. CASE Early(sc)
    <3>1. b = <<"send", "begin">> /\ sc # "normal"
      BY <1>2, <2>1 DEF Early
    <3>2. b \in Seq(Statement) /\ DOMAIN b = {1, 2} /\ b[1] = "send" /\ b[2] = "begin"
      BY <1>0, <3>1
    <3> QED BY <2>1, <3>1, <3>2, RanksAre DEF Ordered, Within, KindsOf
  <2>2. CASE sc = "normal"
    <3>1. b = <<"begin", "action_barrier_reached", "continue">> /\ ~Early(sc)
      BY <1>2, <2>2 DEF Early
    <3>2. /\ b \in Seq(Statement) /\ DOMAIN b = {1, 2, 3} /\ b[1] = "begin"
          /\ b[2] = "action_barrier_reached" /\ b[3] = "continue"
      BY <1>0, <3>1
    <3> QED BY <2>2, <3>1, <3>2, RanksAre DEF Ordered, Within, KindsOf
  <2>3. CASE ~Early(sc) /\ sc # "normal"
    <3>1. b = <<"begin", "action_barrier_reached", "send", "continue">>
      BY <1>2, <2>3
    <3>2. /\ b \in Seq(Statement) /\ DOMAIN b = {1, 2, 3, 4} /\ b[1] = "begin"
          /\ b[2] = "action_barrier_reached" /\ b[3] = "send" /\ b[4] = "continue"
      BY <1>0, <3>1
    <3> QED BY <2>3, <3>2, RanksAre DEF Ordered, Within, KindsOf
  <2> QED BY <2>1, <2>2, <2>3
<1>9. /\ e \in Seq(Statement) /\ Ordered(sc, e) /\ KindsOf(e) = {"worker_finished", "join"}
      /\ Within(sc, e, 9, 11)
  <2>1. e \in Seq(Statement) /\ DOMAIN e = {1, 2} /\ e[1] = "worker_finished" /\ e[2] = "join"
    BY <1>0, <1>3
  <2> QED BY <2>1, RanksAre DEF Ordered, Within, KindsOf
<1>10. /\ f \in Seq(Statement) /\ Ordered(sc, f)
       /\ KindsOf(f) = (IF sc = "effect-unobserved" THEN {"disable"} ELSE {"observe"})
       /\ Within(sc, f, 11, 12)
       /\ sc # "effect-unobserved" => Twice(f)
  <2>1. CASE sc = "effect-unobserved"
    <3>1. f \in Seq(Statement) /\ DOMAIN f = {1} /\ f[1] = "disable"
      BY <1>0, <1>4, <2>1
    <3> QED BY <2>1, <3>1, RanksAre DEF Ordered, Within, KindsOf
  <2>2. CASE sc # "effect-unobserved"
    <3>1. f \in Seq(Statement) /\ DOMAIN f = {1, 2} /\ f[1] = "observe" /\ f[2] = "observe"
      BY <1>0, <1>4, <2>2
    <3> QED BY <2>2, <3>1, RanksAre DEF Ordered, Within, KindsOf, Twice
  <2> QED BY <2>1, <2>2
<1>11. g \in Seq(Statement) /\ Ordered(sc, g) /\ KindsOf(g) = {"cleanup"} /\ Within(sc, g, 12, 13)
  <2>1. g \in Seq(Statement) /\ DOMAIN g = {1} /\ g[1] = "cleanup" /\ "cleanup" \in Closing
    BY <1>0, <1>5 DEF Closing
  <2>2. Rank(sc, "cleanup") = 12
    BY <2>1, RanksAre
  <2> QED BY <2>1, <2>2 DEF Ordered, Within, KindsOf
<1>12. PICK ab : ab = a \o b
  OBVIOUS
<1>13. PICK abe : abe = ab \o e
  OBVIOUS
<1>14. PICK q : q = abe \o f
  OBVIOUS
<1>15. Script(sc) = q \o g
  BY <1>6, <1>12, <1>13, <1>14
<1>i. 1 \in Nat /\ 4 \in Nat /\ 9 \in Nat /\ 11 \in Nat /\ 12 \in Nat /\ 13 \in Nat
  OBVIOUS
<1>16. /\ ab \in Seq(Statement) /\ Ordered(sc, ab) /\ KindsOf(ab) = KindsOf(a) \cup KindsOf(b)
       /\ Within(sc, ab, 1, 9)
  BY <1>7, <1>8, <1>12, <1>i, OrderJoins
<1>17. /\ abe \in Seq(Statement) /\ Ordered(sc, abe) /\ KindsOf(abe) = KindsOf(ab) \cup KindsOf(e)
       /\ Within(sc, abe, 1, 11)
  BY <1>9, <1>13, <1>16, <1>i, OrderJoins
<1>18. /\ q \in Seq(Statement) /\ Ordered(sc, q) /\ KindsOf(q) = KindsOf(abe) \cup KindsOf(f)
       /\ Within(sc, q, 1, 12) /\ (sc # "effect-unobserved" => Twice(q))
  BY <1>10, <1>14, <1>17, <1>i, OrderJoins
<1>19. PICK s : s = q \o g
  OBVIOUS
<1>20. /\ Ordered(sc, s) /\ KindsOf(s) = KindsOf(q) \cup KindsOf(g)
       /\ sc # "effect-unobserved" => Twice(s)
  BY <1>11, <1>18, <1>19, <1>i, OrderJoins
<1>21. KindsOf(s) = StatementsOf(sc) \cup {"cleanup"}
  BY <1>7, <1>8, <1>9, <1>10, <1>11, <1>16, <1>17, <1>18, <1>20 DEF StatementsOf
<1> QED BY <1>15, <1>19, <1>20, <1>21

\* A run begins with nothing done and everything owed.
LEMMA InitPoints == Init => PointInv
<1> SUFFICES ASSUME Init PROVE PointInv
  OBVIOUS
<1>1. scenario \in Scenarios /\ p.todo = Script(scenario) /\ RunInv
  BY ScenarioAssumption, InitRuns DEF Init
<1>2. PICK sc \in Scenarios : sc = scenario
  BY <1>1
<1>3. PICK q : q = p.todo
  OBVIOUS
<1>4. /\ Ordered(sc, q) /\ KindsOf(q) = StatementsOf(sc) \cup {"cleanup"}
      /\ sc # "effect-unobserved" => Twice(q)
  BY <1>1, <1>2, <1>3, ScriptInOrder
<1>5. \A st : Owes(st) <=> st \in StatementsOf(sc) \cup {"cleanup"}
  BY <1>3, <1>4 DEF Owes, KindsOf
<1>6. OrderOK
  <2>1. \A i \in DOMAIN p.todo : p.todo[i] \in StatementsOf(scenario) \cup Closing
    BY <1>2, <1>3, <1>4 DEF KindsOf, Closing
  <2> QED BY <1>2, <1>3, <1>4, <1>5, <2>1 DEF OrderOK, Ordered
<1>7. /\ w.pc = "dead" /\ w.rows = 0 /\ queue = <<>> /\ p.events = <<>> /\ p.barriers = {}
      /\ p.seen = <<>> /\ ~unread
  BY DEF Init
<1>8. \A kind : ~Heard(kind) /\ ~Told(kind)
  BY <1>7, KindsOfNone DEF Heard, Told
<1>9. TelemetryOK
  BY <1>7, <1>8 DEF TelemetryOK
<1>10. ParentOK
  <2>1. \A kind \in Awaited \cap StatementsOf(scenario) : Owes(kind)
    BY <1>2, <1>5
  <2>2. "send" \in StatementsOf(scenario) => Owes("send")
    BY <1>2, <1>5
  <2>3. Owes("close")
    BY <1>5 DEF StatementsOf
  <2>4. scenario # "effect-unobserved" =>
          \E i, j \in DOMAIN p.todo : i < j /\ p.todo[i] = "observe" /\ p.todo[j] = "observe"
    BY <1>2, <1>3, <1>4 DEF Twice
  <2> QED BY <1>7, <1>8, <2>1, <2>2, <2>3, <2>4 DEF ParentOK
<1>11. ActionOK
  <2>1. 0 \in Nat /\ 0 <= BusinessSteps
    BY StepsAssumption
  <2> QED BY <1>7, <1>8, <2>1 DEF ActionOK, Before, Acting
<1>12. DispatchOK /\ ScenarioOK
  BY <1>7, <1>8 DEF DispatchOK, ScenarioOK, UndisturbedOK, EarlyOK, LateOK
<1> QED BY <1>1, <1>6, <1>9, <1>10, <1>11, <1>12 DEF PointInv
-----------------------------------------------------------------------------
(* The worker's part.                                                      *)

\* What the order of the script says of a run that does not fail.
LEMMA OrderSays ==
  ASSUME PointInv, p.failure = "none"
  PROVE  /\ Early(scenario) /\ ~Owes("begin") => Heard("decision_recorded")
         /\ scenario # "normal" /\ ~Owes("continue") /\ ~Early(scenario) => Heard("decision_recorded")
         /\ Heard("decision_recorded") => Heard("worker_ready")
         /\ Heard("decision_recorded") /\ ~Early(scenario) => Heard("action_barrier_reached")
<1>1. \A x \in Statement, y \in StatementsOf(scenario) :
        Owes(x) /\ Rank(scenario, x) < Rank(scenario, y) => Owes(y)
  BY DEF PointInv, OrderOK
<1>2. {"send", "begin", "continue", "worker_ready", "action_barrier_reached"} \subseteq Statement
  BY DEF Statement, Awaited
<1>3. /\ Heard("decision_recorded") <=> "send" \in StatementsOf(scenario) /\ ~Owes("send")
      /\ \A kind \in Awaited \cap StatementsOf(scenario) : Owes(kind) \/ Heard(kind)
  BY DEF PointInv, ParentOK
<1>4. "begin" \in StatementsOf(scenario) /\ "worker_ready" \in Awaited \cap StatementsOf(scenario)
  BY DEF StatementsOf, Awaited
<1>5. Early(scenario) => "send" \in StatementsOf(scenario) /\ Rank(scenario, "send") < Rank(scenario, "begin")
  BY RanksAre DEF StatementsOf, Early
<1>6. ~Early(scenario) => /\ "action_barrier_reached" \in Awaited \cap StatementsOf(scenario)
                          /\ "continue" \in StatementsOf(scenario)
                          /\ Rank(scenario, "action_barrier_reached") < Rank(scenario, "send")
                          /\ Rank(scenario, "send") < Rank(scenario, "continue")
  BY RanksAre DEF StatementsOf, Awaited
<1>7. scenario # "normal" => "send" \in StatementsOf(scenario)
  BY DEF StatementsOf
<1>8. Rank(scenario, "worker_ready") < Rank(scenario, "send")
  BY RanksAre
<1> QED BY <1>1, <1>2, <1>3, <1>4, <1>5, <1>6, <1>7, <1>8

\* A step of the worker: it goes from one place to another and tells kinds.
Acts(from, to, kinds) ==
  /\ w.pc = from /\ w'.pc = to /\ scenario' = scenario /\ p' = p
  /\ \A x : Owes(x)' <=> Owes(x)
  /\ \A kind : Heard(kind)' <=> Heard(kind)
  /\ \A kind : Told(kind)' <=> Told(kind) \/ kind \in kinds

\* What the worker tells is told after it, and nothing else changes.
LEMMA WorkerTells ==
  ASSUME PointInv, NEW pcs, NEW new, NEW kinds \in Seq(WorkerKind), Worker(pcs, new, kinds),
         NEW to, new.pc = to, NEW from, w.pc = from
  PROVE  Acts(from, to, KindsOf(kinds)) /\ w' = new /\ from \in pcs
<1>1. /\ w' = new /\ p' = p /\ scenario' = scenario /\ queue' = queue \o kinds /\ w.pc \in pcs
      /\ queue \in Seq(WorkerKind)
  BY DEF Worker, PointInv, RunInv, WorldOK
<1>2. KindsOf(queue') = KindsOf(queue) \cup KindsOf(kinds)
  BY <1>1, KindsJoin
<1>3. /\ \A x : Owes(x)' <=> Owes(x)
      /\ \A kind : Heard(kind)' <=> Heard(kind)
      /\ \A kind : Told(kind)' <=> Told(kind) \/ kind \in KindsOf(kinds)
  BY <1>1, <1>2 DEF Owes, Heard, Told
<1> QED BY <1>1, <1>3 DEF Acts

\* The end of the action is the last that a worker tells.
LEMMA EndComesLast ==
  ASSUME PointInv, NEW kinds \in Seq(WorkerKind), NEW from, NEW to, NEW K, K = KindsOf(kinds), Acts(from, to, K),
         queue' = queue \o kinds, from \in Ended => to \in Ended /\ kinds = <<>>,
         \A i \in DOMAIN kinds : kinds[i] = "worker_finished" => i = Len(kinds) /\ to \in Ended
  PROVE  TelemetryOK'
<1>1. /\ queue \in Seq(WorkerKind) /\ TelemetryOK
      /\ Told("worker_finished") => from \in Ended
  BY DEF PointInv, RunInv, WorldOK, TelemetryOK, Acts
<1>2. CASE from \in Ended
  <2>1. queue' = queue
    BY <1>1, <1>2
  <2>2. KindsOf(kinds) = {}
    BY <1>2, KindsOfNone
  <2> QED BY <1>1, <1>2, <2>1, <2>2 DEF TelemetryOK, Acts
<1>3. CASE from \notin Ended
  <2>1. /\ Len(queue) \in Nat /\ Len(kinds) \in Nat /\ DOMAIN queue = 1 .. Len(queue)
        /\ DOMAIN kinds = 1 .. Len(kinds) /\ DOMAIN queue' = 1 .. (Len(queue) + Len(kinds))
        /\ Len(queue') = Len(queue) + Len(kinds)
    BY <1>1
  <2>2. /\ \A i \in DOMAIN queue : queue'[i] = queue[i]
        /\ \A i \in DOMAIN queue' : i \notin DOMAIN queue =>
             i - Len(queue) \in DOMAIN kinds /\ queue'[i] = kinds[i - Len(queue)]
    BY <1>1, <2>1
  <2>3. \A i \in DOMAIN queue : queue[i] # "worker_finished"
    BY <1>1, <1>3 DEF Told, KindsOf
  <2>4. \A i \in DOMAIN queue' : queue'[i] = "worker_finished" => i = Len(queue')
    <3> SUFFICES ASSUME NEW i \in DOMAIN queue', queue'[i] = "worker_finished" PROVE i = Len(queue')
      OBVIOUS
    <3>1. i \notin DOMAIN queue
      BY <2>2, <2>3
    <3>2. i - Len(queue) = Len(kinds)
      BY <2>2, <3>1
    <3> QED BY <2>1, <3>2
  <2>5. ~Heard("worker_finished")'
    BY <1>1, <1>3 DEF Told, Heard, Acts
  <2>6. Told("worker_finished")' => to \in Ended
    BY <1>1, <1>3 DEF Acts, KindsOf
  <2> QED BY <2>4, <2>5, <2>6 DEF TelemetryOK, Acts
<1> QED BY <1>2, <1>3

\* A step of the worker keeps the rest.
LEMMA WorkerPoints ==
  ASSUME PointInv, RunInv', NEW from, NEW to, NEW kinds, Acts(from, to, kinds), TelemetryOK',
         p.failure = "none" => ActionOK' /\ DispatchOK' /\ ScenarioOK'
  PROVE  PointInv'
<1>1. OrderOK'
  BY DEF PointInv, OrderOK, Acts
<1>2. ParentOK => ParentOK'
  BY DEF ParentOK, Acts
<1>3. p' = p /\ scenario' = scenario
  BY DEF Acts
<1> QED BY <1>1, <1>2, <1>3 DEF PointInv

\* Before its end a worker told of none.
LEMMA NotYet ==
  ASSUME PointInv
  PROVE  /\ w.pc \notin Ended => ~Told("worker_finished") /\ ~Owes("start")
         /\ w.rows \in Nat /\ BusinessSteps \in Nat \ {0}
  BY StepsAssumption DEF PointInv, TelemetryOK, RunInv, WorldOK, WorkerType, StopOK, Ended

\* What that says of the kinds that matter.
Matter(from, to, K) ==
  /\ w.pc = from /\ w'.pc = to /\ scenario' = scenario /\ p'.barriers = p.barriers
  /\ Owes("start")' <=> Owes("start")
  /\ Heard("decision_recorded")' <=> Heard("decision_recorded")
  /\ Heard("issuer_dispatched")' <=> Heard("issuer_dispatched")
  /\ Heard("delivery_failed")' <=> Heard("delivery_failed")
  /\ Told("worker_ready")' <=> Told("worker_ready") \/ "worker_ready" \in K
  /\ Told("action_barrier_reached")' <=> Told("action_barrier_reached") \/ "action_barrier_reached" \in K
  /\ Told("worker_finished")' <=> Told("worker_finished") \/ "worker_finished" \in K
  /\ Told("receiver_observed")' <=> Told("receiver_observed") \/ "receiver_observed" \in K
  /\ Told("enforcement_requested")' <=> Told("enforcement_requested") \/ "enforcement_requested" \in K
  /\ Told("enforcement_unavailable")' <=>
       Told("enforcement_unavailable") \/ "enforcement_unavailable" \in K
  /\ Told("native_interrupt_observed")' <=>
       Told("native_interrupt_observed") \/ "native_interrupt_observed" \in K

\* The kinds that matter are among all.
LEMMA ActsMatter ==
  ASSUME NEW from, NEW to, NEW K, Acts(from, to, K)
  PROVE  Matter(from, to, K)
  BY DEF Acts, Matter

\* Going from one statement to another.
LEMMA GoesTells ==
  ASSUME PointInv, NEW from, NEW to, NEW kinds \in Seq(WorkerKind), Goes(from, to, kinds)
  PROVE  /\ Acts(from, to, KindsOf(kinds)) /\ w'.rows = w.rows /\ w'.control = w.control
         /\ unread' = unread /\ queue' = queue \o kinds
<1>1. w \in WorkerType
  BY DEF PointInv, RunInv, WorldOK
<1>2. PICK new : new = [w EXCEPT !.pc = to]
  OBVIOUS
<1>3. new.pc = to /\ new.rows = w.rows /\ new.control = w.control
  BY <1>1, <1>2 DEF WorkerType
<1>4. Worker({from}, new, kinds) /\ w.pc = from /\ unread' = unread /\ queue' = queue \o kinds
  BY <1>2 DEF Goes, Worker
<1> QED BY <1>3, <1>4, WorkerTells

\* None of these kinds is the end of an action.
LEMMA NoEnd ==
  ASSUME NEW kinds \in Seq(WorkerKind), "worker_finished" \notin KindsOf(kinds)
  PROVE  \A i \in DOMAIN kinds : kinds[i] # "worker_finished"
  BY DEF KindsOf

\* The endpoint is closed, if it is, before anything is told.
LEMMA CloseEndpointPoints == ASSUME PointInv, RunInv', CloseEndpoint PROVE PointInv'
<1>1. PICK kinds : /\ kinds = IF scenario = "receiver-unreachable" THEN <<"receiver_endpoint_closed">> ELSE <<>>
  OBVIOUS
<1>2. kinds \in Seq(WorkerKind) /\ KindsOf(kinds) \subseteq {"receiver_endpoint_closed"}
  <2>1. "receiver_endpoint_closed" \in WorkerKind
    BY DEF WorkerKind
  <2> QED BY <1>1, <2>1, KindsOfNone, KindsOfOne
<1>3. /\ Acts("spawned", "announce", KindsOf(kinds)) /\ w'.rows = w.rows /\ unread' = unread
      /\ w'.control = IF scenario = "receiver-unreachable" THEN FALSE ELSE w.control
      /\ queue' = queue \o kinds
  <2>1. CASE scenario = "receiver-unreachable"
    <3>1. PICK new : new = [w EXCEPT !.pc = "announce", !.control = FALSE]
      OBVIOUS
    <3>2. new.pc = "announce" /\ new.rows = w.rows /\ new.control = FALSE
      BY <3>1 DEF PointInv, RunInv, WorldOK, WorkerType
    <3>3. /\ Worker({"spawned"}, new, kinds) /\ w.pc = "spawned" /\ unread' = unread
          /\ queue' = queue \o kinds
      BY <1>1, <2>1, <3>1 DEF CloseEndpoint, Worker
    <3> QED BY <1>2, <2>1, <3>2, <3>3, WorkerTells
  <2>2. CASE scenario # "receiver-unreachable"
    <3>1. Goes("spawned", "announce", kinds)
      BY <1>1, <2>2 DEF CloseEndpoint
    <3> QED BY <1>2, <2>2, <3>1, GoesTells
  <2> QED BY <2>1, <2>2
<1>4. TelemetryOK'
  <2>1. "worker_finished" \notin KindsOf(kinds) /\ "spawned" \notin Ended
    BY <1>2 DEF Ended
  <2> QED BY <1>2, <1>3, <2>1, NoEnd, EndComesLast
<1>5. ASSUME p.failure = "none" PROVE ActionOK' /\ DispatchOK' /\ ScenarioOK'
  <2>0. Matter("spawned", "announce", KindsOf(kinds))
    BY <1>3, ActsMatter
  <2>1. ActionOK /\ DispatchOK /\ ScenarioOK
    BY <1>5 DEF PointInv
  <2>2. ~Told("worker_finished") /\ ~Owes("start")
    BY <1>3, NotYet DEF Ended, Acts
  <2>3. ActionOK'
    BY <2>0, <1>2, <1>3, <2>1, <2>2 DEF ActionOK, Matter, Before, Acting, Interrupted
  <2>4. DispatchOK'
    BY <2>0, <1>2, <1>3, <2>1 DEF DispatchOK, Matter
  <2>5. ScenarioOK'
    BY <2>0, <1>2, <1>3, <2>1, <2>2 DEF ScenarioOK, UndisturbedOK, EarlyOK, LateOK, ActionOK, Matter, Before, Ended, Interrupted
  <2> QED BY <2>3, <2>4, <2>5
<1> QED BY <1>3, <1>4, <1>5, WorkerPoints

\* The announcement that the worker is ready comes before every stop.
LEMMA AnnouncePoints == ASSUME PointInv, RunInv', Announce PROVE PointInv'
<1>1. PICK kinds : kinds = <<"worker_ready">>
  OBVIOUS
<1>2. kinds \in Seq(WorkerKind) /\ KindsOf(kinds) = {"worker_ready"}
  <2>1. "worker_ready" \in WorkerKind
    BY DEF WorkerKind
  <2> QED BY <1>1, <2>1, KindsOfOne
<1>3. /\ Acts("announce", "wait begin", {"worker_ready"}) /\ w'.rows = w.rows /\ w'.control = w.control
      /\ unread' = unread /\ queue' = queue \o kinds
  BY <1>1, <1>2, GoesTells DEF Announce
<1>4. TelemetryOK'
  <2>1. "worker_finished" \notin KindsOf(kinds) /\ "announce" \notin Ended
    BY <1>2 DEF Ended
  <2> QED BY <1>2, <1>3, <2>1, NoEnd, EndComesLast
<1>5. ASSUME p.failure = "none" PROVE ActionOK' /\ DispatchOK' /\ ScenarioOK'
  <2>0. Matter("announce", "wait begin", {"worker_ready"})
    BY <1>3, ActsMatter
  <2>1. ActionOK /\ DispatchOK /\ ScenarioOK
    BY <1>5 DEF PointInv
  <2>2. ~Told("worker_finished") /\ ~Owes("start")
    BY <1>3, NotYet DEF Ended, Acts
  <2>3. ~Heard("decision_recorded")
    <3>1. Heard("decision_recorded") => Heard("worker_ready")
      BY <1>5, OrderSays
    <3> QED BY <1>3, <2>1, <3>1 DEF ActionOK, Acts, Heard, Told
  <2>4. ActionOK'
    BY <2>0, <1>3, <2>1, <2>2 DEF ActionOK, Matter, Before, Acting, Interrupted
  <2>5. DispatchOK'
    BY <2>0, <1>3, <2>1 DEF DispatchOK, Matter
  <2>6. ScenarioOK'
    BY <2>0, <1>3, <2>1, <2>2, <2>3 DEF ScenarioOK, UndisturbedOK, EarlyOK, LateOK, ActionOK, Matter, Before, Ended, Interrupted
  <2> QED BY <2>4, <2>5, <2>6
<1> QED BY <1>3, <1>4, <1>5, WorkerPoints

\* The action begins, or is resumed, at a checkpoint.
LEMMA BarrierPoints == ASSUME PointInv, RunInv', Begin \/ Continue PROVE PointInv'
<1>1. PICK kinds : kinds = IF Begin THEN <<"graph_invocation_started", "node_entered">> ELSE <<>>
  OBVIOUS
<1>2. kinds \in Seq(WorkerKind) /\ KindsOf(kinds) \subseteq {"graph_invocation_started", "node_entered"}
  <2>1. "graph_invocation_started" \in WorkerKind /\ "node_entered" \in WorkerKind
    BY DEF WorkerKind
  <2>2. CASE Begin
    BY <1>1, <2>1, <2>2, KindsOfTwo
  <2>3. CASE ~Begin
    BY <1>1, <2>3, KindsOfNone
  <2> QED BY <2>2, <2>3
<1>3. PICK from : /\ \/ from = "wait begin" /\ "begin" \in p.barriers
                     \/ from = "wait continue" /\ "continue" \in p.barriers
                  /\ Goes(from, "checkpoint", kinds)
  BY <1>1 DEF Begin, Continue, Goes, Worker
<1>k. PICK K \in SUBSET {"graph_invocation_started", "node_entered"} : K = KindsOf(kinds)
  BY <1>2
<1>4. /\ Acts(from, "checkpoint", K) /\ w'.rows = w.rows /\ w'.control = w.control
      /\ unread' = unread /\ queue' = queue \o kinds
  BY <1>2, <1>3, <1>k, GoesTells
<1>5. TelemetryOK'
  <2>1. "worker_finished" \notin KindsOf(kinds) /\ from \notin Ended
    BY <1>2, <1>3 DEF Ended
  <2> QED BY <1>2, <1>4, <1>k, <2>1, NoEnd, EndComesLast
<1>6. ASSUME p.failure = "none" PROVE ActionOK' /\ DispatchOK' /\ ScenarioOK'
  <2>0. Matter(from, "checkpoint", K)
    BY <1>4, ActsMatter
  <2>1. ActionOK /\ DispatchOK /\ ScenarioOK /\ ParentOK
    BY <1>6 DEF PointInv
  <2>2. ~Told("worker_finished") /\ ~Owes("start")
    BY <1>3, <1>4, NotYet DEF Ended, Acts
  <2>3. /\ "begin" \in p.barriers /\ Early(scenario) => Heard("decision_recorded")
        /\ "continue" \in p.barriers /\ ~Early(scenario) /\ scenario # "normal" => Heard("decision_recorded")
    BY <1>6, <2>1, OrderSays DEF ParentOK
  <2>4. ActionOK'
    BY <2>0, <1>3, <1>4, <2>1, <2>2 DEF ActionOK, Matter, Before, Acting, Interrupted
  <2>5. DispatchOK'
    BY <2>0, <1>4, <2>1 DEF DispatchOK, Matter
  <2>6. ScenarioOK'
    BY <2>0, <1>3, <1>4, <2>1, <2>2, <2>3
    DEF ScenarioOK, UndisturbedOK, EarlyOK, LateOK, ActionOK, Matter, Before, Ended, Interrupted, Early
  <2> QED BY <2>4, <2>5, <2>6
<1> QED BY <1>4, <1>5, <1>6, WorkerPoints

\* Without a stop to read the action goes on.
LEMMA NoStopPoints == ASSUME PointInv, RunInv', NoStop PROVE PointInv'
<1>1. PICK to \in {"write", "complete"} : to = AfterCheckpoint
  BY DEF AfterCheckpoint
<1>2. <<>> \in Seq(WorkerKind) /\ KindsOf(<<>>) = {}
  BY KindsOfNone
<1>3. /\ Acts("checkpoint", to, {}) /\ w'.rows = w.rows /\ w'.control = w.control
      /\ unread' = unread /\ queue' = queue \o <<>> /\ (scenario = "receiver-unreachable" \/ ~unread)
  BY <1>1, <1>2, GoesTells DEF NoStop
<1>4. TelemetryOK'
  <2>1. "checkpoint" \notin Ended
    BY DEF Ended
  <2> QED BY <1>2, <1>3, <2>1, NoEnd, EndComesLast
<1>5. ASSUME p.failure = "none" PROVE ActionOK' /\ DispatchOK' /\ ScenarioOK'
  <2>0. Matter("checkpoint", to, {})
    BY <1>3, ActsMatter
  <2>1. ActionOK /\ DispatchOK /\ ScenarioOK /\ ParentOK
    BY <1>5 DEF PointInv
  <2>2. ~Told("worker_finished") /\ ~Owes("start") /\ w.rows \in Nat /\ BusinessSteps \in Nat \ {0}
    BY <1>3, NotYet DEF Ended, Acts
  <2>3. "begin" \in p.barriers /\ Early(scenario) => Heard("decision_recorded")
    BY <1>5, <2>1, OrderSays DEF ParentOK
  <2>4. /\ to = "write" => w.rows < BusinessSteps
        /\ to = "complete" => w.rows = BusinessSteps
    BY <1>1, <2>1, <2>2 DEF AfterCheckpoint, ActionOK
  <2>5. ActionOK'
    BY <2>0, <1>3, <2>1, <2>2, <2>4 DEF ActionOK, Matter, Before, Acting, Interrupted
  <2>6. DispatchOK'
    BY <2>0, <1>3, <2>1 DEF DispatchOK, Matter
  <2>7. ScenarioOK'
    BY <2>0, <1>3, <2>1, <2>2, <2>3, <2>4
    DEF ScenarioOK, UndisturbedOK, EarlyOK, LateOK, ActionOK, Matter, Acting, Ended, Interrupted, Early
  <2> QED BY <2>5, <2>6, <2>7
<1> QED BY <1>3, <1>4, <1>5, WorkerPoints

\* The stop is read, and obeyed or not.
LEMMA ReadStopPoints == ASSUME PointInv, RunInv', ReadStop PROVE PointInv'
<1>1. PICK to : to = IF scenario = "receiver-ignores-stop" THEN AfterCheckpoint ELSE "interrupted"
  OBVIOUS
<1>2. PICK what : what = IF scenario = "receiver-ignores-stop" THEN "enforcement_unavailable"
                         ELSE "enforcement_requested"
  OBVIOUS
<1>3. PICK kinds : kinds = <<"receiver_observed", what>>
  OBVIOUS
<1>4. kinds \in Seq(WorkerKind) /\ KindsOf(kinds) = {"receiver_observed", what}
  <2>1. "receiver_observed" \in WorkerKind /\ what \in WorkerKind
    BY <1>2 DEF WorkerKind
  <2> QED BY <1>3, <2>1, KindsOfTwo
<1>5. /\ Acts("checkpoint", to, {"receiver_observed", what}) /\ w'.rows = w.rows /\ w'.control = w.control
      /\ ~unread' /\ unread /\ scenario # "receiver-unreachable" /\ queue' = queue \o kinds
  <2>1. PICK new : new = [w EXCEPT !.pc = to]
    OBVIOUS
  <2>2. new.pc = to /\ new.rows = w.rows /\ new.control = w.control
    BY <2>1 DEF PointInv, RunInv, WorldOK, WorkerType
  <2>3. Worker({"checkpoint"}, new, kinds)
    BY <1>1, <1>2, <1>3, <2>1 DEF ReadStop
  <2>4. w.pc = "checkpoint" /\ queue' = queue \o kinds
    BY <2>3 DEF Worker
  <2>5. Acts("checkpoint", to, KindsOf(kinds)) /\ w' = new
    BY <1>4, <2>2, <2>3, <2>4, WorkerTells
  <2> QED BY <1>4, <2>2, <2>4, <2>5 DEF ReadStop
<1>6. TelemetryOK'
  <2>1. "checkpoint" \notin Ended /\ "worker_finished" \notin KindsOf(kinds)
    BY <1>2, <1>4 DEF Ended
  <2> QED BY <1>4, <1>5, <2>1, NoEnd, EndComesLast
<1>7. ASSUME p.failure = "none" PROVE ActionOK' /\ DispatchOK' /\ ScenarioOK'
  <2>0. Matter("checkpoint", to, {"receiver_observed", what})
    BY <1>5, ActsMatter
  <2>1. ActionOK /\ DispatchOK /\ ScenarioOK /\ ParentOK
    BY <1>7 DEF PointInv
  <2>2. ~Told("worker_finished") /\ ~Owes("start") /\ w.rows \in Nat /\ BusinessSteps \in Nat \ {0}
    BY <1>5, NotYet DEF Ended, Acts
  <2>3. ~Early(scenario) => w.rows >= 1
    <3>1. Heard("decision_recorded")
      BY <1>5, <2>1 DEF DispatchOK, ParentOK
    <3>2. ~Early(scenario) => Told("action_barrier_reached")
      BY <1>7, <3>1, OrderSays DEF Told, Heard
    <3> QED BY <2>1, <3>2 DEF ActionOK
  <2>4. /\ scenario = "receiver-ignores-stop" => to \in {"write", "complete"}
        /\ scenario # "receiver-ignores-stop" => to = "interrupted"
        /\ to = "write" => w.rows < BusinessSteps
        /\ to = "complete" => w.rows = BusinessSteps
    BY <1>1, <2>1, <2>2 DEF AfterCheckpoint, ActionOK
  <2>5. ActionOK'
    BY <2>0, <1>2, <1>5, <2>1, <2>2, <2>4 DEF ActionOK, Matter, Before, Acting, Interrupted
  <2>6. DispatchOK'
    BY <2>0, <1>5, <2>1 DEF DispatchOK, Matter
  <2>7. CASE Early(scenario)
    <3>1. EarlyOK'
      BY <2>0, <1>2, <1>5, <2>1, <2>2, <2>4, <2>7 DEF ScenarioOK, EarlyOK, Matter, Ended, Early
    <3> QED BY <2>5, <2>6, <2>7, <3>1, <2>0 DEF ScenarioOK, Early, Matter
  <2>8. CASE scenario = "stop-during-action"
    <3>1. LateOK
      BY <2>1, <2>8 DEF ScenarioOK
    <3>2. ~Told("receiver_observed") /\ w.rows = 1 /\ "continue" \in p.barriers
      BY <2>3, <2>8, <3>1, <1>5 DEF LateOK, Acts, Ended, Early
    <3>3. LateOK'
      BY <2>0, <1>2, <1>5, <2>2, <2>4, <2>8, <3>1, <3>2 DEF LateOK, Matter, Ended, Interrupted
    <3> QED BY <2>5, <2>6, <2>8, <3>3, <2>0 DEF ScenarioOK, Matter
  <2>9. CASE scenario = "receiver-ignores-stop"
    <3>1. LateOK
      BY <2>1, <2>9 DEF ScenarioOK
    <3>2. w.rows >= 1 /\ "continue" \in p.barriers
      BY <2>3, <2>9, <3>1, <1>5 DEF LateOK, Acts, Early
    <3>3. LateOK'
      BY <2>0, <1>2, <1>5, <2>2, <2>4, <2>9, <3>1, <3>2 DEF LateOK, Matter, Ended, Interrupted
    <3> QED BY <2>5, <2>6, <2>9, <3>3, <2>0 DEF ScenarioOK, Matter
  <2>10. scenario # "normal"
    BY <1>5, <2>1 DEF ScenarioOK, UndisturbedOK
  <2>11. scenario \in Scenarios
    BY DEF PointInv
  <2> QED BY <1>5, <2>7, <2>8, <2>9, <2>10, <2>11 DEF Scenarios, Early
<1> QED BY <1>5, <1>6, <1>7, WorkerPoints

\* One more line in the file of effects.
LEMMA WriteStepPoints == ASSUME PointInv, RunInv', WriteStep PROVE PointInv'
<1>1. PICK new : new = [w EXCEPT !.pc = "written", !.rows = @ + 1]
  OBVIOUS
<1>2. new.pc = "written" /\ new.rows = w.rows + 1 /\ new.control = w.control
  BY <1>1 DEF PointInv, RunInv, WorldOK, WorkerType
<1>3. <<>> \in Seq(WorkerKind) /\ KindsOf(<<>>) = {}
  BY KindsOfNone
<1>4. Worker({"write"}, new, <<>>) /\ w.pc = "write" /\ unread' = unread /\ queue' = queue \o <<>>
  BY <1>1 DEF WriteStep, Worker
<1>5. /\ Acts("write", "written", {}) /\ w'.rows = w.rows + 1 /\ w'.control = w.control
      /\ unread' = unread /\ queue' = queue \o <<>>
  <2>1. Acts("write", "written", KindsOf(<<>>)) /\ w' = new
    BY <1>2, <1>3, <1>4, WorkerTells
  <2> QED BY <1>2, <1>3, <1>4, <2>1
<1>6. TelemetryOK'
  <2>1. "write" \notin Ended
    BY DEF Ended
  <2> QED BY <1>3, <1>5, <2>1, NoEnd, EndComesLast
<1>7. ASSUME p.failure = "none" PROVE ActionOK' /\ DispatchOK' /\ ScenarioOK'
  <2>0. Matter("write", "written", {})
    BY <1>5, ActsMatter
  <2>1. ActionOK /\ DispatchOK /\ ScenarioOK
    BY <1>7 DEF PointInv
  <2>2. ~Told("worker_finished") /\ ~Owes("start") /\ w.rows \in Nat /\ BusinessSteps \in Nat \ {0}
    BY <1>5, NotYet DEF Ended, Acts
  <2>3. ActionOK'
    BY <2>0, <1>5, <2>1, <2>2 DEF ActionOK, Matter, Before, Acting, Interrupted
  <2>4. DispatchOK'
    BY <2>0, <1>5, <2>1 DEF DispatchOK, Matter
  <2>5. UndisturbedOK => UndisturbedOK'
    BY <2>0, <1>5, <2>2 DEF UndisturbedOK, Matter, Interrupted
  <2>6. ~EarlyOK
    BY <1>5 DEF EarlyOK, Acts
  <2>7. LateOK => LateOK'
    <3> SUFFICES ASSUME LateOK PROVE LateOK'
      OBVIOUS
    <3>1. Told("action_barrier_reached") => w.rows >= 1
      BY <2>1 DEF ActionOK
    <3>2. /\ Told("receiver_observed") /\ scenario = "stop-during-action" => FALSE
          /\ ~Told("receiver_observed") => w.rows = 0
      BY <2>0 DEF LateOK, Matter, Ended
    <3> QED BY <2>0, <1>5, <2>2, <3>1, <3>2 DEF LateOK, Matter, Ended, Interrupted
  <2> QED BY <2>0, <2>1, <2>3, <2>4, <2>5, <2>6, <2>7 DEF ScenarioOK, Matter
<1> QED BY <1>5, <1>6, <1>7, WorkerPoints

\* One is less than two.
LEMMA OneIsFew == ASSUME NEW n, n = 1 PROVE ~(n >= 2)
  OBVIOUS

\* The step is told; the first one holds the worker at the barrier.
LEMMA TellStepPoints == ASSUME PointInv, RunInv', TellStep PROVE PointInv'
<1>0. w.pc = "written"
  BY DEF TellStep, Goes, Worker
<1>1. PICK to \in {"wait continue", "checkpoint"} :
        to = IF w.rows = 1 THEN "wait continue" ELSE "checkpoint"
  OBVIOUS
<1>2. PICK kinds : kinds = IF w.rows = 1 THEN <<"business_step_written", "action_barrier_reached">>
                           ELSE <<"business_step_written">>
  OBVIOUS
<1>3. /\ kinds \in Seq(WorkerKind) /\ "worker_finished" \notin KindsOf(kinds)
      /\ KindsOf(kinds) = IF w.rows = 1 THEN {"business_step_written", "action_barrier_reached"}
                          ELSE {"business_step_written"}
  <2>1. "business_step_written" \in WorkerKind /\ "action_barrier_reached" \in WorkerKind
    BY DEF WorkerKind
  <2>2. CASE w.rows = 1
    <3>1. kinds \in Seq(WorkerKind) /\ KindsOf(kinds) = {"business_step_written", "action_barrier_reached"}
      BY <1>2, <2>1, <2>2, KindsOfTwo
    <3> QED BY <2>2, <3>1
  <2>3. CASE w.rows # 1
    <3>1. kinds \in Seq(WorkerKind) /\ KindsOf(kinds) = {"business_step_written"}
      BY <1>2, <2>1, <2>3, KindsOfOne
    <3> QED BY <2>3, <3>1
  <2> QED BY <2>2, <2>3
<1>k. PICK K : K = KindsOf(kinds)
  OBVIOUS
<1>4. Goes("written", to, kinds)
  BY <1>1, <1>2 DEF TellStep
<1>5. /\ Acts("written", to, K) /\ w'.rows = w.rows /\ w'.control = w.control
      /\ unread' = unread /\ queue' = queue \o kinds
  BY <1>3, <1>4, <1>k, GoesTells
<1>6. TelemetryOK'
  <2>1. "written" \notin Ended
    BY DEF Ended
  <2> QED BY <1>3, <1>5, <1>k, <2>1, NoEnd, EndComesLast
<1>7. ASSUME p.failure = "none" PROVE ActionOK' /\ DispatchOK' /\ ScenarioOK'
  <2>0. Matter("written", to, K)
    BY <1>5, ActsMatter
  <2>1. ActionOK /\ DispatchOK /\ ScenarioOK
    BY <1>7 DEF PointInv
  <2>2. ~Told("worker_finished") /\ ~Owes("start") /\ w.rows \in Nat /\ BusinessSteps \in Nat \ {0}
    BY <1>0, NotYet DEF Ended
  <2>3. /\ w.rows >= 1 /\ (w.rows = 1 <=> to = "wait continue")
        /\ "action_barrier_reached" \in K <=> to = "wait continue"
        /\ K \subseteq {"business_step_written", "action_barrier_reached"}
    <3>1. w.rows >= 1
      BY <1>0, <2>1 DEF ActionOK
    <3>2. w.rows = 1 <=> to = "wait continue"
      BY <1>1
    <3>3. CASE w.rows = 1
      BY <1>3, <1>k, <3>1, <3>2, <3>3
    <3>4. CASE w.rows # 1
      <4>1. K = {"business_step_written"}
        BY <1>3, <1>k, <3>4
      <4> QED BY <3>1, <3>2, <3>4, <4>1
    <3> QED BY <3>3, <3>4
  <2>4. ActionOK'
    BY <2>0, <1>5, <2>1, <2>2, <2>3 DEF ActionOK, Matter, Before, Acting, Interrupted
  <2>5. DispatchOK'
    BY <2>0, <1>5, <2>1, <2>3 DEF DispatchOK, Matter
  <2>6. UndisturbedOK => UndisturbedOK'
    BY <2>0, <1>5, <2>2, <2>3 DEF UndisturbedOK, Matter, Interrupted
  <2>7. ~EarlyOK
    BY <1>0 DEF EarlyOK
  <2>8. LateOK => LateOK'
    <3> SUFFICES ASSUME LateOK PROVE LateOK'
      OBVIOUS
    <3>1. /\ Told("receiver_observed") /\ scenario = "stop-during-action" => FALSE
          /\ ~Told("receiver_observed") => w.rows = 1 /\ ~Told("action_barrier_reached")
          /\ Told("receiver_observed") => w.rows >= 2
      BY <1>0 DEF LateOK, Ended
    <3>2. ~Told("action_barrier_reached") => ~Heard("action_barrier_reached")
      BY DEF Told, Heard
    <3>3. to = "wait continue" => (Heard("decision_recorded") => unread)
      <4> SUFFICES ASSUME to = "wait continue", Heard("decision_recorded") PROVE FALSE
        OBVIOUS
      <4>1. Early(scenario) \/ Told("action_barrier_reached")
        BY <1>7, <3>2, OrderSays
      <4>2. ~Told("receiver_observed") /\ ~Told("action_barrier_reached")
        <5>0. to = "wait continue"
          OBVIOUS
        <5>1. w.rows = 1
          BY <2>3, <5>0, Zenon
        <5>2. ~Told("receiver_observed")
          <6>1. ~(w.rows >= 2)
            BY <5>1, OneIsFew, Zenon
          <6> QED BY <3>1, <6>1, Zenon
        <5> QED BY <3>1, <5>2
      <4>3. ~Early(scenario)
        BY <2>1, <2>7 DEF ScenarioOK, Early
      <4> QED BY <4>1, <4>2, <4>3
    <3>4. CASE to = "wait continue"
      <4>1. w.rows = 1 /\ "action_barrier_reached" \in K
        BY <2>3, <3>4, Zenon
      <4>2. ~(w.rows >= 2)
        BY <4>1, OneIsFew, Zenon
      <4>3. ~Told("receiver_observed")
        BY <3>1, <4>2, Zenon
      <4> QED BY <2>0, <1>5, <2>2, <2>3, <3>1, <3>3, <3>4, <4>1, <4>3 DEF LateOK, Matter, Ended, Interrupted
    <3>5. CASE to = "checkpoint"
      <4>1. w.rows # 1 /\ "action_barrier_reached" \notin K
        BY <2>3, <3>5
      <4>2. Told("receiver_observed") /\ w.rows >= 2
        BY <3>1, <4>1
      <4> QED BY <2>0, <1>5, <2>2, <2>3, <3>1, <3>5, <4>1, <4>2 DEF LateOK, Matter, Ended, Interrupted
    <3> QED BY <1>1, <3>4, <3>5
  <2> QED BY <2>0, <2>1, <2>4, <2>5, <2>6, <2>7, <2>8 DEF ScenarioOK, Matter
<1> QED BY <1>5, <1>6, <1>7, WorkerPoints

\* The action ends in an interrupt or in its last step.
LEMMA ConcludePoints == ASSUME PointInv, RunInv', Conclude PROVE PointInv'
<1>1. PICK from \in {"interrupted", "complete"}, what \in {"native_interrupt_observed", "graph_completed"} :
        /\ from = "interrupted" <=> what = "native_interrupt_observed"
        /\ Goes(from, "finally", <<what, "worker_finished">>)
  BY DEF Conclude
<1>2. PICK kinds : kinds = <<what, "worker_finished">>
  OBVIOUS
<1>3. /\ kinds \in Seq(WorkerKind) /\ KindsOf(kinds) = {what, "worker_finished"}
      /\ \A i \in DOMAIN kinds : kinds[i] = "worker_finished" => i = Len(kinds)
  <2>1. what \in WorkerKind /\ "worker_finished" \in WorkerKind
    BY DEF WorkerKind
  <2>2. kinds \in Seq(WorkerKind) /\ KindsOf(kinds) = {what, "worker_finished"}
    BY <1>2, <2>1, KindsOfTwo
  <2>3. DOMAIN kinds = {1, 2} /\ Len(kinds) = 2 /\ kinds[1] = what
    BY <1>2
  <2>4. kinds[1] # "worker_finished"
    BY <2>3
  <2> QED BY <2>2, <2>3, <2>4
<1>4. /\ Acts(from, "finally", {what, "worker_finished"}) /\ w'.rows = w.rows /\ w'.control = w.control
      /\ unread' = unread /\ queue' = queue \o kinds
  <2>1. Goes(from, "finally", kinds)
    BY <1>1, <1>2
  <2>2. Acts(from, "finally", KindsOf(kinds))
    BY <1>3, <2>1, GoesTells
  <2> QED BY <1>3, <2>1, <2>2, GoesTells
<1>5. TelemetryOK'
  <2>1. from \notin Ended /\ "finally" \in Ended
    BY <1>1 DEF Ended
  <2> QED BY <1>3, <1>4, <2>1, EndComesLast
<1>6. ASSUME p.failure = "none" PROVE ActionOK' /\ DispatchOK' /\ ScenarioOK'
  <2>0. Matter(from, "finally", {what, "worker_finished"})
    BY <1>4, ActsMatter
  <2>1. ActionOK /\ DispatchOK /\ ScenarioOK
    BY <1>6 DEF PointInv
  <2>2. /\ ~Told("worker_finished") /\ ~Owes("start") /\ w.rows \in Nat /\ BusinessSteps \in Nat \ {0}
        /\ w.pc = from
    BY <1>1, <1>4, NotYet DEF Ended, Acts
  <2>3. ActionOK'
    BY <2>0, <1>1, <1>4, <2>1, <2>2 DEF ActionOK, Matter, Before, Acting, Interrupted
  <2>4. DispatchOK'
    BY <2>0, <1>1, <1>4, <2>1 DEF DispatchOK, Matter
  <2>5. UndisturbedOK => UndisturbedOK'
    BY <2>0, <1>1, <1>4, <2>2 DEF UndisturbedOK, Matter, Interrupted
  <2>6. EarlyOK => EarlyOK'
    BY <2>0, <1>1, <1>4, <2>2 DEF EarlyOK, Matter, Interrupted
  <2>7. LateOK => LateOK'
    <3> SUFFICES ASSUME LateOK PROVE LateOK'
      OBVIOUS
    <3>1. /\ Told("receiver_observed") /\ w.rows >= 1 /\ "continue" \in p.barriers
          /\ Heard("decision_recorded")
      BY <1>1, <2>2 DEF LateOK
    <3>2. scenario = "stop-during-action" =>
            /\ from = "interrupted" /\ w.rows = 1 /\ Told("enforcement_requested")
      BY <1>1, <2>2, <3>1 DEF LateOK, Ended
    <3>3. scenario = "receiver-ignores-stop" =>
            /\ from = "complete" /\ ~Told(Interrupted) /\ Told("enforcement_unavailable")
      BY <1>1, <2>2, <3>1 DEF LateOK
    <3> QED BY <2>0, <1>1, <1>4, <3>1, <3>2, <3>3 DEF LateOK, Matter, Ended, Interrupted
  <2> QED BY <2>0, <2>1, <2>3, <2>4, <2>5, <2>6, <2>7 DEF ScenarioOK, Matter
<1> QED BY <1>4, <1>5, <1>6, WorkerPoints

\* A worker that leaves its action without telling its end, or is on its way out.
LEMMA LeavesPoints ==
  ASSUME PointInv, RunInv', NEW from, NEW to \in Ended, NEW kinds \in Seq(WorkerKind),
         Acts(from, to, KindsOf(kinds)), queue' = queue \o kinds, w'.rows = w.rows, unread' = unread,
         w'.control => w.control,
         KindsOf(kinds) \subseteq {"worker_error"}, from # "dead", from \in Ended => kinds = <<>>
  PROVE  PointInv'
<1>k. PICK K : K = KindsOf(kinds)
  OBVIOUS
<1>1. TelemetryOK'
  <2>1. "worker_finished" \notin KindsOf(kinds)
    OBVIOUS
  <2> QED BY <2>1, <1>k, NoEnd, EndComesLast
<1>2. ASSUME p.failure = "none" PROVE ActionOK' /\ DispatchOK' /\ ScenarioOK'
  <2>0. Matter(from, to, K) /\ K \subseteq {"worker_error"}
    BY <1>k, ActsMatter
  <2>1. ActionOK /\ DispatchOK /\ ScenarioOK /\ (w.pc \notin Ended => ~Told("worker_finished"))
    BY <1>2, NotYet DEF PointInv
  <2>2. Owes("start") => w.pc = "dead"
    BY DEF PointInv, RunInv, StopOK
  <2>3. w.pc = from /\ w'.pc = to /\ ~Owes("start") /\ to \notin Before \cup Acting
    BY <2>0, <2>2 DEF Matter, Before, Acting, Ended
  <2>4. ActionOK'
    BY <2>0, <2>1, <2>3 DEF ActionOK, Matter, Before, Acting, Interrupted, Ended
  <2>5. DispatchOK'
    BY <2>0, <2>1 DEF DispatchOK, Matter
  <2>6. UndisturbedOK => UndisturbedOK'
    BY <2>0, <2>3 DEF UndisturbedOK, Matter, Interrupted, Ended
  <2>7. EarlyOK => EarlyOK'
    BY <2>0, <2>3 DEF EarlyOK, Matter, Interrupted, Ended
  <2>8. LateOK => LateOK'
    BY <2>0, <2>1, <2>3 DEF LateOK, Matter, Interrupted, Ended
  <2> QED BY <2>0, <2>1, <2>4, <2>5, <2>6, <2>7, <2>8 DEF ScenarioOK, Matter
<1> QED BY <1>1, <1>2, WorkerPoints

\* A statement that raises.
LEMMA RaisePoints == ASSUME PointInv, RunInv', Raise PROVE PointInv'
<1>1. PICK new : new = [w EXCEPT !.pc = "finally", !.code = 1]
  OBVIOUS
<1>2. new.pc = "finally" /\ new.rows = w.rows /\ new.control = w.control
  BY <1>1 DEF PointInv, RunInv, WorldOK, WorkerType
<1>3. PICK kinds : kinds = <<"worker_error">>
  OBVIOUS
<1>4. kinds \in Seq(WorkerKind) /\ KindsOf(kinds) = {"worker_error"}
  <2>1. "worker_error" \in WorkerKind
    BY DEF WorkerKind
  <2> QED BY <1>3, <2>1, KindsOfOne
<1>5. PICK pcs : pcs = {"spawned", "announce", "wait begin", "wait continue", "checkpoint", "write",
                        "written", "interrupted", "complete"}
  OBVIOUS
<1>6. Worker(pcs, new, kinds) /\ unread' = unread /\ queue' = queue \o kinds
  BY <1>1, <1>3, <1>5 DEF Raise, Worker
<1>7. PICK from : from = w.pc
  OBVIOUS
<1>8. Acts(from, "finally", KindsOf(kinds)) /\ w' = new /\ from \in pcs
  BY <1>2, <1>4, <1>6, <1>7, WorkerTells
<1>9. "finally" \in Ended /\ from \notin Ended /\ from # "dead"
  BY <1>5, <1>8 DEF Ended
<1> QED BY <1>2, <1>4, <1>6, <1>8, <1>9, LeavesPoints

\* The worker goes, in order or in silence.
LEMMA GonePoints == ASSUME PointInv, RunInv', CloseEnds \/ Exit \/ BootFails PROVE PointInv'
<1>1. <<>> \in Seq(WorkerKind) /\ KindsOf(<<>>) = {}
  BY KindsOfNone
<1>2. PICK new, from, to : /\ \/ from = "finally" /\ to = "exit"
                              \/ from = "exit" /\ to = "dead"
                              \/ from = "spawned" /\ to = "dead"
                           /\ Worker({from}, new, <<>>) /\ new.pc = to /\ new.rows = w.rows /\ unread' = unread
                           /\ (new.control => w.control)
  <2>0. w \in WorkerType
    BY DEF PointInv, RunInv, WorldOK
  <2>1. CASE CloseEnds
    <3>1. PICK new : new = [w EXCEPT !.pc = "exit", !.control = FALSE, !.out = FALSE]
      OBVIOUS
    <3>2. new.pc = "exit" /\ new.rows = w.rows /\ ~new.control
      BY <2>0, <3>1 DEF WorkerType
    <3>3. Worker({"finally"}, new, <<>>) /\ unread' = unread
      BY <2>1, <3>1 DEF CloseEnds
    <3> QED BY <3>2, <3>3
  <2>2. CASE Exit
    <3>1. PICK new : new = [w EXCEPT !.pc = "dead"]
      OBVIOUS
    <3>2. new.pc = "dead" /\ new.rows = w.rows /\ new.control = w.control
      BY <2>0, <3>1 DEF WorkerType
    <3>3. Worker({"exit"}, new, <<>>) /\ unread' = unread
      BY <2>2, <3>1 DEF Exit, Goes
    <3> QED BY <3>2, <3>3
  <2>3. CASE BootFails
    <3>1. PICK new : new = Dead(1)
      OBVIOUS
    <3>a. ~new.control
      BY <2>0, <3>1 DEF Dead, WorkerType
    <3>2. new.pc = "dead" /\ new.rows = w.rows /\ ~new.control
      BY <2>0, <3>1, <3>a, DeadIsWorker, 1 \in Int
    <3>3. Worker({"spawned"}, new, <<>>) /\ unread' = unread
      BY <2>3, <3>1 DEF BootFails
    <3> QED BY <3>2, <3>3
  <2> QED BY <2>1, <2>2, <2>3
<1>3. w.pc = from /\ queue' = queue \o <<>>
  BY <1>2 DEF Worker
<1>4. Acts(from, to, KindsOf(<<>>)) /\ w' = new
  BY <1>1, <1>2, <1>3, WorkerTells
<1>5. to \in Ended /\ from # "dead"
  BY <1>2 DEF Ended
<1> QED BY <1>1, <1>2, <1>3, <1>4, <1>5, LeavesPoints

\* Every step of the worker.
LEMMA WorkerStepPoints == ASSUME PointInv, WorkerStep PROVE PointInv'
<1>1. RunInv'
  BY WorkerStepKeeps DEF PointInv
<1> QED BY <1>1, CloseEndpointPoints, AnnouncePoints, BarrierPoints, NoStopPoints, ReadStopPoints,
           WriteStepPoints, TellStepPoints, ConcludePoints, RaisePoints, GonePoints DEF WorkerStep
-----------------------------------------------------------------------------
(* The parent's part.                                                      *)

\* The parent goes on from a statement.
Advanced(st) ==
  /\ \A x : x \notin Closing /\ Owes(x)' => Owes(x)
  /\ \A x : x \notin Closing /\ Owes(x) /\ x # st => Owes(x)'
  /\ st \notin Closing \cup {"observe"} => ~Owes(st)'
  /\ st # "observe" /\ Twice(p.todo) => Twice(p'.todo)
  /\ Twice(p.todo) => Owes("observe")'

\* It goes on to the next, or through the finally block.
LEMMA GoesOn ==
  ASSUME PointInv, p.todo # <<>>, NEW st, st = Head(p.todo), scenario' = scenario,
         NEW c \in Closing, p'.todo = Tail(p.todo) \/ (st \in Closing /\ p'.todo = <<c>>)
  PROVE  OrderOK' /\ Advanced(st)
<1>0. RunInv /\ OrderOK
  BY DEF PointInv
<1>1. CASE p'.todo = Tail(p.todo)
  <2>1. /\ OrderOK'
        /\ \A x : Owes(x)' => Owes(x)
        /\ \A x : Owes(x) /\ x # Head(p.todo) => Owes(x)'
        /\ \A x : x = Head(p.todo) /\ x # "observe" => ~Owes(x)'
        /\ Head(p.todo) # "observe" /\ Twice(p.todo) => Twice(p'.todo)
        /\ Twice(p.todo) => Owes("observe")'
    BY <1>0, <1>1, OrderPasses
  <2>2. st # "observe" => ~Owes(st)'
    BY <2>1
  <2> QED BY <2>1, <2>2, Zenon DEF Advanced
<1>2. CASE st \in Closing /\ p'.todo = <<c>>
  <2>1. OrderOK' /\ \A x : Owes(x)' => x = c
    BY <1>2, OrderCloses
  <2>2. \A x : Owes(x) => x = st
    BY <1>0, <1>2, HeadIsOwed
  <2>3. ~Twice(p.todo)
    BY <1>2, <2>2 DEF Twice, Owes, Closing
  <2> QED BY <1>2, <2>1, <2>2, <2>3 DEF Advanced
<1> QED BY <1>1, <1>2

\* What a statement that succeeds leaves behind.
Records(st) ==
  /\ Heard("decision_recorded")' <=> Heard("decision_recorded") \/ st = "send"
  /\ Heard("issuer_dispatched")' \/ Heard("delivery_failed")' <=>
       Heard("issuer_dispatched") \/ Heard("delivery_failed") \/ st = "send"
  /\ Heard("effect_observed")' <=> Heard("effect_observed") \/ (st = "observe" /\ p.seen # <<>>)
  /\ Heard("worker_ready")' <=> Heard("worker_ready") \/ st = "worker_ready"
  /\ Heard("action_barrier_reached")' <=>
       Heard("action_barrier_reached") \/ st = "action_barrier_reached"
  /\ Heard("worker_finished")' <=> Heard("worker_finished") \/ st = "worker_finished"
  /\ p'.barriers = p.barriers \cup ({"begin", "continue"} \cap {st})
  /\ p'.copies => p.copies /\ st # "close"
  /\ st = "observe" => p'.seen # <<>>
  /\ st # "observe" => p'.seen = p.seen

\* What the parent did is what it does not owe any more.
LEMMA ParentHolds ==
  ASSUME PointInv, p.failure = "none", p.todo # <<>>, NEW st, st = Head(p.todo),
         scenario' = scenario, Advanced(st), Records(st)
  PROVE  ParentOK'
<1>0. /\ ParentOK /\ st \in StatementsOf(scenario) \cup Closing /\ Owes(st)
      /\ scenario # "effect-unobserved" /\ p.seen = <<>> => Twice(p.todo)
  BY HeadIsFirst DEF PointInv, ParentOK, Twice
<1>1. {"start", "close", "worker_ready", "send", "begin", "action_barrier_reached", "continue",
       "worker_finished", "join", "disable", "observe"} \cap Closing = {}
  BY DEF Closing
<1>2. /\ Owes("send")' <=> Owes("send") /\ st # "send"
      /\ Owes("begin")' <=> Owes("begin") /\ st # "begin"
      /\ Owes("continue")' <=> Owes("continue") /\ st # "continue"
      /\ Owes("close")' <=> Owes("close") /\ st # "close"
      /\ Owes("worker_ready")' <=> Owes("worker_ready") /\ st # "worker_ready"
      /\ Owes("action_barrier_reached")' <=>
           Owes("action_barrier_reached") /\ st # "action_barrier_reached"
      /\ Owes("worker_finished")' <=> Owes("worker_finished") /\ st # "worker_finished"
      /\ st # "observe" => (Owes("observe")' <=> Owes("observe"))
  BY <1>1 DEF Advanced
<1>3. Heard("decision_recorded")' <=> "send" \in StatementsOf(scenario) /\ ~Owes("send")'
  <2>1. Heard("decision_recorded") <=> "send" \in StatementsOf(scenario) /\ ~Owes("send")
    BY <1>0 DEF ParentOK
  <2>2. st = "send" => "send" \in StatementsOf(scenario)
    BY <1>0, <1>1
  <2>3. Heard("decision_recorded")' <=> Heard("decision_recorded") \/ st = "send"
    BY DEF Records
  <2> QED BY <1>2, <2>1, <2>2, <2>3
<1>4. /\ Heard("issuer_dispatched")' \/ Heard("delivery_failed")' => Heard("decision_recorded")'
      /\ Heard("decision_recorded")' => Heard("issuer_dispatched")' \/ Heard("delivery_failed")'
  BY <1>0 DEF ParentOK, Records
<1>5. /\ "begin" \in p'.barriers => ~Owes("begin")'
      /\ "continue" \in p'.barriers => ~Owes("continue")'
      /\ p'.copies => Owes("close")'
  BY <1>0, <1>2 DEF ParentOK, Records
<1>6. \A kind \in Awaited \cap StatementsOf(scenario) : Owes(kind)' \/ Heard(kind)'
  <2>1. /\ "worker_ready" \in StatementsOf(scenario) => Owes("worker_ready") \/ Heard("worker_ready")
        /\ "action_barrier_reached" \in StatementsOf(scenario) =>
             Owes("action_barrier_reached") \/ Heard("action_barrier_reached")
        /\ "worker_finished" \in StatementsOf(scenario) =>
             Owes("worker_finished") \/ Heard("worker_finished")
    BY <1>0 DEF ParentOK, Awaited
  <2>2. /\ "worker_ready" \in StatementsOf(scenario) => Owes("worker_ready")' \/ Heard("worker_ready")'
        /\ "action_barrier_reached" \in StatementsOf(scenario) =>
             Owes("action_barrier_reached")' \/ Heard("action_barrier_reached")'
        /\ "worker_finished" \in StatementsOf(scenario) =>
             Owes("worker_finished")' \/ Heard("worker_finished")'
    BY <1>2, <2>1 DEF Records
  <2> QED BY <2>2 DEF Awaited
<1>7. Heard("effect_observed")' => scenario # "effect-unobserved"
  <2>1. st = "observe" => scenario # "effect-unobserved"
    BY <1>0, <1>1 DEF StatementsOf
  <2> QED BY <1>0, <2>1 DEF ParentOK, Records
<1>8. /\ scenario # "effect-unobserved" /\ p'.seen = <<>> => Twice(p'.todo)
      /\ scenario # "effect-unobserved" /\ p'.seen # <<>> => Owes("observe")' \/ Heard("effect_observed")'
  <2>1. CASE st = "observe"
    BY <1>0, <2>1 DEF Records, Advanced
  <2>2. CASE st # "observe"
    BY <1>0, <1>2, <2>2 DEF ParentOK, Records, Advanced
  <2> QED BY <2>1, <2>2
<1> QED BY <1>3, <1>4, <1>5, <1>6, <1>7, <1>8 DEF ParentOK, Twice

\* The parent's statements that send nothing leave the worker what it was.
Stays ==
  /\ w' = w /\ unread' = unread /\ scenario' = scenario /\ p.barriers \subseteq p'.barriers
  /\ Owes("start")' => Owes("start")
  /\ Heard("decision_recorded")' <=> Heard("decision_recorded")
  /\ Heard("issuer_dispatched")' <=> Heard("issuer_dispatched")
  /\ Heard("delivery_failed")' <=> Heard("delivery_failed")
  /\ Told("worker_ready")' <=> Told("worker_ready")
  /\ Told("action_barrier_reached")' <=> Told("action_barrier_reached")
  /\ Told("worker_finished")' <=> Told("worker_finished")
  /\ Told("receiver_observed")' <=> Told("receiver_observed")
  /\ Told("enforcement_requested")' <=> Told("enforcement_requested")
  /\ Told("enforcement_unavailable")' <=> Told("enforcement_unavailable")
  /\ Told("native_interrupt_observed")' <=> Told("native_interrupt_observed")

\* So its place is still right.
LEMMA WorkerHolds ==
  ASSUME PointInv, p.failure = "none", Stays
  PROVE  ActionOK' /\ DispatchOK' /\ ScenarioOK'
<1>1. ActionOK /\ DispatchOK /\ ScenarioOK
  BY DEF PointInv
<1>2. ActionOK'
  BY <1>1 DEF ActionOK, Stays, Interrupted
<1>3. DispatchOK'
  BY <1>1 DEF DispatchOK, Stays
<1>4. UndisturbedOK => UndisturbedOK'
  BY DEF UndisturbedOK, Stays, Interrupted
<1>5. EarlyOK => EarlyOK'
  BY DEF EarlyOK, Stays, Interrupted
<1>6. LateOK => LateOK'
  BY DEF LateOK, Stays, Interrupted
<1> QED BY <1>1, <1>2, <1>3, <1>4, <1>5, <1>6 DEF ScenarioOK, Stays

\* The telemetry of a worker is what it was.
LEMMA TelemetryHolds ==
  ASSUME TelemetryOK, queue' = queue, w.pc \in Ended => w'.pc \in Ended,
         Heard("worker_finished")' => Heard("worker_finished")
  PROVE  TelemetryOK'
  BY DEF TelemetryOK, Told, Heard

\* What the parent records is heard, and told.
LEMMA RecordsTell ==
  ASSUME NEW K, KindsOf(p'.events) = KindsOf(p.events) \cup K, queue' = queue
  PROVE  /\ \A kind : Heard(kind)' <=> Heard(kind) \/ kind \in K
         /\ \A kind : Told(kind)' <=> Told(kind) \/ kind \in K
  BY DEF Heard, Told

\* A statement of the parent that neither sends nor hears.
LEMMA StatementPoints ==
  ASSUME PointInv, RunInv', p.todo # <<>>, NEW st, st = Head(p.todo), st \notin Awaited \cup {"send"},
         w' = w, unread' = unread, queue' = queue, scenario' = scenario,
         NEW c \in Closing, p'.todo = Tail(p.todo) \/ (st \in Closing /\ p'.todo = <<c>>),
         NEW K \in SUBSET {"effect_observed", "observation_disabled", "cleanup_completed"},
         KindsOf(p'.events) = KindsOf(p.events) \cup K,
         "effect_observed" \in K <=> st = "observe" /\ p.seen # <<>>,
         p'.barriers = p.barriers \cup ({"begin", "continue"} \cap {st}),
         p'.copies => p.copies /\ st # "close",
         st = "observe" => p'.seen # <<>>, st # "observe" => p'.seen = p.seen,
         p'.failure = "none" => p.failure = "none"
  PROVE  PointInv'
<1>1. OrderOK' /\ Advanced(st)
  BY GoesOn
<1>2. /\ \A kind : Heard(kind)' <=> Heard(kind) \/ kind \in K
      /\ \A kind : Told(kind)' <=> Told(kind) \/ kind \in K
  BY RecordsTell
<1>3. /\ "decision_recorded" \notin K /\ "issuer_dispatched" \notin K /\ "delivery_failed" \notin K
      /\ "worker_ready" \notin K /\ "action_barrier_reached" \notin K /\ "worker_finished" \notin K
      /\ "receiver_observed" \notin K /\ "enforcement_requested" \notin K
      /\ "enforcement_unavailable" \notin K /\ "native_interrupt_observed" \notin K
  OBVIOUS
<1>4. TelemetryOK'
  <2>1. Heard("worker_finished")' => Heard("worker_finished")
    BY <1>2, <1>3
  <2> QED BY <2>1, TelemetryHolds DEF PointInv
<1>5. Records(st)
  <2>1. st \notin {"send", "worker_ready", "action_barrier_reached", "worker_finished"}
    BY DEF Awaited
  <2> QED BY <1>2, <1>3, <2>1 DEF Records
<1>6. Stays
  <2>1. p.barriers \subseteq p'.barriers
    OBVIOUS
  <2>2. Owes("start")' => Owes("start")
    BY <1>1 DEF Advanced, Closing
  <2> QED BY <1>2, <1>3, <2>1, <2>2 DEF Stays
<1>7. scenario \in Scenarios
  BY DEF PointInv
<1> QED BY <1>1, <1>4, <1>5, <1>6, <1>7, ParentHolds, WorkerHolds DEF PointInv

\* A statement that fails ends the run's point.
LEMMA FailurePoints ==
  ASSUME PointInv, RunInv', w' = w, queue' = queue, scenario' = scenario,
         NEW error \in Failure \ {"none"}, p' = Failed(<<>>, error)
  PROVE  PointInv'
<1>1. <<>> \in Seq(Kind) /\ KindsOf(<<>>) = {}
  BY KindsOfNone
<1>2. /\ p'.todo = <<"cleanup">> /\ p'.failure = error
      /\ KindsOf(p'.events) = KindsOf(p.events) \cup {"harness_error"}
  BY <1>1, FailedIsParent DEF PointInv
<1>3. OrderOK'
  <2>1. "cleanup" \in Closing
    BY DEF Closing
  <2> QED BY <1>2, <2>1, OrderCloses
<1>4. TelemetryOK'
  <2>1. Heard("worker_finished")' => Heard("worker_finished")
    BY <1>2 DEF Heard
  <2> QED BY <2>1, TelemetryHolds DEF PointInv
<1> QED BY <1>2, <1>3, <1>4 DEF PointInv

\* The statements that record at most what they saw of the effect.
LEMMA DonePoints ==
  ASSUME PointInv, RunInv', CloseCopies \/ SetBarrier \/ Observe \/ DisableObservation
  PROVE  PointInv'
<1>0. /\ p.todo # <<>> /\ w' = w /\ queue' = queue /\ unread' = unread /\ scenario' = scenario
      /\ <<>> \in Seq(Kind) /\ KindsOf(<<>>) = {} /\ RunInv /\ "cleanup" \in Closing /\ p \in ParentType
  BY KindsOfNone DEF CloseCopies, SetBarrier, Observe, DisableObservation, Parent, At, Silent, PointInv,
     Closing, RunInv, WorldOK
<1>1. PICK st : st = Head(p.todo)
  OBVIOUS
<1>2. ASSUME NEW kinds \in Seq(Kind)
      PROVE  /\ Done(kinds) \in ParentType /\ Done(kinds).todo = Tail(p.todo)
             /\ Done(kinds).failure = p.failure /\ Done(kinds).seen = p.seen
             /\ Done(kinds).barriers = p.barriers /\ Done(kinds).copies = p.copies
             /\ KindsOf(Done(kinds).events) = KindsOf(p.events) \cup KindsOf(kinds)
  <2>1. /\ Done(kinds).seen = p.seen /\ Done(kinds).barriers = p.barriers
        /\ Done(kinds).copies = p.copies
    BY <1>0 DEF Done, ParentType
  <2> QED BY <1>0, <2>1, DoneIsParent
<1>3. PICK d : d = Done(<<>>)
  OBVIOUS
<1>4. /\ d \in ParentType /\ d.todo = Tail(p.todo) /\ d.failure = p.failure /\ d.seen = p.seen
      /\ d.barriers = p.barriers /\ d.copies = p.copies /\ KindsOf(d.events) = KindsOf(p.events)
  BY <1>0, <1>2, <1>3
<1>5. CASE CloseCopies
  <2>1. p' = [d EXCEPT !.copies = FALSE] /\ st = "close"
    BY <1>1, <1>3, <1>5 DEF CloseCopies, Parent, At
  <2>2. /\ p'.todo = Tail(p.todo) /\ p'.failure = p.failure /\ p'.seen = p.seen /\ ~p'.copies
        /\ p'.barriers = p.barriers /\ p'.events = d.events
    BY <1>4, <2>1 DEF ParentType
  <2>3. KindsOf(p'.events) = KindsOf(p.events) \cup {}
    BY <1>4, <2>2
  <2>4. p'.barriers = p.barriers \cup ({"begin", "continue"} \cap {st})
    BY <2>1, <2>2
  <2> QED BY <1>0, <1>1, <2>1, <2>2, <2>3, <2>4, StatementPoints DEF Awaited
<1>6. CASE SetBarrier
  <2>1. PICK raised : raised = d.barriers \cup {st}
    OBVIOUS
  <2>2. p' = [d EXCEPT !.barriers = raised] /\ st \in {"begin", "continue"}
    BY <1>1, <1>3, <1>4, <1>6, <2>1 DEF SetBarrier, Parent, At, ParentType
  <2>3. /\ p'.todo = Tail(p.todo) /\ p'.failure = p.failure /\ p'.seen = p.seen
        /\ p'.copies = p.copies /\ p'.barriers = raised /\ p'.events = d.events
    BY <1>4, <2>2 DEF ParentType
  <2>4. KindsOf(p'.events) = KindsOf(p.events) \cup {}
    BY <1>4, <2>3
  <2>5. p'.barriers = p.barriers \cup ({"begin", "continue"} \cap {st})
    BY <1>4, <2>1, <2>2, <2>3
  <2> QED BY <1>0, <1>1, <2>2, <2>3, <2>4, <2>5, StatementPoints DEF Awaited
<1>7. CASE Observe
  <2>1. PICK kinds : kinds = IF p.seen = <<>> THEN <<>> ELSE <<"effect_observed">>
    OBVIOUS
  <2>2. kinds \in Seq(Kind) /\ KindsOf(kinds) = IF p.seen = <<>> THEN {} ELSE {"effect_observed"}
    <3>1. <<"effect_observed">> \in Seq(Kind) /\ KindsOf(<<"effect_observed">>) = {"effect_observed"}
      BY OwnKinds, KindsOfOne
    <3> QED BY <1>0, <2>1, <3>1
  <2>3. PICK e : e = Done(kinds)
    OBVIOUS
  <2>4. /\ e \in ParentType /\ e.todo = Tail(p.todo) /\ e.failure = p.failure /\ e.seen = p.seen
        /\ e.barriers = p.barriers /\ e.copies = p.copies
        /\ KindsOf(e.events) = KindsOf(p.events) \cup KindsOf(kinds)
    BY <1>2, <2>2, <2>3
  <2>5. PICK seen : seen = Append(e.seen, w.rows)
    OBVIOUS
  <2>6. p' = [e EXCEPT !.seen = seen] /\ st = "observe"
    BY <1>1, <1>7, <2>1, <2>3, <2>4, <2>5 DEF Observe, Parent, At, ParentType
  <2>7. /\ p'.todo = Tail(p.todo) /\ p'.failure = p.failure /\ p'.seen = seen
        /\ p'.copies = p.copies /\ p'.barriers = p.barriers /\ p'.events = e.events
    BY <2>4, <2>6 DEF ParentType
  <2>8. seen # <<>>
    <3>1. e.seen \in Seq(Nat) /\ w.rows \in Nat
      BY <1>0, <2>4 DEF ParentType, RunInv, WorldOK, WorkerType
    <3>2. Len(seen) = Len(e.seen) + 1 /\ Len(e.seen) \in Nat
      BY <2>5, <3>1
    <3> QED BY <3>2
  <2>9. PICK K : K = KindsOf(kinds)
    OBVIOUS
  <2>10. /\ K \in SUBSET {"effect_observed", "observation_disabled", "cleanup_completed"}
         /\ KindsOf(p'.events) = KindsOf(p.events) \cup K
         /\ "effect_observed" \in K <=> st = "observe" /\ p.seen # <<>>
    BY <2>2, <2>4, <2>6, <2>7, <2>9
  <2>11. p'.barriers = p.barriers \cup ({"begin", "continue"} \cap {st})
    BY <2>6, <2>7
  <2> QED BY <1>0, <1>1, <2>6, <2>7, <2>8, <2>10, <2>11, StatementPoints DEF Awaited
<1>8. CASE DisableObservation
  <2>1. PICK kinds : kinds = <<"observation_disabled">>
    OBVIOUS
  <2>2. kinds \in Seq(Kind) /\ KindsOf(kinds) = {"observation_disabled"}
    BY <2>1, OwnKinds, KindsOfOne
  <2>3. p' = Done(kinds) /\ st = "disable"
    BY <1>1, <1>8, <2>1 DEF DisableObservation, Parent, At
  <2>4. /\ p'.todo = Tail(p.todo) /\ p'.failure = p.failure /\ p'.seen = p.seen
        /\ p'.copies = p.copies /\ p'.barriers = p.barriers
        /\ KindsOf(p'.events) = KindsOf(p.events) \cup {"observation_disabled"}
    BY <1>2, <2>2, <2>3
  <2>5. p'.barriers = p.barriers \cup ({"begin", "continue"} \cap {st})
    BY <2>3, <2>4
  <2> QED BY <1>0, <1>1, <2>3, <2>4, <2>5, StatementPoints DEF Awaited
<1> QED BY <1>5, <1>6, <1>7, <1>8

\* A worker that is joined ended well, or the run fails.
LEMMA JoinPoints == ASSUME PointInv, RunInv', Join PROVE PointInv'
<1>0. /\ p.todo # <<>> /\ w' = w /\ queue' = queue /\ unread' = unread /\ scenario' = scenario
      /\ <<>> \in Seq(Kind) /\ KindsOf(<<>>) = {} /\ RunInv /\ "cleanup" \in Closing /\ p \in ParentType
      /\ Head(p.todo) = "join"
  BY KindsOfNone DEF Join, Parent, At, Silent, PointInv, Closing, RunInv, WorldOK
<1>1. CASE w.code = 0
  <2>1. p' = Done(<<>>)
    BY <1>1 DEF Join, Parent
  <2>2. /\ p'.todo = Tail(p.todo) /\ p'.failure = p.failure
        /\ KindsOf(p'.events) = KindsOf(p.events)
    BY <1>0, <2>1, DoneIsParent
  <2>3. p'.seen = p.seen /\ p'.barriers = p.barriers /\ p'.copies = p.copies
    BY <1>0, <2>1 DEF Done, ParentType
  <2>4. KindsOf(p'.events) = KindsOf(p.events) \cup {}
    BY <2>2
  <2>5. p'.barriers = p.barriers \cup ({"begin", "continue"} \cap {"join"})
    BY <2>3
  <2> QED BY <1>0, <2>2, <2>3, <2>4, <2>5, StatementPoints DEF Awaited
<1>2. CASE w.code # 0
  <2>1. p' = Failed(<<>>, "exit code")
    BY <1>2 DEF Join, Parent
  <2>2. "exit code" \in Failure \ {"none"}
    BY DEF Failure
  <2> QED BY <1>0, <2>1, <2>2, FailurePoints
<1> QED BY <1>1, <1>2

\* The failures of a start and of a wait.
LEMMA GivenUpPoints ==
  ASSUME PointInv, RunInv', StartFails \/ TelemetryEnds \/ TimeOut PROVE PointInv'
<1>1. PICK error : error \in {"not started", "telemetry ended", "timeout"} /\ p' = Failed(<<>>, error)
  BY DEF StartFails, TelemetryEnds, TimeOut, Parent
<1>2. error \in Failure \ {"none"}
  BY <1>1 DEF Failure
<1>3. w' = w /\ queue' = queue /\ scenario' = scenario
  BY DEF StartFails, TelemetryEnds, TimeOut, Parent, Silent
<1> QED BY <1>1, <1>2, <1>3, FailurePoints

\* The finally block.
LEMMA ClosingPoints == ASSUME PointInv, RunInv', Cleanup \/ Joined \/ CloseAll PROVE PointInv'
<1>0. /\ p.todo # <<>> /\ w' = w /\ queue' = queue /\ unread' = unread /\ scenario' = scenario
      /\ RunInv /\ "cleanup" \in Closing /\ p \in ParentType /\ Head(p.todo) \in Closing
  BY DEF Cleanup, Joined, CloseAll, Parent, At, Silent, PointInv, Closing, RunInv, WorldOK
<1>1. PICK st : st = Head(p.todo)
  OBVIOUS
<1>2. st \in Closing /\ st \notin Awaited \cup {"send", "close", "observe", "begin", "continue"}
  BY <1>0, <1>1 DEF Closing, Awaited
<1>3. CASE Cleanup \/ Joined
  <2>1. PICK c, new : /\ c \in Closing /\ p' = new
                      /\ \/ new = [p EXCEPT !.forced = (w.pc # "dead"), !.todo = <<c>>]
                         \/ new = [p EXCEPT !.todo = <<c>>]
    BY <1>3 DEF Cleanup, Joined, Parent, Closing
  <2>2. /\ p'.todo = <<c>> /\ p'.failure = p.failure /\ p'.seen = p.seen
        /\ p'.copies = p.copies /\ p'.barriers = p.barriers /\ p'.events = p.events
    BY <1>0, <2>1 DEF ParentType
  <2>3. KindsOf(p'.events) = KindsOf(p.events) \cup {}
    BY <2>2
  <2>4. p'.barriers = p.barriers \cup ({"begin", "continue"} \cap {st})
    BY <1>2, <2>2
  <2>5. /\ p'.copies => p.copies /\ st # "close"
        /\ st = "observe" => p'.seen # <<>>
        /\ st # "observe" => p'.seen = p.seen
        /\ p'.failure = "none" => p.failure = "none"
        /\ "effect_observed" \in {} <=> st = "observe" /\ p.seen # <<>>
        /\ p'.todo = Tail(p.todo) \/ (st \in Closing /\ p'.todo = <<c>>)
    BY <1>2, <2>2
  <2>6. {} \in SUBSET {"effect_observed", "observation_disabled", "cleanup_completed"}
    OBVIOUS
  <2>7. c \in Closing
    BY <2>1
  <2> QED BY <1>0, <1>1, <1>2, <2>3, <2>4, <2>5, <2>6, <2>7, StatementPoints
<1>4. CASE CloseAll
  <2>1. PICK kinds : kinds = <<"cleanup_completed">>
    OBVIOUS
  <2>2. kinds \in Seq(Kind) /\ KindsOf(kinds) = {"cleanup_completed"}
    BY <2>1, OwnKinds, KindsOfOne
  <2>3. PICK d : d = Done(kinds)
    OBVIOUS
  <2>4. /\ d \in ParentType /\ d.todo = Tail(p.todo) /\ d.failure = p.failure
        /\ KindsOf(d.events) = KindsOf(p.events) \cup KindsOf(kinds)
    BY <1>0, <2>2, <2>3, DoneIsParent
  <2>5. d.seen = p.seen /\ d.barriers = p.barriers
    BY <1>0, <2>3 DEF Done, ParentType
  <2>6. PICK failure : /\ failure = IF w.pc # "dead" THEN "child remains alive" ELSE p.failure
                       /\ p' = [d EXCEPT !.copies = FALSE, !.failure = failure]
    BY <1>0, <1>4, <2>1, <2>3, <2>4 DEF CloseAll, Parent, ParentType
  <2>7. /\ p'.todo = Tail(p.todo) /\ p'.failure = failure /\ p'.seen = p.seen /\ ~p'.copies
        /\ p'.barriers = p.barriers /\ p'.events = d.events
    BY <2>4, <2>5, <2>6 DEF ParentType
  <2>8. p'.failure = "none" => p.failure = "none"
    <3>1. failure = IF w.pc # "dead" THEN "child remains alive" ELSE p.failure
      BY <2>6
    <3>2. p'.failure = failure
      BY <2>7
    <3> QED BY <3>1, <3>2
  <2>9. KindsOf(p'.events) = KindsOf(p.events) \cup {"cleanup_completed"}
    BY <2>2, <2>4, <2>7
  <2>10. p'.barriers = p.barriers \cup ({"begin", "continue"} \cap {st})
    BY <1>2, <2>7
  <2>11. /\ {"cleanup_completed"} \in SUBSET {"effect_observed", "observation_disabled", "cleanup_completed"}
         /\ "effect_observed" \notin {"cleanup_completed"}
    OBVIOUS
  <2> QED BY <1>0, <1>1, <1>2, <2>7, <2>8, <2>9, <2>10, <2>11, StatementPoints
<1> QED BY <1>3, <1>4

\* The stop is dispatched into a pipe that someone may read, or fails.
LEMMA SendStopPoints == ASSUME PointInv, RunInv', SendStop PROVE PointInv'
<1>0. /\ p.todo # <<>> /\ Head(p.todo) = "send" /\ w' = w /\ queue' = queue /\ scenario' = scenario
      /\ RunInv /\ p \in ParentType /\ "cleanup" \in Closing /\ scenario \in Scenarios /\ TelemetryOK
      /\ w.control \in BOOLEAN /\ p.copies \in BOOLEAN
  BY DEF SendStop, Parent, At, PointInv, Closing, RunInv, WorldOK, WorkerType, ParentType
<1>1. PICK readable \in BOOLEAN : readable = (w.control \/ p.copies)
  BY <1>0
<1>2. PICK out : out = IF readable THEN "issuer_dispatched" ELSE "delivery_failed"
  OBVIOUS
<1>3. PICK kinds : kinds = <<"decision_recorded", "control_command_produced", out>>
  OBVIOUS
<1>4. kinds \in Seq(Kind) /\ KindsOf(kinds) = {"decision_recorded", "control_command_produced", out}
  <2>1. "decision_recorded" \in Kind /\ "control_command_produced" \in Kind /\ out \in Kind
    BY <1>2, OwnKinds
  <2> QED BY <1>3, <2>1, KindsOfThree
<1>5. p' = Done(kinds) /\ unread' = readable
  BY <1>1, <1>2, <1>3 DEF SendStop, Parent
<1>6. /\ p'.todo = Tail(p.todo) /\ p'.failure = p.failure
      /\ KindsOf(p'.events) = KindsOf(p.events) \cup KindsOf(kinds)
  BY <1>0, <1>4, <1>5, DoneIsParent
<1>7. p'.seen = p.seen /\ p'.barriers = p.barriers /\ p'.copies = p.copies
  BY <1>0, <1>5 DEF Done, ParentType
<1>8. PICK K : K = {"decision_recorded", "control_command_produced", out}
  OBVIOUS
<1>9. /\ \A kind : Heard(kind)' <=> Heard(kind) \/ kind \in K
      /\ \A kind : Told(kind)' <=> Told(kind) \/ kind \in K
  <2>1. KindsOf(p'.events) = KindsOf(p.events) \cup K
    BY <1>4, <1>6, <1>8
  <2> QED BY <1>0, <2>1, RecordsTell
<1>10. /\ "decision_recorded" \in K /\ (out = "issuer_dispatched" <=> "issuer_dispatched" \in K)
       /\ out = "delivery_failed" <=> "delivery_failed" \in K
       /\ "worker_ready" \notin K /\ "action_barrier_reached" \notin K /\ "worker_finished" \notin K
       /\ "receiver_observed" \notin K /\ "enforcement_requested" \notin K
       /\ "enforcement_unavailable" \notin K /\ "native_interrupt_observed" \notin K
       /\ "effect_observed" \notin K
  BY <1>2, <1>8
<1>11. OrderOK' /\ Advanced("send")
  BY <1>0, <1>6, GoesOn
<1>12. TelemetryOK'
  <2>1. Heard("worker_finished")' => Heard("worker_finished")
    BY <1>9, <1>10
  <2> QED BY <1>0, <2>1, TelemetryHolds
<1>13. ASSUME p.failure = "none" PROVE ParentOK'
  <2>1. p'.barriers = p.barriers \cup ({"begin", "continue"} \cap {"send"})
    BY <1>7
  <2>2. Records("send")
    BY <1>2, <1>7, <1>9, <1>10, <2>1 DEF Records
  <2> QED BY <1>0, <1>11, <1>13, <2>2, ParentHolds
<1>14. ASSUME p.failure = "none" PROVE ActionOK' /\ DispatchOK' /\ ScenarioOK'
  <2>1. ActionOK /\ DispatchOK /\ ScenarioOK /\ ParentOK
    BY <1>14 DEF PointInv
  <2>2. /\ Owes("send") /\ "send" \in StatementsOf(scenario)
        /\ Owes("close") => Rank(scenario, "send") < Rank(scenario, "close")
        /\ Owes("worker_ready") => Rank(scenario, "send") < Rank(scenario, "worker_ready")
        /\ Owes("start") => Rank(scenario, "send") < Rank(scenario, "start")
    BY <1>0, HeadIsFirst DEF PointInv, Closing
  <2>3. ~Owes("close") /\ ~Owes("worker_ready") /\ ~Owes("start")
    BY <2>2, RanksAre
  <2>4. /\ ~Heard("decision_recorded") /\ ~Heard("issuer_dispatched") /\ ~Heard("delivery_failed")
        /\ ~p.copies /\ scenario # "normal"
    BY <2>1, <2>2, <2>3 DEF ParentOK, StatementsOf
  <2>5. ~unread /\ ~Told("receiver_observed")
    BY <2>1, <2>4 DEF DispatchOK
  <2>6. Told("worker_ready")
    BY <2>1, <2>3 DEF ParentOK, Awaited, StatementsOf, Told, Heard
  <2>7. readable = w.control
    BY <1>0, <1>1, <2>4
  <2>8. /\ scenario = "receiver-unreachable" => ~readable
        /\ scenario # "receiver-unreachable" /\ w.pc \in Before \cup Acting => readable
    BY <2>1, <2>6, <2>7 DEF ActionOK
  <2>9. /\ ~Owes("start")' /\ Heard("decision_recorded")'
        /\ Heard("issuer_dispatched")' <=> readable
        /\ Heard("delivery_failed")' <=> ~readable
    <3>1. ~Owes("start")'
      BY <2>3, <1>11 DEF Advanced, Closing
    <3> QED BY <1>2, <1>9, <1>10, <2>4, <3>1
  <2>10. /\ Told("worker_ready")' <=> Told("worker_ready")
         /\ Told("action_barrier_reached")' <=> Told("action_barrier_reached")
         /\ Told("worker_finished")' <=> Told("worker_finished")
         /\ Told("receiver_observed")' <=> Told("receiver_observed")
         /\ Told("enforcement_requested")' <=> Told("enforcement_requested")
         /\ Told("enforcement_unavailable")' <=> Told("enforcement_unavailable")
         /\ Told("native_interrupt_observed")' <=> Told("native_interrupt_observed")
    BY <1>9, <1>10
  <2>11. ActionOK'
    BY <1>0, <1>7, <2>1, <2>3, <2>9, <2>10 DEF ActionOK, Interrupted
  <2>12. DispatchOK'
    BY <1>5, <2>5, <2>9, <2>10 DEF DispatchOK
  <2>13. CASE scenario = "receiver-unreachable"
    <3>1. UndisturbedOK
      BY <2>1, <2>13 DEF ScenarioOK
    <3>2. UndisturbedOK'
      BY <1>0, <1>5, <2>8, <2>9, <2>10, <2>13, <3>1 DEF UndisturbedOK, Interrupted
    <3> QED BY <1>0, <2>11, <2>12, <2>13, <3>2 DEF ScenarioOK
  <2>14. CASE scenario \in {"stop-before-start", "effect-unobserved"}
    <3>1. EarlyOK
      BY <2>1, <2>14 DEF ScenarioOK
    <3>2. EarlyOK'
      BY <1>0, <1>5, <2>8, <2>9, <2>10, <2>14, <3>1 DEF EarlyOK, Interrupted, Before, Acting
    <3> QED BY <1>0, <2>11, <2>12, <2>14, <3>2 DEF ScenarioOK
  <2>15. CASE scenario \in {"stop-during-action", "receiver-ignores-stop"}
    <3>1. LateOK
      BY <2>1, <2>15 DEF ScenarioOK
    <3>2. LateOK'
      BY <1>0, <1>5, <1>7, <2>5, <2>8, <2>9, <2>10, <2>15, <3>1 DEF LateOK, Interrupted, Acting
    <3> QED BY <1>0, <2>11, <2>12, <2>15, <3>2 DEF ScenarioOK
  <2> QED BY <1>0, <2>4, <2>13, <2>14, <2>15 DEF Scenarios
<1> QED BY <1>0, <1>6, <1>11, <1>12, <1>13, <1>14 DEF PointInv

\* The worker is started, with nothing told and nothing sent.
LEMMA StartPoints == ASSUME PointInv, RunInv', Start PROVE PointInv'
<1>0. /\ p.todo # <<>> /\ Head(p.todo) = "start" /\ queue' = queue /\ unread' = unread
      /\ scenario' = scenario /\ p' = Done(<<>>) /\ RunInv /\ p \in ParentType /\ "cleanup" \in Closing
      /\ w' = [w EXCEPT !.pc = "spawned", !.control = TRUE, !.out = TRUE] /\ w \in WorkerType
      /\ <<>> \in Seq(Kind) /\ KindsOf(<<>>) = {} /\ scenario \in Scenarios
  BY KindsOfNone DEF Start, Parent, At, PointInv, Closing, RunInv, WorldOK
<1>1. Owes("start") /\ p.events = <<>> /\ queue = <<>>
  BY <1>0, HeadIsOwed DEF RunInv, StopOK
<1>2. \A kind : ~Heard(kind) /\ ~Told(kind)
  BY <1>0, <1>1 DEF Heard, Told
<1>3. /\ p'.todo = Tail(p.todo) /\ p'.failure = p.failure /\ KindsOf(p'.events) = KindsOf(p.events)
  BY <1>0, DoneIsParent
<1>4. p'.seen = p.seen /\ p'.barriers = p.barriers /\ p'.copies = p.copies
  BY <1>0 DEF Done, ParentType
<1>5. w'.pc = "spawned" /\ w'.rows = w.rows /\ w'.control
  BY <1>0 DEF WorkerType
<1>6. \A kind : ~Heard(kind)' /\ ~Told(kind)'
  BY <1>0, <1>2, <1>3 DEF Heard, Told
<1>7. TelemetryOK'
  BY <1>0, <1>1, <1>6 DEF TelemetryOK
<1>8. OrderOK' /\ Advanced("start")
  BY <1>0, <1>3, GoesOn
<1>9. ASSUME p.failure = "none" PROVE ParentOK'
  <2>1. p'.barriers = p.barriers \cup ({"begin", "continue"} \cap {"start"})
    BY <1>4
  <2>2. Records("start")
    BY <1>2, <1>4, <1>6, <2>1 DEF Records
  <2> QED BY <1>0, <1>8, <1>9, <2>2, ParentHolds
<1>10. ASSUME p.failure = "none" PROVE ActionOK' /\ DispatchOK' /\ ScenarioOK'
  <2>1. ActionOK /\ DispatchOK
    BY <1>10 DEF PointInv
  <2>2. ~unread'
    BY <1>0, <1>2, <2>1 DEF DispatchOK
  <2>3. w'.rows = 0 /\ 0 <= BusinessSteps
    BY <1>1, <1>5, <2>1, StepsAssumption DEF ActionOK
  <2>4. /\ ~Told("worker_ready")' /\ ~Told("action_barrier_reached")' /\ ~Told("worker_finished")'
        /\ ~Told("receiver_observed")' /\ ~Told("enforcement_requested")'
        /\ ~Told("enforcement_unavailable")' /\ ~Told("native_interrupt_observed")'
        /\ ~Heard("decision_recorded")' /\ ~Heard("issuer_dispatched")' /\ ~Heard("delivery_failed")'
    BY <1>6
  <2>5. ActionOK'
    BY <1>5, <2>3, <2>4 DEF ActionOK, Before, Acting
  <2>6. DispatchOK'
    BY <2>2, <2>4 DEF DispatchOK
  <2>7. UndisturbedOK' /\ EarlyOK'
    BY <1>5, <2>2, <2>3, <2>4 DEF UndisturbedOK, EarlyOK, Interrupted
  <2>8. LateOK'
    BY <1>5, <2>2, <2>3, <2>4 DEF LateOK, Interrupted
  <2> QED BY <2>5, <2>6, <2>7, <2>8 DEF ScenarioOK
<1> QED BY <1>0, <1>3, <1>7, <1>8, <1>9, <1>10 DEF PointInv

\* A message that is heard was told.
LEMMA HearPoints == ASSUME PointInv, RunInv', Hear PROVE PointInv'
<1>0. /\ queue # <<>> /\ queue' = Tail(queue) /\ w' = w /\ unread' = unread /\ scenario' = scenario
      /\ p.todo # <<>> /\ Head(p.todo) \in Awaited /\ queue \in Seq(WorkerKind)
      /\ RunInv /\ p \in ParentType /\ TelemetryOK /\ "cleanup" \in Closing /\ scenario \in Scenarios
  BY DEF Hear, Parent, At, PointInv, RunInv, WorldOK, Closing
<1>1. PICK kind : kind = Head(queue)
  OBVIOUS
<1>2. PICK st : st = Head(p.todo)
  OBVIOUS
<1>3. /\ Len(queue) \in Nat \ {0} /\ DOMAIN queue = 1 .. Len(queue) /\ queue[1] = kind
      /\ DOMAIN queue' = 1 .. (Len(queue) - 1) /\ kind \in WorkerKind
      /\ \A i \in DOMAIN queue' : i + 1 \in DOMAIN queue /\ queue'[i] = queue[i + 1]
      /\ queue' \in Seq(WorkerKind) /\ Len(queue') = Len(queue) - 1
  BY <1>0, <1>1, KindsTail
<1>4. KindsOf(queue) = {kind} \cup KindsOf(queue')
  <2>1. \A i \in DOMAIN queue : i = 1 \/ (i - 1 \in DOMAIN queue' /\ i = (i - 1) + 1)
    BY <1>3
  <2>2. \A i \in DOMAIN queue : queue[i] = kind \/ queue[i] \in KindsOf(queue')
    BY <1>3, <2>1 DEF KindsOf
  <2>3. KindsOf(queue') \subseteq KindsOf(queue) /\ kind \in KindsOf(queue)
    BY <1>3 DEF KindsOf
  <2> QED BY <2>2, <2>3 DEF KindsOf
<1>5. kind \in Kind /\ <<kind>> \in Seq(Kind) /\ KindsOf(<<kind>>) = {kind}
  BY <1>3, OwnKinds, KindsOfOne
<1>6. ~Heard("worker_finished")
  BY <1>0 DEF TelemetryOK
<1>7. kind = "worker_finished" => queue' = <<>>
  <2>1. kind = "worker_finished" => Len(queue) = 1
    BY <1>0, <1>3 DEF TelemetryOK
  <2> QED BY <1>0, <2>1, TailOfOne
<1>8. ASSUME NEW more \in SUBSET {"harness_error"},
             \A x : Heard(x)' <=> Heard(x) \/ x = kind \/ x \in more
      PROVE  /\ TelemetryOK'
             /\ \A x : x # "harness_error" => (Told(x)' <=> Told(x))
  <2>1. \A x : x # "harness_error" => (Told(x)' <=> Told(x))
    <3>1. \A x : Told(x) <=> Heard(x) \/ x \in KindsOf(queue)
      BY DEF Told, Heard
    <3>2. \A x : Told(x)' <=> Heard(x)' \/ x \in KindsOf(queue')
      BY DEF Told, Heard
    <3> QED BY <1>4, <1>8, <3>1, <3>2
  <2>2. \A i \in DOMAIN queue' : queue'[i] = "worker_finished" => i = Len(queue')
    <3> SUFFICES ASSUME NEW i \in DOMAIN queue', queue'[i] = "worker_finished" PROVE i = Len(queue')
      OBVIOUS
    <3>1. i + 1 = Len(queue)
      BY <1>0, <1>3 DEF TelemetryOK
    <3> QED BY <1>3, <3>1
  <2>3. Heard("worker_finished")' => queue' = <<>>
    BY <1>6, <1>7, <1>8
  <2>4. Told("worker_finished")' => w'.pc \in Ended
    BY <1>0, <2>1 DEF TelemetryOK
  <2> QED BY <2>1, <2>2, <2>3, <2>4 DEF TelemetryOK
<1>9. CASE kind = "worker_error"
  <2>0. kind # Head(p.todo)
    BY <1>0, <1>9 DEF Awaited
  <2>1. p' = Failed(<<kind>>, kind)
    BY <1>1, <1>9, <2>0 DEF Hear, Parent
  <2>2. kind \in Failure \ {"none"}
    BY <1>9 DEF Failure
  <2>3. /\ p'.todo = <<"cleanup">> /\ p'.failure = kind
        /\ KindsOf(p'.events) = KindsOf(p.events) \cup {kind} \cup {"harness_error"}
    BY <1>0, <1>5, <2>1, <2>2, FailedIsParent
  <2>4. \A x : Heard(x)' <=> Heard(x) \/ x = kind \/ x \in {"harness_error"}
    BY <2>3 DEF Heard
  <2>5. OrderOK'
    BY <1>0, <2>3, OrderCloses
  <2> QED BY <1>0, <1>8, <2>2, <2>3, <2>4, <2>5 DEF PointInv
<1>10. CASE kind # "worker_error"
  <2>1. \/ kind = st /\ p' = Done(<<kind>>)
        \/ kind # st /\ p' = [p EXCEPT !.events = Append(@, kind)]
    BY <1>1, <1>2, <1>10 DEF Hear, Parent
  <2>2. /\ p'.failure = p.failure /\ KindsOf(p'.events) = KindsOf(p.events) \cup {kind}
        /\ p'.seen = p.seen /\ p'.barriers = p.barriers /\ p'.copies = p.copies
        /\ kind = st => p'.todo = Tail(p.todo)
        /\ kind # st => p'.todo = p.todo
    <3>1. CASE kind = st
      <4>1. p' = Done(<<kind>>)
        BY <2>1, <3>1
      <4>2. /\ p'.todo = Tail(p.todo) /\ p'.failure = p.failure
            /\ KindsOf(p'.events) = KindsOf(p.events) \cup KindsOf(<<kind>>)
        BY <1>0, <1>5, <4>1, DoneIsParent
      <4>3. p'.seen = p.seen /\ p'.barriers = p.barriers /\ p'.copies = p.copies
        BY <1>0, <4>1 DEF Done, ParentType
      <4> QED BY <1>5, <3>1, <4>2, <4>3
    <3>2. CASE kind # st
      <4>1. PICK events : events = Append(p.events, kind)
        OBVIOUS
      <4>2. p' = [p EXCEPT !.events = events]
        BY <2>1, <3>2, <4>1
      <4>3. /\ p'.todo = p.todo /\ p'.failure = p.failure /\ p'.events = events
            /\ p'.seen = p.seen /\ p'.barriers = p.barriers /\ p'.copies = p.copies
        BY <1>0, <4>2 DEF ParentType
      <4>4. p.events \in Seq(Kind) /\ events = p.events \o <<kind>>
        BY <1>0, <1>5, <4>1 DEF ParentType
      <4>5. KindsOf(events) = KindsOf(p.events) \cup {kind}
        <5>1. PICK one : one = <<kind>>
          OBVIOUS
        <5>2. one \in Seq(Kind) /\ KindsOf(one) = {kind} /\ events = p.events \o one
          BY <1>5, <4>4, <5>1
        <5> QED BY <4>4, <5>2, KindsJoin
      <4> QED BY <1>5, <3>2, <4>3, <4>5
    <3> QED BY <3>1, <3>2
  <2>3. \A x : Heard(x)' <=> Heard(x) \/ x = kind
    BY <2>2 DEF Heard
  <2>m. PICK more \in SUBSET {"harness_error"} : more = {}
    OBVIOUS
  <2>4. \A x : Heard(x)' <=> Heard(x) \/ x = kind \/ x \in more
    BY <2>3, <2>m
  <2>5. TelemetryOK' /\ \A x : x # "harness_error" => (Told(x)' <=> Told(x))
    BY <1>8, <2>4
  <2>6. /\ Heard("decision_recorded")' <=> Heard("decision_recorded")
        /\ Heard("issuer_dispatched")' <=> Heard("issuer_dispatched")
        /\ Heard("delivery_failed")' <=> Heard("delivery_failed")
        /\ Heard("effect_observed")' <=> Heard("effect_observed")
    <3>1. kind \notin {"decision_recorded", "issuer_dispatched", "delivery_failed", "effect_observed"}
      BY <1>3 DEF WorkerKind
    <3> QED BY <2>3, <3>1
  <2>7. st \in {"worker_ready", "action_barrier_reached", "worker_finished"} /\ st \notin Closing
    BY <1>0, <1>2 DEF Awaited, Closing
  <2>8. OrderOK' /\ (Owes("start")' => Owes("start")) /\ (p.failure = "none" => ParentOK')
    <3>1. CASE kind = st
      <4>1. OrderOK' /\ Advanced(st)
        BY <1>0, <1>2, <2>2, <3>1, GoesOn
      <4>2. /\ Heard("worker_ready")' <=> Heard("worker_ready") \/ st = "worker_ready"
            /\ Heard("action_barrier_reached")' <=>
                 Heard("action_barrier_reached") \/ st = "action_barrier_reached"
            /\ Heard("worker_finished")' <=> Heard("worker_finished") \/ st = "worker_finished"
        BY <2>3, <3>1
      <4>3. p'.barriers = p.barriers \cup ({"begin", "continue"} \cap {st})
        BY <2>2, <2>7
      <4>4. Records(st)
        BY <2>2, <2>6, <2>7, <4>2, <4>3 DEF Records
      <4>5. Owes("start")' => Owes("start")
        BY <4>1 DEF Advanced, Closing
      <4> QED BY <1>0, <1>2, <4>1, <4>4, <4>5, ParentHolds
    <3>2. CASE kind # st
      <4>1. p'.todo = p.todo /\ \A x : Owes(x)' <=> Owes(x)
        BY <2>2, <3>2 DEF Owes
      <4>2. OrderOK'
        BY <1>0, <4>1 DEF PointInv, OrderOK
      <4>3. \A x : Heard(x) => Heard(x)'
        BY <2>3
      <4>4. ParentOK => ParentOK'
        BY <1>0, <2>2, <2>6, <4>1, <4>3 DEF ParentOK
      <4> QED BY <4>1, <4>2, <4>4 DEF PointInv
    <3> QED BY <3>1, <3>2
  <2>9. Stays
    BY <1>0, <2>2, <2>5, <2>6, <2>8 DEF Stays
  <2> QED BY <1>0, <2>2, <2>5, <2>8, <2>9, WorkerHolds DEF PointInv
<1> QED BY <1>9, <1>10

\* A worker that is killed is of a run that failed.
LEMMA SignalPoints == ASSUME PointInv, RunInv', SignalEnds PROVE PointInv'
<1>1. /\ w.pc # "dead" /\ p' = p /\ queue' = queue /\ scenario' = scenario /\ w'.pc = "dead"
      /\ p.todo # <<>> /\ Head(p.todo) \in Closing /\ RunInv
  BY DEF SignalEnds, At, Closing, PointInv, RunInv, WorldOK, WorkerType, Dead
<1>2. ~Owes("join")
  BY <1>1, HeadIsOwed DEF Closing
<1>3. p'.failure # "none"
  BY <1>1, <1>2 DEF RunInv, EndsOK
<1>4. OrderOK'
  BY <1>1 DEF PointInv, OrderOK, Owes
<1>5. TelemetryOK'
  BY <1>1, TelemetryHolds DEF PointInv, Heard, Ended
<1> QED BY <1>1, <1>3, <1>4, <1>5 DEF PointInv

\* The invariant holds in every run.
LEMMA PointStays == Spec => []PointInv
<1>1. PointInv /\ [Next]_vars => PointInv'
  <2> SUFFICES ASSUME PointInv, [Next]_vars PROVE PointInv'
    OBVIOUS
  <2>1. CASE ParentStep
    <3>1. RunInv'
      BY <2>1, StartKeeps, HearKeeps, StatementKeeps, ClosingKeeps DEF ParentStep, PointInv
    <3> QED BY <2>1, <3>1, StartPoints, GivenUpPoints, DonePoints, SendStopPoints, HearPoints,
               JoinPoints, ClosingPoints DEF ParentStep
  <2>2. CASE WorkerStep
    BY <2>2, WorkerStepPoints
  <2>3. CASE SignalEnds
    BY <2>3, SignalKeeps, SignalPoints DEF PointInv
  <2>4. CASE w' = w /\ p' = p /\ queue' = queue /\ scenario' = scenario /\ unread' = unread
    <3>1. RunInv'
      BY <2>4 DEF PointInv, RunInv, WorldOK, ScriptOK, EndsOK, StopOK, Owes, KindsOf
    <3>2. OrderOK' /\ TelemetryOK'
      BY <2>4 DEF PointInv, OrderOK, TelemetryOK, Owes, Told, Heard
    <3>3. ParentOK => ParentOK'
      BY <2>4 DEF ParentOK, Owes, Heard
    <3>4. Stays
      BY <2>4 DEF Stays, Owes, Heard, Told
    <3> QED BY <2>4, <3>1, <3>2, <3>3, <3>4, WorkerHolds DEF PointInv
  <2> QED BY <2>1, <2>2, <2>3, <2>4 DEF Next, Deadline, vars
<1> QED BY <1>1, InitPoints, PTL DEF Spec
-----------------------------------------------------------------------------
(* What a run that returns has recorded, in each scenario.                 *)

\* The artifacts of a stop whose delivery ended as told, and was answered or
\* not by an execution and its effect.
ReportsOf(delivery, events, observed) ==
  {Decision, Control(delivery, "issuer", "issuer", 1, Decision)}
  \cup (IF events = {} THEN {} ELSE {Receipt})
  \cup {Executed(event) : event \in events}
  \cup {Effect(event) : event \in If(observed, events)}

\* What was sent, how it was answered, how many steps the file has.
Outcome ==
  CASE scenario = "normal" -> Artifacts = {} /\ w.rows = BusinessSteps
    [] scenario = "stop-before-start" ->
         Artifacts = ReportsOf("dispatched", {"executed"}, TRUE) /\ w.rows = 0
    [] scenario = "stop-during-action" ->
         Artifacts = ReportsOf("dispatched", {"executed"}, TRUE) /\ w.rows = 1
    [] scenario = "receiver-unreachable" ->
         Artifacts = ReportsOf("delivery_failed", {}, TRUE) /\ w.rows = BusinessSteps
    [] scenario = "receiver-ignores-stop" ->
         Artifacts = ReportsOf("dispatched", {"failed"}, TRUE) /\ w.rows = BusinessSteps
    [] scenario = "effect-unobserved" ->
         Artifacts = ReportsOf("dispatched", {"executed"}, FALSE) /\ w.rows = 0

\* A run that returns owes nothing: it recorded what its script is for.
LEMMA ReturnedIsDone ==
  ASSUME PointInv, Returned
  PROVE  /\ ParentOK /\ ActionOK /\ DispatchOK /\ ScenarioOK /\ scenario \in Scenarios
         /\ \A kind : Told(kind) <=> Heard(kind)
         /\ Heard("worker_finished") /\ w.rows \in Nat
         /\ Heard("effect_observed") <=> scenario # "effect-unobserved"
         /\ Heard("decision_recorded") <=> scenario # "normal"
<1>1. p.todo = <<>> /\ p.failure = "none" /\ \A x : ~Owes(x)
  BY DEF Returned, Finished, Owes
<1>2. /\ ParentOK /\ ActionOK /\ DispatchOK /\ ScenarioOK /\ scenario \in Scenarios
      /\ TelemetryOK /\ w.rows \in Nat
  BY <1>1 DEF PointInv, RunInv, WorldOK, WorkerType
<1>3. Heard("worker_finished")
  <2>1. "worker_finished" \in Awaited \cap StatementsOf(scenario)
    BY DEF Awaited, StatementsOf
  <2> QED BY <1>1, <1>2, <2>1 DEF ParentOK
<1>4. queue = <<>>
  BY <1>2, <1>3 DEF TelemetryOK
<1>5. \A kind : Told(kind) <=> Heard(kind)
  BY <1>4 DEF Told, Heard, KindsOf
<1>6. Heard("effect_observed") <=> scenario # "effect-unobserved"
  <2>1. \A i \in DOMAIN p.todo : FALSE
    BY <1>1
  <2> QED BY <1>1, <1>2, <2>1 DEF ParentOK
<1>7. Heard("decision_recorded") <=> scenario # "normal"
  <2>1. "send" \in StatementsOf(scenario) <=> scenario # "normal"
    BY DEF StatementsOf, Early
  <2> QED BY <1>1, <1>2, <2>1 DEF ParentOK
<1> QED BY <1>2, <1>3, <1>5, <1>6, <1>7

\* The artifacts follow from six of the recorded kinds.
LEMMA RecordedArtifacts ==
  ASSUME NEW sent \in BOOLEAN, NEW lost \in BOOLEAN, NEW got \in BOOLEAN, NEW paused \in BOOLEAN,
         NEW refused \in BOOLEAN, NEW observed \in BOOLEAN,
         Heard("decision_recorded"), Heard("issuer_dispatched") <=> sent,
         Heard("delivery_failed") <=> lost, Heard("receiver_observed") <=> got,
         Paused <=> paused, Refused <=> refused, Heard("effect_observed") <=> observed,
         sent <=> ~lost, sent <=> got, paused \/ refused <=> got
  PROVE  Artifacts = ReportsOf(IF sent THEN "dispatched" ELSE "delivery_failed",
                             IF paused THEN {"executed"} ELSE IF refused THEN {"failed"} ELSE {},
                             observed)
<1>1. /\ Has("decision_recorded") /\ (Has("issuer_dispatched") <=> sent) /\ (Has("delivery_failed") <=> lost)
      /\ (Has("receiver_observed") <=> got) /\ (Has("effect_observed") <=> observed)
  BY DEF Has, Heard, KindsOf
<1>2. PICK events : events = IF paused THEN {"executed"} ELSE IF refused THEN {"failed"} ELSE {}
  OBVIOUS
<1>3. Execution = events /\ (events = {} <=> ~got)
  BY <1>2 DEF Execution
<1>4. CASE sent
  BY <1>1, <1>2, <1>3, <1>4 DEF Artifacts, If, ReportsOf
<1>5. CASE ~sent
  BY <1>1, <1>2, <1>3, <1>5 DEF Artifacts, If, ReportsOf
<1> QED BY <1>4, <1>5

\* A stop that was read and stored as an interrupt is reported as executed.
LEMMA InterruptReports ==
  ASSUME PointInv, Returned, scenario # "normal",
         Heard("receiver_observed"), Heard("enforcement_requested"), Heard(Interrupted)
  PROVE  Artifacts = ReportsOf("dispatched", {"executed"}, scenario # "effect-unobserved")
<1>1. /\ DispatchOK /\ Heard("decision_recorded") /\ Told("receiver_observed")
      /\ Heard("effect_observed") <=> scenario # "effect-unobserved"
  BY ReturnedIsDone
<1>2. Heard("issuer_dispatched") /\ ~Heard("delivery_failed")
  BY <1>1 DEF DispatchOK
<1>3. Paused
  BY DEF Paused, Has, Heard, KindsOf, Interrupted
<1>4. PICK refused \in BOOLEAN : Refused <=> refused
  OBVIOUS
<1>5. PICK observed \in BOOLEAN : observed = (scenario # "effect-unobserved")
  OBVIOUS
<1>6. Artifacts = ReportsOf(IF TRUE THEN "dispatched" ELSE "delivery_failed",
                          IF TRUE THEN {"executed"} ELSE IF refused THEN {"failed"} ELSE {}, observed)
  BY <1>1, <1>2, <1>3, <1>4, <1>5, RecordedArtifacts
<1> QED BY <1>5, <1>6

\* A stop that is sent early, or during the action and not ignored, is
\* executed; none of the steps after it is in the file.
LEMMA StopExecutes ==
  ASSUME PointInv, Returned,
         scenario \in {"stop-before-start", "stop-during-action", "effect-unobserved"}
  PROVE  /\ Artifacts = ReportsOf("dispatched", {"executed"}, scenario # "effect-unobserved")
         /\ w.rows = IF scenario = "stop-during-action" THEN 1 ELSE 0
<1>1. ScenarioOK /\ (\A kind : Told(kind) <=> Heard(kind)) /\ Told("worker_finished")
  BY ReturnedIsDone
<1>2. CASE scenario # "stop-during-action"
  <2>1. EarlyOK
    BY <1>1, <1>2 DEF ScenarioOK
  <2>2. Told("receiver_observed") /\ Told("enforcement_requested") /\ Told(Interrupted) /\ w.rows = 0
    BY <1>1, <2>1 DEF EarlyOK
  <2> QED BY <1>1, <1>2, <2>2, InterruptReports
<1>3. CASE scenario = "stop-during-action"
  <2>1. LateOK
    BY <1>1, <1>3 DEF ScenarioOK
  <2>2. Told("receiver_observed") /\ Told("enforcement_requested") /\ Told(Interrupted) /\ w.rows = 1
    BY <1>1, <1>3, <2>1 DEF LateOK
  <2> QED BY <1>1, <1>3, <2>2, InterruptReports
<1> QED BY <1>2, <1>3

\* A stop that is ignored is reported as failed, and the action runs to its end.
LEMMA IgnoredReports ==
  ASSUME PointInv, Returned, scenario = "receiver-ignores-stop"
  PROVE  Artifacts = ReportsOf("dispatched", {"failed"}, TRUE) /\ w.rows = BusinessSteps
<1>1. /\ ActionOK /\ DispatchOK /\ ScenarioOK /\ \A kind : Told(kind) <=> Heard(kind)
      /\ Told("worker_finished") /\ Heard("decision_recorded") /\ Heard("effect_observed")
  BY ReturnedIsDone
<1>2. LateOK
  BY <1>1 DEF ScenarioOK
<1>3. Told("receiver_observed") /\ Told("enforcement_unavailable") /\ ~Told(Interrupted)
  BY <1>1, <1>2 DEF LateOK
<1>4. w.rows = BusinessSteps /\ Heard("issuer_dispatched") /\ ~Heard("delivery_failed")
  BY <1>1, <1>3 DEF ActionOK, DispatchOK
<1>5. Heard("receiver_observed") /\ Heard("enforcement_unavailable") /\ ~Heard(Interrupted)
  BY <1>1, <1>3
<1>6. Refused /\ ~Paused
  BY <1>5 DEF Refused, Paused, Has, Heard, KindsOf, Interrupted
<1>7. Artifacts = ReportsOf(IF TRUE THEN "dispatched" ELSE "delivery_failed",
                          IF FALSE THEN {"executed"} ELSE IF TRUE THEN {"failed"} ELSE {}, TRUE)
  BY <1>1, <1>4, <1>5, <1>6, RecordedArtifacts
<1> QED BY <1>4, <1>7

\* Nothing reaches a closed endpoint, and nothing is sent in a normal run: the
\* action runs to its end.
LEMMA UndisturbedReports ==
  ASSUME PointInv, Returned, scenario \in {"normal", "receiver-unreachable"}
  PROVE  /\ w.rows = BusinessSteps
         /\ scenario = "normal" => Artifacts = {}
         /\ scenario = "receiver-unreachable" => Artifacts = ReportsOf("delivery_failed", {}, TRUE)
<1>1. /\ ParentOK /\ ActionOK /\ ScenarioOK /\ \A kind : Told(kind) <=> Heard(kind)
      /\ Told("worker_finished") /\ Heard("effect_observed")
      /\ Heard("decision_recorded") <=> scenario # "normal"
  BY ReturnedIsDone
<1>2. UndisturbedOK
  BY <1>1 DEF ScenarioOK
<1>3. ~Told("receiver_observed") /\ ~Told(Interrupted)
  BY <1>2 DEF UndisturbedOK
<1>4. w.rows = BusinessSteps
  BY <1>1, <1>3 DEF ActionOK
<1>5. scenario = "normal" => Artifacts = {}
  BY <1>1 DEF Artifacts, If, Has, Heard, KindsOf
<1>6. ASSUME scenario = "receiver-unreachable" PROVE Artifacts = ReportsOf("delivery_failed", {}, TRUE)
  <2>1. Heard("decision_recorded") /\ ~Heard("issuer_dispatched") /\ Heard("delivery_failed")
    BY <1>1, <1>2, <1>6 DEF UndisturbedOK, ParentOK
  <2>2. ~Heard("receiver_observed")
    BY <1>1, <1>3
  <2>3. ~Paused /\ ~Refused
    BY <2>2 DEF Paused, Refused, Has, Heard, KindsOf
  <2>4. Artifacts = ReportsOf(IF FALSE THEN "dispatched" ELSE "delivery_failed",
                            IF FALSE THEN {"executed"} ELSE IF FALSE THEN {"failed"} ELSE {}, TRUE)
    BY <1>1, <2>1, <2>2, <2>3, RecordedArtifacts
  <2> QED BY <2>4
<1> QED BY <1>4, <1>5, <1>6

\* The reports and the steps of each scenario.
LEMMA EachOutcome == ASSUME PointInv, Returned PROVE Outcome /\ scenario \in Scenarios
<1>1. scenario \in Scenarios
  BY ReturnedIsDone
<1>2. CASE scenario \in {"stop-before-start", "stop-during-action", "effect-unobserved"}
  <2>1. /\ Artifacts = ReportsOf("dispatched", {"executed"}, scenario # "effect-unobserved")
        /\ w.rows = IF scenario = "stop-during-action" THEN 1 ELSE 0
    BY <1>2, StopExecutes
  <2>2. PICK observed \in BOOLEAN : observed = (scenario # "effect-unobserved")
    OBVIOUS
  <2>3. Artifacts = ReportsOf("dispatched", {"executed"}, observed)
    BY <2>1, <2>2
  <2> QED BY <1>1, <1>2, <2>1, <2>2, <2>3 DEF Outcome
<1>3. CASE scenario = "receiver-ignores-stop"
  BY <1>1, <1>3, IgnoredReports DEF Outcome
<1>4. CASE scenario \in {"normal", "receiver-unreachable"}
  BY <1>1, <1>4, UndisturbedReports DEF Outcome
<1> QED BY <1>1, <1>2, <1>3, <1>4 DEF Scenarios
-----------------------------------------------------------------------------
(* What the reconciler makes of the reports of a run.                      *)

\* The checks of a family that came to a state.
NamesOf(family, state) == {c.check : c \in {d \in family : d.state = state}}

\* Families add up.
LEMMA NamesAddUp ==
  ASSUME NEW F, NEW G, NEW state
  PROVE  NamesOf(F \cup G, state) = NamesOf(F, state) \cup NamesOf(G, state)
BY DEF NamesOf

\* So do four of them.
LEMMA NamesOfFour ==
  ASSUME NEW F, NEW G, NEW H, NEW K, NEW state
  PROVE  NamesOf(F \cup G \cup H \cup K, state) =
           NamesOf(F, state) \cup NamesOf(G, state) \cup NamesOf(H, state) \cup NamesOf(K, state)
<1>1. NamesOf(F \cup G, state) = NamesOf(F, state) \cup NamesOf(G, state)
  BY NamesAddUp
<1>2. NamesOf((F \cup G) \cup H, state) = NamesOf(F \cup G, state) \cup NamesOf(H, state)
  BY NamesAddUp
<1>3. NamesOf((F \cup G \cup H) \cup K, state) = NamesOf(F \cup G \cup H, state) \cup NamesOf(K, state)
  BY NamesAddUp
<1> QED BY <1>1, <1>2, <1>3

\* One check.
LEMMA NameOfOne ==
  ASSUME NEW name, NEW subject, NEW came, NEW state
  PROVE  NamesOf({R!Check(name, subject, came)}, state) = IF came = state THEN {name} ELSE {}
<1>1. PICK c : c = R!Check(name, subject, came)
  OBVIOUS
<1>2. c.check = name /\ c.state = came
  BY <1>1 DEF R!Check
<1>3. NamesOf({c}, state) = IF came = state THEN {name} ELSE {}
  BY <1>2 DEF NamesOf
<1> QED BY <1>1, <1>3

\* A family of which every check came to something else.
LEMMA NamesOfNone ==
  ASSUME NEW F, NEW state, \A c \in F : \E name, subject, came : c = R!Check(name, subject, came) /\ came # state
  PROVE  NamesOf(F, state) = {}
BY DEF NamesOf, R!Check

\* A verdict on what is so.
LEMMA VerdictIsGood ==
  ASSUME NEW condition, condition, NEW otherwise
  PROVE  R!Verdict(condition, otherwise) = "SATISFIED"
BY DEF R!Verdict

\* A singleton has one element, and no more.
LEMMA OneOnly ==
  ASSUME NEW a
  PROVE  R!Cardinality({a}) = 1 /\ ~(R!Cardinality({a}) > 1)
<1>1. R!Cardinality({a}) = 1
  BY FS_Singleton DEF R!Cardinality, Cardinality
<1> QED BY <1>1

\* A decision, the report of its delivery, and what the runtime said of it: a
\* receipt and an execution or neither, and the effect of an execution.
Answered(A, S, d, o, r, x, e) ==
  /\ A = [a \in S |-> a]
  /\ {d, o} \subseteq S /\ S \subseteq {d, o, r, x, e}
  /\ r \in S <=> x \in S
  /\ e \in S => x \in S
  /\ d.valid /\ o.valid /\ r.valid /\ x.valid /\ e.valid
  /\ d.id = "decision" /\ o.id \in {"dispatched", "delivery_failed"} /\ r.id = "received"
  /\ x.id = "execution" /\ e.id = "effect"
  /\ d.by = "issuer" /\ o.by = "issuer" /\ r.by = "runtime" /\ x.by = "runtime" /\ e.by = "runtime"
  /\ d.chain = "issuer" /\ o.chain = "issuer"
  /\ r.chain = "runtime" /\ x.chain = "runtime" /\ e.chain = "runtime"
  /\ d.seq = 0 /\ o.seq = 1 /\ r.seq = 0 /\ x.seq = 1 /\ e.seq = 2
  /\ d.prev = R!Genesis /\ o.prev = d /\ r.prev = R!Genesis /\ x.prev = r /\ e.prev = x
  /\ d.body.type = "decision" /\ o.body.type = "control" /\ r.body.type = "control"
  /\ x.body.type = "execution" /\ e.body.type = "effect"
  /\ \A a \in {o, r, x, e} : a.body.decision = Ref("decision")
  /\ \A a \in {o, r, x} : a.body.instr = "stop" /\ a.body.digest = "bytes"
  /\ o.body.event = o.id /\ o.body.side = "issuer" /\ o.body.action = "pause"
  /\ r.body.event = "received" /\ r.body.side = "receiver" /\ r.body.action = "pause"
  /\ x.body.event \in {"executed", "failed"}
  /\ x.body.action = (IF x.body.event = "executed" THEN "pause" ELSE "continue")
  /\ e.body.exec = Ref("execution") /\ e.body.observer = "same_executor"

\* No two reports are the same, and none is the beginning of a chain.
LEMMA AnsweredApart ==
  ASSUME NEW A, NEW S, NEW d, NEW o, NEW r, NEW x, NEW e, Answered(A, S, d, o, r, x, e)
  PROVE  /\ d # o /\ d # r /\ d # x /\ d # e /\ o # r /\ o # x /\ o # e /\ r # x /\ r # e /\ x # e
         /\ \A i, j \in S : i.id = j.id => i = j
         /\ d # R!Genesis /\ r # R!Genesis /\ x # R!Genesis
         /\ DOMAIN A = S /\ \A a \in S : A[a] = a
<1>1. /\ d.id = "decision" /\ o.id \in {"dispatched", "delivery_failed"} /\ r.id = "received"
      /\ x.id = "execution" /\ e.id = "effect" /\ S \subseteq {d, o, r, x, e}
  BY DEF Answered
<1>2. d.seq = 0 /\ r.seq = 0 /\ x.seq = 1 /\ R!Genesis.seq = -1
  BY DEF Answered, R!Genesis
<1>3. DOMAIN A = S /\ \A a \in S : A[a] = a
  BY DEF Answered
<1>4. \A i, j \in S : i.id = j.id => i = j
  <2> TAKE i, j \in S
  <2>1. i \in {d, o, r, x, e} /\ j \in {d, o, r, x, e}
    BY <1>1
  <2> QED BY <1>1, <2>1
<1>5. d # o /\ d # r /\ d # x /\ d # e /\ o # r /\ o # x /\ o # e /\ r # x /\ r # e /\ x # e
  BY <1>1
<1> QED BY <1>2, <1>3, <1>4, <1>5

\* All are admitted, and each is the only one of its identity.
LEMMA AnsweredAdmitted ==
  ASSUME NEW A, NEW S, NEW d, NEW o, NEW r, NEW x, NEW e, Answered(A, S, d, o, r, x, e)
  PROVE  /\ R!Admitted(A) = S /\ R!Unique(A) = S /\ \A i \in S : R!SameId(A, i.id) = {i}
         /\ R!OfFamily(A, "decision") = {d} /\ R!OfFamily(A, "control") = {o, r} \cap S
         /\ R!OfFamily(A, "execution") = {x} \cap S /\ R!OfFamily(A, "effect") = {e} \cap S
         /\ R!Steps(A) = {o, r, x} \cap S
<1>1. DOMAIN A = S /\ (\A a \in S : A[a] = a) /\ \A i, j \in S : i.id = j.id => i = j
  BY AnsweredApart
<1>2. \A a \in S : a.valid
  BY DEF Answered
<1>3. R!Admitted(A) = S
  BY <1>1, <1>2 DEF R!Admitted
<1>4. \A i \in S : R!SameId(A, i.id) = {i}
  BY <1>1, <1>3 DEF R!SameId
<1>5. R!Unique(A) = S
  BY <1>1, <1>3, <1>4 DEF R!Unique
<1>6. /\ d.body.type = "decision" /\ o.body.type = "control" /\ r.body.type = "control"
      /\ x.body.type = "execution" /\ e.body.type = "effect"
      /\ {d, o} \subseteq S /\ S \subseteq {d, o, r, x, e}
  BY DEF Answered
<1>7. \A family : R!OfFamily(A, family) = {i \in S : i.body.type = family}
  BY <1>1, <1>5 DEF R!OfFamily
<1>8. /\ R!OfFamily(A, "decision") = {d} /\ R!OfFamily(A, "control") = {o, r} \cap S
      /\ R!OfFamily(A, "execution") = {x} \cap S /\ R!OfFamily(A, "effect") = {e} \cap S
  BY <1>6, <1>7
<1>9. R!Steps(A) = {o, r, x} \cap S
  BY <1>8 DEF R!Steps
<1> QED BY <1>3, <1>4, <1>5, <1>8, <1>9

\* Every report is admitted under a proven key.
LEMMA AnsweredAdmission ==
  ASSUME NEW A, NEW S, NEW d, NEW o, NEW r, NEW x, NEW e, Answered(A, S, d, o, r, x, e),
         NEW state \in {"FAILURE", "MISSING"}
  PROVE  NamesOf(R!AdmissionChecks(A), state) = {}
<1>1. R!Admitted(A) = S /\ R!Unique(A) = S /\ DOMAIN A \ R!Admitted(A) = {}
  BY AnsweredAdmitted, AnsweredApart
<1>2. \A i \in S : A[i].by \in {"issuer", "runtime"}
  <2>1. \A i \in S : i.by \in {"issuer", "runtime"}
    BY DEF Answered
  <2> QED BY <2>1, AnsweredApart
<1>3. \A i \in S : [by \in {"issuer", "runtime"} |-> "SATISFIED"][A[i].by] = "SATISFIED"
  BY <1>2
<1>4. ASSUME NEW c \in R!AdmissionChecks(A)
      PROVE  \E name, subject, came : c = R!Check(name, subject, came) /\ came # state
  <2>1. \E name, subject : c = R!Check(name, subject, "SATISFIED")
    BY <1>1, <1>3, VerdictIsGood DEF R!AdmissionChecks
  <2> QED BY <2>1
<1> QED BY <1>4, NamesOfNone

\* The issuer's chain and the runtime's are whole.
LEMMA AnsweredChain ==
  ASSUME NEW A, NEW S, NEW d, NEW o, NEW r, NEW x, NEW e, Answered(A, S, d, o, r, x, e),
         NEW state \in {"FAILURE", "MISSING"}
  PROVE  NamesOf(R!ChainChecks(A), state) = {}
<1>1. R!Admitted(A) = S /\ (\A a \in S : A[a] = a)
  BY AnsweredAdmitted, AnsweredApart
<1>2. /\ {d, o} \subseteq S /\ S \subseteq {d, o, r, x, e} /\ (r \in S <=> x \in S) /\ (e \in S => x \in S)
      /\ d.chain = "issuer" /\ o.chain = "issuer"
      /\ r.chain = "runtime" /\ x.chain = "runtime" /\ e.chain = "runtime"
      /\ d.seq = 0 /\ o.seq = 1 /\ r.seq = 0 /\ x.seq = 1 /\ e.seq = 2
      /\ d.prev = R!Genesis /\ o.prev = d /\ r.prev = R!Genesis /\ x.prev = r /\ e.prev = x
  BY DEF Answered
<1>3. /\ d # o /\ d # r /\ d # x /\ d # e /\ o # r /\ o # x /\ o # e /\ r # x /\ r # e /\ x # e
      /\ d # R!Genesis /\ r # R!Genesis /\ x # R!Genesis
  BY AnsweredApart
<1>4. R!ChainOf(A, "issuer") = {d, o} /\ R!ChainOf(A, "runtime") = {r, x, e} \cap S
  BY <1>1, <1>2 DEF R!ChainOf
<1>5. \A i \in S : R!Position(A, i.chain, i.seq) = {i}
  BY <1>1, <1>2, <1>4 DEF R!Position
<1>6. ASSUME NEW i \in {d, r} \cap S PROVE R!LinkState(A, i) = "SATISFIED"
  <2>1. A[i] = i /\ i.prev = R!Genesis /\ i.seq = 0 /\ i.chain \in {"issuer", "runtime"}
    BY <1>1, <1>2, <1>6
  <2>2. \A j \in R!ChainOf(A, i.chain) : A[j].seq >= i.seq
    BY <1>1, <1>2, <1>4, <2>1
  <2> QED BY <2>1, <2>2, VerdictIsGood DEF R!LinkState
<1>7. ASSUME NEW i \in {o, x, e} \cap S PROVE R!LinkState(A, i) = "SATISFIED"
  <2>1. A[i] = i
    BY <1>1, <1>7
  <2>2. PICK n \in {d, r, x} \cap S : i.prev = n /\ n.chain = i.chain /\ n.seq = i.seq - 1 /\ i.seq \in {1, 2}
    BY <1>2, <1>7
  <2>3. i.prev # R!Genesis /\ A[n] = n /\ A[i].prev = n
    BY <1>1, <1>3, <2>1, <2>2
  <2> DEFINE M == {j \in R!ChainOf(A, A[i].chain) : A[j] = A[i].prev}
  <2>4. M = {n}
    BY <1>1, <2>1, <2>2, <2>3 DEF R!ChainOf
  <2>5. R!Cardinality(M) = 1 /\ ~(R!Cardinality(M) > 1)
    BY <2>4, OneOnly
  <2>6. R!Increases(A, i, n)
    <3>1. \A k \in R!ChainOf(A, i.chain) : A[k] = k /\ k.seq \in {0, 1, 2}
      BY <1>1, <1>2 DEF R!ChainOf
    <3> QED BY <2>1, <2>2, <2>3, <3>1 DEF R!Increases
  <2>7. R!Verdict(\E j \in M : R!Increases(A, i, j), "FAILURE") = "SATISFIED"
    <3>1. \E j \in M : R!Increases(A, i, j)
      BY <2>4, <2>6
    <3> QED BY <3>1, VerdictIsGood
  <2> DEFINE adjacent == R!Position(A, A[i].chain, A[i].seq - 1)
             rest == CASE A[i].seq = 0                 -> "FAILURE"
                       [] R!Cardinality(adjacent) = 1  -> "FAILURE"
                       [] R!Cardinality(adjacent) > 1  -> "NOT_EVALUATED"
                       [] OTHER                        -> "MISSING"
             first == R!Verdict(\A j \in R!ChainOf(A, A[i].chain) : A[j].seq >= A[i].seq, "FAILURE")
             linked == R!Verdict(\E j \in M : R!Increases(A, i, j), "FAILURE")
  <2>8. R!LinkState(A, i) =
          CASE A[i].prev = R!Genesis -> first
            [] A[i].prev # R!Genesis /\ R!Cardinality(M) = 1 -> linked
            [] A[i].prev # R!Genesis /\ R!Cardinality(M) > 1 -> "NOT_EVALUATED"
            [] OTHER -> rest
    BY DEF R!LinkState
  <2> HIDE DEF M, first, linked, rest, adjacent
  <2>9. linked = "SATISFIED" /\ A[i].prev # R!Genesis
    <3>1. A[i].prev # R!Genesis
      BY <2>1, <2>3
    <3> QED BY <3>1, <2>7, Zenon DEF linked, M
  <2> QED BY <2>5, <2>8, <2>9
<1>8. \A i \in S : R!LinkState(A, i) = "SATISFIED"
  BY <1>2, <1>6, <1>7
<1>9. ASSUME NEW c \in R!ChainChecks(A)
      PROVE  \E name, subject, came : c = R!Check(name, subject, came) /\ came # state
  <2>1. PICK i \in S : c \in R!PositionChecks(A, i)
    BY <1>1, <1>9 DEF R!ChainChecks
  <2>2. R!Position(A, A[i].chain, A[i].seq) = {i} /\ R!LinkState(A, i) = "SATISFIED"
    BY <1>1, <1>5, <1>8
  <2>3. \E subject : c = R!Check("chain_link", subject, "SATISFIED")
    BY <2>1, <2>2 DEF R!PositionChecks
  <2> QED BY <2>3
<1> QED BY <1>9, NamesOfNone

\* Each report refers to the decision, and an effect to its execution.
LEMMA AnsweredResolved ==
  ASSUME NEW A, NEW S, NEW d, NEW o, NEW r, NEW x, NEW e, Answered(A, S, d, o, r, x, e)
  PROVE  /\ \A i \in S \ {d} : /\ R!Resolved(A, A[i].body.decision, "decision") = "SATISFIED"
                               /\ A[i].body.decision.id = "decision" /\ R!DecidedBy(A, i, "decision")
         /\ \A i \in S : R!DecidedBy(A, i, A[i].body.decision.id) => i # d
         /\ e \in S => R!Resolved(A, e.body.exec, "execution") = "SATISFIED"
<1>1. /\ R!Unique(A) = S /\ (\A i \in S : R!SameId(A, i.id) = {i}) /\ (\A a \in S : A[a] = a)
  BY AnsweredAdmitted, AnsweredApart
<1>2. /\ {d, o} \subseteq S /\ S \subseteq {d, o, r, x, e} /\ (r \in S <=> x \in S) /\ (e \in S => x \in S)
      /\ d.id = "decision" /\ x.id = "execution"
      /\ d.body.type = "decision" /\ o.body.type = "control" /\ r.body.type = "control"
      /\ x.body.type = "execution" /\ e.body.type = "effect"
      /\ (\A a \in {o, r, x} : a.body.decision = Ref("decision")) /\ e.body.decision = Ref("decision")
      /\ e.body.exec = Ref("execution")
  BY DEF Answered
<1>3. ASSUME NEW name, NEW family, NEW n \in S, n.id = name, n.body.type = family
      PROVE  R!Resolved(A, Ref(name), family) = "SATISFIED"
  <2> DEFINE matches == R!SameId(A, Ref(name).id)
             v == R!Verdict(\A i \in matches : /\ A[i].body.type = family
                                               /\ Ref(name).chain \in {"any", A[i].chain},
                            "FAILURE")
  <2>1. R!Resolved(A, Ref(name), family) = CASE matches = {} -> "MISSING"
                                             [] R!Cardinality(matches) > 1 -> "INDETERMINATE"
                                             [] OTHER -> v
    BY DEF R!Resolved
  <2>2. matches = {n} /\ Ref(name).chain = "any"
    BY <1>1, <1>3 DEF Ref
  <2>3. v = "SATISFIED"
    BY <1>1, <1>3, <2>2, VerdictIsGood
  <2>4. ~(R!Cardinality(matches) > 1)
    BY <2>2, OneOnly
  <2> HIDE DEF matches, v
  <2>5. matches # {} /\ ~(R!Cardinality(matches) > 1)
    BY <2>2, <2>4
  <2> QED BY <2>1, <2>3, <2>5
<1>4. R!Resolved(A, Ref("decision"), "decision") = "SATISFIED"
  BY <1>2, <1>3
<1>5. e \in S => R!Resolved(A, Ref("execution"), "execution") = "SATISFIED"
  BY <1>2, <1>3
<1>6. ASSUME NEW i \in S \ {d}
      PROVE  /\ A[i].body.decision = Ref("decision") /\ A[i].body.type # "decision"
             /\ R!Resolved(A, A[i].body.decision, "decision") = "SATISFIED"
  <2>1. A[i] = i /\ i.body.decision = Ref("decision") /\ i.body.type # "decision"
    BY <1>1, <1>2
  <2> QED BY <1>4, <2>1
<1>7. Ref("decision").id = "decision"
  BY DEF Ref
<1>8. \A i \in S \ {d} : A[i].body.decision.id = "decision" /\ R!DecidedBy(A, i, "decision")
  BY <1>1, <1>6, <1>7 DEF R!DecidedBy
<1>9. \A i \in S : R!DecidedBy(A, i, A[i].body.decision.id) => i # d
  BY <1>1, <1>2 DEF R!DecidedBy
<1> QED BY <1>2, <1>5, <1>6, <1>8, <1>9

\* Every reference resolves, and the decision has its instruction.
LEMMA AnsweredCorrelation ==
  ASSUME NEW A, NEW S, NEW d, NEW o, NEW r, NEW x, NEW e, Answered(A, S, d, o, r, x, e),
         NEW state \in {"FAILURE", "MISSING"}
  PROVE  NamesOf(R!CorrelationChecks(A), state) = {}
<1>1. /\ R!Unique(A) = S /\ R!OfFamily(A, "decision") = {d} /\ R!Steps(A) = {o, r, x} \cap S
      /\ A[d] = d /\ d.id = "decision" /\ o \in S /\ o # d
  <2>1. d \in S /\ o \in S /\ d.id = "decision"
    BY DEF Answered
  <2>2. A[d] = d /\ o # d
    BY <2>1, AnsweredApart
  <2> QED BY <2>1, <2>2, AnsweredAdmitted
<1>2. /\ \A i \in S \ {d} : R!Resolved(A, A[i].body.decision, "decision") = "SATISFIED"
      /\ R!DecidedBy(A, o, "decision")
  BY <1>1, AnsweredResolved
<1>3. R!Verdict(\E j \in R!Steps(A) : R!DecidedBy(A, j, A[d].id), "MISSING") = "SATISFIED"
  <2>1. \E j \in R!Steps(A) : R!DecidedBy(A, j, A[d].id)
    BY <1>1, <1>2
  <2> QED BY <2>1, VerdictIsGood
<1>4. ASSUME NEW c \in R!CorrelationChecks(A)
      PROVE  \E name, subject, came : c = R!Check(name, subject, came) /\ came # state
  <2>1. CASE \E i \in S \ {d} : c \in R!ReferenceChecks(A, i)
    <3>1. PICK i \in S \ {d} : c \in R!ReferenceChecks(A, i)
      BY <2>1
    <3>2. c = R!Check("decision_reference", R!RefOf(A[i]), "SATISFIED")
      BY <1>2, <3>1 DEF R!ReferenceChecks
    <3> QED BY <3>2
  <2>2. CASE c = R!Check("instruction_evidence", R!RefOf(A[d]),
                         R!Verdict(\E j \in R!Steps(A) : R!DecidedBy(A, j, A[d].id), "MISSING"))
    BY <1>3, <2>2
  <2> QED BY <1>1, <1>4, <2>1, <2>2 DEF R!CorrelationChecks
<1> QED BY <1>4, NamesOfNone

\* What a report of delivery and an execution may contradict, and leave open.
GroupNames(o, x, answered, state) ==
  IF state = "FAILURE"
  THEN (IF o.id = "delivery_failed" THEN {"delivery_failure_report"} ELSE {})
       \cup (IF answered /\ x.body.event = "failed" THEN {"execution_outcome", "toctou"} ELSE {})
  ELSE (IF o.id = "delivery_failed" THEN {"issuer_dispatch"} ELSE {})
       \cup (IF answered THEN {} ELSE {"receiver_receipt", "execution_evidence"})

\* The group of the instruction: a failed delivery, an execution that did not
\* execute, and what was never reported, are all that is held against it.
LEMMA AnsweredGroup ==
  ASSUME NEW A, NEW S, NEW d, NEW o, NEW r, NEW x, NEW e, Answered(A, S, d, o, r, x, e),
         NEW state \in {"FAILURE", "MISSING"}
  PROVE  NamesOf(R!GroupChecks(A, "decision", "stop"), state) = GroupNames(o, x, x \in S, state)
<1> DEFINE group == R!Group(A, "decision", "stop")
           controls == group \cap R!OfFamily(A, "control")
           executions == group \cap R!OfFamily(A, "execution")
           wrongSide == {i \in controls : <<A[i].body.event, A[i].body.side>> \in
                           {<<"dispatched", "receiver">>, <<"received", "issuer">>}}
           Reporting(event, side) == {i \in controls : A[i].body.event = event /\ A[i].body.side = side}
           failed == {i \in controls : A[i].body.event = "delivery_failed"}
           digests == {A[i].body.digest : i \in group}
           outcomes == {A[i].body.event : i \in executions}
           About(name, came) == R!Check(name, <<"decision", "stop">>, came)
           sent == Reporting("dispatched", "issuer")
           received == Reporting("received", "receiver")
           unique == R!Verdict(R!Cardinality(digests) = 1, "FAILURE")
           basic == {About("instruction_digest_agreement", unique),
                     About("issuer_dispatch", R!Verdict(sent # {}, "MISSING")),
                     About("receiver_receipt", R!Verdict(received # {}, "MISSING")),
                     About("execution_evidence", R!Verdict(executions # {}, "MISSING"))}
           wrong == {R!Check("control_boundary", R!RefOf(A[i]), "FAILURE") : i \in wrongSide}
           lost == {About("delivery_failure_report", "FAILURE") : i \in failed}
           unsure == {About("delivery_outcome", "INDETERMINATE") : i \in {j \in failed : received # {}}}
           done == {R!Check("execution_outcome", R!RefOf(A[i]),
                            R!Verdict(A[i].body.event = "executed", "FAILURE")) : i \in executions}
           several == IF R!Cardinality(outcomes) > 1
                      THEN {About("execution_outcomes", "INDETERMINATE")} ELSE {}
           agree == R!Verdict(\A i, j \in controls : A[i].body.action = A[j].body.action, "FAILURE")
           agreed == IF controls = {} THEN {} ELSE {About("authorization_agreement", agree)}
           pairs == R!Verdict(R!AllAgree(A, controls, executions), "FAILURE")
           bound == IF controls = {} \/ executions = {}
                    THEN {About("toctou", "NOT_EVALUATED"),
                          About("execution_instruction_binding", "NOT_EVALUATED")}
                    ELSE {About("toctou", pairs), About("execution_instruction_binding", unique)}
<1>1. R!GroupChecks(A, "decision", "stop") =
        basic \cup wrong \cup lost \cup unsure \cup done \cup several \cup agreed \cup bound
  BY Zenon DEF R!GroupChecks
<1>2. /\ R!Steps(A) = {o, r, x} \cap S /\ R!OfFamily(A, "control") = {o, r} \cap S
      /\ R!OfFamily(A, "execution") = {x} \cap S /\ (\A a \in S : A[a] = a)
      /\ d # o /\ d # r /\ d # x /\ o # r /\ o # x /\ r # x
  BY AnsweredAdmitted, AnsweredApart
<1>3. /\ {d, o} \subseteq S /\ (r \in S <=> x \in S)
      /\ \A a \in {o, r, x} : a.body.instr = "stop" /\ a.body.digest = "bytes"
      /\ o.body.event = o.id /\ o.id \in {"dispatched", "delivery_failed"}
      /\ o.body.side = "issuer" /\ o.body.action = "pause"
      /\ r.body.event = "received" /\ r.body.side = "receiver" /\ r.body.action = "pause"
      /\ x.body.event \in {"executed", "failed"}
      /\ x.body.action = (IF x.body.event = "executed" THEN "pause" ELSE "continue")
  BY DEF Answered
<1>4. \A i \in S \ {d} : R!DecidedBy(A, i, "decision")
  BY AnsweredResolved
<1>5. group = {o, r, x} \cap S
  BY <1>2, <1>3, <1>4 DEF R!Group
<1> HIDE DEF group
<1>6. controls = {o, r} \cap S /\ executions = {x} \cap S
  BY <1>2, <1>5
<1>7. digests = {"bytes"}
  BY <1>2, <1>3, <1>5
<1> HIDE DEF controls, executions, digests
<1>8. wrongSide = {}
  BY <1>2, <1>3, <1>6
<1>9. failed = IF o.id = "delivery_failed" THEN {o} ELSE {}
  BY <1>2, <1>3, <1>6
<1>10. /\ sent # {} <=> o.id # "delivery_failed"
       /\ received # {} <=> x \in S
  BY <1>2, <1>3, <1>6
<1>11. outcomes = IF x \in S THEN {x.body.event} ELSE {}
  BY <1>2, <1>3, <1>6
<1> HIDE DEF wrongSide, failed, sent, received, outcomes, Reporting
<1>12. unique = "SATISFIED" /\ agree = "SATISFIED"
  <2>1. R!Cardinality(digests) = 1
    BY <1>7, OneOnly
  <2>2. \A i, j \in controls : A[i].body.action = A[j].body.action
    BY <1>2, <1>3, <1>6
  <2> QED BY <2>1, <2>2, VerdictIsGood
<1>13. pairs = IF x \in S /\ x.body.event = "failed" THEN "FAILURE" ELSE "SATISFIED"
  <2>1. R!AllAgree(A, controls, executions) <=> ~(x \in S /\ x.body.event = "failed")
    BY <1>2, <1>3, <1>6 DEF R!AllAgree
  <2> QED BY <2>1 DEF R!Verdict
<1> HIDE DEF unique, agree, pairs
<1>14. NamesOf(basic, state) =
         IF state = "FAILURE" THEN {}
         ELSE (IF o.id = "delivery_failed" THEN {"issuer_dispatch"} ELSE {})
              \cup (IF x \in S THEN {} ELSE {"receiver_receipt", "execution_evidence"})
  <2> DEFINE b1 == {About("instruction_digest_agreement", unique)}
             b2 == {About("issuer_dispatch", R!Verdict(sent # {}, "MISSING"))}
             b3 == {About("receiver_receipt", R!Verdict(received # {}, "MISSING"))}
             b4 == {About("execution_evidence", R!Verdict(executions # {}, "MISSING"))}
  <2>1. NamesOf(b1, state) = {}
    BY <1>12, NameOfOne
  <2>2. NamesOf(b2, state) = IF R!Verdict(sent # {}, "MISSING") = state THEN {"issuer_dispatch"} ELSE {}
    BY NameOfOne
  <2>3. NamesOf(b3, state) = IF R!Verdict(received # {}, "MISSING") = state THEN {"receiver_receipt"} ELSE {}
    BY NameOfOne
  <2>4. NamesOf(b4, state) = IF R!Verdict(executions # {}, "MISSING") = state THEN {"execution_evidence"} ELSE {}
    BY NameOfOne
  <2>5. basic = b1 \cup b2 \cup b3 \cup b4
    OBVIOUS
  <2> HIDE DEF basic, b1, b2, b3, b4
  <2>6. NamesOf(basic, state) = NamesOf(b1, state) \cup NamesOf(b2, state) \cup NamesOf(b3, state) \cup NamesOf(b4, state)
    BY <2>5, NamesOfFour
  <2>7. executions # {} <=> x \in S
    BY <1>6
  <2>8. /\ R!Verdict(sent # {}, "MISSING") = IF o.id # "delivery_failed" THEN "SATISFIED" ELSE "MISSING"
        /\ R!Verdict(received # {}, "MISSING") = IF x \in S THEN "SATISFIED" ELSE "MISSING"
        /\ R!Verdict(executions # {}, "MISSING") = IF x \in S THEN "SATISFIED" ELSE "MISSING"
    BY <1>10, <2>7 DEF R!Verdict
  <2> QED BY <2>1, <2>2, <2>3, <2>4, <2>6, <2>8
<1>15. NamesOf(wrong, state) = {} /\ NamesOf(several, state) = {} /\ NamesOf(unsure, state) = {}
  <2>1. wrong = {}
    BY <1>8
  <2>2. several = {}
    <3>1. several = IF R!Cardinality(outcomes) > 1
                      THEN {About("execution_outcomes", "INDETERMINATE")} ELSE {}
      OBVIOUS
    <3>2. ~(R!Cardinality(outcomes) > 1)
      <4>1. CASE x \in S
        BY <1>11, <4>1, OneOnly
      <4>2. CASE x \notin S
        <5>1. R!Cardinality({}) = 0
          BY FS_EmptySet DEF R!Cardinality, Cardinality
        <5> QED BY <1>11, <4>2, <5>1
      <4> QED BY <4>1, <4>2
    <3> QED BY <3>1, <3>2
  <2>3. NamesOf({}, state) = {}
    BY DEF NamesOf
  <2>4. NamesOf(unsure, state) = {}
    <3>1. \A c \in unsure : \E name, subject, came : c = R!Check(name, subject, came) /\ came # state
      OBVIOUS
    <3> HIDE DEF unsure
    <3> QED BY <3>1, NamesOfNone
  <2> HIDE DEF wrong, several
  <2> QED BY <2>1, <2>2, <2>3, <2>4
<1>16. NamesOf(lost, state) =
         IF state = "FAILURE" /\ o.id = "delivery_failed" THEN {"delivery_failure_report"} ELSE {}
  <2>1. CASE o.id = "delivery_failed"
    <3>1. lost = {About("delivery_failure_report", "FAILURE")}
      BY <1>9, <2>1
    <3> HIDE DEF lost
    <3> QED BY <2>1, <3>1, NameOfOne
  <2>2. CASE o.id # "delivery_failed"
    <3>1. lost = {}
      BY <1>9, <2>2
    <3> HIDE DEF lost
    <3> QED BY <2>2, <3>1 DEF NamesOf
  <2> QED BY <2>1, <2>2
<1>17. NamesOf(done, state) =
         IF state = "FAILURE" /\ x \in S /\ x.body.event = "failed" THEN {"execution_outcome"} ELSE {}
  <2>1. CASE x \in S
    <3>1. done = {R!Check("execution_outcome", R!RefOf(A[x]),
                          R!Verdict(A[x].body.event = "executed", "FAILURE"))}
      BY <1>6, <2>1
    <3>2. R!Verdict(A[x].body.event = "executed", "FAILURE") =
            IF x.body.event = "failed" THEN "FAILURE" ELSE "SATISFIED"
      BY <1>2, <1>3, <2>1 DEF R!Verdict
    <3> HIDE DEF done
    <3> QED BY <2>1, <3>1, <3>2, NameOfOne
  <2>2. CASE x \notin S
    <3>1. done = {}
      BY <1>6, <2>2
    <3> HIDE DEF done
    <3> QED BY <2>2, <3>1 DEF NamesOf
  <2> QED BY <2>1, <2>2
<1>18. NamesOf(agreed, state) = {}
  <2>1. agreed = {About("authorization_agreement", agree)}
    BY <1>3, <1>6
  <2> HIDE DEF agreed
  <2> QED BY <1>12, <2>1, NameOfOne
<1>19. NamesOf(bound, state) =
         IF state = "FAILURE" /\ x \in S /\ x.body.event = "failed" THEN {"toctou"} ELSE {}
  <2>1. PICK t, b : /\ t = IF x \in S THEN pairs ELSE "NOT_EVALUATED"
                    /\ b = IF x \in S THEN unique ELSE "NOT_EVALUATED"
    OBVIOUS
  <2>2. controls # {} /\ (executions = {} <=> x \notin S)
    BY <1>3, <1>6
  <2>3. bound = {About("toctou", t)} \cup {About("execution_instruction_binding", b)}
    BY <2>1, <2>2
  <2> HIDE DEF bound
  <2>4. NamesOf({About("toctou", t)}, state) = IF t = state THEN {"toctou"} ELSE {}
    BY NameOfOne
  <2>5. NamesOf({About("execution_instruction_binding", b)}, state) =
          IF b = state THEN {"execution_instruction_binding"} ELSE {}
    BY NameOfOne
  <2>6. NamesOf(bound, state) = NamesOf({About("toctou", t)}, state)
                                  \cup NamesOf({About("execution_instruction_binding", b)}, state)
    BY <2>3, NamesAddUp
  <2> QED BY <1>12, <1>13, <2>1, <2>4, <2>5, <2>6
<1> HIDE DEF basic, wrong, lost, unsure, done, several, agreed, bound
<1>20. NamesOf(R!GroupChecks(A, "decision", "stop"), state) =
         NamesOf(basic, state) \cup NamesOf(wrong, state) \cup NamesOf(lost, state)
         \cup NamesOf(unsure, state) \cup NamesOf(done, state) \cup NamesOf(several, state)
         \cup NamesOf(agreed, state) \cup NamesOf(bound, state)
  <2> DEFINE F == basic \cup wrong \cup lost \cup unsure
             G == done \cup several \cup agreed \cup bound
  <2>1. R!GroupChecks(A, "decision", "stop") = F \cup G
    BY <1>1
  <2>2. NamesOf(F, state) = NamesOf(basic, state) \cup NamesOf(wrong, state) \cup NamesOf(lost, state)
                            \cup NamesOf(unsure, state)
    BY NamesOfFour
  <2>3. NamesOf(G, state) = NamesOf(done, state) \cup NamesOf(several, state)
                            \cup NamesOf(agreed, state) \cup NamesOf(bound, state)
    BY NamesOfFour
  <2> HIDE DEF F, G
  <2>4. NamesOf(F \cup G, state) = NamesOf(F, state) \cup NamesOf(G, state)
    BY NamesAddUp
  <2> QED BY <2>1, <2>2, <2>3, <2>4
<1> QED BY <1>14, <1>15, <1>16, <1>17, <1>18, <1>19, <1>20 DEF GroupNames

\* What is held against the reports of one run.
AnsweredNames(o, x, answered, observed, state) ==
  GroupNames(o, x, answered, state)
  \cup (IF state = "MISSING" /\ answered /\ ~observed THEN {"effect_evidence"} ELSE {})

\* An effect is bound to the execution; an execution may lack its effect.
LEMMA AnsweredEffect ==
  ASSUME NEW A, NEW S, NEW d, NEW o, NEW r, NEW x, NEW e, Answered(A, S, d, o, r, x, e),
         NEW state \in {"FAILURE", "MISSING"}
  PROVE  NamesOf(R!EffectChecks(A), state) =
           IF state = "MISSING" /\ x \in S /\ e \notin S THEN {"effect_evidence"} ELSE {}
<1>1. /\ R!OfFamily(A, "effect") = {e} \cap S /\ R!OfFamily(A, "execution") = {x} \cap S
      /\ (\A i \in S : R!SameId(A, i.id) = {i}) /\ (\A a \in S : A[a] = a) /\ x # d /\ e # d
  BY AnsweredAdmitted, AnsweredApart
<1>2. /\ x.id = "execution" /\ e.body.exec = Ref("execution") /\ Ref("execution").id = "execution"
      /\ e.body.observer = "same_executor" /\ (e \in S => x \in S)
  BY DEF Answered, Ref
<1>3. ASSUME e \in S
      PROVE  /\ R!BindingState(A, e) = "SATISFIED" /\ R!Assessed(A, e) # "unknown"
             /\ R!Resolved(A, A[e].body.exec, "execution") = "SATISFIED"
  <2>0. A[e] = e /\ A[x] = x /\ x \in S /\ A[e].body.exec.id = "execution"
    BY <1>1, <1>2, <1>3
  <2>1. R!SameId(A, A[e].body.exec.id) = {x}
    BY <1>1, <1>2, <2>0
  <2>2. R!Resolved(A, A[e].body.exec, "execution") = "SATISFIED"
    BY <1>3, <2>0, AnsweredResolved
  <2> DEFINE targets == R!SameId(A, A[e].body.exec.id)
             decided == {j \in targets \cup {e} : R!DecidedBy(A, j, A[j].body.decision.id)}
             v == R!Verdict(\A j \in targets : A[j].body.decision.id = A[e].body.decision.id, "FAILURE")
  <2>3. R!BindingState(A, e) =
          CASE R!Resolved(A, A[e].body.exec, "execution") # "SATISFIED" -> "NOT_EVALUATED"
            [] R!Resolved(A, A[e].body.exec, "execution") = "SATISFIED" /\ decided # targets \cup {e} ->
                 "NOT_EVALUATED"
            [] OTHER -> v
    BY DEF R!BindingState
  <2>4. \A j \in {x, e} : A[j].body.decision.id = "decision" /\ R!DecidedBy(A, j, "decision")
    <3>1. x \in S \ {d} /\ e \in S \ {d}
      BY <1>1, <1>3, <2>0
    <3> QED BY <3>1, AnsweredResolved
  <2>5. decided = targets \cup {e}
    BY <2>1, <2>4
  <2>6. v = "SATISFIED"
    BY <2>1, <2>4, VerdictIsGood
  <2> HIDE DEF decided, targets, v
  <2>7. R!BindingState(A, e) = "SATISFIED"
    BY <2>2, <2>3, <2>5, <2>6
  <2>8. R!Assessed(A, e) # "unknown"
    BY <1>2, <2>0 DEF R!Assessed
  <2> QED BY <2>2, <2>7, <2>8
<1> DEFINE told == UNION {{R!Check("execution_reference", R!RefOf(A[i]),
                                   R!Resolved(A, A[i].body.exec, "execution")),
                           R!Check("effect_binding", R!RefOf(A[i]), R!BindingState(A, i)),
                           R!Check("observer_relationship", R!RefOf(A[i]),
                                   R!Verdict(R!Assessed(A, i) # "unknown", "INDETERMINATE"))} :
                            i \in R!OfFamily(A, "effect")}
           seen == {R!EffectEvidence(A, i) : i \in R!OfFamily(A, "execution")}
<1>4. R!EffectChecks(A) = told \cup seen
  BY DEF R!EffectChecks
<1>5. NamesOf(told, state) = {}
  <2>1. \A c \in told : \E name, subject, came : c = R!Check(name, subject, came) /\ came # state
    <3> SUFFICES ASSUME NEW c \in told
                 PROVE  \E name, subject, came : c = R!Check(name, subject, came) /\ came # state
      OBVIOUS
    <3>1. e \in S /\ c \in {R!Check("execution_reference", R!RefOf(A[e]),
                                    R!Resolved(A, A[e].body.exec, "execution")),
                            R!Check("effect_binding", R!RefOf(A[e]), R!BindingState(A, e)),
                            R!Check("observer_relationship", R!RefOf(A[e]),
                                    R!Verdict(R!Assessed(A, e) # "unknown", "INDETERMINATE"))}
      BY <1>1
    <3>2. R!Verdict(R!Assessed(A, e) # "unknown", "INDETERMINATE") = "SATISFIED"
      BY <1>3, <3>1, VerdictIsGood
    <3>3. \E name : c = R!Check(name, R!RefOf(A[e]), "SATISFIED")
      BY <1>3, <3>1, <3>2
    <3> QED BY <3>3
  <2> HIDE DEF told
  <2> QED BY <2>1, NamesOfNone
<1>6. NamesOf(seen, state) = IF state = "MISSING" /\ x \in S /\ e \notin S THEN {"effect_evidence"} ELSE {}
  <2>1. CASE x \in S
    <3> DEFINE bound == \E i \in R!OfFamily(A, "effect") : /\ A[i].body.exec.id = A[x].id
                                                           /\ R!BindingState(A, i) = "SATISFIED"
    <3>1. seen = {R!EffectEvidence(A, x)}
      BY <1>1, <2>1
    <3>2. R!EffectEvidence(A, x) = R!Check("effect_evidence", R!RefOf(A[x]), R!Verdict(bound, "MISSING"))
      BY DEF R!EffectEvidence
    <3>3. bound <=> e \in S
      BY <1>1, <1>2, <1>3, <2>1
    <3>4. R!Verdict(bound, "MISSING") = IF e \in S THEN "SATISFIED" ELSE "MISSING"
      BY <3>3 DEF R!Verdict
    <3> HIDE DEF seen, bound
    <3>5. PICK came : came = R!Verdict(bound, "MISSING")
      OBVIOUS
    <3>6. seen = {R!Check("effect_evidence", R!RefOf(A[x]), came)}
      BY <3>1, <3>2, <3>5
    <3>7. NamesOf({R!Check("effect_evidence", R!RefOf(A[x]), came)}, state) =
            IF came = state THEN {"effect_evidence"} ELSE {}
      BY NameOfOne
    <3>8. NamesOf(seen, state) = IF came = state THEN {"effect_evidence"} ELSE {}
      BY <3>6, <3>7
    <3> QED BY <2>1, <3>4, <3>5, <3>8
  <2>2. CASE x \notin S
    <3>1. seen = {}
      BY <1>1, <2>2
    <3> HIDE DEF seen
    <3> QED BY <2>2, <3>1 DEF NamesOf
  <2> QED BY <2>1, <2>2
<1> HIDE DEF told, seen
<1>7. NamesOf(told \cup seen, state) = NamesOf(told, state) \cup NamesOf(seen, state)
  BY NamesAddUp
<1> QED BY <1>4, <1>5, <1>6, <1>7

\* All that the reconciler holds against the reports of one run.
LEMMA AnsweredChecks ==
  ASSUME NEW A, NEW S, NEW d, NEW o, NEW r, NEW x, NEW e, Answered(A, S, d, o, r, x, e),
         NEW state \in {"FAILURE", "MISSING"}
  PROVE  NamesOf(R!Checks(A), state) = AnsweredNames(o, x, x \in S, e \in S, state)
<1> DEFINE groups == UNION {R!GroupChecks(A, A[i].body.decision.id, A[i].body.instr) :
                              i \in {j \in R!Steps(A) : R!DecidedBy(A, j, A[j].body.decision.id)}}
           empty == IF DOMAIN A = {} THEN {R!Check("evidence_set", <<>>, "MISSING")} ELSE {}
           coverage == {R!Check("intended_target_coverage", <<>>, "NOT_EVALUATED")}
           reports == R!AdmissionChecks(A) \cup R!ChainChecks(A) \cup R!CorrelationChecks(A) \cup groups
<1>1. R!Checks(A) = (reports \cup R!EffectChecks(A) \cup empty \cup coverage)
  BY DEF R!Checks
<1>2. groups = R!GroupChecks(A, "decision", "stop")
  <2>0. o \in S
    BY DEF Answered
  <2>1. /\ R!Steps(A) = {o, r, x} \cap S /\ o \in S /\ (\A a \in S : A[a] = a)
        /\ d # o /\ d # r /\ d # x
    BY <2>0, AnsweredAdmitted, AnsweredApart
  <2>2. \A i \in {o, r, x} \cap S : A[i].body.decision.id = "decision" /\ R!DecidedBy(A, i, "decision")
    BY <2>1, AnsweredResolved
  <2>3. \A i \in {o, r, x} \cap S : A[i].body.instr = "stop"
    <3>1. \A i \in {o, r, x} : i.body.instr = "stop"
      BY DEF Answered
    <3> QED BY <2>1, <3>1
  <2>4. {j \in R!Steps(A) : R!DecidedBy(A, j, A[j].body.decision.id)} = {o, r, x} \cap S
    BY <2>1, <2>2
  <2>5. \A i \in {o, r, x} \cap S :
          R!GroupChecks(A, A[i].body.decision.id, A[i].body.instr) = R!GroupChecks(A, "decision", "stop")
    BY <2>2, <2>3
  <2> QED BY <2>1, <2>4, <2>5
<1>3. NamesOf(empty, state) = {}
  <2>1. DOMAIN A # {}
    BY AnsweredApart DEF Answered
  <2>2. empty = {}
    BY <2>1
  <2> HIDE DEF empty
  <2> QED BY <2>2 DEF NamesOf
<1>4. NamesOf(coverage, state) = {}
  BY NameOfOne
<1> HIDE DEF groups, empty, coverage, reports
<1>5. NamesOf(reports, state) = GroupNames(o, x, x \in S, state)
  <2>1. NamesOf(reports, state) = NamesOf(R!AdmissionChecks(A), state) \cup NamesOf(R!ChainChecks(A), state)
                                  \cup NamesOf(R!CorrelationChecks(A), state) \cup NamesOf(groups, state)
    BY NamesOfFour DEF reports
  <2>2. NamesOf(groups, state) = GroupNames(o, x, x \in S, state)
    BY <1>2, AnsweredGroup
  <2>3. /\ NamesOf(R!AdmissionChecks(A), state) = {} /\ NamesOf(R!ChainChecks(A), state) = {}
        /\ NamesOf(R!CorrelationChecks(A), state) = {}
    BY AnsweredAdmission, AnsweredChain, AnsweredCorrelation
  <2> QED BY <2>1, <2>2, <2>3
<1>6. NamesOf(R!EffectChecks(A), state) =
        IF state = "MISSING" /\ x \in S /\ e \notin S THEN {"effect_evidence"} ELSE {}
  BY AnsweredEffect
<1>7. NamesOf(R!Checks(A), state) = NamesOf(reports, state) \cup NamesOf(R!EffectChecks(A), state)
                                    \cup NamesOf(empty, state) \cup NamesOf(coverage, state)
  BY <1>1, NamesOfFour
<1> QED BY <1>3, <1>4, <1>5, <1>6, <1>7 DEF AnsweredNames

\* The artifacts are such reports: so delivered, so answered, and observed or not.
ReportsOn(S, delivery, event, answered, observed) ==
  \E o, x, e :
    /\ Answered([a \in S |-> a], S, Decision, o, Receipt, x, e)
    /\ o.id = delivery /\ x.body.event = event
    /\ x \in S <=> answered
    /\ e \in S <=> answered /\ observed

\* The reports of a stop are.
LEMMA ReportsAreAnswered ==
  ASSUME NEW delivery \in {"dispatched", "delivery_failed"}, NEW event \in {"executed", "failed"},
         NEW answered \in BOOLEAN, NEW observed \in BOOLEAN,
         NEW S, S = ReportsOf(delivery, IF answered THEN {event} ELSE {}, observed)
  PROVE  ReportsOn(S, delivery, event, answered, observed)
<1>1. PICK d, o, r, x, e : /\ d = Decision /\ o = Control(delivery, "issuer", "issuer", 1, Decision)
                           /\ r = Receipt /\ x = Executed(event) /\ e = Effect(event)
  OBVIOUS
<1>2. /\ d.valid /\ d.id = "decision" /\ d.by = "issuer" /\ d.chain = "issuer" /\ d.seq = 0
      /\ d.prev = R!Genesis /\ d.body.type = "decision"
  BY <1>1 DEF Decision, Artifact
<1>3. /\ o.valid /\ o.id = delivery /\ o.by = "issuer" /\ o.chain = "issuer" /\ o.seq = 1 /\ o.prev = d
      /\ o.body = [type |-> "control", decision |-> Ref("decision"), instr |-> "stop", digest |-> "bytes",
                   event |-> delivery, side |-> "issuer", action |-> "pause"]
  BY <1>1 DEF Control, Artifact
<1>4. /\ r.valid /\ r.id = "received" /\ r.by = "runtime" /\ r.chain = "runtime" /\ r.seq = 0
      /\ r.prev = R!Genesis
      /\ r.body = [type |-> "control", decision |-> Ref("decision"), instr |-> "stop", digest |-> "bytes",
                   event |-> "received", side |-> "receiver", action |-> "pause"]
  BY <1>1 DEF Receipt, Control, Artifact
<1>5. /\ x.valid /\ x.id = "execution" /\ x.by = "runtime" /\ x.chain = "runtime" /\ x.seq = 1 /\ x.prev = r
      /\ x.body = [type |-> "execution", decision |-> Ref("decision"), instr |-> "stop", digest |-> "bytes",
                   event |-> event, action |-> IF event = "executed" THEN "pause" ELSE "continue"]
  BY <1>1 DEF Executed, Artifact
<1>6. /\ e.valid /\ e.id = "effect" /\ e.by = "runtime" /\ e.chain = "runtime" /\ e.seq = 2 /\ e.prev = x
      /\ e.body = [type |-> "effect", decision |-> Ref("decision"), exec |-> Ref("execution"),
                   observer |-> "same_executor"]
  BY <1>1 DEF Effect, Artifact
<1>7. S = {d, o} \cup (IF answered THEN {r, x} ELSE {}) \cup (IF answered /\ observed THEN {e} ELSE {})
  BY <1>1 DEF ReportsOf, If
<1>8. d # r /\ d # x /\ d # e /\ o # r /\ o # x /\ o # e /\ r # e /\ x # e
  BY <1>2, <1>3, <1>4, <1>5, <1>6
<1>9. /\ {d, o} \subseteq S /\ S \subseteq {d, o, r, x, e} /\ (r \in S <=> x \in S) /\ (e \in S => x \in S)
      /\ x \in S <=> answered
      /\ e \in S <=> answered /\ observed
  BY <1>7, <1>8
<1>10. /\ \A a \in {o, r, x} : a.body.instr = "stop" /\ a.body.digest = "bytes"
       /\ \A a \in {o, r, x, e} : a.body.decision = Ref("decision")
       /\ o.body.type = "control" /\ r.body.type = "control" /\ x.body.type = "execution" /\ e.body.type = "effect"
  BY <1>3, <1>4, <1>5, <1>6
<1>11. /\ o.body.event = o.id /\ o.body.side = "issuer" /\ o.body.action = "pause"
       /\ r.body.event = "received" /\ r.body.side = "receiver" /\ r.body.action = "pause"
       /\ x.body.event = event
       /\ x.body.action = (IF x.body.event = "executed" THEN "pause" ELSE "continue")
       /\ e.body.exec = Ref("execution") /\ e.body.observer = "same_executor"
  BY <1>3, <1>4, <1>5, <1>6
<1>12. Answered([a \in S |-> a], S, d, o, r, x, e)
  BY <1>2, <1>3, <1>4, <1>5, <1>6, <1>9, <1>10, <1>11 DEF Answered
<1>13. Answered([a \in S |-> a], S, Decision, o, Receipt, x, e)
  BY <1>1, <1>12
<1>14. /\ o.id = delivery /\ x.body.event = event
       /\ x \in S <=> answered
       /\ e \in S <=> answered /\ observed
  BY <1>3, <1>9, <1>11
<1> QED BY <1>13, <1>14, Zenon DEF ReportsOn

\* What is held against the reports of a stop.
LEMMA ReportsAreHeld ==
  ASSUME NEW delivery \in {"dispatched", "delivery_failed"}, NEW event \in {"executed", "failed"},
         NEW answered \in BOOLEAN, NEW observed \in BOOLEAN,
         Artifacts = ReportsOf(delivery, IF answered THEN {event} ELSE {}, observed)
  PROVE  /\ InState("FAILURE") =
              (IF delivery = "delivery_failed" THEN {"delivery_failure_report"} ELSE {})
              \cup (IF answered /\ event = "failed" THEN {"execution_outcome", "toctou"} ELSE {})
         /\ InState("MISSING") =
              (IF delivery = "delivery_failed" THEN {"issuer_dispatch"} ELSE {})
              \cup (IF answered THEN {} ELSE {"receiver_receipt", "execution_evidence"})
              \cup (IF answered /\ ~observed THEN {"effect_evidence"} ELSE {})
<1>1. PICK S : S = Artifacts
  OBVIOUS
<1>0. S = ReportsOf(delivery, IF answered THEN {event} ELSE {}, observed)
  BY <1>1
<1>7. ReportsOn(S, delivery, event, answered, observed)
  BY <1>0, ReportsAreAnswered
<1>2. PICK o, x, e : /\ Answered([a \in S |-> a], S, Decision, o, Receipt, x, e)
                     /\ o.id = delivery /\ x.body.event = event
                     /\ x \in S <=> answered
                     /\ e \in S <=> answered /\ observed
  BY <1>7, Zenon DEF ReportsOn
<1>3. ASSUME NEW state \in {"FAILURE", "MISSING"}
      PROVE  InState(state) = AnsweredNames(o, x, answered, answered /\ observed, state)
  <2>1. NamesOf(R!Checks([a \in S |-> a]), state) = AnsweredNames(o, x, x \in S, e \in S, state)
    BY <1>2, AnsweredChecks
  <2>2. InState(state) = NamesOf(R!Checks([a \in S |-> a]), state)
    BY <1>1 DEF InState, NamesOf, Checks
  <2>3. AnsweredNames(o, x, x \in S, e \in S, state) = AnsweredNames(o, x, answered, answered /\ observed, state)
    BY <1>2 DEF AnsweredNames, GroupNames
  <2> QED BY <2>1, <2>2, <2>3
<1>4. InState("FAILURE") = AnsweredNames(o, x, answered, answered /\ observed, "FAILURE")
  BY <1>3
<1>5. InState("MISSING") = AnsweredNames(o, x, answered, answered /\ observed, "MISSING")
  BY <1>3
<1> QED BY <1>2, <1>4, <1>5 DEF AnsweredNames, GroupNames

\* A run without a report shows an empty evidence set.
LEMMA NothingIsHeld ==
  ASSUME Artifacts = {}
  PROVE  InState("FAILURE") = {} /\ InState("MISSING") = {"evidence_set"}
<1> DEFINE A == [a \in {} |-> a]
<1>1. DOMAIN A = {} /\ Checks = R!Checks(A)
  BY DEF Checks
<1> HIDE DEF A
<1>2. R!Admitted(A) = {} /\ R!Unique(A) = {} /\ \A family : R!OfFamily(A, family) = {}
  BY <1>1 DEF R!Admitted, R!Unique, R!OfFamily
<1>3. R!Steps(A) = {}
  BY <1>2 DEF R!Steps
<1>4. /\ R!AdmissionChecks(A) = {} /\ R!ChainChecks(A) = {} /\ R!CorrelationChecks(A) = {}
      /\ R!EffectChecks(A) = {}
  BY <1>1, <1>2, <1>3 DEF R!AdmissionChecks, R!ChainChecks, R!CorrelationChecks, R!EffectChecks
<1>5. Checks = {R!Check("evidence_set", <<>>, "MISSING")}
               \cup {R!Check("intended_target_coverage", <<>>, "NOT_EVALUATED")}
  BY <1>1, <1>3, <1>4 DEF R!Checks
<1>6. ASSUME NEW state \in {"FAILURE", "MISSING"}
      PROVE  InState(state) = IF state = "MISSING" THEN {"evidence_set"} ELSE {}
  <2>1. NamesOf({R!Check("evidence_set", <<>>, "MISSING")}, state) =
          IF "MISSING" = state THEN {"evidence_set"} ELSE {}
    BY NameOfOne
  <2>2. NamesOf({R!Check("intended_target_coverage", <<>>, "NOT_EVALUATED")}, state) =
          IF "NOT_EVALUATED" = state THEN {"intended_target_coverage"} ELSE {}
    BY NameOfOne
  <2>3. NamesOf(Checks, state) = NamesOf({R!Check("evidence_set", <<>>, "MISSING")}, state)
               \cup NamesOf({R!Check("intended_target_coverage", <<>>, "NOT_EVALUATED")}, state)
    BY <1>5, NamesAddUp
  <2>4. InState(state) = NamesOf(Checks, state)
    BY DEF InState, NamesOf
  <2> QED BY <2>1, <2>2, <2>3, <2>4
<1> QED BY <1>6

\* A run that returns shows its point.
LEMMA PointsShow == ASSUME PointInv PROVE ExperimentShowsItsPoint
<1> SUFFICES ASSUME Returned
             PROVE  Point(scenario) = [rows |-> w.rows, failures |-> InState("FAILURE"),
                                       missing |-> InState("MISSING")]
  BY DEF ExperimentShowsItsPoint
<1>1. Outcome /\ scenario \in Scenarios
  BY EachOutcome
<1>2. CASE scenario = "normal"
  <2>1. Artifacts = {} /\ w.rows = BusinessSteps
    BY <1>1, <1>2 DEF Outcome
  <2>2. InState("FAILURE") = {} /\ InState("MISSING") = {"evidence_set"}
    BY <2>1, NothingIsHeld
  <2> QED BY <1>2, <2>1, <2>2 DEF Point
<1>3. CASE scenario \in {"stop-before-start", "stop-during-action"}
  <2>1. Artifacts = ReportsOf("dispatched", IF TRUE THEN {"executed"} ELSE {}, TRUE)
    BY <1>1, <1>3 DEF Outcome
  <2>2. InState("FAILURE") = {} /\ InState("MISSING") = {}
    BY <2>1, ReportsAreHeld
  <2>3. w.rows = IF scenario = "stop-during-action" THEN 1 ELSE 0
    BY <1>1, <1>3 DEF Outcome
  <2> QED BY <1>3, <2>2, <2>3 DEF Point
<1>4. CASE scenario = "receiver-unreachable"
  <2>1. Artifacts = ReportsOf("delivery_failed", IF FALSE THEN {"executed"} ELSE {}, TRUE)
    BY <1>1, <1>4 DEF Outcome
  <2>2. /\ InState("FAILURE") = {"delivery_failure_report"}
        /\ InState("MISSING") = {"issuer_dispatch", "receiver_receipt", "execution_evidence"}
    BY <2>1, ReportsAreHeld
  <2>3. w.rows = BusinessSteps
    BY <1>1, <1>4 DEF Outcome
  <2> QED BY <1>4, <2>2, <2>3 DEF Point
<1>5. CASE scenario = "receiver-ignores-stop"
  <2>1. Artifacts = ReportsOf("dispatched", IF TRUE THEN {"failed"} ELSE {}, TRUE)
    BY <1>1, <1>5 DEF Outcome
  <2>2. InState("FAILURE") = {"execution_outcome", "toctou"} /\ InState("MISSING") = {}
    BY <2>1, ReportsAreHeld
  <2>3. w.rows = BusinessSteps
    BY <1>1, <1>5 DEF Outcome
  <2> QED BY <1>5, <2>2, <2>3 DEF Point
<1>6. CASE scenario = "effect-unobserved"
  <2>1. Artifacts = ReportsOf("dispatched", IF TRUE THEN {"executed"} ELSE {}, FALSE)
    BY <1>1, <1>6 DEF Outcome
  <2>2. InState("FAILURE") = {} /\ InState("MISSING") = {"effect_evidence"}
    BY <2>1, ReportsAreHeld
  <2>3. w.rows = 0
    BY <1>1, <1>6 DEF Outcome
  <2> QED BY <1>6, <2>2, <2>3 DEF Point
<1> QED BY <1>1, <1>2, <1>3, <1>4, <1>5, <1>6 DEF Scenarios

\* Safety.  Whatever the interleaving of the parent and its worker, for every
\* set of scenarios and every length of the action: a run that returns leaves
\* the business steps in the file, and the failed and missing checks, that its
\* scenario is for.
THEOREM EveryExperimentShowsItsPoint == Spec => []ExperimentShowsItsPoint
<1> QED BY PointStays, PointsShow, PTL
=============================================================================
