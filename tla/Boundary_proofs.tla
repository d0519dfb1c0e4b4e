-------------------------- MODULE Boundary_proofs --------------------------
(***************************************************************************)
(* Whatever fails in a capture, in whichever scenario, nothing is left     *)
(* behind unless a pipe broke: the controller lists every process that it  *)
(* started, and only a process that lives holds a key or can make one.     *)
(***************************************************************************)
EXTENDS BoundaryReport, TLAPS

\* What the steps need of a process: one that is gone does nothing more.
Fit(x) ==
  /\ {"alive", "main"} \subseteq DOMAIN x /\ x.alive \in BOOLEAN
  /\ ~x.alive => x.main = <<>>

ProcOK == proc = [q \in Peers |-> proc[q]] /\ \A q \in Peers : Fit(proc[q])

ControllerOK ==
  /\ c = [todo |-> c.todo, peers |-> c.peers, broken |-> c.broken, mode |-> c.mode, saved |-> c.saved]
  /\ c.mode \in {"running", "aborting", "over"} /\ \E S : c.peers \in Seq(S)

Listed(q) == \E i \in DOMAIN c.peers : c.peers[i] = q

CleanInv ==
  /\ ProcOK /\ ControllerOK
  /\ ~Over => \A q \in Peers : proc[q].alive => Listed(q)
  /\ CleanUnlessPipeBroke

\* Before the script starts nothing lives.
LEMMA InitClean == Init => CleanInv
<1> SUFFICES ASSUME Init PROVE CleanInv
  OBVIOUS
<1>1. ProcOK /\ \A q \in Peers : ~proc[q].alive
  BY DEF Init, ProcOK, Fit
<1>2. c.mode = "running" /\ c.peers = <<>>
      /\ c = [todo |-> c.todo, peers |-> c.peers, broken |-> c.broken, mode |-> c.mode, saved |-> c.saved]
  BY DEF Init
<1>3. <<>> \in Seq({})
  OBVIOUS
<1> QED BY <1>1, <1>2, <1>3 DEF CleanInv, ControllerOK, Over, CleanUnlessPipeBroke
-----------------------------------------------------------------------------
(* The processes.                                                          *)

\* An assignment to one process leaves the others as they are.
LEMMA BecomesFit ==
  ASSUME ProcOK, NEW q, NEW x, q \in Peers => Fit(x), Becomes(q, x)
  PROVE  /\ ProcOK' /\ \A r \in Peers : r # q => proc'[r] = proc[r]
         /\ q \in Peers => proc'[q] = x
<1>1. proc' = [proc EXCEPT ![q] = x]
  BY DEF Becomes
<1>2. PICK f : f = [r \in Peers |-> proc[r]]
  OBVIOUS
<1>3. proc = f
  BY <1>2 DEF ProcOK
<1>4. PICK g : g = [f EXCEPT ![q] = x]
  OBVIOUS
<1>5. /\ g = [r \in Peers |-> g[r]] /\ \A r \in Peers : g[r] = IF r = q THEN x ELSE f[r]
  BY <1>2, <1>4
<1>6. proc' = g
  BY <1>1, <1>3, <1>4
<1>7. \A r \in Peers : Fit(g[r])
  BY <1>3, <1>5 DEF ProcOK
<1> QED BY <1>3, <1>5, <1>6, <1>7 DEF ProcOK

\* A process that lives and goes on.
Living(x) == {"alive", "main"} \subseteq DOMAIN x /\ x.alive = TRUE

\* A process that lives may do anything.
LEMMA LivingFits == \A x : Living(x) => Fit(x)
  BY DEF Living, Fit

\* A step of a process that is alive.
LEMMA ProcessKeeps ==
  ASSUME CleanInv, NEW q \in Peers, proc[q].alive, NEW x, Fit(x), Becomes(q, x), c' = c
  PROVE  CleanInv'
<1>1. /\ ProcOK' /\ \A r \in Peers : r # q => proc'[r] = proc[r]
      /\ proc'[q] = x
  BY BecomesFit DEF CleanInv
<1>2. ControllerOK' /\ (Over' <=> Over)
  BY DEF CleanInv, ControllerOK, Over
<1>3. ASSUME ~Over', NEW r \in Peers, proc'[r].alive PROVE Listed(r)'
  <2>1. proc[r].alive
    BY <1>1, <1>3
  <2> QED BY <1>2, <1>3, <2>1 DEF CleanInv, Listed
<1>4. ~(Over /\ c.broken = {})
  BY DEF CleanInv, CleanUnlessPipeBroke, CleanedUp
<1>5. CleanUnlessPipeBroke'
  BY <1>2, <1>4 DEF CleanUnlessPipeBroke
<1> QED BY <1>1, <1>2, <1>3, <1>5 DEF CleanInv

\* Nothing that a process does by itself ends it.
LEMMA LivingSteps ==
  ASSUME NEW x, Living(x)
  PROVE  /\ \A k, o, b : Living(Says(x, k, o, b))
         /\ Living(Past(x)) /\ Living(Heard(x)) /\ \A p : Living(Raised(p, x))
         /\ \A v : /\ Living([x EXCEPT !.state = v]) /\ Living([x EXCEPT !.thread = v])
                   /\ Living([x EXCEPT !.main = v]) /\ Living([x EXCEPT !.in = v])
                   /\ Living([x EXCEPT !.out = v]) /\ Living([x EXCEPT !.windows = v])
<1>1. \A v : /\ Living([x EXCEPT !.state = v]) /\ Living([x EXCEPT !.thread = v])
             /\ Living([x EXCEPT !.main = v]) /\ Living([x EXCEPT !.in = v])
             /\ Living([x EXCEPT !.out = v]) /\ Living([x EXCEPT !.windows = v])
  BY DEF Living
<1>2. Living(Past(x)) /\ Living(Heard(x))
  BY <1>1 DEF Past, Heard
<1>3. \A k, o, b : Living(Says(x, k, o, b))
  BY DEF Living, Says
<1>4. \A p : Living(Raised(p, x))
  BY DEF Living, Raised
<1> QED BY <1>1, <1>2, <1>3, <1>4

Runnable == {q \in Peers : proc[q].alive}

\* Only a process that lives has a step to take.
LEMMA RunsLive ==
  ASSUME CleanInv, NEW q \in Peers, proc[q].main # <<>> \/ proc[q].alive
  PROVE  q \in Runnable /\ Living(proc[q])
  BY DEF CleanInv, ProcOK, Fit, Living, Runnable

\* A step after which the process still lives.
LEMMA LivingKeeps ==
  ASSUME CleanInv, NEW q \in Runnable, NEW x, Living(x), Becomes(q, x), c' = c
  PROVE  CleanInv'
  BY LivingFits, ProcessKeeps DEF Runnable

\* The main thread: what it says, hears, waits for and raises.
LEMMA MainKeeps ==
  ASSUME CleanInv, NEW q \in Peers,
         Emit(q) \/ StartThread(q) \/ ReceivePause(q) \/ Loop(q) \/ JoinThread(q) \/ Raise(q)
  PROVE  CleanInv'
<1>1. PICK x : x = proc[q]
  OBVIOUS
<1>2. q \in Runnable /\ Living(x) /\ c' = c
  BY <1>1, RunsLive DEF Emit, StartThread, ReceivePause, Loop, JoinThread, Raise, Runs
<1>3. /\ \A k, o, b : Living(Says(x, k, o, b)) /\ Living(Says(Past(x), k, o, b))
      /\ Living(Past(x)) /\ Living(Heard(x)) /\ Living(Heard(Past(x)))
      /\ \A p : Living(Raised(p, x)) /\ Living(Raised(p, Heard(x)))
  BY <1>2, LivingSteps
<1>4. CASE Emit(q)
  <2>1. PICK kind : kind = Head(x.main)
    OBVIOUS
  <2>2. PICK y : y = Says(Past(x), kind, q, <<>>)
    OBVIOUS
  <2>3. Living(y)
    BY <1>3, <2>2
  <2>4. PICK v : v = CASE kind = "native_paused"   -> "paused"
                       [] kind = "graph_completed" -> "completed"
                       [] OTHER                    -> y.state
    OBVIOUS
  <2>5. Becomes(q, [y EXCEPT !.state = v])
    BY <1>1, <1>4, <2>1, <2>2, <2>4 DEF Emit
  <2>6. Living([y EXCEPT !.state = v])
    BY <2>3, LivingSteps
  <2> QED BY <1>2, <2>5, <2>6, LivingKeeps
<1>5. CASE StartThread(q)
  <2>1. Becomes(q, [Past(x) EXCEPT !.thread = "begun"])
    BY <1>1, <1>5 DEF StartThread
  <2>2. Living([Past(x) EXCEPT !.thread = "begun"])
    BY <1>3, LivingSteps
  <2> QED BY <1>2, <2>1, <2>2, LivingKeeps
<1>6. CASE ReceivePause(q)
  <2>1. Becomes(q, Heard(Past(x))) \/ Becomes(q, Raised(q, x))
    BY <1>1, <1>6 DEF ReceivePause
  <2> QED BY <1>2, <1>3, <2>1, LivingKeeps
<1>7. CASE Loop(q)
  <2>1. PICK y : y = Heard(x)
    OBVIOUS
  <2>2. Living(y) /\ Living(Raised(q, y))
    BY <1>3, <2>1
  <2>3. \/ Becomes(q, [y EXCEPT !.released = TRUE, !.main = <<"join", "release_ack", "loop">>])
        \/ Becomes(q, [y EXCEPT !.main = <<"finished">>])
        \/ Becomes(q, Raised(q, y))
    BY <1>1, <1>7, <2>1 DEF Loop
  <2>4. Living([y EXCEPT !.released = TRUE, !.main = <<"join", "release_ack", "loop">>])
    BY <2>2 DEF Living
  <2>5. Living([y EXCEPT !.main = <<"finished">>])
    BY <2>2, LivingSteps
  <2> QED BY <1>2, <2>2, <2>3, <2>4, <2>5, LivingKeeps
<1>8. CASE JoinThread(q)
  BY <1>1, <1>2, <1>3, <1>8, LivingKeeps DEF JoinThread
<1>9. CASE Raise(q)
  BY <1>1, <1>2, <1>3, <1>9, LivingKeeps DEF Raise
<1> QED BY <1>4, <1>5, <1>6, <1>7, <1>8, <1>9

\* The effect thread, and the end of a process.
LEMMA ThreadKeeps ==
  ASSUME CleanInv, NEW q \in Peers,
         ThreadReady(q) \/ ThreadWrite(q) \/ ThreadTell(q) \/ ThreadFail(q)
  PROVE  CleanInv'
<1>1. PICK x : x = proc[q]
  OBVIOUS
<1>2. q \in Runnable /\ Living(x) /\ c' = c
  BY <1>1, RunsLive DEF ThreadReady, ThreadWrite, ThreadTell, ThreadFail, Threaded
<1>3. \A k, o, b, v : Living([Says(x, k, o, b) EXCEPT !.thread = v]) /\ Living([x EXCEPT !.thread = v])
  BY <1>2, LivingSteps
<1>4. \A v, f : Living([x EXCEPT !.thread = v, !.file = f])
  BY <1>2 DEF Living
<1>5. CASE ThreadReady(q)
  <2>1. Becomes(q, [Says(x, "inflight_ready", q, <<>>) EXCEPT !.thread = "waiting"])
    BY <1>1, <1>5 DEF ThreadReady, Threaded
  <2> QED BY <1>2, <1>3, <2>1, LivingKeeps
<1>6. CASE ThreadWrite(q)
  <2>1. PICK f : f = x.file + 1
    OBVIOUS
  <2>2. Becomes(q, [x EXCEPT !.thread = "written", !.file = f])
    BY <1>1, <1>6, <2>1 DEF ThreadWrite, Threaded
  <2> QED BY <1>2, <1>4, <2>2, LivingKeeps
<1>7. CASE ThreadTell(q)
  <2>1. Becomes(q, [Says(x, "effect_committed", q, <<>>) EXCEPT !.thread = "dead"])
    BY <1>1, <1>7 DEF ThreadTell, Threaded
  <2> QED BY <1>2, <1>3, <2>1, LivingKeeps
<1>8. CASE ThreadFail(q)
  <2>1. Becomes(q, [x EXCEPT !.thread = "dead"])
    BY <1>1, <1>8 DEF ThreadFail, Threaded
  <2> QED BY <1>2, <1>3, <2>1, LivingKeeps
<1> QED BY <1>5, <1>6, <1>7, <1>8

\* A process that ends leaves the controller what it was.
LEMMA ExitKeeps ==
  ASSUME CleanInv, NEW q \in Peers, Exit(q)
  PROVE  CleanInv'
<1>1. PICK x : x = [proc[q] EXCEPT !.alive = FALSE]
  OBVIOUS
<1>2. proc[q].alive /\ proc[q].main = <<>> /\ Becomes(q, x) /\ c' = c
  BY <1>1 DEF Exit
<1>3. Fit(x)
  BY <1>1, <1>2 DEF CleanInv, ProcOK, Fit
<1> QED BY <1>2, <1>3, ProcessKeeps

\* The observer; only here is a key made.
LEMMA ObserverKeeps ==
  ASSUME CleanInv, CreateKey \/ Serve \/ RemoveKey
  PROVE  CleanInv'
<1>1. PICK x : x = proc["observer"]
  OBVIOUS
<1>2. "observer" \in Peers
  BY DEF Peers
<1>3. "observer" \in Runnable /\ Living(x) /\ c' = c
  BY <1>1, <1>2, RunsLive DEF CreateKey, Serve, RemoveKey, Runs
<1>4. CASE CreateKey \/ RemoveKey
  <2>1. Becomes("observer", Past(x))
    BY <1>1, <1>4 DEF CreateKey, RemoveKey
  <2> QED BY <1>3, <2>1, LivingSteps, LivingKeeps
<1>5. CASE Serve
  <2>1. PICK y : y = Heard(x)
    OBVIOUS
  <2>2. Living(y)
    BY <1>3, <2>1, LivingSteps
  <2>3. PICK r : r = Received("observer")
    OBVIOUS
  <2>4. PICK window : window = {v \in y.windows : v.of = r.of}
    OBVIOUS
  <2>5. PICK opened : opened = y.windows \cup {[of |-> r.of, before |-> proc[r.of].file]}
    OBVIOUS
  <2>6. PICK rest : rest = y.windows \ window
    OBVIOUS
  <2>7. PICK body : body = <<(CHOOSE v \in window : TRUE).before, proc[r.of].file>>
    OBVIOUS
  <2>8. \/ Becomes("observer", Says([y EXCEPT !.windows = opened], "window_started", r.of, <<>>))
        \/ Becomes("observer", Says([y EXCEPT !.windows = rest], "observation", r.of, body))
        \/ Becomes("observer", [y EXCEPT !.main = <<"owner_check", "remove">>])
        \/ Becomes("observer", Raised("observer", y))
    BY <1>1, <1>5, <2>1, <2>3, <2>4, <2>5, <2>6, <2>7 DEF Serve
  <2>9. /\ Living(Says([y EXCEPT !.windows = opened], "window_started", r.of, <<>>))
        /\ Living(Says([y EXCEPT !.windows = rest], "observation", r.of, body))
        /\ Living([y EXCEPT !.main = <<"owner_check", "remove">>])
        /\ Living(Raised("observer", y))
    <3>1. Living([y EXCEPT !.windows = opened]) /\ Living([y EXCEPT !.windows = rest])
      BY <2>2, LivingSteps
    <3> QED BY <2>2, <3>1, LivingSteps
  <2> QED BY <1>3, <2>8, <2>9, LivingKeeps
<1> QED BY <1>4, <1>5
-----------------------------------------------------------------------------
(* The controller.                                                         *)

\* The controller goes on, or gives up, with the peers it has.
Proceeds(d) ==
  /\ d = [todo |-> d.todo, peers |-> d.peers, broken |-> d.broken, mode |-> d.mode, saved |-> d.saved]
  /\ d.mode \in {"running", "aborting"} /\ d.peers = c.peers

\* A statement of the script that succeeds, or fails into the finally block.
LEMMA ControllerSteps ==
  ASSUME ControllerOK, c.mode = "running"
  PROVE  /\ Proceeds(c) /\ Proceeds(Done) /\ Proceeds(Failed)
         /\ \A v : Proceeds([Failed EXCEPT !.broken = v]) /\ Proceeds([Failed EXCEPT !.saved = v])
<1>1. PICK d : d = [todo |-> c.todo, peers |-> c.peers, broken |-> c.broken, mode |-> c.mode, saved |-> c.saved]
  OBVIOUS
<1>2. c = d /\ d.mode = "running" /\ d.peers = c.peers
  BY <1>1 DEF ControllerOK
<1>3. PICK t : t = Tail(c.todo)
  OBVIOUS
<1>4. Done = [d EXCEPT !.todo = t]
  BY <1>2, <1>3 DEF Done
<1>5. Proceeds([d EXCEPT !.todo = t])
  BY <1>1, <1>2 DEF Proceeds
<1>6. PICK f : f = [d EXCEPT !.mode = "aborting"]
  OBVIOUS
<1>7. Failed = f
  BY <1>2, <1>6 DEF Failed
<1>8. f = [todo |-> c.todo, peers |-> c.peers, broken |-> c.broken, mode |-> "aborting", saved |-> c.saved]
  BY <1>1, <1>6
<1>9. \A v : Proceeds([f EXCEPT !.broken = v]) /\ Proceeds([f EXCEPT !.saved = v])
  BY <1>8 DEF Proceeds
<1>10. Proceeds(f) /\ Proceeds(d)
  BY <1>1, <1>2, <1>8 DEF Proceeds
<1> QED BY <1>2, <1>4, <1>5, <1>7, <1>9, <1>10

\* A statement that starts no process keeps the list and adds no life.
LEMMA ProceedingKeeps ==
  ASSUME CleanInv, c.mode = "running", ProcOK', Proceeds(c'),
         \A q \in Peers : proc'[q].alive => proc[q].alive
  PROVE  CleanInv'
<1>1. ControllerOK' /\ ~Over /\ ~Over'
  BY DEF CleanInv, ControllerOK, Proceeds, Over
<1>2. ASSUME NEW q \in Peers, proc'[q].alive PROVE Listed(q)'
  BY <1>1, <1>2 DEF CleanInv, Listed, Proceeds
<1> QED BY <1>1, <1>2 DEF CleanInv, CleanUnlessPipeBroke

\* A process is listed before it runs.
LEMMA SpawnKeeps ==
  ASSUME CleanInv, Spawn
  PROVE  CleanInv'
<1>1. PICK t : t = Now.peer
  OBVIOUS
<1>2. PICK main : main = Main(scenario, t)
  OBVIOUS
<1>3. PICK x : x = [proc[t] EXCEPT !.alive = TRUE, !.main = main]
  OBVIOUS
<1>4. c.mode = "running" /\ Becomes(t, x) /\ c' = [Done EXCEPT !.peers = Append(@, t)]
  BY <1>1, <1>2, <1>3 DEF Spawn, Does
<1>5. PICK d : d = Done
  OBVIOUS
<1>6. Proceeds(d)
  BY <1>4, <1>5, ControllerSteps DEF CleanInv
<1>7. PICK ps : ps = Append(c.peers, t)
  OBVIOUS
<1>8. c' = [d EXCEPT !.peers = ps]
  BY <1>4, <1>5, <1>6, <1>7 DEF Proceeds
<1>9. /\ c' = [todo |-> c'.todo, peers |-> c'.peers, broken |-> c'.broken, mode |-> c'.mode, saved |-> c'.saved]
      /\ c'.peers = ps /\ c'.mode \in {"running", "aborting"}
  BY <1>6, <1>8 DEF Proceeds
<1>10. PICK S : c.peers \in Seq(S)
  BY DEF CleanInv, ControllerOK
<1>11. PICK S1 : S1 = S \cup {t}
  OBVIOUS
<1>12. c.peers \in Seq(S1) /\ t \in S1
  BY <1>10, <1>11
<1>13. /\ ps \in Seq(S1) /\ Len(ps) = Len(c.peers) + 1 /\ ps[Len(c.peers) + 1] = t
       /\ \A i \in 1 .. Len(c.peers) : ps[i] = c.peers[i]
       /\ DOMAIN ps = 1 .. Len(c.peers) + 1 /\ DOMAIN c.peers = 1 .. Len(c.peers) /\ Len(c.peers) \in Nat
  BY <1>7, <1>12
<1>14. ControllerOK' /\ ~Over /\ ~Over'
  BY <1>4, <1>9, <1>13 DEF ControllerOK, Over
<1>15. \A q \in Peers : q = t \/ Listed(q) => Listed(q)'
  BY <1>9, <1>13 DEF Listed
<1>16. t \in Peers => Fit(x)
  BY <1>3 DEF CleanInv, ProcOK, Fit
<1>17. ProcOK' /\ \A r \in Peers : r # t => proc'[r] = proc[r]
  BY <1>4, <1>16, BecomesFit DEF CleanInv
<1> QED BY <1>14, <1>15, <1>17 DEF CleanInv, CleanUnlessPipeBroke

\* What a step of the controller may do to a process.
Lesser(t, x) == t \in Peers => Fit(x) /\ (x.alive => proc[t].alive)

\* A process may only lose its life to the controller.
LEMMA LesserKeeps ==
  ASSUME CleanInv, NEW t, NEW x, Lesser(t, x), Becomes(t, x)
  PROVE  ProcOK' /\ \A q \in Peers : proc'[q].alive => proc[q].alive
<1>1. /\ ProcOK' /\ \A r \in Peers : r # t => proc'[r] = proc[r]
      /\ t \in Peers => proc'[t] = x
  BY BecomesFit DEF CleanInv, Lesser
<1> QED BY <1>1 DEF Lesser

\* kill() takes the life of a process and gives none.
LEMMA KilledLesser ==
  ASSUME CleanInv, NEW t
  PROVE  Lesser(t, Killed(proc[t])) /\ (t \in Peers => ~Killed(proc[t]).alive)
<1>1. ASSUME t \in Peers PROVE Fit(Killed(proc[t])) /\ ~Killed(proc[t]).alive
  <2>1. PICK x : x = proc[t]
    OBVIOUS
  <2>2. Fit(x)
    BY <1>1, <2>1 DEF CleanInv, ProcOK
  <2>3. PICK code : code = IF x.alive THEN -9 ELSE x.code
    OBVIOUS
  <2>4. PICK y : y = [x EXCEPT !.alive = FALSE, !.main = <<>>]
    OBVIOUS
  <2>5. Fit(y) /\ ~y.alive
    BY <2>2, <2>4 DEF Fit
  <2>6. PICK z : z = [y EXCEPT !.code = code]
    OBVIOUS
  <2>7. Fit(z) /\ ~z.alive
    BY <2>5, <2>6 DEF Fit
  <2>8. Killed(x) = z
    BY <2>3, <2>4, <2>6 DEF Killed
  <2> QED BY <2>1, <2>7, <2>8
<1> QED BY <1>1 DEF Lesser

\* The statements that start no process.
LEMMA ControllerKeeps ==
  ASSUME CleanInv, SendTo \/ Hear \/ HearEnd \/ TimeOut \/ Reap \/ Kill \/ Save
  PROVE  CleanInv'
<1>1. PICK t : t = Now.peer
  OBVIOUS
<1>2. c.mode = "running"
  BY DEF SendTo, Hear, HearEnd, TimeOut, Reap, Kill, Save, Does
<1>3. /\ Proceeds(c) /\ Proceeds(Done) /\ Proceeds(Failed)
      /\ \A v : Proceeds([Failed EXCEPT !.broken = v]) /\ Proceeds([Failed EXCEPT !.saved = v])
  BY <1>2, ControllerSteps DEF CleanInv
<1>4. Proceeds(c')
  <2>1. CASE SendTo
    <3>1. PICK v : v = Failed.broken \cup {t}
      OBVIOUS
    <3>2. c' = Done \/ c' = [Failed EXCEPT !.broken = v]
      BY <1>1, <2>1, <3>1 DEF SendTo
    <3> QED BY <1>3, <3>2
  <2>2. CASE Hear
    <3>1. c' = Done \/ c' = c
      BY <2>2 DEF Hear
    <3> QED BY <1>3, <3>1
  <2>3. CASE HearEnd \/ TimeOut \/ Reap \/ Kill
    <3>1. c' = Done \/ c' = Failed
      BY <2>3 DEF HearEnd, TimeOut, Reap, Kill
    <3> QED BY <1>3, <3>1
  <2>4. CASE Save
    <3>1. c' = Failed \/ c' = [Failed EXCEPT !.saved = TRUE]
      BY <2>4 DEF Save
    <3> QED BY <1>3, <3>1
  <2> QED BY <2>1, <2>2, <2>3, <2>4
<1>5. ProcOK' /\ \A q \in Peers : proc'[q].alive => proc[q].alive
  <2>1. CASE proc' = proc
    BY <2>1 DEF CleanInv, ProcOK
  <2>2. ASSUME NEW v, Becomes(t, [proc[t] EXCEPT !.in = v]) \/ Becomes(t, [proc[t] EXCEPT !.out = v])
        PROVE  ProcOK' /\ \A q \in Peers : proc'[q].alive => proc[q].alive
    <3>1. Lesser(t, [proc[t] EXCEPT !.in = v]) /\ Lesser(t, [proc[t] EXCEPT !.out = v])
      BY DEF Lesser, CleanInv, ProcOK, Fit
    <3> QED BY <2>2, <3>1, LesserKeeps
  <2>3. CASE SendTo
    <3>1. PICK v : v = Append(proc[t].in, [kind |-> Now.kind, of |-> Now.of])
      OBVIOUS
    <3>2. proc' = proc \/ Becomes(t, [proc[t] EXCEPT !.in = Append(@, [kind |-> Now.kind, of |-> Now.of])])
      BY <1>1, <2>3 DEF SendTo
    <3>3. [proc[t] EXCEPT !.in = Append(@, [kind |-> Now.kind, of |-> Now.of])] = [proc[t] EXCEPT !.in = v]
      BY <3>1
    <3> QED BY <2>1, <2>2, <3>2, <3>3
  <2>4. CASE Hear
    <3>1. PICK v : v = Tail(proc[t].out)
      OBVIOUS
    <3>2. Becomes(t, [proc[t] EXCEPT !.out = v])
      BY <1>1, <2>4, <3>1 DEF Hear
    <3> QED BY <2>2, <3>2
  <2>5. CASE Kill
    <3>1. Becomes(t, Killed(proc[t]))
      BY <1>1, <2>5 DEF Kill
    <3> QED BY <3>1, KilledLesser, LesserKeeps
  <2>6. CASE HearEnd \/ TimeOut \/ Reap \/ Save
    BY <2>1, <2>6 DEF HearEnd, TimeOut, Reap, Save
  <2> QED BY <2>3, <2>4, <2>5, <2>6
<1> QED BY <1>2, <1>4, <1>5, ProceedingKeeps

\* The finally block, peer by peer.
LEMMA AbortKeeps ==
  ASSUME CleanInv, Abort
  PROVE  CleanInv'
<1>1. PICK t : t = Head(c.peers)
  OBVIOUS
<1>2. PICK x : x = Killed(proc[t])
  OBVIOUS
<1>3. /\ c.mode = "aborting" /\ c.peers # <<>> /\ Becomes(t, x)
      /\ c' = IF t \in c.broken THEN [c EXCEPT !.mode = "over"] ELSE [c EXCEPT !.peers = Tail(@)]
  BY <1>1, <1>2 DEF Abort
<1>4. Lesser(t, x) /\ (t \in Peers => ~x.alive)
  BY <1>2, KilledLesser
<1>5. /\ ProcOK' /\ \A q \in Peers : proc'[q].alive => proc[q].alive
      /\ t \in Peers => proc'[t] = x
  BY <1>3, <1>4, LesserKeeps, BecomesFit DEF Lesser, CleanInv
<1>6. PICK d : d = [todo |-> c.todo, peers |-> c.peers, broken |-> c.broken, mode |-> c.mode, saved |-> c.saved]
  OBVIOUS
<1>7. c = d
  BY <1>6 DEF CleanInv, ControllerOK
<1>8. PICK S : c.peers \in Seq(S)
  BY DEF CleanInv, ControllerOK
<1>9. CASE t \in c.broken
  <2>1. PICK e : e = [d EXCEPT !.mode = "over"]
    OBVIOUS
  <2>2. e = [todo |-> c.todo, peers |-> c.peers, broken |-> c.broken, mode |-> "over", saved |-> c.saved]
    BY <1>6, <2>1
  <2>3. c' = e
    BY <1>3, <1>7, <1>9, <2>1
  <2>4. ControllerOK' /\ Over' /\ c'.broken # {}
    BY <1>8, <1>9, <2>2, <2>3 DEF ControllerOK, Over
  <2> QED BY <1>5, <2>4 DEF CleanInv, CleanUnlessPipeBroke
<1>10. CASE t \notin c.broken
  <2>1. PICK ps : ps = Tail(c.peers)
    OBVIOUS
  <2>2. PICK e : e = [d EXCEPT !.peers = ps]
    OBVIOUS
  <2>3. e = [todo |-> c.todo, peers |-> ps, broken |-> c.broken, mode |-> c.mode, saved |-> c.saved]
    BY <1>6, <2>2
  <2>4. c' = e
    BY <1>3, <1>7, <1>10, <2>1, <2>2
  <2>5. /\ ps \in Seq(S) /\ Len(ps) = Len(c.peers) - 1 /\ Len(c.peers) \in Nat /\ t = c.peers[1]
        /\ \A i \in 1 .. Len(c.peers) - 1 : ps[i] = c.peers[i + 1]
        /\ DOMAIN ps = 1 .. Len(c.peers) - 1 /\ DOMAIN c.peers = 1 .. Len(c.peers)
    BY <1>1, <1>3, <1>8, <2>1
  <2>6. ControllerOK' /\ ~Over /\ ~Over'
    <3>1. /\ c' = [todo |-> c'.todo, peers |-> c'.peers, broken |-> c'.broken, mode |-> c'.mode, saved |-> c'.saved]
          /\ c'.peers = ps /\ c'.mode = "aborting"
      <4>1. e.peers = ps /\ e.mode = "aborting"
        BY <1>3, <2>3
      <4>2. e = [todo |-> e.todo, peers |-> e.peers, broken |-> e.broken, mode |-> e.mode, saved |-> e.saved]
        BY <2>3
      <4> QED BY <2>4, <4>1, <4>2, Zenon
    <3> QED BY <1>3, <2>5, <3>1 DEF ControllerOK, Over
  <2>7. ASSUME NEW q \in Peers, proc'[q].alive PROVE Listed(q)'
    <3>1. q # t /\ Listed(q)
      BY <1>4, <1>5, <2>6, <2>7 DEF CleanInv
    <3>2. PICK i \in 1 .. Len(c.peers) : c.peers[i] = q
      BY <2>5, <3>1 DEF Listed
    <3>3. PICK j \in 1 .. Len(c.peers) - 1 : i = j + 1
      <4>1. i - 1 \in 1 .. Len(c.peers) - 1 /\ i = (i - 1) + 1
        BY <2>5, <3>1, <3>2
      <4> QED BY <4>1
    <3>4. ps[j] = q /\ j \in DOMAIN ps /\ c'.peers = ps
      BY <2>3, <2>4, <2>5, <3>2, <3>3
    <3> QED BY <3>4 DEF Listed
  <2> QED BY <1>5, <2>6, <2>7 DEF CleanInv, CleanUnlessPipeBroke
<1> QED BY <1>9, <1>10

\* The last peer is gone before the key is removed.
LEMMA SweepKeeps ==
  ASSUME CleanInv, Sweep
  PROVE  CleanInv'
<1>1. PICK d : d = [todo |-> c.todo, peers |-> c.peers, broken |-> c.broken, mode |-> c.mode, saved |-> c.saved]
  OBVIOUS
<1>2. c = d /\ c.mode = "aborting" /\ c.peers = <<>> /\ proc' = proc /\ key' = FALSE
      /\ c' = [c EXCEPT !.mode = "over"]
  BY <1>1 DEF CleanInv, ControllerOK, Sweep
<1>3. PICK e : e = [d EXCEPT !.mode = "over"]
  OBVIOUS
<1>4. e = [todo |-> c.todo, peers |-> c.peers, broken |-> c.broken, mode |-> "over", saved |-> c.saved]
  BY <1>1, <1>3
<1>5. ProcOK' /\ ControllerOK' /\ ~Over /\ Over'
  BY <1>2, <1>3, <1>4 DEF CleanInv, ProcOK, ControllerOK, Over
<1>6. \A q \in Peers : ~proc[q].alive
  BY <1>2, <1>5 DEF CleanInv, Listed
<1>7. CleanedUp'
  BY <1>2, <1>6 DEF CleanedUp
<1> QED BY <1>5, <1>7 DEF CleanInv, CleanUnlessPipeBroke
-----------------------------------------------------------------------------
\* Whatever fails, raises or expires, capture() leaves no process and no key
\* behind, unless it failed in sending to a peer that had ended.
THEOREM CapturesCleanUp == Spec => []CleanUnlessPipeBroke
<1>1. CleanInv /\ [Next]_vars => CleanInv'
  <2> SUFFICES ASSUME CleanInv, [Next]_vars PROVE CleanInv'
    OBVIOUS
  <2>1. ASSUME NEW q \in Peers,
               \/ Emit(q) \/ StartThread(q) \/ ThreadReady(q) \/ ThreadWrite(q) \/ ThreadTell(q)
               \/ ThreadFail(q) \/ ReceivePause(q) \/ Loop(q) \/ JoinThread(q) \/ Raise(q) \/ Exit(q)
        PROVE  CleanInv'
    BY <2>1, MainKeeps, ThreadKeeps, ExitKeeps
  <2>2. CASE CreateKey \/ Serve \/ RemoveKey
    BY <2>2, ObserverKeeps
  <2>3. CASE Spawn \/ SendTo \/ Hear \/ HearEnd \/ TimeOut \/ Reap \/ Kill \/ Save \/ Abort \/ Sweep
    BY <2>3, SpawnKeeps, ControllerKeeps, AbortKeeps, SweepKeeps
  <2>4. CASE UNCHANGED vars
    BY <2>4 DEF vars, CleanInv, ProcOK, ControllerOK, Over, Listed, CleanUnlessPipeBroke, CleanedUp
  <2> QED BY <2>1, <2>2, <2>3, <2>4 DEF Next
<1>2. CleanInv => CleanUnlessPipeBroke
  BY DEF CleanInv
<1> QED BY <1>1, <1>2, InitClean, PTL DEF Spec
=============================================================================
