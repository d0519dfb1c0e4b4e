----------------------------- MODULE Hook_proofs -----------------------------
(***************************************************************************)
(* A session is one run, whatever the graph, the function or the caller    *)
(* does between its steps; nothing that can be put together from the       *)
(* returned bundles matches a question about a run that did not pause; and *)
(* every returned bundle tells its own run: it is admitted, says what      *)
(* became of the node and the function, and matches exactly the pause that *)
(* LangGraph held before an undisturbed file.                              *)
(***************************************************************************)
EXTENDS HookReport, FiniteSetTheorems, TLAPS

Stage == {"idle", "lookup", "entry", "issue", "sample", "run", "handle", "interrupt", "function",
          "native", "observe", "project"}

Outcome == {"new", "anchor", "paused", "foreign", "done", "broken"}

KindSet == {"decision", "dispatched", "received", "pause_requested", "ignored", "native_result",
            "effect_sampled"}

Data == Seq(Nat) \cup {<<o>> : o \in Outcome}

EventType == [kind : KindSet, run : Sessions \X Nat, tick : Nat, data : Data]

SessionType ==
  [wrapped : BOOLEAN, used : BOOLEAN, active : BOOLEAN, entered : BOOLEAN, honor : BOOLEAN,
   thread : Threads \cup {"none"}, observed : BOOLEAN, run : Sessions \X Nat,
   events : Seq(EventType), initial : Seq(Nat), bundle : Seq(EventType), ran : Nat, held : BOOLEAN]

\* A session that has not issued its command.
Fresh(me) ==
  /\ me.events = <<>> /\ me.bundle = <<>>
  /\ me.ran = 0 /\ ~me.entered /\ ~me.held

OnceIn(E, kind) ==
  \A i, j \in DOMAIN E : E[i].kind = kind /\ E[j].kind = kind => i = j

\* The events of a session are of its run; a receipt says that the node was
\* entered, and a native pause that LangGraph stored the interrupt.
EventsOK(me) ==
  /\ \A i \in DOMAIN me.events :
       /\ me.events[i].run = me.run
       /\ me.events[i].kind = "received" => me.entered
       /\ me.events[i].kind = "native_result" /\ me.events[i].data = <<"paused">> => me.held
  /\ OnceIn(me.events, "decision") /\ OnceIn(me.events, "received")

\* What the places of an invocation know of their session.
PlaceOK(me, at) ==
  /\ ~me.used => at = "idle"
  /\ ~me.used \/ at \in {"lookup", "entry", "issue"} => Fresh(me)
  /\ at = "sample" => ~me.entered
  /\ at \in {"handle", "interrupt", "function"} => me.entered /\ me.ran = 0
  /\ at = "interrupt" => me.honor
  /\ at = "function" => ~me.honor
  /\ me.bundle # <<>> => me.bundle = me.events /\ at = "idle"

\* The function ran only if the pause was not honoured, and then only once.
RanOK(me) ==
  /\ me.ran <= 1 /\ (me.ran = 1 => me.entered /\ ~me.honor)
  /\ me.held => me.honor

SessionOK(x, me, at) ==
  /\ me \in SessionType /\ me.run[1] = x /\ (me.used => me.thread \in Threads)
  /\ EventsOK(me) /\ PlaceOK(me, at) /\ RanOK(me)

Where(x) == IF call.by = x THEN call.at ELSE "idle"

WorldOK ==
  /\ stored \in [Threads -> Outcome] /\ file \in {0, 1} /\ now \in Nat /\ changes \in Nat
  /\ call = Idle \/ call \in [by : Sessions, at : Stage \ {"idle"}]
  /\ DOMAIN s = Sessions /\ s = [x \in Sessions |-> s[x]]

RunInv ==
  /\ WorldOK
  /\ \A x \in Sessions : SessionOK(x, s[x], Where(x))
  /\ call.at = "native" /\ stored[Me.thread] = "paused" => Me.held
-----------------------------------------------------------------------------
(* The parts of a step.                                                    *)

\* A list with one event more.
LEMMA OneMore ==
  ASSUME NEW E \in Seq(EventType), NEW e \in EventType
  PROVE  /\ Append(E, e) \in Seq(EventType)
         /\ DOMAIN Append(E, e) = DOMAIN E \cup {Len(E) + 1}
         /\ Len(E) + 1 \notin DOMAIN E /\ Append(E, e)[Len(E) + 1] = e
         /\ \A i \in DOMAIN E : Append(E, e)[i] = E[i]
OBVIOUS

\* One event more of the same run: a receipt only where there was none.
LEMMA EmitKeeps ==
  ASSUME NEW me \in SessionType, EventsOK(me), NEW e \in EventType, NEW m,
         e.run = me.run, e.kind # "decision", e.kind = "received" => ~me.entered /\ m.entered,
         e.kind = "native_result" /\ e.data = <<"paused">> => me.held,
         m.events = Append(me.events, e), m.run = me.run, me.held => m.held,
         me.entered => m.entered
  PROVE  EventsOK(m)
<1> DEFINE E == me.events
           F == m.events
           n == Len(E) + 1
<1>1. /\ DOMAIN F = DOMAIN E \cup {n} /\ n \notin DOMAIN E /\ F[n] = e
      /\ \A i \in DOMAIN E : F[i] = E[i]
  BY OneMore DEF SessionType
<1> HIDE DEF E, F, n
<1>2. /\ \A i \in DOMAIN E : /\ E[i].run = me.run
                             /\ E[i].kind = "received" => me.entered
                             /\ E[i].kind = "native_result" /\ E[i].data = <<"paused">> => me.held
      /\ OnceIn(E, "decision") /\ OnceIn(E, "received")
  BY DEF EventsOK, E
<1>3. \A i \in DOMAIN F : /\ F[i].run = m.run
                          /\ F[i].kind = "received" => m.entered
                          /\ F[i].kind = "native_result" /\ F[i].data = <<"paused">> => m.held
  BY <1>1, <1>2
<1>4. OnceIn(F, "decision")
  BY <1>1, <1>2 DEF OnceIn
<1>5. OnceIn(F, "received")
  BY <1>1, <1>2 DEF OnceIn
<1> QED BY <1>3, <1>4, <1>5 DEF EventsOK, F

\* Where the events stay and the ghosts grow.
LEMMA SilentKeeps ==
  ASSUME NEW me, EventsOK(me), NEW m, m.events = me.events, m.run = me.run,
         me.held => m.held, me.entered => m.entered
  PROVE  EventsOK(m)
BY DEF EventsOK

\* Whoever is in an invocation is a session that spent itself.
LEMMA Acting ==
  ASSUME RunInv, call.at # "idle"
  PROVE  /\ call.by \in Sessions /\ call.at \in Stage /\ Me \in SessionType
         /\ SessionOK(call.by, Me, call.at) /\ Me.used /\ Me.thread \in Threads
         /\ Me.bundle = <<>> /\ EventsOK(Me) /\ RanOK(Me)
<1>1. call.by \in Sessions /\ call.at \in Stage
  BY DEF RunInv, WorldOK, Idle
<1>2. SessionOK(call.by, Me, call.at)
  BY <1>1 DEF RunInv, Where, Me
<1> QED BY <1>1, <1>2 DEF SessionOK, PlaceOK

\* The step of an invocation.
LEMMA Steps ==
  ASSUME RunInv, NEW from, NEW to \in Stage, NEW m, Step(from, to, m), from # "idle",
         SessionOK(call.by, m, to), stored' \in [Threads -> Outcome], file' \in {0, 1}, now' \in Nat,
         changes' = changes, to = "native" /\ stored'[m.thread] = "paused" => m.held
  PROVE  RunInv'
<1>0. call.by \in Sessions /\ call \in [by : Sessions, at : Stage \ {"idle"}]
  BY DEF Step, RunInv, WorldOK, Idle
<1>1. PICK x \in Sessions : x = call.by /\ call \in [by : Sessions, at : Stage \ {"idle"}]
  BY <1>0
<1>2. s' = [s EXCEPT ![x] = m] /\ s'[x] = m /\ \A y \in Sessions \ {x} : s'[y] = s[y]
  BY <1>1 DEF Step, RunInv, WorldOK
<1>3. CASE to = "idle"
  <2>1. call' = Idle /\ call'.at = "idle"
    BY <1>3 DEF Step, At, Idle
  <2>2. \A y \in Sessions : Where(y)' = "idle"
    BY <2>1 DEF Where
  <2>3. WorldOK'
    BY <1>1, <1>2, <2>1 DEF WorldOK, RunInv
  <2>4. \A y \in Sessions : SessionOK(y, s[y], Where(y))'
    <3> TAKE y \in Sessions
    <3>1. CASE y = x
      BY <1>1, <1>2, <1>3, <2>2, <3>1
    <3>2. CASE y # x
      <4>1. s'[y] = s[y] /\ Where(y) = "idle"
        BY <1>1, <1>2, <3>2 DEF Where
      <4> QED BY <2>2, <4>1 DEF RunInv
    <3> QED BY <3>1, <3>2
  <2> QED BY <2>1, <2>3, <2>4 DEF RunInv
<1>4. CASE to # "idle"
  <2>1. call' \in [by : Sessions, at : Stage \ {"idle"}] /\ call'.by = x /\ call'.at = to
    BY <1>1, <1>4 DEF Step, At
  <2>2. Where(x)' = to /\ \A y \in Sessions \ {x} : Where(y)' = "idle"
    BY <2>1 DEF Where
  <2>3. WorldOK'
    BY <1>1, <1>2, <2>1 DEF WorldOK, RunInv
  <2>4. \A y \in Sessions : SessionOK(y, s[y], Where(y))'
    <3> TAKE y \in Sessions
    <3>1. CASE y = x
      BY <1>1, <1>2, <2>2, <3>1
    <3>2. CASE y # x
      <4>1. s'[y] = s[y] /\ Where(y) = "idle"
        BY <1>1, <1>2, <3>2 DEF Where
      <4> QED BY <2>2, <3>2, <4>1 DEF RunInv
    <3> QED BY <3>1, <3>2
  <2>5. Me' = m
    BY <1>2, <2>1 DEF Me
  <2> QED BY <2>1, <2>3, <2>4, <2>5 DEF RunInv
<1> QED BY <1>3, <1>4
-----------------------------------------------------------------------------
(* The steps.                                                              *)

\* Nothing is issued, entered or run at the start.
LEMMA InitRuns == Init => RunInv
<1> SUFFICES ASSUME Init PROVE RunInv
  OBVIOUS
<1>1. WorldOK
  BY BoundAssumption DEF Init, WorldOK, Outcome
<1>2. ASSUME NEW x \in Sessions
      PROVE  SessionOK(x, s[x], Where(x))
  <2>1. Where(x) = "idle"
    BY DEF Init, Idle, Where
  <2>2. s[x] \in SessionType
    BY DEF Init, SessionType, NoSample
  <2>3. EventsOK(s[x])
    BY DEF Init, EventsOK, OnceIn
  <2>4. PlaceOK(s[x], "idle") /\ RanOK(s[x])
    BY DEF Init, PlaceOK, RanOK, Fresh
  <2> QED BY <2>1, <2>2, <2>3, <2>4 DEF SessionOK, Init
<1> QED BY <1>1, <1>2 DEF RunInv, Init, Idle

\* Wrapping the node and using the graph beside the session touch no run.
LEMMA WrapRuns ==
  ASSUME RunInv, NEW x \in Sessions, WrapNode(x)
  PROVE  RunInv'
<1>1. /\ s[x] \in SessionType /\ SessionOK(x, s[x], Where(x)) /\ s'[x] = [s[x] EXCEPT !.wrapped = TRUE]
      /\ \A y \in Sessions \ {x} : s'[y] = s[y]
  BY DEF RunInv, WorldOK, WrapNode, SessionOK
<1>2. /\ s'[x] \in SessionType /\ s'[x].used = s[x].used /\ s'[x].events = s[x].events
      /\ s'[x].bundle = s[x].bundle /\ s'[x].ran = s[x].ran /\ s'[x].entered = s[x].entered
      /\ s'[x].held = s[x].held /\ s'[x].honor = s[x].honor /\ s'[x].run = s[x].run
      /\ s'[x].thread = s[x].thread
  BY <1>1 DEF SessionType
<1>3. WorldOK'
  BY DEF RunInv, WorldOK, WrapNode
<1>4. \A y \in Sessions : Where(y)' = Where(y)
  BY DEF WrapNode, Where
<1>5. SessionOK(x, s'[x], Where(x))
  BY <1>1, <1>2 DEF SessionOK, EventsOK, PlaceOK, RanOK, Fresh
<1> QED BY <1>1, <1>3, <1>4, <1>5 DEF RunInv, WrapNode

\* What happens to the graph beside a session leaves every session as it was.
LEMMA OutsideRuns ==
  ASSUME RunInv, NEW x \in Sessions, NEW t \in Threads, Outside(x, t)
  PROVE  RunInv'
<1>1. WorldOK'
  BY DEF RunInv, WorldOK, Outside, Outcome
<1>2. \A y \in Sessions : Where(y)' = Where(y) /\ s'[y] = s[y]
  BY DEF Outside, Where
<1> QED BY <1>1, <1>2 DEF RunInv, Outside

\* Neither a foreign change of the file nor a stutter touches a session.
LEMMA ChangeRuns == ASSUME RunInv, Change \/ UNCHANGED vars PROVE RunInv'
<1>1. WorldOK'
  <2>1. \A f \in {0, 1} : 1 - f \in {0, 1}
    OBVIOUS
  <2> QED BY <2>1 DEF RunInv, WorldOK, Change, vars
<1>2. UNCHANGED <<s, call, stored>>
  BY DEF Change, vars
<1>3. (\A y \in Sessions : Where(y)' = Where(y)) /\ Me' = Me
  BY <1>2 DEF Where, Me
<1> QED BY <1>1, <1>2, <1>3 DEF RunInv

\* The session that is spent here is one that was not.
LEMMA InvokeRuns ==
  ASSUME RunInv, NEW x \in Sessions, NEW t \in Threads, NEW h \in BOOLEAN, NEW o \in BOOLEAN,
         Invoke(x, t, h, o)
  PROVE  RunInv'
<1> DEFINE m == [Marked(s[x]) EXCEPT !.thread = t, !.honor = h, !.observed = o]
<1>1. /\ s[x] \in SessionType /\ SessionOK(x, s[x], Where(x)) /\ ~s[x].used
      /\ s'[x] = m /\ \A y \in Sessions \ {x} : s'[y] = s[y]
  BY DEF RunInv, WorldOK, Invoke, SessionOK
<1>2. /\ m \in SessionType /\ m.used /\ m.events = s[x].events
      /\ m.bundle = s[x].bundle /\ m.ran = s[x].ran /\ m.entered = s[x].entered
      /\ m.held = s[x].held /\ m.run = s[x].run /\ m.thread = t
  BY <1>1 DEF SessionType, Marked
<1> HIDE DEF m
<1>3. Fresh(m)
  BY <1>1, <1>2 DEF SessionOK, PlaceOK, Fresh
<1>4. SessionOK(x, m, "lookup")
  BY <1>1, <1>2, <1>3 DEF SessionOK, EventsOK, PlaceOK, RanOK, Fresh
<1>5. WorldOK'
  BY DEF RunInv, WorldOK, Invoke, Stage
<1>6. /\ Where(x)' = "lookup" /\ call'.at = "lookup"
      /\ \A y \in Sessions \ {x} : Where(y)' = "idle" /\ Where(y) = "idle"
  BY DEF Invoke, Where
<1>7. \A y \in Sessions : SessionOK(y, s[y], Where(y))'
  <2> TAKE y \in Sessions
  <2>1. CASE y = x
    BY <1>1, <1>4, <1>6, <2>1
  <2>2. CASE y # x
    BY <1>1, <1>6, <2>2 DEF RunInv
  <2> QED BY <2>1, <2>2
<1> QED BY <1>5, <1>6, <1>7 DEF RunInv

\* An exception leaves the invocation, wherever it was.
LEMMA RaiseRuns == ASSUME RunInv, Raise PROVE RunInv'
<1>1. Me \in SessionType /\ SessionOK(call.by, Me, call.at) /\ call.by \in Sessions
  BY Acting DEF Raise
<1>2. PICK m : m = Left(Me)
  OBVIOUS
<1>3. /\ m \in SessionType /\ m.used = Me.used /\ m.events = Me.events
      /\ m.bundle = Me.bundle /\ m.ran = Me.ran /\ m.entered = Me.entered
      /\ m.held = Me.held /\ m.run = Me.run /\ m.thread = Me.thread /\ m.honor = Me.honor
  BY <1>1, <1>2 DEF SessionType, Left
<1>4. SessionOK(call.by, m, "idle")
  BY <1>1, <1>3 DEF SessionOK, EventsOK, PlaceOK, RanOK, Fresh
<1>5. Step(call.at, "idle", m) /\ call.at # "idle"
  BY <1>1, <1>2 DEF Raise, Step, At, Me, RunInv, WorldOK
<1> QED BY <1>4, <1>5, Steps DEF Raise, Stage, RunInv, WorldOK

\* A step that reports nothing.
LEMMA QuietSession ==
  ASSUME NEW x, NEW me, NEW at, SessionOK(x, me, at), me.used, me.bundle = <<>>,
         NEW m \in SessionType, NEW to,
         m.used, m.run = me.run, m.thread = me.thread, m.events = me.events, m.bundle = <<>>,
         m.honor = me.honor, me.held => m.held, me.entered => m.entered,
         PlaceOK(m, to), RanOK(m)
  PROVE  SessionOK(x, m, to)
<1>1. EventsOK(m)
  BY SilentKeeps DEF SessionOK
<1> QED BY <1>1 DEF SessionOK

\* A step that reports an event, other than the decision, of its run.
LEMMA LoudSession ==
  ASSUME NEW x, NEW me, NEW at, SessionOK(x, me, at), me.used, me.bundle = <<>>,
         NEW e \in EventType, NEW m \in SessionType, NEW to,
         e.run = me.run, e.kind # "decision", e.kind = "received" => ~me.entered /\ m.entered,
         e.kind = "native_result" /\ e.data = <<"paused">> => me.held, m.used, m.run = me.run, m.thread = me.thread,
         m.events = Append(me.events, e), m.bundle = <<>>, m.honor = me.honor,
         m.held = me.held, me.entered => m.entered, PlaceOK(m, to), RanOK(m)
  PROVE  SessionOK(x, m, to)
<1>1. EventsOK(m)
  BY EmitKeeps DEF SessionOK
<1> QED BY <1>1 DEF SessionOK

\* What is stored about a thread.
LEMMA StoresIs ==
  ASSUME RunInv, call.at # "idle", NEW what \in Outcome, Stores(what)
  PROVE  stored' \in [Threads -> Outcome] /\ stored'[Me.thread] = what
BY Acting DEF Stores, RunInv, WorldOK

\* The thread is new to the checkpointer, or the invocation is over.
LEMMA LookupRuns == ASSUME RunInv, Lookup PROVE RunInv'
<1>1. call.at = "lookup" /\ SessionOK(call.by, Me, "lookup") /\ Me.used
  BY Acting DEF Lookup, Step
<1>m. PICK m : m = Me
  OBVIOUS
<1>2. PICK to \in {"entry", "idle"} : Step("lookup", to, m)
  BY <1>m DEF Lookup
<1>3. SessionOK(call.by, m, to)
  BY <1>1, <1>m DEF SessionOK, PlaceOK, Fresh
<1>4. /\ to \in Stage /\ to # "native"
      /\ stored' \in [Threads -> Outcome] /\ file' \in {0, 1} /\ now' \in Nat /\ changes' = changes
  BY DEF Lookup, Stage, RunInv, WorldOK
<1> QED BY <1>2, <1>3, <1>4, Steps

\* The graph stops before the node, or the invocation is over.
LEMMA EnterRuns == ASSUME RunInv, Enter PROVE RunInv'
<1>1. call.at = "entry" /\ SessionOK(call.by, Me, "entry") /\ Me.used
  BY Acting DEF Enter, Step
<1>m. PICK m : m = Me
  OBVIOUS
<1>2. PICK to \in {"issue", "idle"}, what \in Outcome : Step("entry", to, m) /\ Stores(what)
  BY <1>m DEF Enter, Outcome
<1>3. SessionOK(call.by, m, to)
  BY <1>1, <1>m DEF SessionOK, PlaceOK, Fresh
<1>4. stored' \in [Threads -> Outcome]
  BY <1>1, <1>2, StoresIs
<1>5. /\ to \in Stage /\ to # "native"
      /\ file' \in {0, 1} /\ now' \in Nat /\ changes' = changes
  BY DEF Enter, Stage, RunInv, WorldOK
<1> QED BY <1>2, <1>3, <1>4, <1>5, Steps

\* The decision and the dispatch begin the events of a fresh session.
LEMMA IssueRuns == ASSUME RunInv, Issue PROVE RunInv'
<1>1. /\ call.at = "issue" /\ SessionOK(call.by, Me, "issue") /\ Me.used /\ Me \in SessionType
      /\ call.by \in Sessions
  BY Acting DEF Issue, Step
<1>2. PICK run : run = <<call.by, Me.run[2] + 1>>
  OBVIOUS
<1>3. PICK es : es = <<Event("decision", run, now + 1, <<>>), Event("dispatched", run, now + 2, <<>>)>>
  OBVIOUS
<1>4. run \in Sessions \X Nat /\ run[1] = call.by
  BY <1>1, <1>2 DEF SessionType
<1>5. /\ es \in Seq(EventType) /\ DOMAIN es = {1, 2}
      /\ es[1].run = run /\ es[2].run = run /\ es[1].kind = "decision" /\ es[2].kind = "dispatched"
  BY <1>3, <1>4 DEF Event, EventType, KindSet, Data, RunInv, WorldOK
<1>6. Me.events \o es = es
  <2>1. Me.events = <<>>
    BY <1>1 DEF SessionOK, PlaceOK, Fresh
  <2> QED BY <1>5, <2>1
<1>7. PICK m : m = [Me EXCEPT !.run = run, !.events = es]
  OBVIOUS
<1>8. Step("issue", "sample", m)
  BY <1>2, <1>3, <1>6, <1>7 DEF Issue
<1>9. /\ m \in SessionType /\ m.used = Me.used /\ m.events = es /\ m.bundle = Me.bundle
      /\ m.ran = Me.ran /\ m.entered = Me.entered /\ m.held = Me.held /\ m.run = run
      /\ m.thread = Me.thread /\ m.honor = Me.honor
  BY <1>1, <1>4, <1>5, <1>7 DEF SessionType
<1>10. EventsOK(m)
  BY <1>5, <1>9 DEF EventsOK, OnceIn
<1>11. SessionOK(call.by, m, "sample")
  BY <1>1, <1>4, <1>9, <1>10 DEF SessionOK, PlaceOK, RanOK, Fresh
<1>12. now' \in Nat
  BY DEF Issue, Ticks, RunInv, WorldOK
<1> QED BY <1>8, <1>11, <1>12, Steps DEF Issue, Stage, RunInv, WorldOK

\* The first sample, or none.
LEMMA SampleRuns == ASSUME RunInv, SampleBefore PROVE RunInv'
<1>1. /\ call.at = "sample" /\ SessionOK(call.by, Me, "sample") /\ Me.used /\ Me.bundle = <<>>
      /\ Me \in SessionType /\ RanOK(Me)
  BY Acting DEF SampleBefore, Step
<1>2. PICK i \in Seq(Nat) : i = IF Me.observed THEN Sampled ELSE NoSample
  <2>1. Sampled \in Seq(Nat) /\ NoSample \in Seq(Nat)
    BY DEF Sampled, NoSample, RunInv, WorldOK
  <2> QED BY <2>1
<1>3. PICK m : m = [Me EXCEPT !.active = TRUE, !.initial = i]
  OBVIOUS
<1>4. Step("sample", "run", m)
  BY <1>2, <1>3 DEF SampleBefore
<1>5. /\ m \in SessionType /\ m.used = Me.used /\ m.events = Me.events /\ m.bundle = Me.bundle
      /\ m.ran = Me.ran /\ m.entered = Me.entered /\ m.held = Me.held /\ m.run = Me.run
      /\ m.thread = Me.thread /\ m.honor = Me.honor
  BY <1>1, <1>3 DEF SessionType
<1>6. PlaceOK(m, "run") /\ RanOK(m)
  BY <1>1, <1>5 DEF PlaceOK, RanOK
<1>7. SessionOK(call.by, m, "run")
  BY <1>1, <1>5, <1>6, QuietSession
<1>8. now' \in Nat
  BY DEF SampleBefore, Ticks, RunInv, WorldOK
<1> QED BY <1>4, <1>7, <1>8, Steps DEF SampleBefore, Stage, RunInv, WorldOK

\* The node is entered by a session that has received nothing yet.
LEMMA ReceiveRuns == ASSUME RunInv, Receive PROVE RunInv'
<1>1. /\ call.at = "run" /\ SessionOK(call.by, Me, "run") /\ Me.used /\ Me.bundle = <<>>
      /\ Me \in SessionType /\ RanOK(Me) /\ ~Me.entered
  BY Acting DEF Receive, Step, NodeAllowed
<1>2. PICK e : e = Event("received", Me.run, now + 1, <<>>)
  OBVIOUS
<1>3. e \in EventType /\ e.run = Me.run /\ e.kind = "received"
  BY <1>1, <1>2 DEF Event, EventType, KindSet, Data, SessionType, RunInv, WorldOK
<1>4. PICK m : m = [[Me EXCEPT !.events = Append(@, e)] EXCEPT !.entered = TRUE]
  OBVIOUS
<1>5. Step("run", "handle", m)
  BY <1>2, <1>4 DEF Receive, Emits
<1>6. /\ m \in SessionType /\ m.used = Me.used /\ m.events = Append(Me.events, e)
      /\ m.bundle = Me.bundle /\ m.ran = Me.ran /\ m.entered /\ m.held = Me.held
      /\ m.run = Me.run /\ m.thread = Me.thread /\ m.honor = Me.honor
  <2>1. Append(Me.events, e) \in Seq(EventType)
    BY <1>1, <1>3 DEF SessionType
  <2> QED BY <1>1, <1>4, <2>1 DEF SessionType
<1>7. PlaceOK(m, "handle") /\ RanOK(m)
  BY <1>1, <1>6 DEF PlaceOK, RanOK, SessionType
<1>8. SessionOK(call.by, m, "handle")
  BY <1>1, <1>3, <1>6, <1>7, LoudSession
<1>9. now' \in Nat
  BY DEF Receive, Ticks, RunInv, WorldOK
<1> QED BY <1>5, <1>8, <1>9, Steps DEF Receive, Stage, RunInv, WorldOK

\* The node that the graph runs is not the wrapped one.
LEMMA BypassRuns == ASSUME RunInv, Bypass PROVE RunInv'
<1>1. /\ call.at = "run" /\ SessionOK(call.by, Me, "run") /\ Me.used /\ Me.bundle = <<>>
      /\ Me \in SessionType /\ RanOK(Me)
  BY Acting DEF Bypass, Step
<1>2. PICK m : m = Left(Me)
  OBVIOUS
<1>3. Step("run", "native", m)
  BY <1>2 DEF Bypass
<1>4. /\ m \in SessionType /\ m.used = Me.used /\ m.events = Me.events /\ m.bundle = Me.bundle
      /\ m.ran = Me.ran /\ m.entered = Me.entered /\ m.held = Me.held /\ m.run = Me.run
      /\ m.thread = Me.thread /\ m.honor = Me.honor
  BY <1>1, <1>2 DEF SessionType, Left
<1>5. PlaceOK(m, "native") /\ RanOK(m)
  BY <1>1, <1>4 DEF PlaceOK, RanOK
<1>6. SessionOK(call.by, m, "native")
  BY <1>1, <1>4, <1>5, QuietSession
<1>7. stored' \in [Threads -> Outcome] /\ stored'[m.thread] = "done"
  BY <1>1, <1>4, StoresIs DEF Bypass, Outcome
<1> QED BY <1>3, <1>6, <1>7, Steps DEF Bypass, Stage, RunInv, WorldOK

\* The pause is asked for, or the control is told to ignore it.
LEMMA AnswerRuns == ASSUME RunInv, RequestPause \/ Ignore PROVE RunInv'
<1>1. /\ call.at = "handle" /\ SessionOK(call.by, Me, "handle") /\ Me.used /\ Me.bundle = <<>>
      /\ Me \in SessionType /\ RanOK(Me)
  BY Acting DEF RequestPause, Ignore, Step
<1>2. PICK kind \in {"pause_requested", "ignored"}, to \in {"interrupt", "function"} :
        /\ Step("handle", to, Emits(Me, kind, <<>>))
        /\ to = "interrupt" => Me.honor
        /\ to = "function" => ~Me.honor
  BY DEF RequestPause, Ignore
<1>3. PICK e : e = Event(kind, Me.run, now + 1, <<>>)
  OBVIOUS
<1>4. e \in EventType /\ e.run = Me.run /\ e.kind = kind
  BY <1>1, <1>3 DEF Event, EventType, KindSet, Data, SessionType, RunInv, WorldOK
<1>5. PICK m : m = [Me EXCEPT !.events = Append(@, e)]
  OBVIOUS
<1>6. Step("handle", to, m)
  BY <1>2, <1>3, <1>5 DEF Emits
<1>7. /\ m \in SessionType /\ m.used = Me.used /\ m.events = Append(Me.events, e)
      /\ m.bundle = Me.bundle /\ m.ran = Me.ran /\ m.entered = Me.entered /\ m.held = Me.held
      /\ m.run = Me.run /\ m.thread = Me.thread /\ m.honor = Me.honor
  <2>1. Append(Me.events, e) \in Seq(EventType)
    BY <1>1, <1>4 DEF SessionType
  <2> QED BY <1>1, <1>5, <2>1 DEF SessionType
<1>8. PlaceOK(m, to) /\ RanOK(m)
  BY <1>1, <1>2, <1>7 DEF SessionOK, PlaceOK, RanOK
<1>9. SessionOK(call.by, m, to)
  BY <1>1, <1>4, <1>7, <1>8, LoudSession
<1>10. /\ now' \in Nat /\ stored' \in [Threads -> Outcome] /\ file' \in {0, 1} /\ changes' = changes
  BY DEF RequestPause, Ignore, Ticks, RunInv, WorldOK
<1>11. to \in Stage /\ to # "native"
  BY DEF Stage
<1> QED BY <1>6, <1>9, <1>10, <1>11, Steps

\* LangGraph stores a pause only where the session asked for one.
LEMMA InterruptRuns == ASSUME RunInv, Interrupt PROVE RunInv'
<1>1. /\ call.at = "interrupt" /\ SessionOK(call.by, Me, "interrupt") /\ Me.used
      /\ Me.bundle = <<>> /\ Me \in SessionType /\ RanOK(Me)
  BY Acting DEF Interrupt, Step
<1>2. PICK m : /\ m = [Left(Me) EXCEPT !.held = TRUE] \/ m = Left(Me)
               /\ Step("interrupt", "native", m)
               /\ \E what \in {"paused", "done"} : Stores(what) /\ (what = "paused" => m.held)
  <2>1. CASE Step("interrupt", "native", [Left(Me) EXCEPT !.held = TRUE]) /\ Stores("paused")
    <3>1. [Left(Me) EXCEPT !.held = TRUE].held
      BY <1>1 DEF Left, SessionType
    <3> QED BY <2>1, <3>1
  <2>2. CASE Step("interrupt", "native", Left(Me)) /\ Stores("done")
    BY <2>2
  <2> QED BY <2>1, <2>2 DEF Interrupt
<1>3. /\ m \in SessionType /\ m.used = Me.used /\ m.events = Me.events /\ m.bundle = Me.bundle
      /\ m.ran = Me.ran /\ m.entered = Me.entered /\ (Me.held => m.held) /\ m.run = Me.run
      /\ m.thread = Me.thread /\ m.honor = Me.honor
  <2>1. m = Left(Me) \/ m = [Left(Me) EXCEPT !.held = TRUE]
    BY <1>2
  <2>2. PICK k : k = Left(Me)
    OBVIOUS
  <2>3. /\ k \in SessionType /\ k.used = Me.used /\ k.events = Me.events /\ k.bundle = Me.bundle
        /\ k.ran = Me.ran /\ k.entered = Me.entered /\ k.held = Me.held /\ k.run = Me.run
        /\ k.thread = Me.thread /\ k.honor = Me.honor
    BY <1>1, <2>2 DEF SessionType, Left
  <2>4. m = k \/ m = [k EXCEPT !.held = TRUE]
    BY <2>1, <2>2
  <2> QED BY <2>3, <2>4 DEF SessionType
<1>4. PlaceOK(m, "native") /\ RanOK(m)
  <2>1. Me.honor /\ m.honor /\ m.used /\ m.bundle = <<>>
    BY <1>1, <1>3 DEF SessionOK, PlaceOK
  <2>2. PlaceOK(m, "native")
    BY <2>1 DEF PlaceOK
  <2>3. RanOK(m)
    BY <1>1, <1>3, <2>1 DEF RanOK
  <2> QED BY <2>2, <2>3
<1>5. SessionOK(call.by, m, "native")
  BY <1>1, <1>3, <1>4, QuietSession
<1>6. PICK what \in Outcome : Stores(what) /\ (what = "paused" => m.held)
  BY <1>2 DEF Outcome
<1>7. stored' \in [Threads -> Outcome] /\ stored'[m.thread] = what
  BY <1>1, <1>3, <1>6, StoresIs
<1> QED BY <1>2, <1>5, <1>6, <1>7, Steps DEF Interrupt, Stage, RunInv, WorldOK

\* The function runs where the session ignores the pause, and was not run.
LEMMA FunctionRuns == ASSUME RunInv, Function \/ Retry PROVE RunInv'
<1>1. /\ call.at = "function" /\ SessionOK(call.by, Me, "function") /\ Me.used
      /\ Me.bundle = <<>> /\ Me \in SessionType /\ RanOK(Me)
  BY Acting DEF Function, Retry, Step
<1>2a. PICK to \in {"native", "run"} : \E m :
         /\ m = Left([Me EXCEPT !.ran = @ + 1]) \/ m = [Me EXCEPT !.ran = @ + 1]
         /\ Step("function", to, m)
  BY DEF Function, Retry
<1>2. PICK m : /\ m = Left([Me EXCEPT !.ran = @ + 1]) \/ m = [Me EXCEPT !.ran = @ + 1]
               /\ Step("function", to, m)
  BY <1>2a
<1>3. /\ m \in SessionType /\ m.used = Me.used /\ m.events = Me.events /\ m.bundle = Me.bundle
      /\ m.ran = Me.ran + 1 /\ m.entered = Me.entered /\ m.held = Me.held /\ m.run = Me.run
      /\ m.thread = Me.thread /\ m.honor = Me.honor
  <2>0. PICK n \in Nat : n = Me.ran + 1
    BY <1>1 DEF SessionType
  <2>1. PICK k : k = [Me EXCEPT !.ran = n]
    OBVIOUS
  <2>2. /\ k \in SessionType /\ k.used = Me.used /\ k.events = Me.events /\ k.bundle = Me.bundle
        /\ k.ran = Me.ran + 1 /\ k.entered = Me.entered /\ k.held = Me.held /\ k.run = Me.run
        /\ k.thread = Me.thread /\ k.honor = Me.honor
    BY <1>1, <2>0, <2>1 DEF SessionType
  <2>3. m = k \/ m = [k EXCEPT !.active = FALSE]
    BY <1>2, <2>0, <2>1 DEF Left
  <2> QED BY <2>2, <2>3 DEF SessionType
<1>4. PlaceOK(m, to) /\ RanOK(m)
  BY <1>1, <1>2, <1>3 DEF SessionOK, PlaceOK, RanOK
<1>5. SessionOK(call.by, m, to)
  BY <1>1, <1>3, <1>4, QuietSession
<1>6. /\ stored' \in [Threads -> Outcome]
      /\ to = "native" => stored'[m.thread] # "paused"
  <2>1. CASE Function
    <3>1. PICK what \in Outcome : Stores(what) /\ what # "paused"
      BY <2>1 DEF Function, Outcome
    <3> QED BY <1>1, <1>3, <3>1, StoresIs
  <2>2. CASE Retry
    <3>1. to = "run"
      BY <1>1, <1>2, <2>2 DEF Retry, Step, At, RunInv, WorldOK, Idle
    <3> QED BY <2>2, <3>1 DEF Retry, RunInv, WorldOK
  <2> QED BY <2>1, <2>2
<1>7. file' \in {0, 1} /\ UNCHANGED <<changes, now>>
  BY DEF Function, Retry
<1>8. to \in Stage /\ now' \in Nat /\ changes' = changes
  BY <1>7 DEF Stage, RunInv, WorldOK
<1> QED BY <1>2, <1>5, <1>6, <1>7, <1>8, Steps

\* The wrapper refuses a node that its session does not allow.
LEMMA RefuseRuns == ASSUME RunInv, Refuse PROVE RunInv'
<1>1. /\ call.at = "run" /\ SessionOK(call.by, Me, "run") /\ Me.used /\ Me.bundle = <<>>
      /\ Me \in SessionType /\ RanOK(Me)
  BY Acting DEF Refuse, Step
<1>2. PICK m : m = Left(Me)
  OBVIOUS
<1>3. Step("run", "idle", m)
  BY <1>2 DEF Refuse
<1>4. /\ m \in SessionType /\ m.used = Me.used /\ m.events = Me.events /\ m.bundle = Me.bundle
      /\ m.ran = Me.ran /\ m.entered = Me.entered /\ m.held = Me.held /\ m.run = Me.run
      /\ m.thread = Me.thread /\ m.honor = Me.honor
  BY <1>1, <1>2 DEF SessionType, Left
<1>5. PlaceOK(m, "idle") /\ RanOK(m)
  BY <1>1, <1>4 DEF PlaceOK, RanOK
<1>6. SessionOK(call.by, m, "idle")
  BY <1>1, <1>4, <1>5, QuietSession
<1>7. stored' \in [Threads -> Outcome]
  BY <1>1, StoresIs DEF Refuse, Outcome
<1> QED BY <1>3, <1>6, <1>7, Steps DEF Refuse, Stage, RunInv, WorldOK

\* What LangGraph stored is reported, unless it is the application's own.
LEMMA NativeRuns == ASSUME RunInv, Native PROVE RunInv'
<1>1. /\ call.at = "native" /\ SessionOK(call.by, Me, "native") /\ Me.used
      /\ Me.bundle = <<>> /\ Me \in SessionType /\ RanOK(Me) /\ Me.thread \in Threads
  BY Acting DEF Native
<1>2. PICK o \in Outcome : o = stored[Me.thread]
  BY <1>1 DEF RunInv, WorldOK
<1>3. o = "paused" => Me.held
  BY <1>1, <1>2 DEF RunInv
<1>4. CASE o = "foreign"
  <2>m. PICK m : m = Me
    OBVIOUS
  <2>1. Step("native", "idle", m) /\ now' = now + 0
    BY <1>2, <1>4, <2>m DEF Native, Ticks
  <2>2. SessionOK(call.by, m, "idle")
    BY <1>1, <2>m DEF SessionOK, PlaceOK
  <2>3. now' \in Nat
    BY <2>1 DEF RunInv, WorldOK
  <2> QED BY <2>1, <2>2, <2>3, Steps DEF Native, Stage, RunInv, WorldOK
<1>5. CASE o # "foreign"
  <2>1. PICK e : e = Event("native_result", Me.run, now + 1, <<o>>)
    OBVIOUS
  <2>2. e \in EventType /\ e.run = Me.run /\ e.kind = "native_result" /\ e.data = <<o>>
    BY <1>1, <2>1 DEF Event, EventType, KindSet, Data, SessionType, RunInv, WorldOK
  <2>3. PICK m : m = [Me EXCEPT !.events = Append(@, e)]
    OBVIOUS
  <2>4. PICK to \in {"observe", "project"} : Step("native", to, m) /\ now' = now + 1
    BY <1>2, <1>5, <2>1, <2>3 DEF Native, Emits, Ticks
  <2>5. /\ m \in SessionType /\ m.used = Me.used /\ m.events = Append(Me.events, e)
        /\ m.bundle = Me.bundle /\ m.ran = Me.ran /\ m.entered = Me.entered /\ m.held = Me.held
        /\ m.run = Me.run /\ m.thread = Me.thread /\ m.honor = Me.honor
    <3>1. Append(Me.events, e) \in Seq(EventType)
      BY <1>1, <2>2 DEF SessionType
    <3> QED BY <1>1, <2>3, <3>1 DEF SessionType
  <2>6. PlaceOK(m, to) /\ RanOK(m)
    BY <1>1, <2>5 DEF PlaceOK, RanOK
  <2>7. SessionOK(call.by, m, to)
    <3>1. e.data = <<"paused">> => Me.held
      BY <1>3, <2>2
    <3> QED BY <1>1, <2>2, <2>5, <2>6, <3>1, LoudSession
  <2>8. /\ to \in Stage /\ to # "native" /\ now' \in Nat
        /\ stored' \in [Threads -> Outcome] /\ file' \in {0, 1} /\ changes' = changes
    BY <2>4 DEF Native, Stage, RunInv, WorldOK
  <2> QED BY <2>4, <2>7, <2>8, Steps
<1> QED BY <1>4, <1>5

\* The second sample.
LEMMA SampleAfterRuns == ASSUME RunInv, SampleAfter PROVE RunInv'
<1>1. /\ call.at = "observe" /\ SessionOK(call.by, Me, "observe") /\ Me.used
      /\ Me.bundle = <<>> /\ Me \in SessionType /\ RanOK(Me)
  BY Acting DEF SampleAfter, Step
<1>2. PICK d : d = Me.initial \o Sampled
  OBVIOUS
<1>3. d \in Seq(Nat)
  <2>1. Sampled \in Seq(Nat) /\ Me.initial \in Seq(Nat)
    BY <1>1 DEF Sampled, SessionType, RunInv, WorldOK
  <2> HIDE DEF Sampled
  <2> QED BY <1>2, <2>1
<1>4. PICK e : e = Event("effect_sampled", Me.run, now + 3, d)
  OBVIOUS
<1>5. e \in EventType /\ e.run = Me.run /\ e.kind = "effect_sampled"
  BY <1>1, <1>3, <1>4 DEF Event, EventType, KindSet, Data, SessionType, RunInv, WorldOK
<1>6. PICK m : m = [Me EXCEPT !.events = Append(@, e)]
  OBVIOUS
<1>7. Step("observe", "project", m)
  BY <1>2, <1>4, <1>6 DEF SampleAfter
<1>8. /\ m \in SessionType /\ m.used = Me.used /\ m.events = Append(Me.events, e)
      /\ m.bundle = Me.bundle /\ m.ran = Me.ran /\ m.entered = Me.entered /\ m.held = Me.held
      /\ m.run = Me.run /\ m.thread = Me.thread /\ m.honor = Me.honor
  <2>1. Append(Me.events, e) \in Seq(EventType)
    BY <1>1, <1>5 DEF SessionType
  <2> QED BY <1>1, <1>6, <2>1 DEF SessionType
<1>9. PlaceOK(m, "project") /\ RanOK(m)
  BY <1>1, <1>8 DEF PlaceOK, RanOK
<1>10. SessionOK(call.by, m, "project")
  BY <1>1, <1>5, <1>8, <1>9, LoudSession
<1>11. now' \in Nat
  BY DEF SampleAfter, Ticks, RunInv, WorldOK
<1> QED BY <1>7, <1>10, <1>11, Steps DEF SampleAfter, Stage, RunInv, WorldOK

\* The bundle is the events, and nothing is reported after it.
LEMMA ReturnRuns == ASSUME RunInv, Return PROVE RunInv'
<1>1. /\ call.at = "project" /\ SessionOK(call.by, Me, "project") /\ Me.used
      /\ Me.bundle = <<>> /\ Me \in SessionType /\ RanOK(Me)
  BY Acting DEF Return, Step
<1>2. PICK m : m = [Me EXCEPT !.bundle = Me.events, !.used = TRUE]
  OBVIOUS
<1>3. Step("project", "idle", m)
  BY <1>2 DEF Return
<1>4. /\ m \in SessionType /\ m.used /\ m.events = Me.events /\ m.bundle = Me.events
      /\ m.ran = Me.ran /\ m.entered = Me.entered /\ m.held = Me.held /\ m.run = Me.run
      /\ m.thread = Me.thread /\ m.honor = Me.honor
  BY <1>1, <1>2 DEF SessionType
<1>5. SessionOK(call.by, m, "idle")
  BY <1>1, <1>4, SilentKeeps DEF SessionOK, PlaceOK, RanOK
<1> QED BY <1>3, <1>5, Steps DEF Return, Stage, RunInv, WorldOK

\* Every step keeps the invariant.
LEMMA NextRuns == ASSUME RunInv, [Next]_vars PROVE RunInv'
<1>1. ASSUME NEW x \in Sessions, NEW t \in Threads, NEW h \in BOOLEAN, NEW o \in BOOLEAN,
             WrapNode(x) \/ Outside(x, t) \/ Invoke(x, t, h, o)
      PROVE  RunInv'
  BY <1>1, WrapRuns, OutsideRuns, InvokeRuns
<1>2. ASSUME NEW x \in Sessions, WrapNode(x) PROVE RunInv'
  BY <1>2, WrapRuns
<1>3. CASE Lookup \/ Enter \/ Issue \/ SampleBefore \/ Receive \/ Bypass
  BY <1>3, LookupRuns, EnterRuns, IssueRuns, SampleRuns, ReceiveRuns, BypassRuns
<1>4. CASE RequestPause \/ Interrupt \/ Ignore \/ Function \/ Retry \/ Refuse
  BY <1>4, AnswerRuns, InterruptRuns, FunctionRuns, RefuseRuns
<1>5. CASE Native \/ SampleAfter \/ Return \/ Raise
  BY <1>5, NativeRuns, SampleAfterRuns, ReturnRuns, RaiseRuns
<1>6. CASE Change \/ UNCHANGED vars
  BY <1>6, ChangeRuns
<1> QED BY <1>1, <1>2, <1>3, <1>4, <1>5, <1>6 DEF Next

\* The invariant holds in every run.
LEMMA RunInvariant == Spec => []RunInv
<1> QED BY InitRuns, NextRuns, PTL DEF Spec
-----------------------------------------------------------------------------
(* The results.                                                            *)

\* What occurs once in a list is counted at most once.
LEMMA CountedOnce ==
  ASSUME NEW E \in Seq(EventType), NEW kind, OnceIn(E, kind)
  PROVE  Cardinality({i \in DOMAIN E : E[i].kind = kind}) <= 1
<1> DEFINE S == {i \in DOMAIN E : E[i].kind = kind}
<1>0. \A i, j \in S : i = j
  BY DEF OnceIn
<1> HIDE DEF S
<1>1. CASE S = {}
  <2>1. Cardinality(S) = 0
    BY <1>1, FS_EmptySet
  <2> QED BY <2>1 DEF S
<1>2. CASE S # {}
  <2>1. PICK i \in S : S = {i}
    BY <1>0, <1>2
  <2>2. Cardinality(S) = 1
    BY <2>1, FS_Singleton
  <2> QED BY <2>2 DEF S
<1> QED BY <1>1, <1>2

\* A session issues one command, enters its node at most once, runs the function
\* at most once and never under a pause, and returns all it reported, for any
\* sessions, threads and code of the caller.
THEOREM EverySessionIsOneRun == Spec => []SessionIsOneRun
<1>1. RunInv => SessionIsOneRun
  <2> SUFFICES ASSUME RunInv, NEW x \in Sessions
               PROVE  /\ Cardinality({i \in DOMAIN s[x].events : s[x].events[i].kind = "decision"}) <= 1
                      /\ Cardinality({i \in DOMAIN s[x].events : s[x].events[i].kind = "received"}) <= 1
                      /\ s[x].ran <= 1 /\ (s[x].honor => s[x].ran = 0)
                      /\ s[x].bundle # <<>> => s[x].bundle = s[x].events
    BY DEF SessionIsOneRun
  <2>1. /\ s[x] \in SessionType /\ EventsOK(s[x]) /\ RanOK(s[x])
        /\ s[x].bundle # <<>> => s[x].bundle = s[x].events
    BY DEF RunInv, SessionOK, PlaceOK
  <2>2. s[x].events \in Seq(EventType) /\ s[x].ran \in Nat
    BY <2>1 DEF SessionType
  <2>3. OnceIn(s[x].events, "decision") /\ OnceIn(s[x].events, "received")
    BY <2>1 DEF EventsOK
  <2> QED BY <2>1, <2>2, <2>3, CountedOnce DEF RanOK
<1> QED BY <1>1, RunInvariant, PTL

\* Each event of a list of sources that somebody made is one of a returned bundle.
LEMMA MadeOfBundle ==
  ASSUME RunInv, NEW b \in Made
  PROVE  \E x, y \in Returned : /\ b.run = s[x].run
                                /\ \A i \in DOMAIN b.sources :
                                     \E j \in DOMAIN s[y].bundle : b.sources[i] = s[y].bundle[j]
<1>1. PICK x \in Returned : \E y \in Returned : \E E \in {s[y].bundle} \cup Dropped(s[y].bundle) :
        b.run = s[x].run /\ b.sources = E
  BY DEF Made
<1>2. PICK y \in Returned : \E E \in {s[y].bundle} \cup Dropped(s[y].bundle) :
        b.run = s[x].run /\ b.sources = E
  BY <1>1
<1>3. PICK E \in {s[y].bundle} \cup Dropped(s[y].bundle) : b.run = s[x].run /\ b.sources = E
  BY <1>2
<1>4. \A i \in DOMAIN E : \E j \in DOMAIN s[y].bundle : E[i] = s[y].bundle[j]
  <2>1. CASE E = s[y].bundle
    BY <2>1
  <2>2. CASE E \in Dropped(s[y].bundle)
    <3> DEFINE q == s[y].bundle
    <3>1. Len(q) \in Nat /\ DOMAIN q = 1 .. Len(q)
      BY DEF Returned, RunInv, SessionOK, SessionType
    <3>2. PICK n \in DOMAIN q : E = [i \in 1 .. (Len(q) - 1) |-> IF i < n THEN q[i] ELSE q[i + 1]]
      BY <2>2 DEF Dropped
    <3> HIDE DEF q
    <3>3. \A i \in DOMAIN E : /\ i \in DOMAIN q /\ i + 1 \in DOMAIN q
                              /\ E[i] \in {q[i], q[i + 1]}
      BY <3>1, <3>2
    <3>4. \A i \in DOMAIN E : \E j \in DOMAIN q : E[i] = q[j]
      BY <3>3
    <3> QED BY <3>4 DEF q
  <2> QED BY <2>1, <2>2
<1> QED BY <1>3, <1>4

\* Without the key, nothing put together from returned bundles matches a question
\* about a run whose pause LangGraph did not store before the function.
THEOREM EveryMatchMeansPaused == Spec => []MatchMeansPaused
<1>1. RunInv => MatchMeansPaused
  <2> SUFFICES ASSUME RunInv, NEW b \in Made, NEW x \in Sessions, Match(b, s[x].run)
               PROVE  x \in Returned /\ s[x].held /\ s[x].ran = 0
    BY DEF MatchMeansPaused
  <2>1. PICK z \in Returned, y \in Returned :
          /\ b.run = s[z].run
          /\ \A i \in DOMAIN b.sources :
               \E j \in DOMAIN s[y].bundle : b.sources[i] = s[y].bundle[j]
    BY MadeOfBundle
  <2>0. \A u, v \in Sessions : s[u].run = s[v].run => u = v
    <3>1. \A u \in Sessions : s[u].run[1] = u
      BY DEF RunInv, SessionOK
    <3> TAKE u, v \in Sessions
    <3>2. s[u].run[1] = u /\ s[v].run[1] = v
      BY <3>1
    <3> QED BY <3>2
  <2>2. \A u \in Returned : /\ u \in Sessions
                            /\ s[u].bundle = s[u].events
                            /\ \A j \in DOMAIN s[u].bundle : s[u].bundle[j].run = s[u].run
    BY DEF Returned, RunInv, SessionOK, PlaceOK, EventsOK
  <2>3. b.run = s[x].run /\ Execution(b.sources) = "PAUSED" /\ Admissible(b.sources, b.run)
    BY DEF Match, Matches, Agrees
  <2>4. z = x
    <3>1. z \in Sessions /\ s[z].run = s[x].run
      BY <2>1, <2>2, <2>3
    <3> QED BY <2>0, <3>1
  <2>5. Has(b.sources, "native_result") /\ NativePaused(b.sources)
    BY <2>3 DEF Execution
  <2>6. PICK i \in DOMAIN b.sources :
          /\ b.sources[i].kind = "native_result" /\ b.sources[i].data = <<"paused">>
    BY <2>5 DEF Has, NativePaused, The
  <2>7. PICK j \in DOMAIN s[y].bundle : b.sources[i] = s[y].bundle[j]
    BY <2>1
  <2>8. b.sources[i].run = s[x].run /\ b.sources[i].run = s[y].run
    BY <2>2, <2>3, <2>7 DEF Admissible
  <2>9. y = x
    <3>1. y \in Sessions /\ s[y].run = s[x].run
      BY <2>2, <2>8
    <3> QED BY <2>0, <3>1
  <2>10. /\ s[x].events[j].kind = "native_result" /\ s[x].events[j].data = <<"paused">>
         /\ j \in DOMAIN s[x].events
    BY <2>2, <2>6, <2>7, <2>9
  <2>11. /\ EventsOK(s[x]) /\ RanOK(s[x]) /\ s[x].ran \in Nat
    BY DEF RunInv, SessionOK, SessionType
  <2>12. s[x].held
    BY <2>10, <2>11 DEF EventsOK
  <2> QED BY <2>4, <2>11, <2>12 DEF RanOK
<1> QED BY <1>1, RunInvariant, PTL
-----------------------------------------------------------------------------
(* What a bundle tells.                                                    *)

\* The events that a run reports, in their order.
Tale(me) ==
  IF me.entered
  THEN <<"decision", "dispatched", "received", IF me.honor THEN "pause_requested" ELSE "ignored",
         "native_result", "effect_sampled">>
  ELSE <<"decision", "dispatched", "native_result", "effect_sampled">>

\* How many precede the native result.
Mark(me) == IF me.entered THEN 4 ELSE 2

\* The events are the tale so far, stamped in order; the result is a pause if
\* LangGraph stored the control's; the samples lie outside what they bracket.
TaleOK(me) ==
  LET E == me.events
      n == Mark(me)
  IN
  /\ Len(E) <= n + 2
  /\ \A i \in DOMAIN E : E[i].kind = Tale(me)[i]
  /\ \A i, j \in DOMAIN E : i <= j => E[i].tick <= E[j].tick
  /\ n + 1 \in DOMAIN E => (E[n + 1].data = <<"paused">> <=> me.held)
  /\ n + 2 \in DOMAIN E =>
       LET d == E[n + 2].data IN
       /\ d \in Seq(Nat) /\ Len(d) = 6
       /\ E[2].tick <= d[1] /\ d[1] <= d[3] /\ d[3] <= d[4] /\ d[4] <= d[6]
       /\ d[6] <= E[n + 2].tick
       /\ E[n + 1].tick <= d[4] /\ (me.entered => d[3] <= E[3].tick)

\* The first sample was taken after the dispatch and before the receipt.
FirstOK(me, t) ==
  LET a == me.initial
      E == me.events
  IN
  /\ a \in Seq(Nat) /\ Len(a) = 3
  /\ E[2].tick <= a[1] /\ a[1] <= a[3] /\ a[3] <= t /\ (me.entered => a[3] <= E[3].tick)

\* Where the bundle was returned the whole tale is told.
Told(me, at) == at = "project" \/ (at = "idle" /\ me.bundle # <<>>)

\* How far the tale is, and what LangGraph and the function did by then.
TellOK(me, at, t) ==
  LET E == me.events
      n == Mark(me)
  IN
  /\ at \notin {"idle", "lookup", "entry", "issue"} \/ Told(me, at) => TaleOK(me) /\ Len(E) >= 2
  /\ at \notin {"idle", "lookup", "entry", "issue"} => \A i \in DOMAIN E : E[i].tick <= t
  /\ at \in {"run", "handle", "interrupt", "function", "native", "observe"} /\ me.observed
       => FirstOK(me, t)
  /\ at = "sample" => Len(E) = 2 /\ ~me.entered /\ me.ran = 0
  /\ at = "run" => Len(E) = n /\ (me.entered <=> me.ran = 1)
  /\ at = "handle" => Len(E) = 3
  /\ at \in {"interrupt", "function"} => Len(E) = 4
  /\ at \in {"sample", "run", "handle", "interrupt", "function"} => ~me.held
  /\ at = "native" => Len(E) = n
  /\ at = "observe" => Len(E) = n + 1 /\ me.observed
  /\ Told(me, at) => Len(E) = n + (IF me.observed THEN 2 ELSE 1)
  /\ at \in {"native", "observe"} \/ Told(me, at) =>
       /\ me.ran = 1 <=> me.entered /\ ~me.honor
       /\ me.held => me.entered

\* What the bundles tell, with what it takes to keep them so.
TellInv ==
  /\ RunInv
  /\ \A x \in Sessions : TellOK(s[x], Where(x), now)
  /\ call.at = "native" => (stored[Me.thread] = "paused" <=> Me.held)

\* The members of a list.
LEMMA Members ==
  ASSUME NEW S, NEW q \in Seq(S)
  PROVE  /\ Len(q) \in Nat /\ DOMAIN q = 1 .. Len(q)
         /\ \A i \in DOMAIN q : q[i] \in S
OBVIOUS

\* A list with one member more, and two lists in sequence.
LEMMA Lengthened ==
  ASSUME NEW S, NEW q \in Seq(S), NEW r \in Seq(S), NEW e \in S
  PROVE  /\ Append(q, e) \in Seq(S) /\ Len(Append(q, e)) = Len(q) + 1
         /\ q \o r \in Seq(S) /\ Len(q \o r) = Len(q) + Len(r)
         /\ \A i \in 1 .. Len(q) : (q \o r)[i] = q[i]
         /\ \A i \in 1 .. Len(r) : (q \o r)[Len(q) + i] = r[i]
OBVIOUS

\* A session outside an invocation tells the same at any time.
LEMMA TellIdle ==
  ASSUME NEW me, NEW t, NEW u, TellOK(me, "idle", t)
  PROVE  TellOK(me, "idle", u)
BY DEF TellOK, Told

\* The step of an invocation, for the session that acts and for the others.
LEMMA TellSteps ==
  ASSUME TellInv, RunInv', NEW from, NEW to \in Stage, NEW m, Step(from, to, m), from # "idle",
         TellOK(m, to, now'), to = "native" => (stored'[m.thread] = "paused" <=> m.held)
  PROVE  TellInv'
<1>0. call.by \in Sessions /\ call \in [by : Sessions, at : Stage \ {"idle"}]
  BY DEF Step, TellInv, RunInv, WorldOK, Idle
<1>1. PICK x \in Sessions : x = call.by /\ call \in [by : Sessions, at : Stage \ {"idle"}]
  BY <1>0
<1>2. s' = [s EXCEPT ![x] = m] /\ s'[x] = m /\ \A y \in Sessions \ {x} : s'[y] = s[y]
  BY <1>1 DEF Step, TellInv, RunInv, WorldOK
<1>3. \A y \in Sessions \ {x} : TellOK(s[y], "idle", now)
  <2> TAKE y \in Sessions \ {x}
  <2>1. Where(y) = "idle"
    BY <1>1 DEF Where
  <2> QED BY <2>1 DEF TellInv
<1>4. \A y \in Sessions \ {x} : TellOK(s'[y], "idle", now')
  BY <1>2, <1>3, TellIdle
<1>5. CASE to = "idle"
  <2>1. call' = Idle /\ call'.at = "idle"
    BY <1>5 DEF Step, At, Idle
  <2>2. \A y \in Sessions : Where(y)' = "idle"
    BY <2>1 DEF Where
  <2>3. \A y \in Sessions : TellOK(s[y], Where(y), now)'
    BY <1>2, <1>4, <1>5, <2>2
  <2> QED BY <2>1, <2>3 DEF TellInv
<1>6. CASE to # "idle"
  <2>1. call' \in [by : Sessions, at : Stage \ {"idle"}] /\ call'.by = x /\ call'.at = to
    BY <1>1, <1>6 DEF Step, At
  <2>2. Where(x)' = to /\ \A y \in Sessions \ {x} : Where(y)' = "idle"
    BY <2>1 DEF Where
  <2>3. \A y \in Sessions : TellOK(s[y], Where(y), now)'
    BY <1>2, <1>4, <2>2
  <2>4. Me' = m
    BY <1>2, <2>1 DEF Me
  <2> QED BY <2>1, <2>3, <2>4 DEF TellInv
<1> QED BY <1>5, <1>6

\* The session that acts, as the invariant knows it.
LEMMA TellActing ==
  ASSUME TellInv, call.at # "idle"
  PROVE  /\ TellOK(Me, call.at, now) /\ Me \in SessionType /\ Me.bundle = <<>> /\ Me.thread \in Threads
         /\ Me.events \in Seq(EventType) /\ Me.ran \in Nat /\ Me.entered \in BOOLEAN
         /\ Me.honor \in BOOLEAN /\ Me.observed \in BOOLEAN /\ Me.held \in BOOLEAN
         /\ RanOK(Me) /\ PlaceOK(Me, call.at) /\ now \in Nat
<1>1. /\ call.by \in Sessions /\ Me \in SessionType /\ Me.bundle = <<>> /\ Me.thread \in Threads
      /\ RanOK(Me) /\ PlaceOK(Me, call.at)
  BY Acting DEF TellInv, SessionOK
<1>2. TellOK(Me, call.at, now)
  BY <1>1 DEF TellInv, Where, Me
<1> QED BY <1>1, <1>2 DEF SessionType, TellInv, RunInv, WorldOK

\* The event that goes on with the tale.
GoesOn(me, e) ==
  LET E == me.events
      n == Mark(me)
      d == e.data
  IN
  /\ Len(E) < n + 2 /\ e.kind = Tale(me)[Len(E) + 1]
  /\ Len(E) = n => (d = <<"paused">> <=> me.held)
  /\ Len(E) = n + 1 =>
       /\ d \in Seq(Nat) /\ Len(d) = 6
       /\ E[2].tick <= d[1] /\ d[1] <= d[3] /\ d[3] <= d[4] /\ d[4] <= d[6] /\ d[6] <= e.tick
       /\ E[n + 1].tick <= d[4] /\ (me.entered => d[3] <= E[3].tick)

\* One event more of the tale, stamped last.
LEMMA TaleGrows ==
  ASSUME NEW me, me.events \in Seq(EventType), TaleOK(me), NEW e \in EventType, NEW m,
         m.events = Append(me.events, e), m.entered = me.entered, m.honor = me.honor,
         m.held = me.held, GoesOn(me, e),
         \A i \in DOMAIN me.events : me.events[i].tick <= e.tick
  PROVE  TaleOK(m)
<1> DEFINE E == me.events
           F == m.events
           l == Len(E)
           n == Mark(me)
<1>1. /\ F \in Seq(EventType) /\ F[l + 1] = e /\ Len(F) = l + 1
      /\ \A i \in 1 .. l : F[i] = E[i]
  OBVIOUS
<1>2. n \in {2, 4} /\ Mark(m) = n /\ Tale(m) = Tale(me) /\ l \in Nat /\ e.tick \in Nat /\ (me.entered => n = 4)
  BY DEF Mark, Tale, EventType
<1>3. /\ DOMAIN E = 1 .. l /\ DOMAIN F = 1 .. (l + 1)
      /\ \A i \in 1 .. l : E[i].tick \in Nat /\ F[i] = E[i]
      /\ l < n + 2 /\ Len(F) = l + 1 /\ F[l + 1] = e
  <2>1. E \in Seq(EventType)
    OBVIOUS
  <2> HIDE DEF E, F
  <2>2. DOMAIN E = 1 .. l /\ DOMAIN F = 1 .. (l + 1)
    BY <1>1, <2>1
  <2>3. \A i \in 1 .. l : E[i] \in EventType
    BY <2>1, <2>2
  <2>4. \A i \in 1 .. l : E[i].tick \in Nat
    BY <2>3 DEF EventType
  <2>5. l < n + 2
    BY DEF GoesOn, E
  <2> QED BY <1>1, <2>2, <2>4, <2>5
<1>4. \A i \in 1 .. (l + 1) : i = l + 1 \/ i \in 1 .. l
  BY <1>2
<1>t. /\ \A i \in 1 .. l : E[i].kind = Tale(me)[i]
      /\ \A i, j \in 1 .. l : i <= j => E[i].tick <= E[j].tick
      /\ n + 1 \in 1 .. l => (E[n + 1].data = <<"paused">> <=> me.held)
      /\ n + 2 \notin 1 .. l
  <2>1. /\ \A i \in DOMAIN E : E[i].kind = Tale(me)[i]
        /\ \A i, j \in DOMAIN E : i <= j => E[i].tick <= E[j].tick
        /\ n + 1 \in DOMAIN E => (E[n + 1].data = <<"paused">> <=> me.held)
    BY DEF TaleOK
  <2>2. DOMAIN E = 1 .. l
    BY <1>3
  <2>3. n + 2 \notin 1 .. l
    BY <1>2, <1>3
  <2> HIDE DEF E, n, l
  <2> QED BY <2>1, <2>2, <2>3
<1>h. /\ e.kind = Tale(me)[l + 1]
      /\ \A i \in 1 .. l : E[i].tick <= e.tick
      /\ l = n => (e.data = <<"paused">> <=> me.held)
      /\ l = n + 1 =>
           /\ e.data \in Seq(Nat) /\ Len(e.data) = 6
           /\ E[2].tick <= e.data[1] /\ e.data[1] <= e.data[3] /\ e.data[3] <= e.data[4]
           /\ e.data[4] <= e.data[6] /\ e.data[6] <= e.tick
           /\ E[n + 1].tick <= e.data[4]
           /\ (me.entered => e.data[3] <= E[3].tick)
  BY <1>3 DEF GoesOn
<1> HIDE DEF E, F, l, n
<1>5. \A i \in DOMAIN F : F[i].kind = Tale(m)[i]
  BY <1>2, <1>3, <1>4, <1>t, <1>h
<1>6. \A i, j \in DOMAIN F : i <= j => F[i].tick <= F[j].tick
  <2> SUFFICES ASSUME NEW i \in DOMAIN F, NEW j \in DOMAIN F, i <= j PROVE F[i].tick <= F[j].tick
    OBVIOUS
  <2>1. CASE j = l + 1
    BY <1>2, <1>3, <1>4, <1>h, <2>1, SMTT(30)
  <2>2. CASE j # l + 1
    <3>1. i \in 1 .. l /\ j \in 1 .. l
      BY <1>2, <1>3, <2>2
    <3> QED BY <1>3, <1>t, <3>1
  <2> QED BY <2>1, <2>2
<1>7. n + 1 \in DOMAIN F => (F[n + 1].data = <<"paused">> <=> m.held)
  <2>1. CASE l = n
    BY <1>3, <1>h, <2>1
  <2>2. CASE l # n /\ n + 1 \in DOMAIN F
    <3>1. n + 1 \in 1 .. l
      BY <1>2, <1>3, <2>2
    <3> QED BY <1>3, <1>t, <3>1
  <2> QED BY <2>1, <2>2
<1>8. n + 2 \in DOMAIN F =>
       LET d == F[n + 2].data IN
       /\ d \in Seq(Nat) /\ Len(d) = 6
       /\ F[2].tick <= d[1] /\ d[1] <= d[3] /\ d[3] <= d[4] /\ d[4] <= d[6]
       /\ d[6] <= F[n + 2].tick
       /\ F[n + 1].tick <= d[4] /\ (m.entered => d[3] <= F[3].tick)
  <2> SUFFICES ASSUME n + 2 \in DOMAIN F
               PROVE  LET d == F[n + 2].data IN
                      /\ d \in Seq(Nat) /\ Len(d) = 6
                      /\ F[2].tick <= d[1] /\ d[1] <= d[3] /\ d[3] <= d[4] /\ d[4] <= d[6]
                      /\ d[6] <= F[n + 2].tick
                      /\ F[n + 1].tick <= d[4] /\ (m.entered => d[3] <= F[3].tick)
    OBVIOUS
  <2>1. l = n + 1
    BY <1>2, <1>3
  <2>2. F[n + 2] = e
    <3>1. n + 2 = l + 1
      BY <1>2, <2>1
    <3> QED BY <1>3, <3>1
  <2>3. F[2] = E[2] /\ F[n + 1] = E[n + 1] /\ (me.entered => F[3] = E[3])
    <3>1. 2 \in 1 .. l /\ n + 1 \in 1 .. l /\ (me.entered => 3 \in 1 .. l)
      BY <1>2, <2>1
    <3> QED BY <1>3, <3>1
  <2> QED BY <1>h, <2>1, <2>2, <2>3
<1>9. Len(F) <= n + 2
  BY <1>2, <1>3
<1> QED BY <1>2, <1>5, <1>6, <1>7, <1>8, <1>9 DEF TaleOK, F

\* A session that reports nothing tells what it told.
LEMMA TaleStays ==
  ASSUME NEW me, TaleOK(me), NEW m, m.events = me.events, m.entered = me.entered,
         m.honor = me.honor, m.held = me.held
  PROVE  TaleOK(m)
BY DEF TaleOK, Mark, Tale

\* At the start nothing is told.
LEMMA InitTells == Init => TellInv
<1> SUFFICES ASSUME Init PROVE TellInv
  OBVIOUS
<1>1. \A x \in Sessions : Where(x) = "idle" /\ s[x].bundle = <<>>
  BY DEF Init, Idle, Where
<1>2. \A x \in Sessions : TellOK(s[x], "idle", now)
  BY <1>1 DEF TellOK, Told
<1> QED BY <1>1, <1>2, InitRuns DEF TellInv, Init, Idle

\* Steps outside an invocation tell nothing.
LEMMA BesideTells ==
  ASSUME TellInv, RunInv',
         \/ \E x \in Sessions : WrapNode(x)
         \/ \E x \in Sessions, t \in Threads : Outside(x, t)
         \/ Change \/ UNCHANGED vars
  PROVE  TellInv'
<1>1. call' = call /\ now' = now /\ (call.at = "native" => UNCHANGED <<s, stored>>)
  BY DEF WrapNode, Outside, Change, vars
<1>2. \A y \in Sessions : Where(y)' = Where(y)
  BY <1>1 DEF Where
<1>3. ASSUME NEW y \in Sessions PROVE TellOK(s'[y], Where(y), now)
  <2>1. TellOK(s[y], Where(y), now)
    BY DEF TellInv
  <2>2. CASE s'[y] = s[y]
    BY <2>1, <2>2
  <2>3. CASE s'[y] # s[y]
    <3>1. PICK x \in Sessions : WrapNode(x)
      BY <2>3 DEF Outside, Change, vars
    <3>2. y = x
      BY <2>3, <3>1 DEF WrapNode, TellInv, RunInv, WorldOK
    <3>3. s'[y] = [s[y] EXCEPT !.wrapped = TRUE] /\ s[y] \in SessionType
      BY <3>1, <3>2 DEF WrapNode, TellInv, RunInv, WorldOK, SessionOK
    <3>4. Where(y) = "idle"
      BY <3>1 DEF WrapNode, Where
    <3>5. PICK m : m = s'[y]
      OBVIOUS
    <3>6. /\ m.events = s[y].events /\ m.bundle = s[y].bundle /\ m.entered = s[y].entered
          /\ m.honor = s[y].honor /\ m.held = s[y].held /\ m.ran = s[y].ran
          /\ m.observed = s[y].observed
      BY <3>3, <3>5 DEF SessionType
    <3>7. TellOK(m, "idle", now)
      <4>1. TaleOK(s[y]) => TaleOK(m)
        BY <3>6, TaleStays
      <4> QED BY <2>1, <3>4, <3>6, <4>1 DEF TellOK, Told, Mark
    <3> QED BY <3>4, <3>5, <3>7
  <2> QED BY <2>2, <2>3
<1>4. call.at = "native" => Me' = Me
  BY <1>1 DEF Me
<1>5. \A y \in Sessions : TellOK(s[y], Where(y), now)'
  BY <1>1, <1>2, <1>3
<1> QED BY <1>1, <1>4, <1>5 DEF TellInv

\* A session that is invoked has told nothing.
LEMMA InvokeTells ==
  ASSUME TellInv, RunInv', NEW x \in Sessions, NEW t \in Threads, NEW h \in BOOLEAN,
         NEW o \in BOOLEAN, Invoke(x, t, h, o)
  PROVE  TellInv'
<1>1. call'.at = "lookup" /\ call'.by = x /\ call.at = "idle" /\ now' = now
  BY DEF Invoke
<1>2. \A y \in Sessions \ {x} : s'[y] = s[y]
  BY DEF Invoke, TellInv, RunInv, WorldOK
<1>3. Where(x)' = "lookup" /\ \A y \in Sessions \ {x} : Where(y)' = "idle" /\ Where(y) = "idle"
  BY <1>1 DEF Where
<1>4. TellOK(s[x], Where(x), now)'
  BY <1>3 DEF TellOK, Told
<1>5. \A y \in Sessions \ {x} : TellOK(s[y], Where(y), now)'
  BY <1>1, <1>2, <1>3 DEF TellInv
<1> QED BY <1>1, <1>4, <1>5 DEF TellInv

\* An exception returns no bundle, and neither does a refusal.
LEMMA GoneTells ==
  ASSUME TellInv, RunInv', NEW from, NEW m, Step(from, "idle", m), from # "idle", m.bundle = <<>>
  PROVE  TellInv'
<1>1. TellOK(m, "idle", now')
  BY DEF TellOK, Told
<1> QED BY <1>1, TellSteps DEF Stage

\* Nothing is told before the command is issued.
LEMMA EarlyTells ==
  ASSUME TellInv, RunInv', Raise \/ Lookup \/ Enter \/ Refuse
  PROVE  TellInv'
<1>1. Me \in SessionType /\ Me.bundle = <<>> /\ call.at # "idle"
  BY TellActing DEF Raise, Lookup, Enter, Refuse, Step
<1>2. CASE Raise
  <2>1. PICK m : m = Left(Me)
    OBVIOUS
  <2>2. Step(call.at, "idle", m) /\ m.bundle = <<>>
    BY <1>1, <1>2, <2>1 DEF Raise, Step, At, Me, TellInv, RunInv, WorldOK, Left, SessionType
  <2> QED BY <1>1, <2>2, GoneTells
<1>3. CASE Refuse
  <2>1. PICK m : m = Left(Me)
    OBVIOUS
  <2>2. Step("run", "idle", m) /\ m.bundle = <<>>
    BY <1>1, <1>3, <2>1 DEF Refuse, Left, SessionType
  <2> QED BY <2>2, GoneTells
<1>4. CASE Lookup \/ Enter
  <2>0. PICK m : m = Me
    OBVIOUS
  <2>1. PICK from \in {"lookup", "entry"}, to \in {"entry", "issue", "idle"} : Step(from, to, m)
    BY <1>4, <2>0 DEF Lookup, Enter
  <2>2. TellOK(m, to, now')
    BY <1>1, <2>0 DEF TellOK, Told
  <2> QED BY <2>1, <2>2, TellSteps DEF Stage
<1> QED BY <1>2, <1>3, <1>4

\* The decision and the dispatch begin the tale.
LEMMA IssueTells == ASSUME TellInv, RunInv', Issue PROVE TellInv'
<1>1. /\ call.at = "issue" /\ Me \in SessionType /\ now \in Nat /\ Fresh(Me)
      /\ Me.entered \in BOOLEAN
  BY TellActing DEF Issue, Step, PlaceOK
<1>2. PICK run : run = <<call.by, Me.run[2] + 1>>
  OBVIOUS
<1>3. PICK es : es = <<Event("decision", run, now + 1, <<>>), Event("dispatched", run, now + 2, <<>>)>>
  OBVIOUS
<1>4. /\ DOMAIN es = {1, 2} /\ Len(es) = 2 /\ es[1].kind = "decision" /\ es[2].kind = "dispatched"
      /\ es[1].tick = now + 1 /\ es[2].tick = now + 2
  BY <1>3 DEF Event
<1>5. Me.events \o es = es
  BY <1>1, <1>3 DEF Fresh
<1>6. PICK m : m = [Me EXCEPT !.run = run, !.events = es]
  OBVIOUS
<1>7. Step("issue", "sample", m) /\ now' = now + 2
  BY <1>2, <1>3, <1>5, <1>6 DEF Issue, Ticks
<1>8. /\ m.events = es /\ m.bundle = Me.bundle /\ m.ran = Me.ran /\ m.entered = Me.entered
      /\ m.held = Me.held
  BY <1>1, <1>6 DEF SessionType
<1>9. ~m.entered /\ m.ran = 0 /\ ~m.held /\ Mark(m) = 2 /\ m.bundle = <<>>
  BY <1>1, <1>8 DEF Fresh, Mark
<1>10. TaleOK(m)
  <2>1. \A i \in DOMAIN es : es[i].kind = Tale(m)[i]
    BY <1>4, <1>9 DEF Tale
  <2>2. \A i, j \in DOMAIN es : i <= j => es[i].tick <= es[j].tick
    BY <1>1, <1>4
  <2>3. /\ Len(es) <= 2 + 2 /\ 2 + 1 \notin DOMAIN es /\ 2 + 2 \notin DOMAIN es
    BY <1>4
  <2> QED BY <1>8, <1>9, <2>1, <2>2, <2>3, Zenon DEF TaleOK
<1>11. \A i \in DOMAIN es : es[i].tick <= now'
  BY <1>1, <1>4, <1>7
<1>12. TellOK(m, "sample", now')
  <2>1. Len(m.events) = 2 /\ \A i \in DOMAIN m.events : m.events[i].tick <= now'
    BY <1>4, <1>8, <1>11
  <2>2. Len(m.events) >= 2
    BY <2>1
  <2> QED BY <1>9, <1>10, <2>1, <2>2, Zenon DEF TellOK, Told
<1> QED BY <1>7, <1>12, TellSteps DEF Stage

\* The first sample is taken after the dispatch.
LEMMA SampleTells == ASSUME TellInv, RunInv', SampleBefore PROVE TellInv'
<1>1. /\ call.at = "sample" /\ Me \in SessionType /\ now \in Nat /\ TellOK(Me, "sample", now)
      /\ Me.events \in Seq(EventType) /\ Me.entered \in BOOLEAN /\ Me.observed \in BOOLEAN
      /\ Me.bundle = <<>>
  BY TellActing DEF SampleBefore, Step
<1>2. /\ TaleOK(Me) /\ Len(Me.events) = 2 /\ ~Me.entered /\ Me.ran = 0 /\ ~Me.held
      /\ \A i \in DOMAIN Me.events : Me.events[i].tick <= now
  BY <1>1 DEF TellOK
<1>3. file \in Nat
  BY DEF TellInv, RunInv, WorldOK
<1>4. PICK i : i = IF Me.observed THEN Sampled ELSE NoSample
  OBVIOUS
<1>5. /\ Me.observed => /\ i \in Seq(Nat) /\ Len(i) = 3 /\ i[1] = now + 1 /\ i[3] = now + 2
  BY <1>1, <1>3, <1>4 DEF Sampled
<1>6. PICK m : m = [Me EXCEPT !.active = TRUE, !.initial = i]
  OBVIOUS
<1>7. Step("sample", "run", m) /\ now' = now + 2
  BY <1>4, <1>6 DEF SampleBefore, Ticks
<1>8. /\ m.events = Me.events /\ m.bundle = <<>> /\ m.ran = Me.ran /\ m.entered = Me.entered
      /\ m.held = Me.held /\ m.honor = Me.honor /\ m.observed = Me.observed /\ m.initial = i
  BY <1>1, <1>6 DEF SessionType
<1>9. TaleOK(m)
  BY <1>2, <1>8, TaleStays
<1>10. /\ DOMAIN Me.events = {1, 2} /\ Me.events[1].tick \in Nat /\ Me.events[2].tick \in Nat
  <2>1. DOMAIN Me.events = {1, 2}
    BY <1>1, <1>2
  <2>2. Me.events[1] \in EventType /\ Me.events[2] \in EventType
    BY <1>1, <2>1
  <2> QED BY <2>1, <2>2 DEF EventType
<1>11. \A j \in DOMAIN m.events : m.events[j].tick <= now'
  BY <1>1, <1>2, <1>7, <1>8, <1>10
<1>12. m.observed => FirstOK(m, now')
  BY <1>1, <1>2, <1>5, <1>7, <1>8, <1>10 DEF FirstOK
<1>13. TellOK(m, "run", now')
  <2>1. Mark(m) = 2 /\ Len(m.events) = 2 /\ ~m.entered /\ m.ran # 1 /\ ~m.held
    BY <1>2, <1>8 DEF Mark
  <2>2. Len(m.events) >= 2
    BY <2>1
  <2> QED BY <1>9, <1>11, <1>12, <2>1, <2>2, Zenon DEF TellOK, Told
<1> QED BY <1>7, <1>13, TellSteps DEF Stage

\* One event more, stamped no later than now.
LEMMA StampedLast ==
  ASSUME NEW E \in Seq(EventType), NEW e \in EventType, NEW t \in Nat, NEW u \in Nat,
         \A i \in DOMAIN E : E[i].tick <= t, t <= e.tick, e.tick <= u
  PROVE  /\ Append(E, e) \in Seq(EventType) /\ Len(Append(E, e)) = Len(E) + 1 /\ Len(E) \in Nat
         /\ \A i \in DOMAIN E : Append(E, e)[i] = E[i] /\ E[i].tick <= e.tick
         /\ \A i \in DOMAIN Append(E, e) : Append(E, e)[i].tick <= u
<1>1. PICK F : F = Append(E, e)
  OBVIOUS
<1>2. /\ F \in Seq(EventType) /\ DOMAIN F = DOMAIN E \cup {Len(E) + 1} /\ F[Len(E) + 1] = e
      /\ \A i \in DOMAIN E : F[i] = E[i]
  BY <1>1, OneMore
<1>3. \A i \in DOMAIN E : E[i] \in EventType
  OBVIOUS
<1>4. \A i \in DOMAIN E : E[i].tick \in Nat
  BY <1>3 DEF EventType
<1>5. e.tick \in Nat
  BY DEF EventType
<1>6. \A i \in DOMAIN E : E[i].tick <= e.tick
  BY <1>4, <1>5
<1>7. \A i \in DOMAIN F : F[i].tick <= u
  BY <1>2, <1>4, <1>5, <1>6
<1>8. Len(F) = Len(E) + 1 /\ Len(E) \in Nat
  BY <1>1
<1> QED BY <1>1, <1>2, <1>6, <1>7, <1>8

\* The first sample stays where it was taken.
LEMMA FirstStays ==
  ASSUME NEW me, NEW t \in Nat, FirstOK(me, t), NEW m, NEW u \in Nat, t <= u,
         m.initial = me.initial, m.entered = me.entered, m.events[2] = me.events[2],
         me.entered => m.events[3] = me.events[3]
  PROVE  FirstOK(m, u)
<1>1. PICK a : a = me.initial
  OBVIOUS
<1>2. a \in Seq(Nat) /\ Len(a) = 3
  BY <1>1 DEF FirstOK
<1>3. a[3] \in Nat
  <2>1. \A i \in DOMAIN a : a[i] \in Nat
    BY <1>2, Members
  <2>2. 3 \in DOMAIN a
    BY <1>2
  <2> QED BY <2>1, <2>2
<1>4. a[3] <= u
  BY <1>1, <1>3 DEF FirstOK
<1> QED BY <1>1, <1>2, <1>4 DEF FirstOK

\* The tale and the first sample after one event more.
LEMMA LoudTale ==
  ASSUME NEW me, NEW at, NEW t \in Nat, TellOK(me, at, t), me.events \in Seq(EventType),
         at \in {"run", "handle", "interrupt", "function", "native", "observe"},
         NEW e \in EventType, NEW u \in Nat, t <= e.tick, e.tick <= u, GoesOn(me, e),
         me.entered => Len(me.events) >= 3,
         NEW m, m.events = Append(me.events, e), m.entered = me.entered, m.honor = me.honor,
         m.held = me.held, m.initial = me.initial, m.observed = me.observed
  PROVE  /\ TaleOK(m) /\ Len(m.events) = Len(me.events) + 1 /\ Len(m.events) >= 2
         /\ \A i \in DOMAIN m.events : m.events[i].tick <= u
         /\ m.observed => FirstOK(m, u)
<1>1. /\ TaleOK(me) /\ Len(me.events) >= 2 /\ (me.observed => FirstOK(me, t))
      /\ \A i \in DOMAIN me.events : me.events[i].tick <= t
  BY DEF TellOK
<1>2. /\ Len(m.events) = Len(me.events) + 1 /\ Len(me.events) \in Nat
      /\ \A i \in DOMAIN me.events : m.events[i] = me.events[i] /\ me.events[i].tick <= e.tick
      /\ \A i \in DOMAIN m.events : m.events[i].tick <= u
  BY <1>1, StampedLast, SMTT(30)
<1>3. TaleOK(m)
  BY <1>1, <1>2, TaleGrows
<1>4. DOMAIN me.events = 1 .. Len(me.events)
  OBVIOUS
<1>5. m.events[2] = me.events[2] /\ (me.entered => m.events[3] = me.events[3])
  <2>1. 2 \in DOMAIN me.events /\ (me.entered => 3 \in DOMAIN me.events)
    BY <1>1, <1>2, <1>4
  <2> QED BY <1>2, <2>1
<1>6. t <= u
  BY DEF EventType
<1>7. m.observed => FirstOK(m, u)
  BY <1>1, <1>5, <1>6, FirstStays
<1>8. Len(m.events) >= 2
  BY <1>1, <1>2
<1> QED BY <1>2, <1>3, <1>7, <1>8

\* What stays of the tale and the first sample in a step that reports nothing.
LEMMA QuietTale ==
  ASSUME NEW me, NEW at, NEW t \in Nat, TellOK(me, at, t),
         at \in {"run", "handle", "interrupt", "function", "native", "observe", "project"},
         NEW m, m.events = me.events, m.entered = me.entered, m.honor = me.honor,
         m.initial = me.initial, m.observed = me.observed,
         m.held = me.held \/ Len(me.events) <= Mark(me), NEW u \in Nat, t <= u,
         me.events \in Seq(EventType)
  PROVE  /\ TaleOK(m) /\ Len(m.events) = Len(me.events) /\ Len(m.events) >= 2 /\ Mark(m) = Mark(me)
         /\ \A i \in DOMAIN m.events : m.events[i].tick <= u
         /\ at # "project" /\ m.observed => FirstOK(m, u)
<1>1. /\ TaleOK(me) /\ Len(me.events) >= 2 /\ (at # "project" /\ me.observed => FirstOK(me, t))
      /\ \A i \in DOMAIN me.events : me.events[i].tick <= t
  BY DEF TellOK, Told
<1>2. \A i \in DOMAIN m.events : m.events[i].tick <= u
  <2>1. \A i \in DOMAIN me.events : me.events[i] \in EventType
    OBVIOUS
  <2>2. \A i \in DOMAIN me.events : me.events[i].tick \in Nat
    BY <2>1 DEF EventType
  <2> QED BY <1>1, <2>2
<1>3. at # "project" /\ m.observed => FirstOK(m, u)
  BY <1>1, FirstStays
<1>4. TaleOK(m)
  <2>1. CASE m.held = me.held
    BY <1>1, <2>1, TaleStays
  <2>2. CASE Len(me.events) <= Mark(me)
    <3>1. Mark(me) \in {2, 4} /\ Mark(m) = Mark(me) /\ Tale(m) = Tale(me)
      BY DEF Mark, Tale
    <3>2. Mark(me) + 1 \notin DOMAIN me.events /\ Mark(me) + 2 \notin DOMAIN me.events
      BY <2>2, <3>1
    <3> QED BY <1>1, <3>1, <3>2, Zenon DEF TaleOK
  <2> QED BY <2>1, <2>2
<1> QED BY <1>1, <1>2, <1>3, <1>4 DEF Mark

\* The node is entered: the tale goes on with a receipt.
LEMMA ReceiveTells == ASSUME TellInv, RunInv', Receive PROVE TellInv'
<1>1. /\ call.at = "run" /\ Me \in SessionType /\ now \in Nat /\ TellOK(Me, "run", now)
      /\ Me.events \in Seq(EventType) /\ Me.observed \in BOOLEAN /\ Me.bundle = <<>>
      /\ Me.run \in Sessions \X Nat /\ ~Me.entered /\ Me.honor \in BOOLEAN
  BY TellActing DEF Receive, Step, NodeAllowed, SessionType
<1>2. /\ TaleOK(Me) /\ Len(Me.events) = 2 /\ Me.ran # 1 /\ ~Me.held
      /\ (Me.observed => FirstOK(Me, now))
      /\ \A i \in DOMAIN Me.events : Me.events[i].tick <= now
  BY <1>1 DEF TellOK, Mark
<1>3. PICK e : e = Event("received", Me.run, now + 1, <<>>)
  OBVIOUS
<1>4. e \in EventType /\ e.kind = "received" /\ e.tick = now + 1
  BY <1>1, <1>3 DEF Event, EventType, KindSet, Data, SessionType, RunInv, WorldOK
<1>5. PICK m : m = [[Me EXCEPT !.events = Append(@, e)] EXCEPT !.entered = TRUE]
  OBVIOUS
<1>6. Step("run", "handle", m) /\ now' = now + 1
  BY <1>3, <1>5 DEF Receive, Emits, Ticks
<1>7. PICK F : F = Append(Me.events, e)
  OBVIOUS
<1>8. /\ m.events = F /\ m.bundle = <<>> /\ m.ran = Me.ran /\ m.entered /\ m.entered = TRUE
      /\ m.held = Me.held /\ m.honor = Me.honor /\ m.observed = Me.observed
      /\ m.initial = Me.initial
  BY <1>1, <1>5, <1>7 DEF SessionType
<1>9. /\ Len(F) = 3 /\ DOMAIN F = {1, 2, 3} /\ DOMAIN Me.events = {1, 2} /\ F \in Seq(EventType)
      /\ F[1] = Me.events[1] /\ F[2] = Me.events[2] /\ F[3] = e
  <2>a. F \in Seq(EventType) /\ Len(F) = Len(Me.events) + 1
    BY <1>1, <1>4, <1>7, Lengthened
  <2>1. F \in Seq(EventType) /\ Len(F) = 3
    BY <1>2, <2>a
  <2>2. DOMAIN F = {1, 2, 3} /\ DOMAIN Me.events = {1, 2}
    BY <1>1, <1>2, <2>1
  <2>3. F[1] = Me.events[1] /\ F[2] = Me.events[2] /\ F[3] = e
    BY <1>1, <1>2, <1>4, <1>7, <2>2, OneMore
  <2> QED BY <2>1, <2>2, <2>3
<1>10. /\ Me.events[1].kind = "decision" /\ Me.events[2].kind = "dispatched"
       /\ Me.events[1].tick <= Me.events[2].tick
  BY <1>1, <1>2, <1>9 DEF TaleOK, Tale
<1>11. F[1].tick \in Nat /\ F[2].tick \in Nat /\ F[1].tick <= now /\ F[2].tick <= now
  <2>1. F[1] \in EventType /\ F[2] \in EventType
    BY <1>9, Members
  <2> QED BY <1>2, <1>9, <2>1 DEF EventType
<1>12. \A i, j \in DOMAIN F : i <= j => F[i].tick <= F[j].tick
  <2>1. F[1].tick <= F[2].tick /\ F[3].tick = now + 1
    BY <1>4, <1>9, <1>10
  <2>2. F[1].tick <= F[3].tick /\ F[2].tick <= F[3].tick /\ F[3].tick \in Nat
    BY <1>1, <1>11, <2>1
  <2>3. \A i, j \in {1, 2, 3} : i <= j => i = j \/ (i = 1 /\ j = 2) \/ (i = 1 /\ j = 3) \/ (i = 2 /\ j = 3)
    OBVIOUS
  <2> QED BY <1>9, <1>11, <2>1, <2>2, <2>3
<1>13. \A i \in DOMAIN F : F[i].tick <= now + 1
  BY <1>1, <1>4, <1>9, <1>11
<1>14. TaleOK(m)
  <2>1. Mark(m) = 4 /\ Len(F) <= 4 + 2 /\ 4 + 1 \notin DOMAIN F /\ 4 + 2 \notin DOMAIN F
    BY <1>8, <1>9 DEF Mark
  <2>2. \A i \in DOMAIN F : F[i].kind = Tale(m)[i]
    BY <1>4, <1>8, <1>9, <1>10 DEF Tale
  <2> QED BY <1>8, <1>12, <2>1, <2>2, Zenon DEF TaleOK
<1>15. m.observed => FirstOK(m, now + 1)
  <2> SUFFICES ASSUME m.observed PROVE FirstOK(m, now + 1)
    OBVIOUS
  <2>1. PICK a : a = Me.initial
    OBVIOUS
  <2>2. /\ a \in Seq(Nat) /\ Len(a) = 3 /\ F[2].tick <= a[1] /\ a[1] <= a[3] /\ a[3] <= now
    BY <1>2, <1>8, <1>9, <2>1 DEF FirstOK
  <2>3. \A i \in DOMAIN a : a[i] \in Nat
    BY <2>2, Members
  <2>4. a[3] \in Nat
    BY <2>2, <2>3
  <2>5. a[3] <= now + 1 /\ a[3] <= F[3].tick
    BY <1>1, <1>4, <1>9, <2>2, <2>4
  <2> QED BY <1>8, <2>1, <2>2, <2>5 DEF FirstOK
<1>16. TellOK(m, "handle", now')
  <2>1. /\ Len(m.events) = 3 /\ Len(m.events) >= 2 /\ ~m.held
        /\ \A i \in DOMAIN m.events : m.events[i].tick <= now'
        /\ m.observed => FirstOK(m, now')
    BY <1>2, <1>6, <1>8, <1>9, <1>13, <1>15
  <2> QED BY <1>14, <2>1, Zenon DEF TellOK, Told
<1> QED BY <1>6, <1>16, TellSteps DEF Stage

\* The answer to the command is told after the receipt.
LEMMA AnswerTells == ASSUME TellInv, RunInv', RequestPause \/ Ignore PROVE TellInv'
<1>1. /\ call.at = "handle" /\ Me \in SessionType /\ now \in Nat /\ TellOK(Me, "handle", now)
      /\ Me.events \in Seq(EventType) /\ Me.bundle = <<>> /\ Me.entered /\ Me.honor \in BOOLEAN
      /\ Me.run \in Sessions \X Nat /\ Me.entered \in BOOLEAN /\ Me.observed \in BOOLEAN
  BY TellActing DEF RequestPause, Ignore, Step, PlaceOK, SessionType
<1>2. Len(Me.events) = 3 /\ ~Me.held /\ Mark(Me) = 4
  BY <1>1 DEF TellOK, Mark
<1>3. PICK kind \in {"pause_requested", "ignored"}, to \in {"interrupt", "function"} :
        /\ Step("handle", to, Emits(Me, kind, <<>>)) /\ Ticks(1)
        /\ kind = IF Me.honor THEN "pause_requested" ELSE "ignored"
  BY DEF RequestPause, Ignore
<1>4. PICK e : e = Event(kind, Me.run, now + 1, <<>>)
  OBVIOUS
<1>5. e \in EventType /\ e.kind = kind /\ e.tick = now + 1
  BY <1>1, <1>4 DEF Event, EventType, KindSet, Data
<1>6. PICK m : m = [Me EXCEPT !.events = Append(@, e)]
  OBVIOUS
<1>7. Step("handle", to, m) /\ now' = now + 1
  BY <1>3, <1>4, <1>6 DEF Emits, Ticks
<1>8. /\ m.events = Append(Me.events, e) /\ m.bundle = <<>> /\ m.ran = Me.ran
      /\ m.entered = Me.entered /\ m.held = Me.held /\ m.honor = Me.honor
      /\ m.observed = Me.observed /\ m.initial = Me.initial
  BY <1>1, <1>6 DEF SessionType
<1>9. e.kind = Tale(Me)[Len(Me.events) + 1]
  BY <1>1, <1>2, <1>3, <1>5 DEF Tale
<1>10. /\ TaleOK(m) /\ Len(m.events) = Len(Me.events) + 1 /\ Len(m.events) >= 2
       /\ \A i \in DOMAIN m.events : m.events[i].tick <= now + 1
       /\ m.observed => FirstOK(m, now + 1)
  <2>1. GoesOn(Me, e)
    BY <1>2, <1>9 DEF GoesOn
  <2>2. Len(Me.events) >= 3 /\ now <= e.tick /\ e.tick <= now + 1 /\ now + 1 \in Nat
    BY <1>1, <1>2, <1>5
  <2>3. "handle" \in {"run", "handle", "interrupt", "function", "native", "observe"}
    OBVIOUS
  <2> QED BY <1>1, <1>5, <1>8, <2>1, <2>2, <2>3, LoudTale
<1>11. TellOK(m, to, now')
  <2>1. Len(m.events) = 4 /\ ~m.held
    BY <1>2, <1>8, <1>10
  <2> QED BY <1>3, <1>7, <1>10, <2>1 DEF TellOK, Told
<1> QED BY <1>3, <1>7, <1>11, TellSteps DEF Stage

\* LangGraph stores the interrupt and the pause is held, or it is swallowed.
LEMMA InterruptTells == ASSUME TellInv, RunInv', Interrupt PROVE TellInv'
<1>1. /\ call.at = "interrupt" /\ Me \in SessionType /\ now \in Nat /\ TellOK(Me, "interrupt", now)
      /\ Me.events \in Seq(EventType) /\ Me.bundle = <<>> /\ Me.entered /\ Me.honor
      /\ Me.ran = 0 /\ Me.entered \in BOOLEAN /\ Me.thread \in Threads
  BY TellActing DEF Interrupt, Step, PlaceOK
<1>2. Len(Me.events) = 4 /\ ~Me.held /\ Mark(Me) = 4
  BY <1>1 DEF TellOK, Mark
<1>3. PICK m : /\ m = [Left(Me) EXCEPT !.held = TRUE] \/ m = Left(Me)
               /\ Step("interrupt", "native", m)
               /\ Stores("paused") \/ Stores("done")
               /\ Stores("paused") <=> m = [Left(Me) EXCEPT !.held = TRUE]
  <2>1. stored[Me.thread] \in Outcome /\ ~(Stores("paused") /\ Stores("done"))
    <3>1. stored \in [Threads -> Outcome]
      BY DEF TellInv, RunInv, WorldOK
    <3> QED BY <1>1, <3>1 DEF Stores
  <2>2. Left(Me) # [Left(Me) EXCEPT !.held = TRUE]
    BY <1>1, <1>2 DEF Left, SessionType
  <2> QED BY <2>1, <2>2 DEF Interrupt
<1>4. /\ m.events = Me.events /\ m.bundle = <<>> /\ m.ran = Me.ran /\ m.entered = Me.entered
      /\ m.honor = Me.honor /\ m.observed = Me.observed /\ m.initial = Me.initial
      /\ m.thread = Me.thread
  BY <1>1, <1>3 DEF SessionType, Left
<1>5. m.held <=> Stores("paused")
  <2>1. Left(Me).held = Me.held /\ [Left(Me) EXCEPT !.held = TRUE].held
    BY <1>1 DEF Left, SessionType
  <2> QED BY <1>2, <1>3, <2>1
<1>6. stored'[m.thread] = "paused" <=> m.held
  BY <1>1, <1>3, <1>4, <1>5, StoresIs DEF Outcome, TellInv
<1>7. /\ TaleOK(m) /\ Len(m.events) = Len(Me.events) /\ Len(m.events) >= 2 /\ Mark(m) = Mark(Me)
      /\ \A i \in DOMAIN m.events : m.events[i].tick <= now
      /\ m.observed => FirstOK(m, now)
  <2>1. Len(Me.events) <= Mark(Me) /\ now <= now
    BY <1>1, <1>2
  <2>2. /\ "interrupt" # "project"
        /\ "interrupt" \in {"run", "handle", "interrupt", "function", "native", "observe", "project"}
    OBVIOUS
  <2> QED BY <1>1, <1>4, <2>1, <2>2, QuietTale
<1>8. TellOK(m, "native", now')
  <2>1. now' = now /\ Len(m.events) = Mark(m) /\ m.ran # 1 /\ m.entered /\ m.honor
    BY <1>1, <1>2, <1>4, <1>7 DEF Interrupt
  <2> QED BY <1>7, <2>1, Zenon DEF TellOK, Told
<1> QED BY <1>3, <1>6, <1>8, TellSteps DEF Stage

\* The function ran because the pause was ignored; a retry is refused.
LEMMA FunctionTells == ASSUME TellInv, RunInv', Function \/ Retry PROVE TellInv'
<1>1. /\ call.at = "function" /\ Me \in SessionType /\ now \in Nat /\ TellOK(Me, "function", now)
      /\ Me.events \in Seq(EventType) /\ Me.bundle = <<>> /\ Me.entered /\ ~Me.honor
      /\ Me.ran = 0 /\ Me.entered \in BOOLEAN /\ Me.thread \in Threads
  BY TellActing DEF Function, Retry, Step, PlaceOK
<1>2. Len(Me.events) = 4 /\ ~Me.held /\ Mark(Me) = 4
  BY <1>1 DEF TellOK, Mark
<1>3a. PICK to \in {"native", "run"} : \E m :
         /\ m = Left([Me EXCEPT !.ran = @ + 1]) \/ m = [Me EXCEPT !.ran = @ + 1]
         /\ Step("function", to, m)
         /\ to = "native" => Stores("done") \/ Stores("foreign")
  BY DEF Function, Retry
<1>3. PICK m : /\ m = Left([Me EXCEPT !.ran = @ + 1]) \/ m = [Me EXCEPT !.ran = @ + 1]
               /\ Step("function", to, m)
               /\ to = "native" => Stores("done") \/ Stores("foreign")
  BY <1>3a
<1>4. /\ m.events = Me.events /\ m.bundle = <<>> /\ m.ran = 1 /\ m.entered = Me.entered
      /\ m.held = Me.held /\ m.honor = Me.honor /\ m.observed = Me.observed
      /\ m.initial = Me.initial /\ m.thread = Me.thread
  <2>1. PICK k : k = [Me EXCEPT !.ran = 1]
    OBVIOUS
  <2>2. /\ k \in SessionType /\ k.events = Me.events /\ k.bundle = <<>> /\ k.ran = 1
        /\ k.entered = Me.entered /\ k.held = Me.held /\ k.honor = Me.honor
        /\ k.observed = Me.observed /\ k.initial = Me.initial /\ k.thread = Me.thread
    BY <1>1, <2>1 DEF SessionType
  <2>3. m = k \/ m = [k EXCEPT !.active = FALSE]
    <3>1. [Me EXCEPT !.ran = @ + 1] = k
      BY <1>1, <2>1
    <3> QED BY <1>3, <3>1 DEF Left
  <2> QED BY <2>2, <2>3 DEF SessionType
<1>5. to = "native" => (stored'[m.thread] = "paused" <=> m.held)
  BY <1>1, <1>2, <1>3, <1>4, StoresIs DEF Outcome, TellInv
<1>6. /\ TaleOK(m) /\ Len(m.events) = Len(Me.events) /\ Len(m.events) >= 2 /\ Mark(m) = Mark(Me)
      /\ \A i \in DOMAIN m.events : m.events[i].tick <= now
      /\ m.observed => FirstOK(m, now)
  <2>1. Len(Me.events) <= Mark(Me) /\ now <= now
    BY <1>1, <1>2
  <2>2. /\ "function" # "project"
        /\ "function" \in {"run", "handle", "interrupt", "function", "native", "observe", "project"}
    OBVIOUS
  <2> QED BY <1>1, <1>4, <2>1, <2>2, QuietTale
<1>7. TellOK(m, to, now')
  <2>1. now' = now /\ Len(m.events) = Mark(m) /\ m.ran = 1 /\ m.entered /\ ~m.honor /\ ~m.held
    BY <1>1, <1>2, <1>4, <1>6 DEF Function, Retry
  <2> QED BY <1>3, <1>6, <2>1, Zenon DEF TellOK, Told
<1>8. to \in Stage
  BY DEF Stage
<1> QED BY <1>3, <1>5, <1>7, <1>8, TellSteps

\* Another node ran in the place of the wrapped one: nothing is held.
LEMMA BypassTells == ASSUME TellInv, RunInv', Bypass PROVE TellInv'
<1>1. /\ call.at = "run" /\ Me \in SessionType /\ now \in Nat /\ TellOK(Me, "run", now)
      /\ Me.events \in Seq(EventType) /\ Me.bundle = <<>> /\ Me.entered \in BOOLEAN
      /\ RanOK(Me) /\ Me.thread \in Threads
  BY TellActing DEF Bypass, Step
<1>2. /\ Len(Me.events) = Mark(Me) /\ Mark(Me) \in {2, 4} /\ ~Me.held
      /\ (Me.entered <=> Me.ran = 1) /\ (Me.ran = 1 => ~Me.honor)
  BY <1>1 DEF TellOK, Mark, RanOK
<1>3. PICK m : m = Left(Me)
  OBVIOUS
<1>4. /\ m.events = Me.events /\ m.bundle = <<>> /\ m.ran = Me.ran /\ m.entered = Me.entered
      /\ m.held = Me.held /\ m.honor = Me.honor /\ m.observed = Me.observed
      /\ m.initial = Me.initial /\ m.thread = Me.thread
  BY <1>1, <1>3 DEF SessionType, Left
<1>5. Step("run", "native", m) /\ Stores("done") /\ now' = now
  BY <1>3 DEF Bypass
<1>6. stored'[m.thread] = "paused" <=> m.held
  BY <1>1, <1>2, <1>4, <1>5, StoresIs DEF Outcome, TellInv
<1>7. /\ TaleOK(m) /\ Len(m.events) = Len(Me.events) /\ Len(m.events) >= 2 /\ Mark(m) = Mark(Me)
      /\ \A i \in DOMAIN m.events : m.events[i].tick <= now
      /\ m.observed => FirstOK(m, now)
  <2>1. Len(Me.events) <= Mark(Me) /\ now <= now
    BY <1>1, <1>2
  <2>2. /\ "run" # "project"
        /\ "run" \in {"run", "handle", "interrupt", "function", "native", "observe", "project"}
    OBVIOUS
  <2> QED BY <1>1, <1>4, <2>1, <2>2, QuietTale
<1>8. TellOK(m, "native", now')
  <2>1. Len(m.events) = Mark(m) /\ (m.ran = 1 <=> m.entered /\ ~m.honor) /\ ~m.held
    BY <1>2, <1>4, <1>7
  <2> QED BY <1>5, <1>7, <2>1, Zenon DEF TellOK, Told
<1> QED BY <1>5, <1>6, <1>8, TellSteps DEF Stage

\* The result is what LangGraph stored; an interrupt of the application is not told.
LEMMA NativeTells == ASSUME TellInv, RunInv', Native PROVE TellInv'
<1>1. /\ call.at = "native" /\ Me \in SessionType /\ now \in Nat /\ TellOK(Me, "native", now)
      /\ Me.events \in Seq(EventType) /\ Me.bundle = <<>> /\ Me.entered \in BOOLEAN
      /\ Me.observed \in BOOLEAN /\ Me.thread \in Threads /\ Me.run \in Sessions \X Nat
  BY TellActing DEF Native, SessionType
<1>2. /\ Len(Me.events) = Mark(Me) /\ Mark(Me) \in {2, 4} /\ (Me.entered => Mark(Me) = 4)
      /\ (Me.ran = 1 <=> Me.entered /\ ~Me.honor) /\ (Me.held => Me.entered)
  BY <1>1 DEF TellOK, Mark
<1>3. PICK o \in Outcome : o = stored[Me.thread] /\ (o = "paused" <=> Me.held)
  BY <1>1 DEF TellInv, RunInv, WorldOK
<1>4. CASE o = "foreign"
  <2>1. PICK m : m = Me
    OBVIOUS
  <2>2. Step("native", "idle", m)
    BY <1>3, <1>4, <2>1 DEF Native
  <2> QED BY <1>1, <2>1, <2>2, GoneTells
<1>5. CASE o # "foreign"
  <2>1. PICK e : e = Event("native_result", Me.run, now + 1, <<o>>)
    OBVIOUS
  <2>2. e \in EventType /\ e.kind = "native_result" /\ e.data = <<o>> /\ e.tick = now + 1
    BY <1>1, <2>1 DEF Event, EventType, KindSet, Data
  <2>3. PICK m : m = [Me EXCEPT !.events = Append(@, e)]
    OBVIOUS
  <2>4. PICK to \in {"observe", "project"} :
          /\ Step("native", to, m) /\ now' = now + 1 /\ (to = "observe" <=> Me.observed)
    BY <1>3, <1>5, <2>1, <2>3 DEF Native, Emits, Ticks
  <2>5. /\ m.events = Append(Me.events, e) /\ m.bundle = <<>> /\ m.ran = Me.ran
        /\ m.entered = Me.entered /\ m.held = Me.held /\ m.honor = Me.honor
        /\ m.observed = Me.observed /\ m.initial = Me.initial
    BY <1>1, <2>3 DEF SessionType
  <2>6. e.kind = Tale(Me)[Len(Me.events) + 1]
    <3>1. CASE Me.entered
      <4>1. Len(Me.events) + 1 = 5
        BY <1>2, <3>1 DEF Mark
      <4> QED BY <2>2, <3>1, <4>1 DEF Tale
    <3>2. CASE ~Me.entered
      <4>1. Len(Me.events) + 1 = 3
        BY <1>2, <3>2 DEF Mark
      <4> QED BY <2>2, <3>2, <4>1 DEF Tale
    <3> QED BY <3>1, <3>2
  <2>7. /\ TaleOK(m) /\ Len(m.events) = Len(Me.events) + 1 /\ Len(m.events) >= 2
        /\ \A i \in DOMAIN m.events : m.events[i].tick <= now + 1
        /\ m.observed => FirstOK(m, now + 1)
    <3>1. (Me.entered => Len(Me.events) >= 3) /\ now <= e.tick /\ e.tick <= now + 1 /\ now + 1 \in Nat
      BY <1>1, <1>2, <2>2
    <3>2. e.data = <<"paused">> <=> Me.held
      BY <1>3, <2>2
    <3>3. GoesOn(Me, e)
      <4>1. Len(Me.events) < Mark(Me) + 2 /\ Len(Me.events) # Mark(Me) + 1
        BY <1>2
      <4> QED BY <2>6, <3>2, <4>1, Zenon DEF GoesOn
    <3>4. "native" \in {"run", "handle", "interrupt", "function", "native", "observe"}
      OBVIOUS
    <3> QED BY <1>1, <2>2, <2>5, <3>1, <3>3, <3>4, LoudTale, SMTT(30)
  <2>8. TellOK(m, to, now')
    <3>1. /\ Mark(m) = Mark(Me) /\ Len(m.events) = Mark(m) + 1
          /\ (m.ran = 1 <=> m.entered /\ ~m.honor) /\ (m.held => m.entered)
      BY <1>2, <2>5, <2>7 DEF Mark
    <3>2. to = "project" => Len(m.events) = Mark(m) + (IF m.observed THEN 2 ELSE 1)
      BY <2>4, <2>5, <3>1
    <3>3. to = "observe" => m.observed
      BY <2>4, <2>5
    <3> QED BY <2>4, <2>7, <3>1, <3>2, <3>3, Zenon DEF TellOK, Told
  <2> QED BY <2>4, <2>8, TellSteps DEF Stage
<1> QED BY <1>4, <1>5

\* The second sample is taken after the result, and the tale is told.
LEMMA AfterTells == ASSUME TellInv, RunInv', SampleAfter PROVE TellInv'
<1>1. /\ call.at = "observe" /\ Me \in SessionType /\ now \in Nat /\ TellOK(Me, "observe", now)
      /\ Me.events \in Seq(EventType) /\ Me.bundle = <<>> /\ Me.entered \in BOOLEAN
      /\ Me.run \in Sessions \X Nat
  BY TellActing DEF SampleAfter, Step, SessionType
<1>2. /\ Len(Me.events) = Mark(Me) + 1 /\ Mark(Me) \in {2, 4} /\ (Me.entered => Mark(Me) = 4)
      /\ (Me.ran = 1 <=> Me.entered /\ ~Me.honor) /\ (Me.held => Me.entered)
      /\ Me.observed /\ FirstOK(Me, now)
      /\ \A i \in DOMAIN Me.events : Me.events[i].tick <= now
  BY <1>1 DEF TellOK, Mark
<1>3. PICK a : a = Me.initial
  OBVIOUS
<1>4. /\ a \in Seq(Nat) /\ Len(a) = 3 /\ a[1] \in Nat /\ a[2] \in Nat /\ a[3] \in Nat
      /\ Me.events[2].tick <= a[1] /\ a[1] <= a[3] /\ a[3] <= now
      /\ (Me.entered => a[3] <= Me.events[3].tick)
  <2>1. /\ a \in Seq(Nat) /\ Len(a) = 3 /\ Me.events[2].tick <= a[1] /\ a[1] <= a[3] /\ a[3] <= now
        /\ (Me.entered => a[3] <= Me.events[3].tick)
    BY <1>2, <1>3 DEF FirstOK
  <2>2. \A i \in DOMAIN a : a[i] \in Nat
    BY <2>1, Members
  <2>3. DOMAIN a = {1, 2, 3}
    BY <2>1
  <2> QED BY <2>1, <2>2, <2>3
<1>5. PICK d : d = a \o <<now + 1, file, now + 2>>
  OBVIOUS
<1>6. /\ d \in Seq(Nat) /\ Len(d) = 6 /\ d[1] = a[1] /\ d[3] = a[3] /\ d[4] = now + 1
      /\ d[6] = now + 2
  <2>1. PICK b : b = <<now + 1, file, now + 2>>
    OBVIOUS
  <2>2. b \in Seq(Nat) /\ Len(b) = 3 /\ b[1] = now + 1 /\ b[3] = now + 2
    BY <1>1, <2>1 DEF TellInv, RunInv, WorldOK
  <2>3. d = a \o b
    BY <1>5, <2>1
  <2>4. /\ d \in Seq(Nat) /\ Len(d) = Len(a) + Len(b)
        /\ \A i \in 1 .. Len(a) : d[i] = a[i]
        /\ \A i \in 1 .. Len(b) : d[Len(a) + i] = b[i]
    <3>1. /\ a \o b \in Seq(Nat) /\ Len(a \o b) = Len(a) + Len(b)
          /\ \A i \in 1 .. Len(a) : (a \o b)[i] = a[i]
          /\ \A i \in 1 .. Len(b) : (a \o b)[Len(a) + i] = b[i]
      <4>1. a \in Seq(Nat) /\ b \in Seq(Nat) /\ now \in Nat
        BY <1>1, <1>4, <2>2
      <4> QED BY <4>1, Lengthened
    <3> QED BY <2>3, <3>1
  <2>5. d[1] = a[1] /\ d[3] = a[3] /\ d[4] = b[1] /\ d[6] = b[3]
    <3>1. 3 + 1 = 4 /\ 3 + 3 = 6 /\ 1 \in 1 .. 3 /\ 3 \in 1 .. 3
      OBVIOUS
    <3> QED BY <1>4, <2>2, <2>4, <3>1
  <2>6. Len(d) = 6
    BY <1>4, <2>2, <2>4
  <2> QED BY <2>2, <2>4, <2>5, <2>6
<1>7. PICK e : e = Event("effect_sampled", Me.run, now + 3, d)
  OBVIOUS
<1>8. e \in EventType /\ e.kind = "effect_sampled" /\ e.data = d /\ e.tick = now + 3
  BY <1>1, <1>6, <1>7 DEF Event, EventType, KindSet, Data
<1>9. PICK m : m = [Me EXCEPT !.events = Append(@, e)]
  OBVIOUS
<1>10. Step("observe", "project", m) /\ now' = now + 3
  BY <1>3, <1>5, <1>7, <1>9 DEF SampleAfter, Sampled, Ticks
<1>11. /\ m.events = Append(Me.events, e) /\ m.bundle = <<>> /\ m.ran = Me.ran
       /\ m.entered = Me.entered /\ m.held = Me.held /\ m.honor = Me.honor
       /\ m.observed = Me.observed /\ m.initial = Me.initial
  BY <1>1, <1>9 DEF SessionType
<1>12. e.kind = Tale(Me)[Len(Me.events) + 1]
  <2>1. CASE Me.entered
    <3>1. Len(Me.events) + 1 = 6
      BY <1>2, <2>1 DEF Mark
    <3> QED BY <1>8, <2>1, <3>1 DEF Tale
  <2>2. CASE ~Me.entered
    <3>1. Len(Me.events) + 1 = 4
      BY <1>2, <2>2 DEF Mark
    <3> QED BY <1>8, <2>2, <3>1 DEF Tale
  <2> QED BY <2>1, <2>2
<1>13. Me.events[Mark(Me) + 1].tick <= d[4]
  <2>1. Mark(Me) + 1 \in DOMAIN Me.events
    BY <1>1, <1>2
  <2>2. Me.events[Mark(Me) + 1].tick \in Nat /\ Me.events[Mark(Me) + 1].tick <= now
    <3>1. Me.events[Mark(Me) + 1] \in EventType
      BY <1>1, <2>1, Members
    <3> QED BY <1>2, <2>1, <3>1 DEF EventType
  <2> QED BY <1>1, <1>6, <2>2
<1>14. /\ TaleOK(m) /\ Len(m.events) = Len(Me.events) + 1 /\ Len(m.events) >= 2
       /\ \A i \in DOMAIN m.events : m.events[i].tick <= now + 3
  <2>1. (Me.entered => Len(Me.events) >= 3) /\ now <= e.tick /\ e.tick <= now + 3 /\ now + 3 \in Nat
    BY <1>1, <1>2, <1>8
  <2>2. /\ Me.events[2].tick <= d[1] /\ d[1] <= d[3] /\ d[3] <= d[4] /\ d[4] <= d[6] /\ d[6] <= e.tick
        /\ (Me.entered => d[3] <= Me.events[3].tick)
    BY <1>1, <1>4, <1>6, <1>8
  <2>3. GoesOn(Me, e)
    <3>1. Len(Me.events) < Mark(Me) + 2 /\ Len(Me.events) # Mark(Me)
      BY <1>2
    <3> QED BY <1>6, <1>8, <1>12, <1>13, <2>2, <3>1, Zenon DEF GoesOn
  <2>4. "observe" \in {"run", "handle", "interrupt", "function", "native", "observe"}
    OBVIOUS
  <2>5. /\ TellOK(Me, "observe", now) /\ Me.events \in Seq(EventType) /\ now \in Nat
        /\ Me.entered \in BOOLEAN /\ e \in EventType
    BY <1>1, <1>8
  <2> QED BY <1>11, <2>1, <2>3, <2>4, <2>5, LoudTale, SMTT(30)
<1>15. TellOK(m, "project", now')
  <2>1. /\ Mark(m) = Mark(Me) /\ Len(m.events) = Mark(m) + (IF m.observed THEN 2 ELSE 1)
        /\ (m.ran = 1 <=> m.entered /\ ~m.honor) /\ (m.held => m.entered)
    BY <1>2, <1>11, <1>14 DEF Mark
  <2> QED BY <1>10, <1>14, <2>1, Zenon DEF TellOK, Told
<1> QED BY <1>10, <1>15, TellSteps DEF Stage

\* The bundle is the tale.
LEMMA ReturnTells == ASSUME TellInv, RunInv', Return PROVE TellInv'
<1>1. /\ call.at = "project" /\ Me \in SessionType /\ TellOK(Me, "project", now)
  BY TellActing DEF Return, Step
<1>2. PICK m : m = [Me EXCEPT !.bundle = Me.events, !.used = TRUE]
  OBVIOUS
<1>3. Step("project", "idle", m)
  BY <1>2 DEF Return
<1>4. /\ m.events = Me.events /\ m.ran = Me.ran /\ m.entered = Me.entered /\ m.held = Me.held
      /\ m.honor = Me.honor /\ m.observed = Me.observed
  BY <1>1, <1>2 DEF SessionType
<1>5. TellOK(m, "idle", now')
  <2>1. TaleOK(m) /\ Mark(m) = Mark(Me)
    BY <1>1, <1>4, TaleStays DEF TellOK, Told, Mark
  <2> QED BY <1>1, <1>4, <2>1 DEF TellOK, Told
<1> QED BY <1>3, <1>5, TellSteps DEF Stage

\* Every step keeps what the bundles tell.
LEMMA NextTells == ASSUME TellInv, [Next]_vars PROVE TellInv'
<1>0. RunInv'
  BY NextRuns DEF TellInv
<1>1. ASSUME NEW x \in Sessions, NEW t \in Threads, NEW h \in BOOLEAN, NEW o \in BOOLEAN,
             Outside(x, t) \/ Invoke(x, t, h, o)
      PROVE  TellInv'
  BY <1>0, <1>1, BesideTells, InvokeTells
<1>2. ASSUME NEW x \in Sessions, WrapNode(x) PROVE TellInv'
  BY <1>0, <1>2, BesideTells
<1>3. CASE Lookup \/ Enter \/ Issue \/ SampleBefore \/ Receive \/ Bypass
  BY <1>0, <1>3, EarlyTells, IssueTells, SampleTells, ReceiveTells, BypassTells
<1>4. CASE RequestPause \/ Interrupt \/ Ignore \/ Function \/ Retry \/ Refuse
  BY <1>0, <1>4, AnswerTells, InterruptTells, FunctionTells, EarlyTells
<1>5. CASE Native \/ SampleAfter \/ Return \/ Raise
  BY <1>0, <1>5, NativeTells, AfterTells, ReturnTells, EarlyTells
<1>6. CASE Change \/ UNCHANGED vars
  BY <1>0, <1>6, BesideTells
<1> QED BY <1>1, <1>2, <1>3, <1>4, <1>5, <1>6 DEF Next

\* The invariant holds in every run.
LEMMA TellInvariant == Spec => []TellInv
<1> QED BY InitTells, NextTells, PTL DEF Spec
-----------------------------------------------------------------------------
(* What the reconciler makes of five artifacts of one honoured pause.      *)

\* A decision, a dispatch, a receipt, an execution and an effect: one chain, one
\* command, one decision.
Five(A, run) ==
  /\ DOMAIN A = 1 .. 5
  /\ \A i \in 1 .. 5 : A[i].valid /\ A[i].by = "sdk" /\ A[i].chain = run /\ A[i].seq = i - 1
  /\ \A i, j \in 1 .. 5 : A[i].id = A[j].id => i = j
  /\ A[1].prev = R!Genesis /\ \A i \in 2 .. 5 : A[i].prev = A[i - 1] /\ A[i].prev # R!Genesis
  /\ \A i, j \in 1 .. 5 : A[i] = A[j] => i = j
  /\ A[1].body.type = "decision" /\ A[2].body.type = "control" /\ A[3].body.type = "control"
  /\ A[4].body.type = "execution" /\ A[5].body.type = "effect"
  /\ \A i \in 2 .. 5 : A[i].body.decision.id = A[1].id /\ A[i].body.decision.chain = run
  /\ \A i \in 2 .. 4 : /\ A[i].body.instr = run /\ A[i].body.digest = run
                       /\ A[i].body.action = <<run, "pause">>
  /\ A[2].body.event = "dispatched" /\ A[2].body.side = "issuer"
  /\ A[3].body.event = "received" /\ A[3].body.side = "receiver" /\ A[4].body.event = "executed"
  /\ A[5].body.exec.id = A[4].id /\ A[5].body.exec.chain = run
  /\ A[5].body.observer = "same_executor"

Good(c) == c.state \notin {"FAILURE", "INDETERMINATE"}

\* A check is as good as its state.
LEMMA CheckGood ==
  ASSUME NEW name, NEW subject, NEW state, state \notin {"FAILURE", "INDETERMINATE"}
  PROVE  Good(R!Check(name, subject, state))
BY DEF Good, R!Check

\* A verdict on what is so.
LEMMA VerdictGood ==
  ASSUME NEW p, p, NEW otherwise
  PROVE  R!Verdict(p, otherwise) = "SATISFIED"
BY DEF R!Verdict

\* All five are admitted, and no two share an identity.
LEMMA FiveAdmitted ==
  ASSUME NEW A, NEW run, Five(A, run)
  PROVE  /\ R!Admitted(A) = 1 .. 5 /\ R!Unique(A) = 1 .. 5
         /\ \A i \in 1 .. 5 : R!SameId(A, A[i].id) = {i}
         /\ R!OfFamily(A, "decision") = {1} /\ R!OfFamily(A, "control") = {2, 3}
         /\ R!OfFamily(A, "execution") = {4} /\ R!OfFamily(A, "effect") = {5}
         /\ R!Steps(A) = {2, 3, 4}
<1>1. R!Admitted(A) = 1 .. 5
  BY DEF Five, R!Admitted
<1>2. \A i \in 1 .. 5 : R!SameId(A, A[i].id) = {i}
  BY <1>1 DEF Five, R!SameId
<1>3. R!Unique(A) = 1 .. 5
  BY <1>1, <1>2 DEF R!Unique
<1>4. 1 .. 5 = {1, 2, 3, 4, 5}
  OBVIOUS
<1>5. /\ A[1].body.type = "decision" /\ A[2].body.type = "control" /\ A[3].body.type = "control"
      /\ A[4].body.type = "execution" /\ A[5].body.type = "effect"
  BY DEF Five
<1>6. /\ R!OfFamily(A, "decision") = {1} /\ R!OfFamily(A, "control") = {2, 3}
      /\ R!OfFamily(A, "execution") = {4} /\ R!OfFamily(A, "effect") = {5}
  BY <1>3, <1>4, <1>5 DEF R!OfFamily
<1>7. R!Steps(A) = {2, 3, 4}
  BY <1>6 DEF R!Steps
<1> QED BY <1>1, <1>2, <1>3, <1>6, <1>7

\* Admission has nothing to say against them.
LEMMA AdmissionGood ==
  ASSUME NEW A, NEW run, Five(A, run), NEW c \in R!AdmissionChecks(A)
  PROVE  Good(c)
<1>1. R!Admitted(A) = 1 .. 5 /\ R!Unique(A) = 1 .. 5 /\ DOMAIN A \ R!Admitted(A) = {}
  <2>1. DOMAIN A = 1 .. 5
    BY Zenon DEF Five
  <2>2. R!Admitted(A) = 1 .. 5 /\ R!Unique(A) = 1 .. 5
    BY FiveAdmitted
  <2> QED BY <2>1, <2>2
<1>2. \A i \in R!Admitted(A) : [by \in {"sdk"} |-> "SATISFIED"][A[i].by] = "SATISFIED"
  BY <1>1 DEF Five
<1>3. \E i \in 1 .. 5, state \in {"SATISFIED"} : \E name, subject : c = R!Check(name, subject, state)
  BY <1>1, <1>2, VerdictGood DEF R!AdmissionChecks
<1> QED BY <1>3, CheckGood

\* Every position of the chain has one record, linked to the one before it.
LEMMA ChainGood ==
  ASSUME NEW A, NEW run, Five(A, run), NEW c \in R!ChainChecks(A)
  PROVE  Good(c)
<1>1. R!Admitted(A) = 1 .. 5
  BY FiveAdmitted
<1>2. R!ChainOf(A, run) = 1 .. 5
  BY <1>1 DEF R!ChainOf, Five
<1>3. \A i \in 1 .. 5 : R!Position(A, A[i].chain, A[i].seq) = {i}
  BY <1>2 DEF R!Position, Five
<1>4. ASSUME NEW i \in 1 .. 5 PROVE R!LinkState(A, i) = "SATISFIED"
  <2>0. A[i].chain = run
    BY DEF Five
  <2>1. CASE i = 1
    <3>1. A[i].prev = R!Genesis /\ \A j \in 1 .. 5 : A[j].seq >= A[i].seq
      BY <2>1 DEF Five
    <3> QED BY <1>2, <2>0, <3>1 DEF R!LinkState, R!Verdict
  <2>2. CASE i # 1
    <3>1. PICK n \in 1 .. 5 : n = i - 1 /\ A[i].prev = A[n] /\ A[i].prev # R!Genesis
      BY <2>2 DEF Five
    <3> DEFINE M == {j \in R!ChainOf(A, A[i].chain) : A[j] = A[i].prev}
    <3>2. M = {n}
      BY <1>2, <2>0, <3>1 DEF Five
    <3>3. Cardinality(M) = 1
      BY <3>2, FS_Singleton
    <3>4. R!Increases(A, i, n)
      BY <1>2, <2>0, <3>1 DEF R!Increases, Five
    <3>5. \E j \in M : R!Increases(A, i, j)
      BY <3>2, <3>4
    <3>6. ~(Cardinality(M) > 1)
      BY <3>3
    <3>7. R!Verdict(\E j \in M : R!Increases(A, i, j), "FAILURE") = "SATISFIED"
      BY <3>5, VerdictGood
    <3> DEFINE adjacent == R!Position(A, A[i].chain, A[i].seq - 1)
               rest == CASE A[i].seq = 0               -> "FAILURE"
                         [] Cardinality(adjacent) = 1  -> "FAILURE"
                         [] Cardinality(adjacent) > 1  -> "NOT_EVALUATED"
                         [] OTHER                      -> "MISSING"
               first == R!Verdict(\A j \in R!ChainOf(A, A[i].chain) : A[j].seq >= A[i].seq, "FAILURE")
               linked == R!Verdict(\E j \in M : R!Increases(A, i, j), "FAILURE")
    <3>8. R!LinkState(A, i) =
            CASE A[i].prev = R!Genesis -> first
              [] A[i].prev # R!Genesis /\ Cardinality(M) = 1 -> linked
              [] A[i].prev # R!Genesis /\ Cardinality(M) > 1 -> "NOT_EVALUATED"
              [] OTHER -> rest
      BY DEF R!LinkState
    <3> HIDE DEF M, first, linked, rest, adjacent
    <3>9. linked = "SATISFIED"
      BY <3>7 DEF linked
    <3> QED BY <3>1, <3>3, <3>6, <3>8, <3>9
  <2> QED BY <2>1, <2>2
<1>5. PICK i \in 1 .. 5 : c \in R!PositionChecks(A, i)
  BY <1>1 DEF R!ChainChecks
<1>6. \E subject : c = R!Check("chain_link", subject, "SATISFIED")
  BY <1>3, <1>4, <1>5 DEF R!PositionChecks
<1> QED BY <1>6, CheckGood

\* The four reports refer to the decision, and the effect to the execution.
LEMMA FiveResolved ==
  ASSUME NEW A, NEW run, Five(A, run)
  PROVE  /\ \A i \in 2 .. 5 : R!Resolved(A, A[i].body.decision, "decision") = "SATISFIED"
         /\ R!Resolved(A, A[5].body.exec, "execution") = "SATISFIED"
         /\ \A i \in 2 .. 5 : R!DecidedBy(A, i, A[1].id)
         /\ \A i \in 1 .. 5 : R!DecidedBy(A, i, A[1].id) => i # 1
<1>1. /\ R!Unique(A) = 1 .. 5 /\ R!SameId(A, A[1].id) = {1} /\ R!SameId(A, A[4].id) = {4}
  BY FiveAdmitted
<1>2. Cardinality({1}) = 1 /\ Cardinality({4}) = 1
  BY FS_Singleton
<1>3. ASSUME NEW ref, NEW family, NEW n, R!SameId(A, ref.id) = {n}, Cardinality({n}) = 1,
             A[n].body.type = family, ref.chain = A[n].chain
      PROVE  R!Resolved(A, ref, family) = "SATISFIED"
  <2> DEFINE matches == R!SameId(A, ref.id)
             v == R!Verdict(\A i \in matches : /\ A[i].body.type = family
                                               /\ ref.chain \in {<<"any", 0>>, A[i].chain},
                            "FAILURE")
  <2>1. R!Resolved(A, ref, family) = CASE matches = {} -> "MISSING"
                                       [] Cardinality(matches) > 1 -> "INDETERMINATE"
                                       [] OTHER -> v
    BY DEF R!Resolved
  <2>2. v = "SATISFIED"
    BY <1>3, VerdictGood
  <2> HIDE DEF v
  <2>3. matches # {} /\ ~(Cardinality(matches) > 1)
    BY <1>3
  <2> QED BY <2>1, <2>2, <2>3
<1>4. \A i \in 2 .. 5 : R!Resolved(A, A[i].body.decision, "decision") = "SATISFIED"
  <2> TAKE i \in 2 .. 5
  <2>1. /\ A[i].body.decision.id = A[1].id /\ A[i].body.decision.chain = A[1].chain
        /\ A[1].body.type = "decision"
    BY DEF Five
  <2>2. R!SameId(A, A[i].body.decision.id) = {1}
    BY <1>1, <2>1
  <2> QED BY <1>2, <1>3, <2>1, <2>2
<1>5. R!Resolved(A, A[5].body.exec, "execution") = "SATISFIED"
  <2>1. /\ A[5].body.exec.id = A[4].id /\ A[5].body.exec.chain = A[4].chain
        /\ A[4].body.type = "execution"
    BY DEF Five
  <2>2. R!SameId(A, A[5].body.exec.id) = {4}
    BY <1>1, <2>1
  <2> QED BY <1>2, <1>3, <2>1, <2>2
<1>6. \A i \in 2 .. 5 : A[i].body.type # "decision" /\ A[i].body.decision.id = A[1].id
  <2> TAKE i \in 2 .. 5
  <2>1. i = 2 \/ i = 3 \/ i = 4 \/ i = 5
    OBVIOUS
  <2> QED BY <2>1 DEF Five
<1>7. \A i \in 2 .. 5 : R!DecidedBy(A, i, A[1].id)
  BY <1>1, <1>4, <1>6 DEF R!DecidedBy
<1>8. \A i \in 1 .. 5 : R!DecidedBy(A, i, A[1].id) => i # 1
  BY DEF R!DecidedBy, Five
<1> QED BY <1>4, <1>5, <1>7, <1>8

\* Every reference resolves, and the decision has its instruction.
LEMMA CorrelationGood ==
  ASSUME NEW A, NEW run, Five(A, run), NEW c \in R!CorrelationChecks(A)
  PROVE  Good(c)
<1>1. R!Unique(A) = 1 .. 5 /\ R!OfFamily(A, "decision") = {1} /\ R!Steps(A) = {2, 3, 4}
  BY FiveAdmitted
<1>2. \A i \in 2 .. 5 : R!Resolved(A, A[i].body.decision, "decision") = "SATISFIED"
  BY FiveResolved
<1>3. R!DecidedBy(A, 2, A[1].id)
  BY FiveResolved
<1>4. CASE \E i \in R!Unique(A) \ R!OfFamily(A, "decision") : c \in R!ReferenceChecks(A, i)
  <2>1. PICK i \in 2 .. 5 : c \in R!ReferenceChecks(A, i)
    BY <1>1, <1>4
  <2>2. c = R!Check("decision_reference", R!RefOf(A[i]), "SATISFIED")
    BY <1>2, <2>1 DEF R!ReferenceChecks
  <2> QED BY <2>2, CheckGood
<1>5. CASE c \in {R!Check("instruction_evidence", R!RefOf(A[i]),
                          R!Verdict(\E j \in R!Steps(A) : R!DecidedBy(A, j, A[i].id), "MISSING")) :
                    i \in R!OfFamily(A, "decision")}
  <2>1. \E subject, p : c = R!Check("instruction_evidence", subject, R!Verdict(p, "MISSING"))
    BY <1>5
  <2> QED BY <2>1, CheckGood DEF R!Verdict
<1> QED BY <1>4, <1>5 DEF R!CorrelationChecks

\* Dispatch, receipt and execution agree on the one instruction.
LEMMA GroupGood ==
  ASSUME NEW A, NEW run, Five(A, run), NEW c \in R!GroupChecks(A, A[1].id, run)
  PROVE  Good(c)
<1> DEFINE group == R!Group(A, A[1].id, run)
           controls == group \cap R!OfFamily(A, "control")
           executions == group \cap R!OfFamily(A, "execution")
           wrongSide == {i \in controls : <<A[i].body.event, A[i].body.side>> \in
                           {<<"dispatched", "receiver">>, <<"received", "issuer">>}}
           Reports(event, side) == {i \in controls : A[i].body.event = event /\ A[i].body.side = side}
           failed == {i \in controls : A[i].body.event = "delivery_failed"}
           digests == {A[i].body.digest : i \in group}
           outcomes == {A[i].body.event : i \in executions}
           About(name, state) == R!Check(name, <<A[1].id, run>>, state)
           basic ==
             {About("instruction_digest_agreement", R!Verdict(R!Cardinality(digests) = 1, "FAILURE")),
              About("issuer_dispatch", R!Verdict(Reports("dispatched", "issuer") # {}, "MISSING")),
              About("receiver_receipt", R!Verdict(Reports("received", "receiver") # {}, "MISSING")),
              About("execution_evidence", R!Verdict(executions # {}, "MISSING"))}
           wrong == {R!Check("control_boundary", R!RefOf(A[i]), "FAILURE") : i \in wrongSide}
           lost == {About("delivery_failure_report", "FAILURE") : i \in failed}
           unsure == {About("delivery_outcome", "INDETERMINATE") :
                        i \in {j \in failed : Reports("received", "receiver") # {}}}
           done == {R!Check("execution_outcome", R!RefOf(A[i]),
                            R!Verdict(A[i].body.event = "executed", "FAILURE")) : i \in executions}
           several == IF R!Cardinality(outcomes) > 1
                      THEN {About("execution_outcomes", "INDETERMINATE")} ELSE {}
           agreed == IF controls = {} THEN {}
                     ELSE {About("authorization_agreement",
                                 R!Verdict(\A i, j \in controls : A[i].body.action = A[j].body.action,
                                           "FAILURE"))}
           bound == IF controls = {} \/ executions = {}
                    THEN {About("toctou", "NOT_EVALUATED"),
                          About("execution_instruction_binding", "NOT_EVALUATED")}
                    ELSE {About("toctou", R!Verdict(R!AllAgree(A, controls, executions), "FAILURE")),
                          About("execution_instruction_binding",
                                R!Verdict(R!Cardinality(digests) = 1, "FAILURE"))}
<1>1. R!GroupChecks(A, A[1].id, run) =
        basic \cup wrong \cup lost \cup unsure \cup done \cup several \cup agreed \cup bound
  BY Zenon DEF R!GroupChecks
<1>2. group = {2, 3, 4}
  <2>1. R!Steps(A) = {2, 3, 4}
    BY FiveAdmitted
  <2>2. \A i \in {2, 3, 4} : A[i].body.instr = run /\ R!DecidedBy(A, i, A[1].id)
    <3>1. \A i \in 2 .. 4 : A[i].body.instr = run
      BY Zenon DEF Five
    <3>2. \A i \in 2 .. 5 : R!DecidedBy(A, i, A[1].id)
      BY FiveResolved
    <3>3. \A i \in {2, 3, 4} : i \in 2 .. 4 /\ i \in 2 .. 5
      OBVIOUS
    <3> QED BY <3>1, <3>2, <3>3, Zenon
  <2> QED BY <2>1, <2>2 DEF R!Group
<1> HIDE DEF group
<1>3. controls = {2, 3} /\ executions = {4}
  BY <1>2, FiveAdmitted
<1> HIDE DEF controls, executions
<1>4. wrongSide = {} /\ failed = {}
  BY <1>3 DEF Five
<1>5. digests = {run}
  BY <1>2 DEF Five
<1>6. outcomes = {"executed"}
  BY <1>3 DEF Five
<1> HIDE DEF digests, outcomes, wrongSide, failed
<1>7. R!Cardinality(digests) = 1 /\ ~(R!Cardinality(outcomes) > 1)
  <2>1. R!Cardinality({run}) = 1 /\ R!Cardinality({"executed"}) = 1
    BY FS_Singleton DEF R!Cardinality, Cardinality
  <2> QED BY <1>5, <1>6, <2>1
<1>8. wrong = {} /\ lost = {} /\ unsure = {} /\ several = {}
  BY <1>4, <1>7
<1>9. ASSUME NEW name, NEW p, p \/ name # "" PROVE Good(About(name, R!Verdict(p, "MISSING")))
  BY CheckGood DEF R!Verdict
<1>10. CASE c \in basic
  <2>1. R!Verdict(R!Cardinality(digests) = 1, "FAILURE") = "SATISFIED"
    BY <1>7, VerdictGood
  <2> HIDE DEF Reports
  <2>2. \E name, state : c = About(name, state) /\ state \in {"SATISFIED", "MISSING"}
    BY <1>10, <2>1 DEF R!Verdict
  <2> QED BY <2>2, CheckGood
<1>11. CASE c \in done
  <2>1. A[4].body.event = "executed"
    BY DEF Five
  <2>2. c = R!Check("execution_outcome", R!RefOf(A[4]),
                    R!Verdict(A[4].body.event = "executed", "FAILURE"))
    BY <1>3, <1>11
  <2>3. R!Verdict(A[4].body.event = "executed", "FAILURE") = "SATISFIED"
    BY <2>1, VerdictGood
  <2> QED BY <2>2, <2>3, CheckGood
<1>12. CASE c \in agreed
  <2>1. \A i, j \in controls : A[i].body.action = A[j].body.action
    BY <1>3 DEF Five
  <2>2. c = About("authorization_agreement", "SATISFIED")
    BY <1>3, <1>12, <2>1, VerdictGood
  <2> QED BY <2>2, CheckGood
<1>13. CASE c \in bound
  <2>1. R!AllAgree(A, controls, executions)
    BY <1>3 DEF R!AllAgree, Five
  <2>2. R!Verdict(R!AllAgree(A, controls, executions), "FAILURE") = "SATISFIED"
    BY <2>1, VerdictGood
  <2>3. R!Verdict(R!Cardinality(digests) = 1, "FAILURE") = "SATISFIED"
    BY <1>7, VerdictGood
  <2>4. \E name : c = About(name, "SATISFIED")
    BY <1>3, <1>13, <2>2, <2>3
  <2> QED BY <2>4, CheckGood
<1> HIDE DEF basic, wrong, lost, unsure, done, several, agreed, bound
<1> QED BY <1>1, <1>8, <1>10, <1>11, <1>12, <1>13

\* The effect is bound to the execution of its own decision.
LEMMA EffectGood ==
  ASSUME NEW A, NEW run, Five(A, run), NEW c \in R!EffectChecks(A)
  PROVE  Good(c)
<1>1. /\ R!OfFamily(A, "effect") = {5} /\ R!OfFamily(A, "execution") = {4}
      /\ R!SameId(A, A[5].body.exec.id) = {4}
  <2>1. A[5].body.exec.id = A[4].id
    BY DEF Five
  <2>2. /\ R!OfFamily(A, "effect") = {5} /\ R!OfFamily(A, "execution") = {4}
        /\ R!SameId(A, A[4].id) = {4}
    BY FiveAdmitted
  <2> QED BY <2>1, <2>2
<1>2. R!Resolved(A, A[5].body.exec, "execution") = "SATISFIED"
  BY FiveResolved
<1>3. R!BindingState(A, 5) = "SATISFIED"
  <2> DEFINE targets == R!SameId(A, A[5].body.exec.id)
             decided == {j \in targets \cup {5} : R!DecidedBy(A, j, A[j].body.decision.id)}
             v == R!Verdict(\A j \in targets : A[j].body.decision.id = A[5].body.decision.id, "FAILURE")
  <2>1. R!BindingState(A, 5) =
          CASE R!Resolved(A, A[5].body.exec, "execution") # "SATISFIED" -> "NOT_EVALUATED"
            [] R!Resolved(A, A[5].body.exec, "execution") = "SATISFIED" /\ decided # targets \cup {5} ->
                 "NOT_EVALUATED"
            [] OTHER -> v
    BY DEF R!BindingState
  <2>2. \A j \in {4, 5} : A[j].body.decision.id = A[1].id /\ R!DecidedBy(A, j, A[1].id)
    <3>1. \A j \in 2 .. 5 : A[j].body.decision.id = A[1].id
      BY Zenon DEF Five
    <3>2. \A j \in 2 .. 5 : R!DecidedBy(A, j, A[1].id)
      BY FiveResolved
    <3>3. {4, 5} \subseteq 2 .. 5
      OBVIOUS
    <3> QED BY <3>1, <3>2, <3>3, Zenon
  <2>3. decided = targets \cup {5}
    BY <1>1, <2>2
  <2>4. v = "SATISFIED"
    BY <1>1, <2>2, VerdictGood
  <2> HIDE DEF decided, targets, v
  <2> QED BY <1>2, <2>1, <2>3, <2>4
<1>4. R!Assessed(A, 5) # "unknown"
  BY DEF R!Assessed, Five
<1>5. R!Verdict(R!Assessed(A, 5) # "unknown", "INDETERMINATE") = "SATISFIED"
  BY <1>4, VerdictGood
<1>6. CASE c = R!EffectEvidence(A, 4)
  <2>1. \E subject, p : c = R!Check("effect_evidence", subject, R!Verdict(p, "MISSING"))
    BY <1>6 DEF R!EffectEvidence
  <2> QED BY <2>1, CheckGood DEF R!Verdict
<1>7. CASE c # R!EffectEvidence(A, 4)
  <2>1. c \in {R!Check("execution_reference", R!RefOf(A[5]), R!Resolved(A, A[5].body.exec, "execution")),
               R!Check("effect_binding", R!RefOf(A[5]), R!BindingState(A, 5)),
               R!Check("observer_relationship", R!RefOf(A[5]),
                       R!Verdict(R!Assessed(A, 5) # "unknown", "INDETERMINATE"))}
    BY <1>1, <1>7 DEF R!EffectChecks
  <2>2. \E name : c = R!Check(name, R!RefOf(A[5]), "SATISFIED")
    BY <1>2, <1>3, <1>5, <2>1
  <2> QED BY <2>2, CheckGood
<1> QED BY <1>6, <1>7

\* Nothing contradicts them and nothing is left open.
LEMMA FiveClean ==
  ASSUME NEW A, NEW run, Five(A, run)
  PROVE  Clean(A)
<1> SUFFICES ASSUME NEW c \in R!Checks(A) PROVE Good(c)
  BY DEF Clean, Good
<1>1. CASE c \in R!AdmissionChecks(A) \cup R!ChainChecks(A) \cup R!CorrelationChecks(A)
                 \cup R!EffectChecks(A)
  BY <1>1, AdmissionGood, ChainGood, CorrelationGood, EffectGood
<1>2. CASE \E i \in {j \in R!Steps(A) : R!DecidedBy(A, j, A[j].body.decision.id)} :
             c \in R!GroupChecks(A, A[i].body.decision.id, A[i].body.instr)
  <2>1. R!Steps(A) = {2, 3, 4}
    BY FiveAdmitted
  <2>2. \A i \in {2, 3, 4} : A[i].body.decision.id = A[1].id /\ A[i].body.instr = run
    BY DEF Five
  <2>3. c \in R!GroupChecks(A, A[1].id, run)
    BY <1>2, <2>1, <2>2
  <2> QED BY <2>3, GroupGood
<1>3. CASE c = R!Check("intended_target_coverage", <<>>, "NOT_EVALUATED")
  BY <1>3, CheckGood
<1>4. DOMAIN A # {}
  BY DEF Five
<1> QED BY <1>1, <1>2, <1>3, <1>4 DEF R!Checks
-----------------------------------------------------------------------------
(* What is read off a bundle.                                              *)

\* The stages in their order.
LEMMA Places ==
  /\ Place("decision") = 1 /\ Place("dispatched") = 2 /\ Place("received") = 3
  /\ Place("pause_requested") = 4 /\ Place("ignored") = 5 /\ Place("native_result") = 6
  /\ Place("effect_sampled") = 7
<1>1. DOMAIN Kinds = 1 .. 7 /\ 1 .. 7 = {1, 2, 3, 4, 5, 6, 7}
  BY DEF Kinds
<1>2. /\ Kinds[1] = "decision" /\ Kinds[2] = "dispatched" /\ Kinds[3] = "received"
      /\ Kinds[4] = "pause_requested" /\ Kinds[5] = "ignored" /\ Kinds[6] = "native_result"
      /\ Kinds[7] = "effect_sampled"
  BY DEF Kinds
<1>3. \A i, j \in 1 .. 7 : Kinds[i] = Kinds[j] => i = j
  BY <1>1, <1>2
<1>4. \A i \in 1 .. 7 : Place(Kinds[i]) = i
  <2> TAKE i \in 1 .. 7
  <2>1. Kinds[Place(Kinds[i])] = Kinds[i] /\ Place(Kinds[i]) \in 1 .. 7
    BY <1>1 DEF Place
  <2> QED BY <1>3, <2>1
<1> QED BY <1>1, <1>2, <1>4

\* A bundle as the tale has it: by position, what is in it.
Whole(me, E) ==
  /\ E \in Seq(EventType) /\ TaleOK(me) /\ E = me.events
  /\ \A i \in DOMAIN E : E[i].run = me.run
  /\ Len(E) = Mark(me) + (IF me.observed THEN 2 ELSE 1)
  /\ me.ran = 1 <=> me.entered /\ ~me.honor
  /\ me.held => me.entered /\ me.honor
  /\ me.entered \in BOOLEAN /\ me.honor \in BOOLEAN /\ me.held \in BOOLEAN
  /\ me.observed \in BOOLEAN

\* What a session returned is whole.
LEMMA ReturnedWhole ==
  ASSUME TellInv, NEW x \in Returned
  PROVE  Whole(s[x], s[x].bundle)
<1>1. /\ x \in Sessions /\ s[x] \in SessionType /\ EventsOK(s[x]) /\ PlaceOK(s[x], Where(x))
      /\ RanOK(s[x]) /\ s[x].bundle # <<>>
  BY DEF Returned, TellInv, RunInv, SessionOK
<1>2. s[x].bundle = s[x].events /\ Where(x) = "idle"
  BY <1>1 DEF PlaceOK
<1>3. TellOK(s[x], "idle", now) /\ Told(s[x], "idle")
  BY <1>1, <1>2 DEF TellInv, Told
<1>4. /\ s[x].events \in Seq(EventType) /\ s[x].entered \in BOOLEAN /\ s[x].honor \in BOOLEAN
      /\ s[x].held \in BOOLEAN /\ s[x].observed \in BOOLEAN
  BY <1>1 DEF SessionType
<1> QED BY <1>1, <1>2, <1>3, <1>4 DEF Whole, TellOK, EventsOK, RanOK

\* The tale by its positions; no kind occurs twice, and the stages are in order.
LEMMA Positions ==
  ASSUME NEW me, NEW E, Whole(me, E)
  PROVE  LET n == Mark(me)
         IN
         /\ n = (IF me.entered THEN 4 ELSE 2)
         /\ DOMAIN E = 1 .. (n + (IF me.observed THEN 2 ELSE 1))
         /\ E[1].kind = "decision" /\ E[2].kind = "dispatched" /\ E[n + 1].kind = "native_result"
         /\ me.entered => /\ E[3].kind = "received"
                          /\ E[4].kind = IF me.honor THEN "pause_requested" ELSE "ignored"
         /\ me.observed => E[n + 2].kind = "effect_sampled"
         /\ \A i, j \in DOMAIN E : i < j => Place(E[i].kind) < Place(E[j].kind)
         /\ \A i, j \in DOMAIN E : E[i].kind = E[j].kind => i = j
<1> DEFINE n == Mark(me)
           l == n + (IF me.observed THEN 2 ELSE 1)
<1>1. n = (IF me.entered THEN 4 ELSE 2) /\ DOMAIN E = 1 .. l /\ l \in {3, 4, 5, 6}
  BY DEF Whole, Mark
<1>2. \A i \in 1 .. l : E[i].kind = Tale(me)[i]
  BY <1>1 DEF Whole, TaleOK
<1>3. /\ Tale(me)[1] = "decision" /\ Tale(me)[2] = "dispatched" /\ Tale(me)[n + 1] = "native_result"
      /\ Tale(me)[n + 2] = "effect_sampled"
      /\ me.entered => /\ Tale(me)[3] = "received"
                       /\ Tale(me)[4] = IF me.honor THEN "pause_requested" ELSE "ignored"
  <2>1. CASE me.entered
    <3>1. n + 1 = 5 /\ n + 2 = 6
      BY <1>1, <2>1
    <3> QED BY <2>1, <3>1 DEF Tale
  <2>2. CASE ~me.entered
    <3>1. n + 1 = 3 /\ n + 2 = 4
      BY <1>1, <2>2
    <3> QED BY <2>2, <3>1 DEF Tale
  <2> QED BY <2>1, <2>2
<1>4. /\ 1 \in 1 .. l /\ 2 \in 1 .. l /\ n + 1 \in 1 .. l /\ (me.observed => n + 2 \in 1 .. l)
      /\ me.entered => 3 \in 1 .. l /\ 4 \in 1 .. l
  BY <1>1
<1>5. /\ E[1].kind = "decision" /\ E[2].kind = "dispatched" /\ E[n + 1].kind = "native_result"
      /\ me.entered => /\ E[3].kind = "received"
                       /\ E[4].kind = IF me.honor THEN "pause_requested" ELSE "ignored"
      /\ me.observed => E[n + 2].kind = "effect_sampled"
  BY <1>2, <1>3, <1>4
<1>6. \A i \in 1 .. l : \/ i = 1 \/ i = 2 \/ i = n + 1 \/ (i = n + 2 /\ me.observed)
                        \/ (me.entered /\ i = 3) \/ (me.entered /\ i = 4)
  BY <1>1
<1>7. \A i \in 1 .. l : Place(E[i].kind) \in
        (CASE i = 1 -> {1} [] i = 2 -> {2} [] i = n + 1 -> {6} [] i = n + 2 -> {7}
           [] me.entered /\ i = 3 -> {3} [] OTHER -> {4, 5})
  <2> TAKE i \in 1 .. l
  <2>1. CASE i = 1
    BY <1>1, <1>5, <2>1, Places
  <2>2. CASE i = 2
    BY <1>1, <1>5, <2>2, Places
  <2>3. CASE i = n + 1
    BY <1>1, <1>5, <2>3, Places
  <2>4. CASE i = n + 2 /\ me.observed
    BY <1>1, <1>5, <2>4, Places
  <2>5. CASE me.entered /\ i = 3
    BY <1>1, <1>5, <2>5, Places
  <2>6. CASE me.entered /\ i = 4
    BY <1>1, <1>5, <2>6, Places
  <2> QED BY <1>6, <2>1, <2>2, <2>3, <2>4, <2>5, <2>6
<1>8. \A i, j \in 1 .. l : i < j => Place(E[i].kind) < Place(E[j].kind)
  BY <1>1, <1>6, <1>7
<1>9. \A i, j \in 1 .. l : E[i].kind = E[j].kind => i = j
  <2> TAKE i, j \in 1 .. l
  <2> HAVE E[i].kind = E[j].kind
  <2>1. ~(i < j) /\ ~(j < i)
    <3>1. \A k \in 1 .. l : Place(E[k].kind) \in 1 .. 7
      BY <1>1, <1>6, <1>7
    <3> QED BY <1>8, <3>1
  <2> QED BY <1>1, <2>1
<1> QED BY <1>1, <1>5, <1>8, <1>9

\* Which kinds occur, and where.
LEMMA Occurs ==
  ASSUME NEW me, NEW E, Whole(me, E)
  PROVE  LET n == Mark(me)
         IN
         /\ Has(E, "decision") /\ Has(E, "dispatched") /\ Has(E, "native_result")
         /\ Has(E, "received") <=> me.entered
         /\ Has(E, "pause_requested") <=> me.entered /\ me.honor
         /\ Has(E, "ignored") <=> me.entered /\ ~me.honor
         /\ Has(E, "effect_sampled") <=> me.observed
         /\ The(E, "decision") = E[1] /\ The(E, "dispatched") = E[2]
         /\ The(E, "native_result") = E[n + 1] /\ (me.entered => The(E, "received") = E[3])
         /\ me.observed => The(E, "effect_sampled") = E[n + 2]
<1> DEFINE n == Mark(me)
<1>1. /\ n = (IF me.entered THEN 4 ELSE 2)
      /\ DOMAIN E = 1 .. (n + (IF me.observed THEN 2 ELSE 1))
      /\ E[1].kind = "decision" /\ E[2].kind = "dispatched" /\ E[n + 1].kind = "native_result"
      /\ me.entered => /\ E[3].kind = "received"
                       /\ E[4].kind = IF me.honor THEN "pause_requested" ELSE "ignored"
      /\ me.observed => E[n + 2].kind = "effect_sampled"
      /\ \A i, j \in DOMAIN E : E[i].kind = E[j].kind => i = j
  BY Positions
<1>2. /\ 1 \in DOMAIN E /\ 2 \in DOMAIN E /\ n + 1 \in DOMAIN E
      /\ me.entered => 3 \in DOMAIN E /\ 4 \in DOMAIN E
      /\ me.observed => n + 2 \in DOMAIN E
      /\ \A i \in DOMAIN E : \/ i = 1 \/ i = 2 \/ i = n + 1 \/ (i = n + 2 /\ me.observed)
                             \/ (me.entered /\ i = 3) \/ (me.entered /\ i = 4)
  BY <1>1
<1>3. ASSUME NEW i \in DOMAIN E PROVE The(E, E[i].kind) = E[i]
  <2>1. PICK k : k = CHOOSE j \in DOMAIN E : E[j].kind = E[i].kind
    OBVIOUS
  <2>2. k \in DOMAIN E /\ E[k].kind = E[i].kind
    BY <2>1
  <2>3. k = i
    BY <1>1, <2>2
  <2> QED BY <2>1, <2>3 DEF The
<1> HIDE DEF n
<1>4. /\ The(E, "decision") = E[1] /\ The(E, "dispatched") = E[2]
      /\ The(E, "native_result") = E[n + 1] /\ (me.entered => The(E, "received") = E[3])
      /\ me.observed => The(E, "effect_sampled") = E[n + 2]
  BY <1>1, <1>2, <1>3
<1>5. Has(E, "decision") /\ Has(E, "dispatched") /\ Has(E, "native_result")
  BY <1>1, <1>2 DEF Has
<1>6. /\ me.entered => Has(E, "received") /\ (me.honor => Has(E, "pause_requested"))
                       /\ (~me.honor => Has(E, "ignored"))
      /\ me.observed => Has(E, "effect_sampled")
  BY <1>1, <1>2 DEF Has
<1>7. /\ Has(E, "received") => me.entered
      /\ Has(E, "pause_requested") => me.entered /\ me.honor
      /\ Has(E, "ignored") => me.entered /\ ~me.honor
      /\ Has(E, "effect_sampled") => me.observed
  BY <1>1, <1>2 DEF Has
<1> QED BY <1>4, <1>5, <1>6, <1>7 DEF n

\* What the receipt and the execution of a whole bundle come to.
LEMMA Reads ==
  ASSUME NEW me, NEW E, Whole(me, E)
  PROVE  /\ Receipt(E) = "RECEIVED" <=> me.entered
         /\ Execution(E) = "PAUSED" <=> me.honor /\ me.held
         /\ Execution(E) = "CONTINUED" <=> me.ran = 1
         /\ Effect(E) = "QUIESCENT" =>
              /\ me.observed
              /\ The(E, "effect_sampled").data[2] = The(E, "effect_sampled").data[5]
         /\ Execution(E) = "PAUSED" /\ me.observed
              /\ The(E, "effect_sampled").data[2] = The(E, "effect_sampled").data[5]
            => Effect(E) = "QUIESCENT"
<1>1. /\ Has(E, "native_result") /\ (Has(E, "received") <=> me.entered)
      /\ Has(E, "pause_requested") <=> me.entered /\ me.honor
      /\ Has(E, "ignored") <=> me.entered /\ ~me.honor
      /\ Has(E, "effect_sampled") <=> me.observed
      /\ The(E, "native_result") = E[Mark(me) + 1]
  BY Occurs
<1>2. NativePaused(E) <=> me.held
  <2>1. Mark(me) + 1 \in DOMAIN E
    BY DEF Whole, Mark
  <2> QED BY <1>1, <2>1 DEF Whole, TaleOK, NativePaused
<1>3. (me.ran = 1 <=> me.entered /\ ~me.honor) /\ (me.held => me.entered /\ me.honor)
  BY DEF Whole
<1>4. Receipt(E) = "RECEIVED" <=> me.entered
  BY <1>1 DEF Receipt
<1>5. /\ Execution(E) = "PAUSED" <=> me.honor /\ me.held
      /\ Execution(E) = "CONTINUED" <=> me.ran = 1
  BY <1>1, <1>2, <1>3 DEF Execution
<1>6. Effect(E) = IF ~me.observed \/ Execution(E) = "MISSING" THEN "MISSING"
                  ELSE IF The(E, "effect_sampled").data[2] = The(E, "effect_sampled").data[5]
                       THEN "QUIESCENT" ELSE "CHANGED"
  BY <1>1 DEF Effect
<1> QED BY <1>4, <1>5, <1>6

\* project() and consume() take a whole bundle.
LEMMA WholeAdmissible ==
  ASSUME NEW me, NEW E, Whole(me, E)
  PROVE  Admissible(E, me.run) /\ E # <<>>
<1>1. /\ Has(E, "decision") /\ Has(E, "dispatched")
      /\ ~(Has(E, "pause_requested") /\ Has(E, "ignored"))
      /\ Has(E, "received") <=> me.entered
      /\ Has(E, "effect_sampled") <=> me.observed
      /\ The(E, "dispatched") = E[2] /\ The(E, "native_result") = E[Mark(me) + 1]
      /\ me.entered => The(E, "received") = E[3]
      /\ me.observed => The(E, "effect_sampled") = E[Mark(me) + 2]
  BY Occurs
<1>2. \A i, j \in DOMAIN E : i < j => Place(E[i].kind) < Place(E[j].kind)
  BY Positions
<1>3. \A i, j \in DOMAIN E : i < j => E[i].tick <= E[j].tick
  <2>1. \A i, j \in DOMAIN E : i < j => i <= j
    BY DEF Whole
  <2> QED BY <2>1 DEF Whole, TaleOK
<1>4. me.observed => Brackets(E)
  <2> SUFFICES ASSUME me.observed PROVE Brackets(E)
    OBVIOUS
  <2>1. Mark(me) + 2 \in DOMAIN E
    BY DEF Whole, Mark
  <2>2. PICK e : e = E[Mark(me) + 2]
    OBVIOUS
  <2>3. PICK d : d = e.data
    OBVIOUS
  <2>4. /\ E[2].tick <= d[1] /\ d[1] <= d[3] /\ d[3] <= d[4] /\ d[4] <= d[6] /\ d[6] <= e.tick
        /\ E[Mark(me) + 1].tick <= d[4] /\ (me.entered => d[3] <= E[3].tick)
    BY <2>1, <2>2, <2>3 DEF Whole, TaleOK
  <2> QED BY <1>1, <2>2, <2>3, <2>4 DEF Brackets
<1>5. \A i \in DOMAIN E : E[i].run = me.run
  BY DEF Whole
<1>6. E # <<>>
  BY <1>1 DEF Has
<1> QED BY <1>1, <1>2, <1>3, <1>4, <1>5, <1>6 DEF Admissible
-----------------------------------------------------------------------------
(* The artifacts of an honoured pause with an undisturbed file.            *)

\* The record at a place of the chain, and the chain so far.
RecordAt(E, n, prev) ==
  [id |-> Id(E[1].run, Names(E)[n]), chain |-> E[1].run, by |-> "sdk", seq |-> n - 1,
   prev |-> prev, valid |-> TRUE, body |-> Body(E, Names(E)[n])]

SoFar(E, chain, n) ==
  IF n = 0 THEN <<>>
  ELSE Append(chain[n - 1], RecordAt(E, n, IF n = 1 THEN R!Genesis ELSE chain[n - 1][n - 1]))

Chain(E) == CHOOSE chain : chain = [n \in 0 .. Len(Names(E)) |-> SoFar(E, chain, n)]

\* The artifacts are the end of the recursion.
LEMMA ArtifactsAre ==
  ASSUME NEW E
  PROVE  Artifacts(E) = Chain(E)[Len(Names(E))]
BY DEF Artifacts, Chain, SoFar, RecordAt

\* A list with its members and one more.
LEMMA Extended ==
  ASSUME NEW S, NEW q \in Seq(S), NEW e \in S, NEW r \in Seq(S), Len(r) = Len(q) + 1,
         \A i \in 1 .. Len(q) : r[i] = q[i], r[Len(r)] = e
  PROVE  Append(q, e) = r
<1>1. PICK p : p = Append(q, e)
  OBVIOUS
<1>2. /\ p \in Seq(S) /\ Len(p) = Len(q) + 1 /\ p[Len(q) + 1] = e
      /\ \A i \in 1 .. Len(q) : p[i] = q[i]
  BY <1>1
<1>3. \A i \in 1 .. (Len(q) + 1) : i \in 1 .. Len(q) \/ i = Len(q) + 1
  OBVIOUS
<1>4. \A i \in 1 .. (Len(q) + 1) : p[i] = r[i]
  BY <1>2, <1>3
<1>5. p = [i \in 1 .. Len(p) |-> p[i]] /\ r = [i \in 1 .. Len(r) |-> r[i]]
  BY <1>2
<1> QED BY <1>1, <1>2, <1>4, <1>5

\* Up to five members, one by one.
LEMMA Appended ==
  ASSUME NEW a, NEW b, NEW c, NEW d, NEW e
  PROVE  /\ Append(<<>>, a) = <<a>> /\ Append(<<a>>, b) = <<a, b>> /\ Append(<<a, b>>, c) = <<a, b, c>>
         /\ Append(<<a, b, c>>, d) = <<a, b, c, d>> /\ Append(<<a, b, c, d>>, e) = <<a, b, c, d, e>>
<1> DEFINE S == {a, b, c, d, e}
<1>1. /\ <<>> \in Seq(S) /\ <<a>> \in Seq(S) /\ <<a, b>> \in Seq(S) /\ <<a, b, c>> \in Seq(S)
      /\ <<a, b, c, d>> \in Seq(S) /\ <<a, b, c, d, e>> \in Seq(S)
  OBVIOUS
<1>2. a \in S /\ b \in S /\ c \in S /\ d \in S /\ e \in S
  OBVIOUS
<1> HIDE DEF S
<1>3. Append(<<>>, a) = <<a>>
  BY <1>1, <1>2, Extended
<1>4. Append(<<a>>, b) = <<a, b>>
  <2>1. PICK q \in Seq(S), r \in Seq(S) : q = <<a>> /\ r = <<a, b>>
    BY <1>1
  <2>2. Len(q) = 1 /\ Len(r) = 2 /\ r[2] = b /\ r[1] = q[1]
    BY <2>1
  <2>3. \A i \in 1 .. Len(q) : r[i] = q[i]
    BY <2>2
  <2>4. Len(r) = Len(q) + 1 /\ r[Len(r)] = b
    BY <2>2
  <2> QED BY <1>2, <2>1, <2>3, <2>4, Extended
<1>5. Append(<<a, b>>, c) = <<a, b, c>>
  <2>1. PICK q \in Seq(S), r \in Seq(S) : q = <<a, b>> /\ r = <<a, b, c>>
    BY <1>1
  <2>2. Len(q) = 2 /\ Len(r) = 3 /\ r[3] = c /\ r[1] = q[1] /\ r[2] = q[2]
    BY <2>1
  <2>3. \A i \in 1 .. Len(q) : r[i] = q[i]
    BY <2>2
  <2>4. Len(r) = Len(q) + 1 /\ r[Len(r)] = c
    BY <2>2
  <2> QED BY <1>2, <2>1, <2>3, <2>4, Extended
<1>6. Append(<<a, b, c>>, d) = <<a, b, c, d>>
  <2>1. PICK q \in Seq(S), r \in Seq(S) : q = <<a, b, c>> /\ r = <<a, b, c, d>>
    BY <1>1
  <2>2. Len(q) = 3 /\ Len(r) = 4 /\ r[4] = d /\ r[1] = q[1] /\ r[2] = q[2] /\ r[3] = q[3]
    BY <2>1
  <2>3. \A i \in 1 .. Len(q) : r[i] = q[i]
    BY <2>2
  <2>4. Len(r) = Len(q) + 1 /\ r[Len(r)] = d
    BY <2>2
  <2> QED BY <1>2, <2>1, <2>3, <2>4, Extended
<1>7. Append(<<a, b, c, d>>, e) = <<a, b, c, d, e>>
  <2>1. PICK q \in Seq(S), r \in Seq(S) : q = <<a, b, c, d>> /\ r = <<a, b, c, d, e>>
    BY <1>1
  <2>2. Len(q) = 4 /\ Len(r) = 5 /\ r[5] = e /\ r[1] = q[1] /\ r[2] = q[2] /\ r[3] = q[3] /\ r[4] = q[4]
    BY <2>1
  <2>3. \A i \in 1 .. Len(q) : r[i] = q[i]
    BY <2>2
  <2>4. Len(r) = Len(q) + 1 /\ r[Len(r)] = e
    BY <2>2
  <2> QED BY <1>2, <2>1, <2>3, <2>4, Extended
<1> QED BY <1>3, <1>4, <1>5, <1>6, <1>7

\* A list joined with one of a single member.
LEMMA JoinedOne ==
  ASSUME NEW S, NEW q \in Seq(S), NEW e \in S
  PROVE  q \o <<e>> = Append(q, e)
OBVIOUS

\* The same members, joined.
LEMMA Joined ==
  ASSUME NEW a, NEW b, NEW c, NEW d, NEW e
  PROVE  /\ <<a, b>> \o <<c>> = <<a, b, c>>
         /\ <<a, b>> \o <<c>> \o <<d>> \o <<e>> = <<a, b, c, d, e>>
<1> DEFINE S == {a, b, c, d, e}
<1>1. /\ <<a, b>> \in Seq(S) /\ <<a, b, c>> \in Seq(S) /\ <<a, b, c, d>> \in Seq(S)
      /\ c \in S /\ d \in S /\ e \in S
  OBVIOUS
<1> HIDE DEF S
<1>2. /\ Append(<<>>, a) = <<a>> /\ Append(<<a>>, b) = <<a, b>> /\ Append(<<a, b>>, c) = <<a, b, c>>
      /\ Append(<<a, b, c>>, d) = <<a, b, c, d>> /\ Append(<<a, b, c, d>>, e) = <<a, b, c, d, e>>
  BY Appended
<1>3. <<a, b>> \o <<c>> = <<a, b, c>>
  <2>1. PICK q \in Seq(S) : q = <<a, b>>
    BY <1>1
  <2>2. q \o <<c>> = Append(q, c)
    BY <1>1, JoinedOne, Zenon
  <2>3. Append(<<a, b>>, c) = <<a, b, c>>
    BY <1>2
  <2> QED BY <2>1, <2>2, <2>3, Zenon
<1>4. <<a, b, c>> \o <<d>> = <<a, b, c, d>>
  <2>1. PICK q \in Seq(S) : q = <<a, b, c>>
    BY <1>1
  <2>2. q \o <<d>> = Append(q, d)
    BY <1>1, JoinedOne, Zenon
  <2>3. Append(<<a, b, c>>, d) = <<a, b, c, d>>
    BY <1>2
  <2> QED BY <2>1, <2>2, <2>3, Zenon
<1>5. <<a, b, c, d>> \o <<e>> = <<a, b, c, d, e>>
  <2>1. PICK q \in Seq(S) : q = <<a, b, c, d>>
    BY <1>1
  <2>2. q \o <<e>> = Append(q, e)
    BY <1>1, JoinedOne, Zenon
  <2>3. Append(<<a, b, c, d>>, e) = <<a, b, c, d, e>>
    BY <1>2
  <2> QED BY <2>1, <2>2, <2>3, Zenon
<1> QED BY <1>3, <1>4, <1>5

\* With five names the recursion is defined, and gives five records, each with
\* the one before it.
LEMMA FiveRecords ==
  ASSUME NEW E, Len(Names(E)) = 5
  PROVE  \E a, b, c, d, e : /\ Artifacts(E) = <<a, b, c, d, e>>
                            /\ a = RecordAt(E, 1, R!Genesis) /\ b = RecordAt(E, 2, a)
                            /\ c = RecordAt(E, 3, b) /\ d = RecordAt(E, 4, c)
                            /\ e = RecordAt(E, 5, d)
<1>1. PICK a : a = RecordAt(E, 1, R!Genesis)
  OBVIOUS
<1>2. PICK b : b = RecordAt(E, 2, a)
  OBVIOUS
<1>3. PICK c : c = RecordAt(E, 3, b)
  OBVIOUS
<1>4. PICK d : d = RecordAt(E, 4, c)
  OBVIOUS
<1>5. PICK e : e = RecordAt(E, 5, d)
  OBVIOUS
<1>6. /\ Append(<<>>, a) = <<a>> /\ Append(<<a>>, b) = <<a, b>> /\ Append(<<a, b>>, c) = <<a, b, c>>
      /\ Append(<<a, b, c>>, d) = <<a, b, c, d>> /\ Append(<<a, b, c, d>>, e) = <<a, b, c, d, e>>
  BY Appended
<1>7. PICK f : /\ f = [n \in 0 .. 5 |-> f[n]]
               /\ f[0] = <<>> /\ f[1] = <<a>> /\ f[2] = <<a, b>> /\ f[3] = <<a, b, c>>
               /\ f[4] = <<a, b, c, d>> /\ f[5] = <<a, b, c, d, e>>
  <2> DEFINE q == << <<>>, <<a>>, <<a, b>>, <<a, b, c>>, <<a, b, c, d>>, <<a, b, c, d, e>> >>
             g == [n \in 0 .. 5 |-> q[n + 1]]
  <2>1. /\ g[0] = q[1] /\ g[1] = q[2] /\ g[2] = q[3] /\ g[3] = q[4] /\ g[4] = q[5] /\ g[5] = q[6]
    <3> HIDE DEF q
    <3> QED OBVIOUS
  <2>2. /\ q[1] = <<>> /\ q[2] = <<a>> /\ q[3] = <<a, b>> /\ q[4] = <<a, b, c>>
        /\ q[5] = <<a, b, c, d>> /\ q[6] = <<a, b, c, d, e>>
    OBVIOUS
  <2>3. g = [n \in 0 .. 5 |-> g[n]]
    <3> HIDE DEF q
    <3> QED OBVIOUS
  <2> HIDE DEF g
  <2> QED BY <2>1, <2>2, <2>3
<1>8. ASSUME NEW h, h[0] = <<>>, \A n \in 1 .. 5 : h[n] = SoFar(E, h, n)
      PROVE  /\ h[1] = <<a>> /\ h[2] = <<a, b>> /\ h[3] = <<a, b, c>> /\ h[4] = <<a, b, c, d>>
             /\ h[5] = <<a, b, c, d, e>>
  <2>0. \A n \in 1 .. 5 :
          h[n] = Append(h[n - 1], RecordAt(E, n, IF n = 1 THEN R!Genesis ELSE h[n - 1][n - 1]))
    <3> TAKE n \in 1 .. 5
    <3>1. n # 0 /\ h[n] = SoFar(E, h, n)
      BY <1>8
    <3> QED BY <3>1, Zenon DEF SoFar
  <2>1. h[1] = <<a>>
    BY <1>1, <1>6, <1>8, <2>0
  <2>2. h[2] = <<a, b>>
    <3>1. h[2] = Append(h[1], RecordAt(E, 2, h[1][1]))
      BY <2>0
    <3> QED BY <1>2, <1>6, <2>1, <3>1
  <2>3. h[3] = <<a, b, c>>
    <3>1. h[3] = Append(h[2], RecordAt(E, 3, h[2][2]))
      BY <2>0
    <3>2. h[2][2] = b
      BY <2>2
    <3> QED BY <1>3, <1>6, <2>2, <3>1, <3>2
  <2>4. h[4] = <<a, b, c, d>>
    <3>1. h[4] = Append(h[3], RecordAt(E, 4, h[3][3]))
      BY <2>0
    <3>2. h[3][3] = c
      BY <2>3
    <3> QED BY <1>4, <1>6, <2>3, <3>1, <3>2
  <2>5. h[5] = <<a, b, c, d, e>>
    <3>1. h[5] = Append(h[4], RecordAt(E, 5, h[4][4]))
      BY <2>0
    <3>2. h[4][4] = d
      BY <2>4
    <3> QED BY <1>5, <1>6, <2>4, <3>1, <3>2
  <2> QED BY <2>1, <2>2, <2>3, <2>4, <2>5
<1>9. \A n \in 0 .. 5 : f[n] = SoFar(E, f, n)
  <2>1. f[0] = SoFar(E, f, 0)
    BY <1>7 DEF SoFar
  <2>2. f[1] = SoFar(E, f, 1)
    <3>1. SoFar(E, f, 1) = Append(f[0], RecordAt(E, 1, R!Genesis))
      BY DEF SoFar
    <3> QED BY <1>1, <1>6, <1>7, <3>1
  <2>3. f[2] = SoFar(E, f, 2)
    <3>1. SoFar(E, f, 2) = Append(f[1], RecordAt(E, 2, f[1][1])) /\ f[1][1] = a
      BY <1>7 DEF SoFar
    <3> QED BY <1>2, <1>6, <1>7, <3>1
  <2>4. f[3] = SoFar(E, f, 3)
    <3>1. SoFar(E, f, 3) = Append(f[2], RecordAt(E, 3, f[2][2])) /\ f[2][2] = b
      BY <1>7 DEF SoFar
    <3> QED BY <1>3, <1>6, <1>7, <3>1
  <2>5. f[4] = SoFar(E, f, 4)
    <3>1. SoFar(E, f, 4) = Append(f[3], RecordAt(E, 4, f[3][3])) /\ f[3][3] = c
      BY <1>7 DEF SoFar
    <3> QED BY <1>4, <1>6, <1>7, <3>1
  <2>6. f[5] = SoFar(E, f, 5)
    <3>1. SoFar(E, f, 5) = Append(f[4], RecordAt(E, 5, f[4][4])) /\ f[4][4] = d
      BY <1>7 DEF SoFar
    <3> QED BY <1>5, <1>6, <1>7, <3>1
  <2>7. \A n \in 0 .. 5 : n = 0 \/ n = 1 \/ n = 2 \/ n = 3 \/ n = 4 \/ n = 5
    OBVIOUS
  <2> QED BY <2>1, <2>2, <2>3, <2>4, <2>5, <2>6, <2>7
<1>10. f = [n \in 0 .. Len(Names(E)) |-> SoFar(E, f, n)]
  BY <1>7, <1>9
<1>11. Chain(E) = [n \in 0 .. Len(Names(E)) |-> SoFar(E, Chain(E), n)]
  BY <1>10 DEF Chain
<1>12. PICK h : h = Chain(E)
  OBVIOUS
<1>13. \A n \in 0 .. 5 : h[n] = SoFar(E, h, n)
  BY <1>11, <1>12
<1>14. h[0] = <<>> /\ \A n \in 1 .. 5 : h[n] = SoFar(E, h, n)
  BY <1>13 DEF SoFar
<1>15. h[5] = <<a, b, c, d, e>>
  BY <1>8, <1>14
<1>16. Artifacts(E) = <<a, b, c, d, e>>
  BY <1>12, <1>15, ArtifactsAre
<1> QED BY <1>1, <1>2, <1>3, <1>4, <1>5, <1>16

\* Five names that identify five records of one run.
LEMMA IdsDiffer ==
  ASSUME NEW run \in Sessions \X Nat, NEW u, NEW v, Id(run, u) = Id(run, v)
  PROVE  u = v
<1>1. PICK x \in Sessions, k \in Nat : run = <<x, k>>
  OBVIOUS
<1>2. ASSUME NEW w PROVE (<<x, k>> \o <<w>>)[3] = w
  <2>1. <<x, k>> \o <<w>> = <<x, k, w>>
    BY Joined
  <2> QED BY <2>1
<1>3. (<<x, k>> \o <<u>>)[3] = u /\ (<<x, k>> \o <<v>>)[3] = v
  BY <1>2
<1> QED BY <1>1, <1>3 DEF Id

\* A held pause beside an undisturbed file projects to the five artifacts.
LEMMA PauseIsFive ==
  ASSUME NEW me, NEW E, Whole(me, E), me.run \in Sessions \X Nat,
         Receipt(E) = "RECEIVED", Execution(E) = "PAUSED", Effect(E) = "QUIESCENT"
  PROVE  Five(Artifacts(E), me.run)
<1>1. PICK run \in Sessions \X Nat : run = me.run /\ E[1].run = run
  <2>1. 1 \in DOMAIN E
    BY DEF Whole, Mark
  <2> QED BY <2>1 DEF Whole
<1>2. PICK names : names = <<"decision", "dispatch", "receipt", "execution", "effect">>
  OBVIOUS
<1>3. Names(E) = names
  <2>1. Names(E) = <<"decision", "dispatch">> \o <<"receipt">> \o <<"execution">> \o <<"effect">>
    BY DEF Names
  <2> QED BY <1>2, <2>1, Joined
<1>4. Len(Names(E)) = 5
  BY <1>2, <1>3
<1>5. PICK a, b, c, d, e : /\ Artifacts(E) = <<a, b, c, d, e>>
                           /\ a = RecordAt(E, 1, R!Genesis) /\ b = RecordAt(E, 2, a)
                           /\ c = RecordAt(E, 3, b) /\ d = RecordAt(E, 4, c)
                           /\ e = RecordAt(E, 5, d)
  BY <1>4, FiveRecords
<1>6. ASSUME NEW n \in 1 .. 5, NEW prev, NEW r, r = RecordAt(E, n, prev)
      PROVE  /\ r.id = Id(run, names[n]) /\ r.chain = run /\ r.by = "sdk" /\ r.seq = n - 1
             /\ r.prev = prev /\ r.valid /\ r.body = Body(E, names[n])
  BY <1>1, <1>3, <1>6 DEF RecordAt
<1>7. PICK A : A = <<a, b, c, d, e>>
  OBVIOUS
<1>8. DOMAIN A = 1 .. 5 /\ A[1] = a /\ A[2] = b /\ A[3] = c /\ A[4] = d /\ A[5] = e
  BY <1>7
<1>9. \A i \in 1 .. 5 : i = 1 \/ i = 2 \/ i = 3 \/ i = 4 \/ i = 5
  OBVIOUS
<1>10. /\ a.prev = R!Genesis /\ b.prev = a /\ c.prev = b /\ d.prev = c /\ e.prev = d
  BY <1>5, <1>6
<1>11. \A i \in 1 .. 5 : /\ A[i].id = Id(run, names[i]) /\ A[i].chain = run /\ A[i].by = "sdk"
                         /\ A[i].seq = i - 1 /\ A[i].valid /\ A[i].body = Body(E, names[i])
  <2>1. /\ A[1] = RecordAt(E, 1, R!Genesis) /\ A[2] = RecordAt(E, 2, a) /\ A[3] = RecordAt(E, 3, b)
        /\ A[4] = RecordAt(E, 4, c) /\ A[5] = RecordAt(E, 5, d)
    BY <1>5, <1>8
  <2> TAKE i \in 1 .. 5
  <2>2. \E prev : A[i] = RecordAt(E, i, prev)
    BY <1>9, <2>1
  <2> QED BY <1>6, <2>2
<1>12. \A i, j \in 1 .. 5 : A[i].id = A[j].id => i = j
  <2>1. \A i, j \in 1 .. 5 : names[i] = names[j] => i = j
    BY <1>2, <1>9
  <2> QED BY <1>11, <2>1, IdsDiffer
<1>13. \A i, j \in 1 .. 5 : A[i] = A[j] => i = j
  <2> TAKE i, j \in 1 .. 5
  <2> HAVE A[i] = A[j]
  <2>1. A[i].id = A[j].id
    OBVIOUS
  <2> QED BY <1>12, <2>1
<1>14. A[1].prev = R!Genesis /\ \A i \in 2 .. 5 : A[i].prev = A[i - 1] /\ A[i].prev # R!Genesis
  <2>1. \A i \in 2 .. 5 : A[i].prev = A[i - 1]
    <3> TAKE i \in 2 .. 5
    <3>1. CASE i = 2
      BY <1>8, <1>10, <3>1
    <3>2. CASE i = 3
      BY <1>8, <1>10, <3>2
    <3>3. CASE i = 4
      BY <1>8, <1>10, <3>3
    <3>4. CASE i = 5
      BY <1>8, <1>10, <3>4
    <3> QED BY <3>1, <3>2, <3>3, <3>4
  <2>2. \A i \in 1 .. 5 : A[i] # R!Genesis
    <3> TAKE i \in 1 .. 5
    <3>1. A[i].seq # -1 /\ R!Genesis.seq = -1
      BY <1>11 DEF R!Genesis
    <3> QED BY <3>1
  <2>3. \A i \in 2 .. 5 : i - 1 \in 1 .. 5
    OBVIOUS
  <2>4. \A i \in 2 .. 5 : A[i].prev # R!Genesis
    BY <2>1, <2>2, <2>3
  <2> QED BY <1>8, <1>10, <2>1, <2>4
<1>15. PICK ref : ref = Ref(run, "decision")
  OBVIOUS
<1>16. ref.id = A[1].id /\ ref.chain = run
  BY <1>2, <1>11, <1>15 DEF Ref
<1>17. A[1].body.type = "decision"
  BY <1>2, <1>11 DEF Body
<1>18. /\ A[2].body.type = "control" /\ A[2].body.decision = ref /\ A[2].body.instr = run
       /\ A[2].body.digest = run /\ A[2].body.action = <<run, "pause">>
       /\ A[2].body.event = "dispatched" /\ A[2].body.side = "issuer"
  BY <1>1, <1>2, <1>11, <1>15 DEF Body
<1>19. /\ A[3].body.type = "control" /\ A[3].body.decision = ref /\ A[3].body.instr = run
       /\ A[3].body.digest = run /\ A[3].body.action = <<run, "pause">>
       /\ A[3].body.event = "received" /\ A[3].body.side = "receiver"
  BY <1>1, <1>2, <1>11, <1>15 DEF Body
<1>20. /\ A[4].body.type = "execution" /\ A[4].body.decision = ref /\ A[4].body.instr = run
       /\ A[4].body.digest = run /\ A[4].body.action = <<run, "pause">>
       /\ A[4].body.event = "executed"
  BY <1>1, <1>2, <1>11, <1>15 DEF Body
<1>21. /\ A[5].body.type = "effect" /\ A[5].body.decision = ref
       /\ A[5].body.exec.id = A[4].id /\ A[5].body.exec.chain = run
       /\ A[5].body.observer = "same_executor"
  BY <1>1, <1>2, <1>11, <1>15 DEF Body, Ref
<1>22. \A i \in 2 .. 5 : A[i].body.decision = ref
  <2>1. \A i \in 2 .. 5 : i = 2 \/ i = 3 \/ i = 4 \/ i = 5
    OBVIOUS
  <2> QED BY <1>18, <1>19, <1>20, <1>21, <2>1
<1>23. \A i \in 2 .. 4 : /\ A[i].body.instr = run /\ A[i].body.digest = run
                         /\ A[i].body.action = <<run, "pause">>
  <2>1. \A i \in 2 .. 4 : i = 2 \/ i = 3 \/ i = 4
    OBVIOUS
  <2> QED BY <1>18, <1>19, <1>20, <2>1
<1>24. \A i \in 2 .. 5 : A[i].body.decision.id = A[1].id /\ A[i].body.decision.chain = run
  BY <1>16, <1>22
<1>25. Five(A, run)
  BY <1>8, <1>11, <1>12, <1>13, <1>14, <1>17, <1>18, <1>19, <1>20, <1>21, <1>23, <1>24, Zenon
  DEF Five
<1> QED BY <1>1, <1>5, <1>7, <1>25

\* A returned bundle tells what became of its run, the consumer admits it, and
\* it matches exactly the pause that LangGraph held before an undisturbed file,
\* for any sessions, threads and code of the caller.
THEOREM EveryBundleTellsItsRun == Spec => []BundleTellsRun
<1>1. TellInv => BundleTellsRun
  <2> SUFFICES ASSUME TellInv, NEW x \in Returned,
                      NEW E, E = s[x].bundle,
                      NEW pause \in BOOLEAN, pause <=> s[x].honor /\ s[x].held,
                      NEW still \in BOOLEAN,
                      still <=> /\ s[x].observed
                                /\ The(E, "effect_sampled").data[2] = The(E, "effect_sampled").data[5]
               PROVE  /\ Agrees(Bundle(x))
                      /\ Receipt(E) = "RECEIVED" <=> s[x].entered
                      /\ Execution(E) = "PAUSED" <=> pause
                      /\ Execution(E) = "CONTINUED" <=> s[x].ran = 1
                      /\ Match(Bundle(x), s[x].run) <=> pause /\ still
    BY DEF BundleTellsRun
  <2>1. Whole(s[x], E)
    BY ReturnedWhole
  <2>2. s[x].run \in Sessions \X Nat
    BY DEF Returned, TellInv, RunInv, SessionOK, SessionType
  <2>3. PICK b : b = Bundle(x)
    OBVIOUS
  <2>4. b.run = s[x].run /\ b.sources = E /\ b.artifacts = Artifacts(E)
    BY <2>3 DEF Bundle
  <2>5. Agrees(b)
    BY <2>1, <2>4, WholeAdmissible DEF Agrees
  <2>6. /\ Receipt(E) = "RECEIVED" <=> s[x].entered
        /\ Execution(E) = "PAUSED" <=> pause
        /\ Execution(E) = "CONTINUED" <=> s[x].ran = 1
    BY <2>1, Reads
  <2>7. Match(b, s[x].run) => pause /\ still
    <3> SUFFICES ASSUME Match(b, s[x].run) PROVE pause /\ still
      OBVIOUS
    <3>1. Execution(E) = "PAUSED" /\ Effect(E) = "QUIESCENT"
      BY <2>4 DEF Match, Matches
    <3> QED BY <2>1, <2>6, <3>1, Reads
  <2>8. pause /\ still => Match(b, s[x].run)
    <3> SUFFICES ASSUME pause, still PROVE Match(b, s[x].run)
      OBVIOUS
    <3>1. Execution(E) = "PAUSED" /\ Effect(E) = "QUIESCENT"
      BY <2>1, <2>6, Reads
    <3>2. Receipt(E) = "RECEIVED"
      BY <2>1, <2>6 DEF Whole
    <3>3. Five(Artifacts(E), s[x].run)
      BY <2>1, <2>2, <3>1, <3>2, PauseIsFive
    <3>4. Clean(b.artifacts)
      BY <2>4, <3>3, FiveClean
    <3> QED BY <2>4, <2>5, <3>1, <3>2, <3>4 DEF Match, Matches
  <2> QED BY <2>3, <2>5, <2>6, <2>7, <2>8
<1> QED BY <1>1, TellInvariant, PTL
=============================================================================
