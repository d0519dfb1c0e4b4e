----------------------------- MODULE HookSession -----------------------------
(***************************************************************************)
(* sdk/python airep/langgraph.py: ControlSession, which wraps one node of  *)
(* a caller's graph, runs the graph once with a pause pending before that  *)
(* node and keeps the events it reports; and FileObserver, which samples a *)
(* file before and after.                                                  *)
(*                                                                         *)
(* The caller is one thread.  It may wrap, invoke and use the graph beside *)
(* the session in any order; its code may raise, interrupt, be retried or  *)
(* swallow the interrupt, and anybody may change the file at any time.     *)
(* LangGraph is modelled from its use: per thread, what is stored last.    *)
(***************************************************************************)
EXTENDS Integers, Sequences

CONSTANTS Sessions, Threads,
          MaxChanges    \* bound: changes of the file

ASSUME BoundAssumption == MaxChanges \in Nat

VARIABLES
  s,        \* the sessions; "ran" and "held" are ghosts: how often the caller's
            \* function ran, and that LangGraph stored the control's interrupt
  call,     \* the invocation in progress: session and where it is ("idle": none)
  stored,   \* threads: "new", "anchor", "paused", "foreign" (an interrupt of
            \* the application), "done", "broken"
  file, changes,
  now

vars == <<s, call, stored, file, changes, now>>

Idle == [by |-> "none", at |-> "idle"]

NoSample == <<0, 0, 0>>

Init ==
  /\ s = [x \in Sessions |->
       [wrapped |-> FALSE, used |-> FALSE, active |-> FALSE, entered |-> FALSE, honor |-> FALSE,
        thread |-> "none", observed |-> FALSE, run |-> <<x, 0>>, events |-> <<>>,
        initial |-> NoSample, bundle |-> <<>>, ran |-> 0, held |-> FALSE]]
  /\ call = Idle
  /\ stored = [t \in Threads |-> "new"] /\ file = 0 /\ changes = 0 /\ now = 0
-----------------------------------------------------------------------------
Me == s[call.by]

At(place) == IF place = "idle" THEN Idle ELSE [call EXCEPT !.at = place]

\* A step of the invocation, and the session it leaves.
Step(from, to, me) ==
  /\ call.at = from /\ call' = At(to) /\ s' = [s EXCEPT ![call.by] = me]

Stores(what) == stored' = [stored EXCEPT ![Me.thread] = what]

Event(kind, run, tick, data) == [kind |-> kind, run |-> run, tick |-> tick, data |-> data]

Emits(me, kind, data) ==
  [me EXCEPT !.events = Append(@, Event(kind, me.run, now + 1, data))]

Ticks(n) == now' = now + n

\* invoke() or what it called raised; active is reset in a finally.
Left(me) == [me EXCEPT !.active = FALSE]

WrapNode(x) ==
  /\ call.at = "idle" /\ ~s[x].wrapped /\ ~s[x].used
  /\ s' = [s EXCEPT ![x].wrapped = TRUE] /\ UNCHANGED <<call, stored, file, changes, now>>

\* The session is marked when its bundle is returned.
MarkedAtReturn(me) == me

\* The session is marked before the graph is touched.
Marked(me) == [me EXCEPT !.used = TRUE]

Invoke(x, t, honor, observed) ==
  /\ call.at = "idle" /\ s[x].wrapped /\ ~s[x].used
  /\ call' = [by |-> x, at |-> "lookup"]
  /\ s' = [s EXCEPT ![x] = [Marked(@) EXCEPT !.thread = t, !.honor = honor, !.observed = observed]]
  /\ UNCHANGED <<stored, file, changes, now>>

\* The clock of the session starts here.
Lookup ==
  /\ Step("lookup", IF stored[Me.thread] = "new" THEN "entry" ELSE "idle", Me)
  /\ now' = 0 /\ UNCHANGED <<stored, file, changes>>

\* The graph stops before the node, or it does not.
Enter ==
  /\ \/ Step("entry", "issue", Me) /\ Stores("anchor")
     \/ Step("entry", "idle", Me) /\ Stores("broken")
  /\ UNCHANGED <<file, changes, now>>

\* A fresh run: decision and dispatch.
Issue ==
  /\ Step("issue", "sample",
          [Me EXCEPT !.run = <<call.by, @[2] + 1>>,
                     !.events = @ \o <<Event("decision", <<call.by, Me.run[2] + 1>>, now + 1, <<>>),
                                       Event("dispatched", <<call.by, Me.run[2] + 1>>, now + 2, <<>>)>>])
  /\ Ticks(2) /\ UNCHANGED <<stored, file, changes>>

\* The two stamps of a sample, and the file between them.
Sampled == <<now + 1, file, now + 2>>

SampleBefore ==
  /\ Step("sample", "run", [Me EXCEPT !.active = TRUE,
                                      !.initial = IF Me.observed THEN Sampled ELSE NoSample])
  /\ Ticks(2) /\ UNCHANGED <<stored, file, changes>>

\* controlled(): within this run, once.
NodeAllowed(me) == me.active /\ ~me.entered

Receive ==
  /\ Step("run", "handle", [Emits(Me, "received", <<>>) EXCEPT !.entered = TRUE])
  /\ NodeAllowed(Me)
  /\ Ticks(1) /\ UNCHANGED <<stored, file, changes>>

\* The graph's node of that name is not the wrapped one.
Bypass ==
  /\ Step("run", "native", Left(Me)) /\ Stores("done") /\ UNCHANGED <<file, changes, now>>

RequestPause ==
  /\ Step("handle", "interrupt", Emits(Me, "pause_requested", <<>>)) /\ Me.honor
  /\ Ticks(1) /\ UNCHANGED <<stored, file, changes>>

\* The interrupt reaches LangGraph, or code around the node swallows it.
Interrupt ==
  /\ \/ Step("interrupt", "native", [Left(Me) EXCEPT !.held = TRUE]) /\ Stores("paused")
     \/ Step("interrupt", "native", Left(Me)) /\ Stores("done")
  /\ UNCHANGED <<file, changes, now>>

Ignore ==
  /\ Step("handle", "function", Emits(Me, "ignored", <<>>)) /\ ~Me.honor
  /\ Ticks(1) /\ UNCHANGED <<stored, file, changes>>

\* The caller's function, which may change the file, returns or interrupts.
Function ==
  /\ Step("function", "native", Left([Me EXCEPT !.ran = @ + 1]))
  /\ Stores("done") \/ Stores("foreign")
  /\ file' \in {0, 1} /\ UNCHANGED <<changes, now>>

\* It raises, and LangGraph runs the node again, which is refused.
Retry ==
  /\ Step("function", "run", [Me EXCEPT !.ran = @ + 1])
  /\ file' \in {0, 1} /\ UNCHANGED <<stored, changes, now>>

Refuse ==
  /\ Step("run", "idle", Left(Me)) /\ ~NodeAllowed(Me) /\ Stores("broken")
  /\ UNCHANGED <<file, changes, now>>

\* Only the control's own interrupt may be exported.
Native ==
  /\ call.at = "native"
  /\ IF stored[Me.thread] = "foreign" THEN Step("native", "idle", Me) /\ Ticks(0)
     ELSE /\ Step("native", IF Me.observed THEN "observe" ELSE "project",
                  Emits(Me, "native_result", <<stored[Me.thread]>>))
          /\ Ticks(1)
  /\ UNCHANGED <<stored, file, changes>>

SampleAfter ==
  /\ Step("observe", "project",
          [Me EXCEPT !.events = Append(@, Event("effect_sampled", Me.run, now + 3, Me.initial \o Sampled))])
  /\ Ticks(3) /\ UNCHANGED <<stored, file, changes>>

\* The bundle is returned; project() refuses nothing that got here.
Return ==
  /\ Step("project", "idle", [Me EXCEPT !.bundle = Me.events, !.used = TRUE])
  /\ UNCHANGED <<stored, file, changes, now>>

\* The graph, the file system or the signing raises.
Raise ==
  /\ call.at # "idle" /\ call' = Idle
  /\ s' = [s EXCEPT ![call.by] = Left(@)] /\ UNCHANGED <<stored, file, changes, now>>

\* The graph is resumed or run anew beside the session: its node is refused.
Outside(x, t) ==
  /\ call.at = "idle" /\ s[x].wrapped /\ ~NodeAllowed(s[x])
  /\ \/ stored' = [stored EXCEPT ![t] = "broken"]
     \/ stored[t] # "new" /\ UNCHANGED stored
  /\ UNCHANGED <<s, call, file, changes, now>>

\* Anybody else.
Change ==
  /\ changes < MaxChanges /\ changes' = changes + 1 /\ file' = 1 - file
  /\ call.at \in {"run", "native", "observe"}
  /\ UNCHANGED <<s, call, stored, now>>

Next ==
  \/ \E x \in Sessions : \/ WrapNode(x)
                         \/ \E t \in Threads : \/ Outside(x, t)
                                               \/ \E h, o \in BOOLEAN : Invoke(x, t, h, o)
  \/ Lookup \/ Enter \/ Issue \/ SampleBefore \/ Receive \/ Bypass \/ RequestPause \/ Interrupt
  \/ Ignore \/ Function \/ Retry \/ Refuse \/ Native \/ SampleAfter \/ Return \/ Raise \/ Change

Spec == Init /\ [][Next]_vars
=============================================================================
