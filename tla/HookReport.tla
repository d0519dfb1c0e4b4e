----------------------------- MODULE HookReport -----------------------------
(***************************************************************************)
(* mapping.py and consumer.py of sdk/python: what a list of source events  *)
(* projects to, and what consume() makes of a bundle of sources and signed *)
(* artifacts, given the identity that is asked about.                      *)
(***************************************************************************)
EXTENDS HookSession, FiniteSets

R == INSTANCE Reconciler WITH
       AnyChain <- <<"any", 0>>, Standing <- [by \in {"sdk"} |-> "SATISFIED"], Independent <- {}

Kinds == <<"decision", "dispatched", "received", "pause_requested", "ignored", "native_result",
           "effect_sampled">>

Place(kind) == CHOOSE i \in DOMAIN Kinds : Kinds[i] = kind

Has(E, kind) == \E i \in DOMAIN E : E[i].kind = kind

The(E, kind) == E[CHOOSE i \in DOMAIN E : E[i].kind = kind]

\* The first sample ends before the receipt, the last one starts after the result.
Brackets(E) ==
  LET e == The(E, "effect_sampled")
      d == e.data
  IN
  /\ d[1] <= d[3] /\ d[3] <= d[4] /\ d[4] <= d[6] /\ d[6] <= e.tick
  /\ d[1] >= The(E, "dispatched").tick
  /\ Has(E, "received") => d[3] <= The(E, "received").tick
  /\ Has(E, "native_result") => d[4] >= The(E, "native_result").tick

\* What project() accepts: one run, each stage once, in order, and issued.
Admissible(E, run) ==
  /\ \A i \in DOMAIN E : E[i].run = run
  /\ \A i, j \in DOMAIN E : i < j => /\ Place(E[i].kind) < Place(E[j].kind)
                                     /\ E[i].tick <= E[j].tick
  /\ Has(E, "decision") /\ Has(E, "dispatched")
  /\ ~(Has(E, "pause_requested") /\ Has(E, "ignored"))
  /\ Has(E, "effect_sampled") => Brackets(E)

Receipt(E) == IF Has(E, "received") THEN "RECEIVED" ELSE "MISSING"

NativePaused(E) == The(E, "native_result").data = <<"paused">>

\* A request is enough.
ExecutionOnRequest(E) ==
  CASE Has(E, "native_result") /\ Has(E, "received") /\ Has(E, "pause_requested") -> "PAUSED"
    [] Has(E, "native_result") /\ Has(E, "received") /\ Has(E, "ignored") -> "CONTINUED"
    [] OTHER -> "MISSING"

Execution(E) ==
  IF ~Has(E, "native_result") \/ ~Has(E, "received") THEN "MISSING"
  ELSE IF Has(E, "pause_requested") /\ NativePaused(E) THEN "PAUSED"
  ELSE IF Has(E, "ignored") /\ ~NativePaused(E) THEN "CONTINUED" ELSE "MISSING"

Effect(E) ==
  IF ~Has(E, "effect_sampled") \/ Execution(E) = "MISSING" THEN "MISSING"
  ELSE LET d == The(E, "effect_sampled").data IN IF d[2] = d[5] THEN "QUIESCENT" ELSE "CHANGED"
-----------------------------------------------------------------------------
(* Artifacts, as records of one chain, each bound to its sources.          *)

Id(run, name) == run \o <<name>>

Ref(run, name) == [id |-> Id(run, name), chain |-> run]

Body(E, name) ==
  LET run    == E[1].run
      ref    == Ref(run, "decision")
      Bound(kinds) == {The(E, k) : k \in kinds}
      Control(event, side, kind) ==
        [type |-> "control", decision |-> ref, instr |-> run, digest |-> run, event |-> event,
         side |-> side, action |-> <<run, "pause">>, sources |-> Bound({kind})]
      paused == Execution(E) = "PAUSED"
  IN
  CASE name = "decision" -> [type |-> "decision", sources |-> Bound({"decision"})]
    [] name = "dispatch" -> Control("dispatched", "issuer", "dispatched")
    [] name = "receipt"  -> Control("received", "receiver", "received")
    [] name = "execution" ->
         [type |-> "execution", decision |-> ref, instr |-> run, digest |-> run,
          event |-> IF paused THEN "executed" ELSE "failed",
          action |-> <<run, IF paused THEN "pause" ELSE "continue">>,
          sources |-> Bound({"received", IF paused THEN "pause_requested" ELSE "ignored", "native_result"})]
    [] name = "effect" ->
         [type |-> "effect", decision |-> ref, exec |-> Ref(run, "execution"),
          observer |-> "same_executor", sources |-> Bound({"effect_sampled"})]

Names(E) ==
  <<"decision", "dispatch">> \o (IF Receipt(E) = "MISSING" THEN <<>> ELSE <<"receipt">>)
  \o (IF Execution(E) = "MISSING" THEN <<>> ELSE <<"execution">>)
  \o (IF Effect(E) = "MISSING" THEN <<>> ELSE <<"effect">>)

\* The chain that the session signs.
Artifacts(E) ==
  LET chain[n \in 0 .. Len(Names(E))] ==
        IF n = 0 THEN <<>>
        ELSE Append(chain[n - 1],
               [id |-> Id(E[1].run, Names(E)[n]), chain |-> E[1].run, by |-> "sdk", seq |-> n - 1,
                prev |-> IF n = 1 THEN R!Genesis ELSE chain[n - 1][n - 1], valid |-> TRUE,
                body |-> Body(E, Names(E)[n])])
  IN chain[Len(Names(E))]

Payload(a) == [id |-> a.id, chain |-> a.chain, by |-> a.by, body |-> a.body]

\* consume(): the artifacts are the projection of the sources, record by record.
Agrees(b) ==
  /\ b.sources # <<>> /\ Admissible(b.sources, b.run)
  /\ LET expected == Artifacts(b.sources) IN
     /\ Len(expected) = Len(b.artifacts)
     /\ \A i \in DOMAIN expected : Payload(expected[i]) = Payload(b.artifacts[i])

Clean(artifacts) ==
  \A c \in R!Checks(artifacts) : c.state \notin {"FAILURE", "INDETERMINATE"}

Matches(b) ==
  /\ Receipt(b.sources) = "RECEIVED" /\ Execution(b.sources) = "PAUSED"
  /\ Effect(b.sources) = "QUIESCENT" /\ Agrees(b) /\ Clean(b.artifacts)

\* Whose run it is does not matter.
MatchOfAnyRun(b, query) == Matches(b)

Match(b, query) == b.run = query /\ Matches(b)
-----------------------------------------------------------------------------
Returned == {x \in Sessions : s[x].bundle # <<>>}

Bundle(x) == [run |-> s[x].run, sources |-> s[x].bundle, artifacts |-> Artifacts(s[x].bundle)]

\* Safety.  A session is one run: it issues one command, its node is entered at
\* most once, the function runs at most once and never under a pause, whatever
\* raises, is retried or is called beside it; and what was spent stays spent.
SessionIsOneRun ==
  \A x \in Sessions :
    LET Count(kind) == Cardinality({i \in DOMAIN s[x].events : s[x].events[i].kind = kind}) IN
    /\ Count("decision") <= 1 /\ Count("received") <= 1 /\ s[x].ran <= 1
    /\ (s[x].honor => s[x].ran = 0)
    /\ s[x].bundle # <<>> => s[x].bundle = s[x].events

\* Safety.  A bundle tells its run: a pause that LangGraph stored, the function
\* that was run instead, a file that was equal at the two ends; the consumer
\* admits it and matches it if and only if the pause held.
BundleTellsRun ==
  \A x \in Returned :
    LET E == s[x].bundle
        pause == s[x].honor /\ s[x].held
        still == s[x].observed /\ The(E, "effect_sampled").data[2] = The(E, "effect_sampled").data[5]
    IN
    /\ Agrees(Bundle(x))
    /\ Receipt(E) = "RECEIVED" <=> s[x].entered
    /\ Execution(E) = "PAUSED" <=> pause
    /\ Execution(E) = "CONTINUED" <=> s[x].ran = 1
    /\ Match(Bundle(x), s[x].run) <=> pause /\ still

Dropped(q) == {[i \in 1 .. (Len(q) - 1) |-> IF i < n THEN q[i] ELSE q[i + 1]] : n \in DOMAIN q}

\* What can be made of the returned bundles without the key: sources or artifacts
\* of another run, or with one left out.
Made ==
  {[run |-> s[x].run, sources |-> E, artifacts |-> a] :
     x \in Returned,
     E \in UNION {{s[y].bundle} \cup Dropped(s[y].bundle) : y \in Returned},
     a \in UNION {{Artifacts(s[y].bundle)} \cup Dropped(Artifacts(s[y].bundle)) : y \in Returned}}

\* Safety.  Nothing made of returned bundles matches a question about a run that
\* did not pause before its function.
MatchMeansPaused ==
  \A b \in Made : \A x \in Sessions :
    Match(b, s[x].run) => x \in Returned /\ s[x].held /\ s[x].ran = 0
=============================================================================
