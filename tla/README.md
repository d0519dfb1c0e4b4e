# Verification of the AI runtime evidence protocol

TLA+ models of the parts of this repository that decide something: who was
really paused, what may be written where, and what a reader may conclude from
the evidence it was given. TLC checks the models on small instances; TLAPS
proves the results listed below for every value of the constants.
`PROJECT.json` names, for every definition that models code, the source lines it
stands for.

    tlc -workers 2 -config Evidence.cfg MCEvidence.tla
    tlapm Evidence_proofs.tla

## 1. Inventory

| Component | State it keeps | Operations | What is hard | Modelled in |
|---|---|---|---|---|
| Multi-target delegation (`integrations/langgraph/multitarget`: capture, worker, transport) | harness phase and event log; per worker a server loop, an event log, a business thread and its effect file; Unix sockets | start, configure, pause, forward with retry, sample, snapshot, exit, kill | three kinds of threads, bounded waits, lost responses, retries, duplicates, failing workers | `Delegation` |
| Its consumer (`multitarget/consumer.py`) | none | admit or refuse a report, credit targets | journals of four processes that must agree, or may lawfully not | `DelegationReport` |
| Local runtime harness (`integrations/langgraph/run.py`) | events; worker process; two pipes, two barriers | start, stop, observe, clean up, project | one deadline over all waits; a stop nobody reads; silent workers | `RuntimeRun`, `RuntimeReport` |
| Observation boundaries (`boundaries/`) | observation windows by nonce; peers; a signing key | start and end a window, release, close, abort; admit a schedule | an effect in flight, windows left open, forced kills, a cleanup that fails | `BoundaryRun`, `BoundaryReport` |
| Durable pause and resume (`durable/`) | checkpoint and business databases | pause process, resume process, samples; overlap rule | replay of a node re-executes an effect; kill between two writes | `DurableRun`, `DurableReport` |
| Temporal consumer (`temporal/`) | none; a replayed history | capture, project, admit, evaluate at a cutoff | supersession, duplicates, conflicts, late arrival | `TemporalConsumer`, `TemporalCapture` |
| SDK session (`sdk/python/src/airep`) | one-run flags, events | wrap, invoke, project, consume | misuse in sequence, failure half way, bundles put together from parts | `HookSession`, `HookReport` |
| Evidence producer and writer (`tools/airep_v02/producer.py`, `__main__.py`) | a cursor per process; files | open on a new chain or on `--previous`, emit, exclusive create, write | no lock: races for a path, forks, crashes, refused records, lost files | `EvidenceChain` |
| Lifecycle reconciler (`tools/airep_v02/reconcile.py`, gate in `verify.py`) | none | over twenty kinds of checks on a list of artifacts | evidence that is missing, copied, forged, contradictory or taken from another decision | `Reconciler`, `Supply` |
| Hermes corpus (`integrations/hermes`) | fixtures, inputs and summary on disk | regenerate, check, validate | three tables that must agree; replacement in three steps without a lock | `HermesCorpus`, `Hermes` |
| Class verifier (`class_verifier.py`) | none | eleven-stage ladder, witness and observer assessment | rules for references that differ from the reconciler's | observer assessment only, in `Reconciler` |
| ENAS v0.1 (`spec/airep/v0.1/conformance`) | live obligations, transitions, closure; last poll of the feed | create, discharge, transform, close; poll | operations after close; a missing sample or a change of identity | not modelled |
| Everything else: LightEval and EvalEval adapters, interop packages, reports, fixtures | none between calls | conversion, comparison, rendering, data | - | not modelled |

How they interact. Workers, controllers and the SDK turn what they did into
artifacts through `Chain`; an artifact links to its predecessor by digest and to
other artifacts by reference. Readers call `reconcile()`, which admits each
artifact, has `evaluate_request()` authenticate it, and checks chains,
references, groups and effects: `RuntimeReport`, `HookReport` and `HermesCorpus`
instantiate `Reconciler` and ask it about the artifacts they project. The
delegation and boundary captures carry a cross-process report of their own,
which their consumers admit. The durable consumer is an overlap rule on top of
the temporal one, and `DurableReport` instantiates `TemporalConsumer`.

What makes each correct:

* Delegation: a target is paused at most once and writes nothing after that;
  parents stop before children are asked; no capture hangs; a target is credited
  only if it really stopped before it was sampled, and always if the injections
  allowed it; reports of honest processes are admitted.
* Runtime harness: each experiment shows what it was written to show under every
  interleaving; what is reported as an executed stop held; every run ends, with
  its worker reaped or said not to be.
* Boundaries: a schedule says that all targets paused only if they did, even if
  rows of it are left out or exchanged; a failure leaves nothing behind.
* Durable: an effect happens once per key; a killed worker is never a pause; a
  dispute between overlapping windows of one epoch is never outvoted.
* Temporal: the answer about a window is the truth about that window; late or
  foreign reports are inert; only accepted revisions overturn.
* SDK: one session is one run; the bundle tells that run; nothing made of parts
  of bundles passes for a pause that was not.
* Producer: a complete artifact is never damaged; a refused record takes no
  position; commands that share nothing but files leave an attached tree.
* Reconciler: a clean result entails an authorised, received, effective
  execution; a failure stays a failure when more evidence arrives; loss never
  looks like contradiction; independence is claimed for the right artifact only.
* Hermes: the artifacts of a scenario say what its facts say; the verdict of a
  command is about the whole output.

The hazards behind these, each at its line, are in `PROJECT.json`, the uncovered
ones included.

## 2. Modules

    DelegationReport     the consumer's checks, as operators on journals
      Delegation         the capture: harness, workers, threads, sockets
        DelegationVerdict  its properties        PauseOnce  the abstract promise
          MCDelegation     instances             Delegation_proofs
    RuntimeRun           parent and worker of one experiment
      RuntimeReport        project(), and the properties     Runtime_proofs
    BoundaryRun          controller, workers and observer
      BoundaryReport       the consumer, and the properties  Boundary_proofs
    TemporalConsumer     admit() and evaluate(), as operators on deliveries
      TemporalCapture      captured runs and their replay
        MCTemporal         properties, authored reports       Temporal_proofs
    DurableRun           two processes over one checkpoint
      DurableReport        projection, overlap rule, properties  Durable_proofs
    HookSession          sessions of a caller around a graph
      HookReport           mapping, consumer, properties     Hook_proofs
    Reconciler           reconcile() and the observer gate, as operators
      EvidenceChain      the writers
        EvidenceProperties its properties        EvidenceTree  the abstract promise
          MCEvidence       instances             Evidence_proofs
      Supply             a list of evidence that grows, and its properties
          MCSupply         instances             Supply_proofs
    HermesCorpus         the eleven scenarios
      Hermes               the commands around them, and the properties
        MCHermes           two processes

### Delegation

`phase`, `idx`, `events` and `seen` are the local variables of `capture()`. For
each worker, `srv` is the place of its server loop with the locals of one
request, `biz` its business thread with the `cancel` event and the rows of
`effects.jsonl`, `log` its event log, and `delivery` the log as it was signed.
`queue` is the listen backlog, `sock` the one call each process can have open.
Each iteration of a loop, each wait that returns and each `emit` that another
process can observe in between is an action.

Abstractions:

* An attempt id, a fresh UUID in the code, is (sender, receiver, length of the
  sender's log): no two sends share it. Ticks are the order of events, and hex
  and exact bytes are equality of records. The path of a command follows from
  the topology and is left out.
* Signatures and `binding.py` are left out: journals are what the processes
  wrote. Reports altered on purpose are outside this model, and so are the
  consumer's checks that only such reports fail (key and process identities,
  line formats, the bound of 64 events, which no worker can reach with at most
  two receipts).
* `connect` and `sendall` of a request are one step, and so are `emit('reply')`
  and the sending of the reply. A reply to a closed socket raises
  `BrokenPipeError` and ends the worker. An expired wait is two steps, the
  expiry and the unwinding that closes the socket, so that an answer can come
  in between and is lost without an error.
* A worker forwards to one child, as `worker.py` does (`next_target[0]`).
* An exception of the harness kills every worker at once.
* The aggregate of the consumer is `BoundedPause` for all targets.

### RuntimeRun and RuntimeReport

`p.todo` is what `collect_run()` has left to do, one element per statement that
another process can tell from the next; `w` is the place of `worker()` with the
rows of `effects.jsonl`, its exit code and its ends of the pipes. `unread` is a
stop in the control pipe, `queue` the telemetry pipe, `expired` the one deadline.
A pipe can be written while any process holds its reading end, the parent's own
copies included until they are closed. The worker may raise at any statement,
die before `worker()` is entered, or stay where it is for ever. `RuntimeReport`
is `project()` and the call of `reconcile()` on its artifacts.

### BoundaryRun and BoundaryReport

`c.todo` is `capture()` unrolled for its scenario; `schedule` is what it records
of each message sent and received. `proc` holds per process what its main thread
has left, the pipes, the effect thread and the file. A window is named by its
target, where the code draws a nonce. Errors may happen at any statement, waits
may expire at any time (`faults` remembers), a send to an ended process breaks
its pipe, and the cleanup is the `finally` of `capture()`, peer by peer. What the
namespaces of a worker hide is one row of the schedule, the probe.

### TemporalConsumer, TemporalCapture, DurableRun, DurableReport

A delivery is a source, the event that claims to project it and whether its
artifact verifies. `TemporalConsumer` takes the projection as a parameter, as
`admit()` takes a source policy. `boundary`, `predicate_id` and the arrival time
never differ in the captures and are left out. `TemporalCapture` runs one
worker after another on one clock, then delivers any selection of the reports,
as captured, under a damaged signature, or signed for the opposite status.
`DurableRun` runs the pause process and the resume process with LangGraph's
checkpoint and the SQLite ledger; the events of a phase reuse the ids of the
other, as in the code.

### HookSession and HookReport

`s` holds the fields of the sessions and two ghosts, `ran` and `held`: how often
the caller's function ran and whether LangGraph stored the control's interrupt.
`call` is the invocation in progress, `stored` the last checkpoint of each
thread. The caller may use sessions and threads in any order, its code may
interrupt, raise, be retried or swallow the interrupt, and anybody may change
the observed file. `HookReport` is the mapping and the consumer.

### EvidenceChain

`disk` gives per path absent, torn or whole; `cursor` gives per process what it
is doing and its `Chain` object. A command opens, emits once, creates its file
exclusively, completes it and exits; any failure ends it. A library session
catches failures and emits again. Any writer may die at any point. An artifact
is a record that contains its predecessor: `integrity.current` is taken as a
collision-free digest. `valid` is the verdict of `check_core`. Each writer holds
its own key. Reading a torn file fails, as it is not JSON; writing to stdout and
the other subcommands have no shared state and are left out.

### Reconciler and Supply

`Checks(A)` is the list of checks of one call with their states; details, the
evidence lists and the counts are left out. `A` maps occurrences to artifacts;
the order of the list is never used by the code except to name an artifact that
is refused. `Standing` gives per producer what stages 2 to 5 of the class
verifier make of its records, and `Independent` the pairs that pass the
three-condition gate (distinct identities, distinct keys, policy). Profile
evaluations and the witnessed tier do not reach the checks and are left out.

`Supply` adds one artifact at a time, so that each state is one call and each
step is more evidence. The artifacts are of any origin, not only what honest
writers produce.

### HermesCorpus and Hermes

`HermesCorpus` is the three tables of `generate_fixtures.py`, facts, artifacts
and expectations, with the checks of `verify_fixtures.py` on one scenario.
`Hermes` is the processes: an item of the output is absent, half removed, or
made by a revision of the code; revisions differ in every item, and what a
revision requires of another's files may or may not hold.

## 3. Runs

| Run | Instance | Distinct states | Asks |
|---|---|---|---|
| `delegation_injections` | the six captures of `capture.py` on three targets, and two targets in both topologies under every refusal, retry, drop and missing endpoint; 2 rows, no fault | 175,130 | `TypeOK`, `VerdictIsExact`, `PauseOnceSpec` |
| `delegation_faults` | one link with retries and a lost response; expiring waits, late pause, failing business, failing start; fairness | 104,811 | `ResponsesAreReplies`, `ParentStopsFirst`, `CreditedTargetsAreSettled`, `DeliveredOnce`, `AdmittedUnlessExpired`, `CaptureEnds`, `PauseIsReported` |
| `runtime` | all six experiments, four business steps; fairness of the parent | 9,374 | `ExperimentShowsItsPoint`, `WorkerReaped`, `StopHolds`, `RunEnds` |
| `boundary` | all four captures, a fault anywhere | 14,854 | `CaptureShowsItsPoint`, `AllMeansAll`, `CleanUnlessPipeBroke` |
| `boundary_keys` | the same | violation | `KeysRemoved` |
| `temporal` | three captures in sequence, ten authored reports; three deliveries | 8,015 | `WindowsTellTruth`, `RevisionsSurviveCutoff`, `LateIsInert`, `FlipsAreRevisions` |
| `durable` | both modes, failure and kill at every step, every selection of reports | 744 | `EffectsOnce`, `SavedIsWhole`, `HonestIsSettled`, `DisputeIsSeen` |
| `hook` | two sessions, two threads, one change of the file | 261,077 | `SessionIsOneRun`, `BundleTellsRun`, `MatchMeansPaused` |
| `evidence` | two commands and a library session, three paths, two ids, sequences up to 2 | 183,459 | `TypeOK`, `OneOwner`, `WrittenOnce`, `OneShotTree`, `AncestorsAdmissible`, `FailureMeansFork` |
| `supply` | three pools of artifacts, see below | 19,354 | `NothingUnauthorised`, `IndependenceProven`, `LinksOrderChain`, `FailuresStand` |
| `supply_copies` | lifecycle with contradictions and copies | violation | `ConflictsReported` |
| `hermes` | two processes, two revisions, eleven scenarios | 598,961 | `FixturesTellFacts`, `VerdictTellsDisk` |

What they show:

* Delivery. A request is handled at most once, and only if its sender logged it,
  although it may be handled after the sender gave up. A recorded response is
  the very reply the receiver logged for that attempt.
* Verdict. A finished capture is admitted exactly when none of its sends
  expired: a receiver that may have acted after its sender gave up is never
  counted, and no other injection or failure makes an honest report
  inadmissible. Without faults no capture is abandoned and credit goes exactly
  to the targets that the injections let a pause reach. With faults, a credited
  target had stopped for good before its first sample.
* Experiments. The barriers of `run.py` order stop and checkpoint as intended:
  no dispatched stop is left unread by a worker that looks for one. Events that
  amount to an executed stop are followed by no row, even in a run that fails.
* Windows. The observer is never asked about a window it does not hold, unless
  something failed; a worker that acknowledges a release that expired in its
  thread cannot make an observation say more than was seen.
* Time. A settled answer about a captured window is the truth, whichever subset
  of genuine and damaged reports arrived.
* Replay. The node that starts over after a resume repeats its effect under a
  new key or under none, never under both.
* Sessions. A session that raised is spent: its control is never executed by a
  later use of the graph.
* Files. The three properties that depend on `O_EXCL` hold over crashes and
  races; a torn file blocks its path for good and nobody's artifact is lost to
  another's. Hermes has no such guard: a mixture of revisions may be left on
  disk, but no check or validation that runs alone accepts it.
* Chains. A `chain_link` FAILURE over any part of what honest writers stored is
  evidence of a fork, never of loss, even where a session went on after it
  failed to store an artifact.
* Reconciliation. See the comments of the properties in `Supply.tla`.

Bounds, and why they are enough. `MaxRows = 2`: a row before and one that races
with, or would follow, a pause. `BusinessSteps = 4` is the code's constant.
`MaxSeq = 2` is a genesis, a link and a link to a link: a gap, a skipped record
and a fork all fit. Two commands and a session, as every race here is between
two; three paths, so that both may succeed and one be contested; two ids, so
that one can be reused. Three deliveries are a report, its revision and a
contradiction. Two sessions over two threads give every way of mixing two
bundles; one change of the file makes its two samples differ, and the caller's
function may change it back. Two revisions make a mixture. The pools of
`supply`: a complete lifecycle of five artifacts and five look-alikes, all at
once (ten artifacts); the lifecycle with seven contradictions, two copies of
each, up to six elements (a group, a contradiction and a copy); and ten records
of one chain, two copies each, up to six. Every one is named in a configuration
or in an MC module.

Symmetry. In `evidence` the two commands, the paths and the ids are
interchangeable: no definition chooses among them, and every property is a
safety property. In `hermes` the two processes are.

Deadlock is checked where a system should only stop in a state that says so: a
finished delegation capture may stutter (`Terminated`), and commands and
writers can always start anew. It is not checked where the model ends with the
run it is about: a finished runtime, boundary or durable run, a caller whose
sessions are spent, a list or a replay that is at its bound.

Fairness. `delegation_faults`: weak fairness of the harness, of each server loop
and of each business thread, which are threads the operating system schedules;
no expiry, failure or crash is forced, so that the property does not lean on the
eight-second timeouts. `runtime`: weak fairness of the parent, which the
operating system schedules, and of the deadline, since time passes; nothing is
asked of the worker, which may hang anywhere. Every wait of the parent is
bounded by that deadline or by the two-second joins of its cleanup.

Each property comes with a mutation of a mapped definition that violates it
under the same run; the mutated forms stand before the definitions they change
(`StoppedOnCancel`, `CreateOrTruncate`, `LateSample`, `EndpointLeftOpen`, ...).

## 4. Findings

`supply_copies`: RECONCILIATION.md says that conflicting Control authorizations
of a group must be reported without choosing one, and that checks that depend on
an ambiguous identity are not evaluated. `reconcile.py` takes non-unique records
out of the groups (line 55) before it compares. So when Controls *a* and *b* of
one instruction authorise different actions, `authorization_agreement` is
FAILURE; once a second copy of *a* is in the list it is SATISFIED, with the
detail "All Control authorization digests compared." The duplicate itself is
named by `record_identity`, and the summary turns from FAILURE to INCOMPLETE.
`FailuresStand` says how far this goes: evidence under an identity of its own
never turns a failure of a group into anything better.

`boundary_keys`: `boundaries/README.md` says that keys are removed before
capture returns, including failures. When a worker has ended before it is sent a
command, `Peer.send` raises `BrokenPipeError` with the bytes still buffered;
`Peer.abort` in the cleanup closes that pipe, which flushes again and raises, and
the loop at `capture.py:132` is left before the key of the observer, killed a
moment earlier, is unlinked. Peers started after the broken one are not killed
either. `CleanUnlessPipeBroke` shows that this is the only way.

## 5. Proofs

For every value of the constants that satisfies the named assumptions:

| Theorem | Module | States |
|---|---|---|
| `TypeCorrect` | `Delegation_proofs` | `Spec => []TypeOK` |
| `CaptureImplementsPauseOnce` | `Delegation_proofs` | `Spec => PauseOnceSpec` |
| `EveryReceiptWasSent` | `Delegation_proofs` | `Spec => []DeliveredOnce` |
| `EveryResponseIsReply` | `Delegation_proofs` | `Spec => []ResponsesAreReplies` |
| `ParentsStopFirst` | `Delegation_proofs` | `Spec => []ParentStopsFirst` |
| `CreditIsEarned` | `Delegation_proofs` | `Spec => []CreditedTargetsAreSettled` |
| `AdmissionIsExact` | `Delegation_proofs` | `Spec => []AdmittedUnlessExpired` |
| `ArtifactsAreTyped` | `Evidence_proofs` | `Spec => []TypeOK` |
| `Ownership` | `Evidence_proofs` | `Spec => [](TypeOK /\ OneOwner)` |
| `NeverOverwritten` | `Evidence_proofs` | `Spec => WrittenOnce` |
| `CommandsGrowTree` | `Evidence_proofs` | `Spec => OneShotTree` |
| `AncestorsAccepted` | `Evidence_proofs` | `Spec => []AncestorsAdmissible` |
| `FailuresAreForks` | `Evidence_proofs` | `Spec => []FailureMeansFork` |
| `LinksOrderEveryChain` | `Supply_proofs` | `Spec => []LinksOrderChain` |
| `IndependenceAlwaysProven` | `Supply_proofs` | `Spec => []IndependenceProven` |
| `SettledMeansAuthorised` | `Supply_proofs` | `Spec => []NothingUnauthorised` |
| `EveryFailureStands` | `Supply_proofs` | `Spec => FailuresStand` |
| `CutoffsPartNothing` | `Temporal_proofs` | `Spec => []RevisionsSurviveCutoff` |
| `LateEvidenceIsInert` | `Temporal_proofs` | `Spec => LateIsInert` |
| `OnlyRevisionsOverturn` | `Temporal_proofs` | `Spec => FlipsAreRevisions` |
| `WindowsAlwaysTellTruth` | `Temporal_proofs` | `Spec => []WindowsTellTruth` |
| `EffectsHappenOnce` | `Durable_proofs` | `Spec => []EffectsOnce` |
| `SavedCapturesAreWhole` | `Durable_proofs` | `Spec => []SavedIsWhole` |
| `DisputesAreSeen` | `Durable_proofs` | `Spec => []DisputeIsSeen` |
| `CapturesCleanUp` | `Boundary_proofs` | `Spec => []CleanUnlessPipeBroke` |
| `EverySessionIsOneRun` | `Hook_proofs` | `Spec => []SessionIsOneRun` |
| `EveryMatchMeansPaused` | `Hook_proofs` | `Spec => []MatchMeansPaused` |
| `EveryBundleTellsItsRun` | `Hook_proofs` | `Spec => []BundleTellsRun` |
| `EveryExperimentShowsItsPoint` | `Runtime_proofs` | `Spec => []ExperimentShowsItsPoint` |
| `EveryWorkerIsReaped` | `Runtime_proofs` | `Spec => []WorkerReaped` |
| `ExecutedStopsHold` | `Runtime_proofs` | `Spec => StopHolds` |

Arguments:

* `TypeCorrect`. `TypeOK` is not inductive: the request a server is handling
  must be a command while it is busy, a forwarding server must have a child, and
  an open socket must carry a command. `TInv` adds this (`CallInv`).
* `CaptureImplementsPauseOnce`. `PauseInv` adds, per target, that a worker that
  was not started has done nothing, that one that reported a pause has no thread
  left that writes, and that one that did not has no report in its log
  (`Quiet`); and that the harness starts the targets in order, each once
  (`Started`, where the assumption on `Order` is used). Every step then shows one
  target moving by one action of `PauseOnce`, several going down, or nothing.
* `EveryReceiptWasSent`, `EveryResponseIsReply`, `ParentsStopFirst`. A command
  is numbered by the length of its sender's log, so no two are equal
  (`NumberedIn`); a backlog holds each pause once, and only one that was sent
  and not yet received (`DeliveryInv`). `ResponseInv` adds that a socket holds
  only a reply its receiver logged, that a busy server handles a pause that was
  sent to it, and that only a worker that paused and does not refuse forwards.
* `CreditIsEarned`. A credited target answered in time, but a second pause of it
  might still be on its way when the effects are sampled, and a worker that
  handles one late would pause after the first sample. `CallsInv` says that in
  every log an outcome follows its send and that an open call is the last entry;
  `TaintInv` accounts for every pause that is pending: its callers wait for one
  another up to the harness, or one of them has lost its call. After the last
  dispatch nobody waits, so that what is still pending descends from a lost
  call; and the report of such a run is not admitted with the receipt of that
  pause, because a delivered child demands a delivered parent whose attempt
  ended in a response or an end of file.
* `AdmissionIsExact`. The consumer compares every journal with every other, so
  the invariant says what each holds at the end, in parts that are proved one by
  one (`AdmitInv`, inductive beside `CreditInv`): each root was dispatched in its
  turn and got an outcome (`EventsOK`); every target was visited by every loop of
  the harness (`VisitsOK`); replies take turns with receipts, and what was
  received is answered, being handled or lost with the process (`RepliesOK`).
  Three parts relate one party's outcome to another's snapshot, each up to
  descent from a lost call. A request that reached its target's backlog is
  received before the snapshot: it was ahead of it in the queue (`ReachOK`). A
  request whose call failed was never received, or its target ended before the
  snapshot, or the response was dropped and the connection closed (`LossOK`). And
  what a worker sends after its own snapshot descends from a lost call sent
  before one (`LateOK`). Now if nothing expired then every reported call is
  settled, so that by `LateOK` nothing is lost, hence nothing descends from a lost
  call, and the other two parts give what the consumer checks of each attempt. If
  the report is admitted then an expired call was received in time or its parent
  descends from a lost call; the one contradicts the check of its outcome, which
  must then be an end of file, the other the admitted receipt of the parent. A
  behaviour that is aborted loses all this, and has no report.
* `Ownership`. `OneOwner` is inductive with the types: only an absent file is
  created, and only by one step. Each step of a writer is quiet, creates or
  completes (`StepKinds`); `NeverOverwritten` reads off the same three cases.
* `CommandsGrowTree`. `TreeInv` adds that the cursor of a command stands on a
  stored artifact or on one attached to it. A session may continue an artifact
  it could not store, so `EvidenceTree` lets the artifacts of sessions be loose;
  what they store is still continued by commands from disk.
* `AncestorsAccepted`, `FailuresAreForks`. `LineInv` says that every artifact on
  disk or under a cursor was accepted with all before it, and continues an
  emitted artifact of its chain or opens one. The predecessors are a recursive
  function, so that the proofs argue by a least number: a set of naturals that
  is not empty has one (`LeastNumber`, from the library's `WFMin`), and neither
  the lengths at which the walk back is undefined nor those at which the walks
  from an artifact and from its predecessor disagree have one. A link of an
  honest writer fails only if its predecessor is not supplied and another
  artifact is, at the position before; both hold that position.
* `Supply_proofs`. The supply stays finite with natural sequences (`SupplyInv`);
  the rest follows from the definitions of the checks. `LinksOrderEveryChain`
  needs that a satisfied link reaches the greatest sequence below, and that a
  finite set of them has one.
* `EveryFailureStands`. An artifact under a new identity leaves the artifacts of
  every used identity what they were, so a resolved reference stays resolved to
  the same one; groups that were decided only grow, and a set of digests that
  was mixed cannot become uniform.
* `CutoffsPartNothing`, `LateEvidenceIsInert`, `OnlyRevisionsOverturn`. No
  invariant is needed: what was admitted keeps the contract of an event, so that its times are natural, and deliveries only
  accumulate. A revision is later than what it revises in both times
  (`RevisedIsSelected`); a foreign report changes neither the selection nor the
  errors, conflicts and clocks of a query (`ForeignIsInert`); and a report that
  was settled and is active no more was superseded by a new one.
* `WindowsAlwaysTellTruth`. A sample compares two reads of the file, and a write
  that lands between its first stamp and its first read, or after its second
  read, would make it lie. `TellInv` of `Temporal_proofs` excludes both, for any
  sequence of captures. The scripts are proved equal to tables of statements
  (`ScriptsAreTables`); `PlaceOK` says what is left of each and how many
  readings have been taken. In a run that ignores its pauses, `OrderOK` counts
  the commands that were sent and not yet taken and the barriers that were
  heard, which holds the worker at an `advance` whenever the parent is inside a
  half of a sample: it writes only when three of the six readings have been
  taken (`WorkerIsHeld`). So a first read counts what was written before its window
  opened, and a second all that has been written so far (`SampleOK`); what is
  written later is after the window, because a write takes a tick. A worker that
  does not ignore its pauses never writes. Each report then tells the truth of
  its run (`Tells`), a damaged delivery keeps its source, and an answer that is
  settled rests on an admitted report (`SettledRestsOn`).
* `EffectsHappenOnce`. `LedgerInv` adds that the key of a row is determined by
  mode, obligation and phase, and that no key occurs twice (`InsertKeepsKeys`).
* `SavedCapturesAreWhole`. `CaptureInv` places the parent on its script of 28
  statements, of which four concern workers (`ScriptMarked`): outside the two
  waits the last worker has ended by itself and nobody was killed, or the
  capture has failed for good; and a worker that did not fail has, at each place
  of its phase, committed the rows in the order of `KeyAt`, and stored and
  recorded the checkpoint. A killed worker keeps a code or a mark that its reap
  turns into a failure.
* `DisputesAreSeen`. No invariant is needed. No report of a capture supersedes
  another, so that what is admitted and selected is active. Two samples whose
  windows overlap are both among the reports the overlap rule compares or, if
  the windows are the same, among the rows of the temporal consumer; a report
  that is not admissible, or of another clock, leaves the stage open anyway.
* `CapturesCleanUp`. `CleanInv` says that a living process is listed until the
  capture is over, and that one that is gone has nothing left to do: no key is
  made after the sweep has passed its process. The script does not matter.
* `EverySessionIsOneRun`. `RunInv` follows an invocation place by place: before
  the issue the session is fresh; the node is entered if and only if the receipt
  is an event; the function ran at most once and only when the pause was not
  honoured; what is stored as paused was held.
* `EveryMatchMeansPaused`. No two sessions have a run id in common, an event in a
  bundle made of returned ones is an event of some session that returned, and
  the consumer admits only bundles whose sources name one run; so the events of
  a match are those of one session, whose paused native event means it was held.
* `EveryBundleTellsItsRun`. `TellInv` adds to `RunInv` the tale an invocation has
  told at each place: which kinds of events it holds in which order, at which
  ticks, and which versions of the file the sample read. A returned bundle is
  then one of a few tales, whose five artifacts are evaluated against every
  family of the reconciler's checks. `Artifacts` is a recursive function; its
  equation is obtained from a witness.
* `EveryWorkerIsReaped`, `ExecutedStopsHold`. `RunInv` of `Runtime_proofs` says
  of the parent's script that it has one start, first, and that its `finally`
  block comes last; past the join the worker is dead, with code 0 and not forced
  unless the run failed. Nothing is told before the start; and an interrupt is
  told only by a worker that has left its action for good.
* `EveryExperimentShowsItsPoint`. A run may return only after a whole history of
  barriers, messages and reads, so `PointInv` adds four things to `RunInv`: what
  the parent owes is in the order of its script (`OrderOK`) and what it does not
  owe it has done (`ParentOK`); nothing follows `worker_finished` in the
  telemetry (`TelemetryOK`); the rows of the file fit the place of the worker
  (`ActionOK`), and a stop that is read was dispatched (`DispatchOK`); and, as
  long as the run has not failed, what makes its scenario: a stop sent early is
  in the pipe until the first checkpoint reads it (`EarlyOK`), one sent during
  the action is read at the second, because the worker waits for `continue`
  after its first row (`LateOK`), and no other run reads one (`UndisturbedOK`).
  A run that returns owes nothing, which leaves one set of artifacts for each
  scenario (`EachOutcome`). What the reconciler says of such a set is then
  proved family by family of its checks, with their names (`AnsweredChecks`):
  the two chains are whole, every reference resolves, and a failed delivery, an
  action that went on, or a report that was never made is exactly what is held
  against it.

Assumptions, all named in the modules that declare the constants and evaluated
by the runs: distinct parties, `Order` a list of every target once, intents over
these targets, a positive row bound; sessions are writers, "none" is not a path,
a natural sequence bound; supplied sequences are natural (as the schema demands)
and independent pairs have two members (as the gate demands); modes and
scenarios are those of the code; no authored event is about a captured run, whose
identity is drawn by `uuid4` (`temporal/capture.py:104`) while an authored one is
a literal of `temporal/fixtures.py`.

Only model-checked: liveness, which the prover does not reach; `VerdictIsExact`,
which holds of the intents that its run enumerates and not of all (where a
target is sent more than two pauses, its worker refuses to sign the snapshot and
the capture is abandoned), and whose credited targets are a least fixed point
over the topology (`Reached`), to be argued by induction; `VerdictTellsDisk` of
`Hermes`, which rests on the tables of the corpus. Four others are about finite
families that the code fixes and the run enumerates, so that a theorem would say
no more: the four scripts of the boundary captures (`CaptureShowsItsPoint`,
`AllMeansAll`), the two modes of the durable harness (`HonestIsSettled`) and the
eleven scenarios of the corpus (`FixturesTellFacts`).

## 6. Plan

Done: the places where processes interact, the readers they report to, and the
reconciler on which these depend. Next, in this order:

1. Proofs: for which intents no capture is abandoned, which with
   `AdmissionIsExact` gives the first half of `VerdictIsExact`;
   `VerdictTellsDisk`.
2. `ClassLadder`: stages 1 to 11, in place of `Standing`.
3. `Obligations` and `GateFeed`: the ENAS orchestrator against its reconciler,
   and the feed over samples that may be missing.

## 7. Not modelled

Parsing and lexical bounds of input, JSON canonicalisation, cryptography,
profile evaluation, explanation and rendering, report pages: pure and
sequential, covered by fixtures. The LightEval and EvalEval adapters convert and
compare files in one pass and keep nothing between calls. The command line of
the SDK wraps `consume()` in exclusive file creation. The ENAS tools belong to
the earlier v0.1 profile, which nothing in v0.2 calls; two hazards of theirs are
listed without a property. Two more are: that the workers of a capture whose
start failed are reaped (`Abort` kills them all in one step, as the `finally`
clause does, so no property of the model could fail), and that a continued cursor
accepts an identity its chain used before (only the reconciler reports it).
Interop packages, corpora, external evidence and
documents are data, or code without state of its own.
