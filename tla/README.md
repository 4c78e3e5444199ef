# TinySDD in TLA+

TinySDD is a Node command line for specification-driven work. An operator
registers tasks, approves each one, lets a sandboxed worker produce a candidate
in a disposable copy of the project, reviews the candidate, applies it to the
project and accepts the task; a feature is accepted when its members are and an
integration command has passed, and its change is then archived into the living
specifications. Around that stand phase gates, qualification of workers by
benchmarks, the installation of skills and profiles, the capture of slices that
are implemented elsewhere, the release script and a benchmark of its own. This
directory models that program as TLA+ modules, checks them with TLC on small
instances and proves theorems about them with TLAPS. The code is the reference:
every definition was translated from the sources, and `PROJECT.json` names the
lines each one stands for.

- [Inventory](#inventory): the parts of the program, their state and hazards
- [Modules](#modules): what is modelled, and how state and actions correspond to the code
- [Runs](#runs): what TLC checks, on which instances, and what it shows
- [Disagreements](#disagreements-found): where the code and its documents differ
- [Proofs](#proofs): what holds for every value of the constants, and why
- [Limits](#what-is-only-model-checked-and-what-is-not-modelled)
- [Plan](#plan): what comes next

## Inventory

| Component (source) | State | Operations | Interacts with | What is hard | What makes it correct |
| --- | --- | --- | --- | --- | --- |
| Task life cycle (`controller.mjs`, `file-scope.mjs`) | tasks, approvals, reviews, applied runs, retirements in `controller.json`; files of the project bound by digest | task add, update, approve, apply, review, close, supersede; status and next | reads runs the worker wrote; every change goes through the lock | a worker run outlives its approval; one apply moves files that other tasks were accepted with; freshness is recursive over prerequisites | an acceptance is current only while all it binds is; nothing but content, approvals and reviews takes it away; what is applied was made under the approval that stands |
| Lock, transaction, rollback (`fs-utils.mjs`, `controller.mjs`) | lock directory and `owner.json`, the record file, project files | take lock, read record, plan, write, save, roll back, release | operator clears stale locks; editors ignore the lock | interleaving at each system call, crashes, each write and restore may fail | one holder; nothing reported is lost; all or nothing; the lock is given up |
| Worker, launch and stop (`worker.mjs`, `worker-launcher.mjs`, `bin/tinysdd.mjs`) | run directory: packet, workspace, output, result; `stop.json` of a launch | prepare the copy, run, stop, measure scope, write the result | packet from the controller, result to apply; signals between three processes | timers, output, stop and channel interleave in one event loop; a worker that ignores signals | every launch ends; a result is about what nothing writes any more |
| Checks (`check-channel.mjs`, `check-runner.mjs`) | request channel and budget of a run | request, freeze a copy, run, answer, drain | the sandboxed worker asks, the host runs | requests written twice, a run that ends meanwhile | the budget holds; no check outlives the run |
| Slice test review (`slice-test-review*.mjs`) | per-slice events ledger, one record file per event, intent files | assess, check, review, gates around worker, apply and accept, operator revision | called from inside reviewTask, applyTask and the worker | record and ledger are two writes, a budget of revisions, providers that fail | the route follows the events; the budget holds; a slice is accepted only on a current assessment |
| Feature acceptance and integration (`controller.mjs`, `feature-integration.mjs`) | feature events, usage in the report | feature accept | reads task states; runs an integration command; takes three locks | members, sources and configuration change while the command runs | what is recorded as accepted was there, together, at one moment |
| Living specification (`living-spec.mjs`, `change-format.mjs`) | specification files, change directories, the archive | prepare, archive, merge, recover | needs an acceptance; several writes under a lock | a crash between publication and merge; two changes of one specification | an archived change is merged; what was published was accepted |
| Ledgers (`feature-events.mjs`, `usage.mjs`, `phase-gates.mjs`) | append-only jsonl files | import usage, append, read all | nested under the controller lock | crash inside an append, limits on records | readers see what was appended or refuse |
| Phase gates (`phase-gates.mjs`) | phase ledger, an artifact per decision | approve, advance, status | digests of documents, qualification of the producer | artifact and line are two writes with a rollback; inputs are read one by one | the ledger stays readable; a phase is entered only on its predecessor |
| Qualification (`qualification*.mjs`, `benchmark-runner.mjs`) | results, index, records, references | run a benchmark, qualify, rescore, refresh, assess | dispatch asks it; results are files anyone may edit | reads without the lock; two files per record | no evidence is lost; qualified means measured |
| Setup and update (`setup.mjs`) | skills bundle, links, profile registry | setup, skills update, profiles update | files of other tools | no lock at all, failure half-way | nothing installed is lost; a setup that ends installed its bundle |
| Slice bundles (`slice-bundle.mjs`, `harness-adapter.mjs`) | exported bundle, capture, finalized evidence | export, begin, finalize | a foreign harness writes meanwhile; apply reads the result | everything is read file by file; failure and retry at every step | the evidence is one moment of the candidate, begun from the bundle |
| Semantic gate (`jev.mjs`, `semantic-policy.mjs`) | decision records | judge each criterion of a review | called by reviewTask before its lock | evidence changes while the judge answers | the verdict is about the evidence that is recorded |
| Context (`context-compiler.mjs`), compaction (`deterministic-compaction.mjs`), usage report (`usage-report.mjs`) | none over time | pure transformations | approvals bind the first, runs stage the second | moved citations, cut summaries, artifacts that are missing | shown is what was bound; nothing is dropped silently; nothing counts twice |
| Release (`scripts/release*.mjs`) | main and its tags, npm, GitHub releases | plan, prepare, push, publish, finish a pending release | four stores without a transaction | stops at any step, a store that shows late | one artifact per version; what was merged ships |
| Polyglot benchmark (`bench/polyglot`) | queue, results, attempt files, labels | plan, run, triage | containers, gateway, several hosts | stops between files and result, an infrastructure that goes away | every entry is recorded once, from its own attempts |
| Inference relay, runners, configuration, command line | none that outlives a call | forward, build commands, parse | | | |

The hazards this code is exposed to are listed in `PROJECT.json`, each at the
line where it bites, with the properties that would catch it going wrong, or
the reason why none does.

## Modules

| Module | What it is |
| --- | --- |
| `TaskLifecycle`, `MCTaskLifecycle`, `MCTaskRow`, `TaskLifecycleProofs` | the task record and the operations on it, each one step, but for the reading of a packet; instances; proofs |
| `ControllerStore`, `AtomicStore`, `MCControllerStore`, `ControllerStoreProofs` | lock, transaction and rollback, one system call per step; what the controller promises of its record and the project; instance; proofs and refinement |
| `SliceTestReview`, `MCSliceTestReview`, `SliceTestReviewProofs` | the events a slice's tests go through, the files that record them and the gates they open; instance; proofs |
| `FeatureDelivery`, `MCFeatureDelivery`, `FeatureDeliveryProofs` | acceptance of a feature, archiving and merging of its change |
| `Qualification`, `MCQualification` | benchmark results, qualification records and dispatch |
| `PhaseGates`, `MCPhaseGates`, `PhaseGatesProofs` | decisions and transitions of a feature's phases |
| `WorkerRun`, `MCWorkerRun` | one launch of a worker with its checks and operators |
| `SliceCapture`, `MCSliceCapture`, `SliceCaptureProofs` | export, capture and finalization of a slice implemented outside |
| `Installation`, `MCInstallation` | setup and updates of one home directory |
| `Release`, `MCRelease` | the release script over its four stores |
| `InstallLaunchReleaseProofs` | the proofs about `Installation`, `WorkerRun`, `Release`, `ContextCompiler`, `Compaction` and `FileScope` |
| `Polyglot`, `MCPolyglot` | the benchmark's queue and its processes |
| `BenchmarkProofs` | the proofs about `Qualification`, `QualificationScore` and `Polyglot` |
| `SemanticGate` | the judge before a review; its proof is in `ControllerStoreProofs`, and no run explores it |
| `FileScope`, `ContextCompiler`, `Compaction`, `QualificationScore`, `UsageReport`, each with its `MC` module | pure algorithms and what is claimed of them |

How they fit. `TaskLifecycle` and `ControllerStore` look at the same code from two
sides: the first takes each locked operation as a step and asks what the
operations do to the record, the second takes the operation's meaning away and
asks whether it is a step at all. `SliceTestReview` keeps of a task only what the
review of its tests looks at and adds the second lock and the second record.
`WorkerRun` opens the one step `FinishRun` of `TaskLifecycle`, `SliceCapture` is the
other way a run comes to be. `FeatureDelivery` takes the acceptance of a slice as
one step and opens what comes after it. `PhaseGates` sees of `Qualification` a
version of the producer's record. A module that has steps of reading reads what
the code reads, in its order, one step for each moment another program could
change it; a module that has none says so.

The stateful modules have a type invariant (`TypeOK`; `LaunchTypeOK` in `WorkerRun`,
`PolyglotTyped` in `BenchmarkProofs`; `Release` and `SemanticGate` carry theirs in
the inductive invariant). It is used while modelling and is proved; no run spends a
check on it.

### TaskLifecycle

| State | Code |
| --- | --- |
| `standing`, `shape`, `approval`, `review`, `applied`, `successors` | the entry of a task in `.tinysdd/runs/controller.json`: `closure`, the declared paths and inputs, `approval`, `review`, `applied`, `closure.supersededBy` |
| `project` | the project files that approvals and reviews bind by digest |
| `runs` | the directories under `.tinysdd/runs/`: packet, lineage, outcome, the copies before and after |
| `clock` | stands for the timestamps that make two digests of the same content differ |

Every operation of the controller on a task is one action (`AddTask`,
`UpdateTask`, `ApproveTask`, `CloseTask`, `SupersedeTask`, `FinishRun`, `FailRun`, `ApplyTask`, `AcceptTask`, `RequestRevision`,
`BlockTask`), and `EditFile` is the operator's editor. `Accepted` and `Status` are
`inspectTask`: acceptance is not a stored field but computed, recursively, from
the digests a review and its approval bind. Only `resolveTaskPacket` takes two steps,
because it holds no lock: `DispatchWorker` inspects the task and copies its approval,
`ReadPacket` reads the files again (`controller.mjs:1686`, `1696-1735`). What the
second reading compares with the approval is `Expected`; the brief is not among it, so
the packet gets the text the brief has by then.

What is abstracted: a digest of a file is its content; `inputs` and `protect`
stand for preparation files, checks, context manifest and protected files, all of
which an approval binds whole; excerpts that move inside a cited file count as
unchanged content (`ContextCompiler` has them); two paths overlap when they are
equal (`FileScope` has the aliases); a run that stays in scope creates or changes
files and deletes none; `extendedBy` keeps the digest of its last entry;
`tool_limit` is a kind of timeout; a run's copy and its result are made in one
step. The worker's name and the reason of its choice are left out, and so are
benchmark replays.

### ControllerStore and AtomicStore

A step of `ControllerStore` is a system call on shared state: `MakeLock` (mkdir),
`WriteOwner`, `AskOwner`, `ProbeOwner`, `ReadState`, `PlanApply`, `WriteFile`,
`SaveState`, `RestoreFile`, `RemoveOwner`, `RemoveLock`, each with its failing
twin where it can fail, and `Crash` at any of them. The record is the set of
operations it holds; which operation is legal is the other module's subject. The
order of the writes of an apply and of the restorations is left open. An atomic
file replacement is one step or a failure; a write that fails may have been done.
An editor may write any file at any moment; the operator clears a lock by hand
only when the process that made it is not running, as the quickstart asks. Reuse
of process ids and owners on another host are not modelled.

`AtomicStore` has one step per operation: `Commit`, `Refuse`, and the admitted
exceptions `Tear` (the rollback failed and the report says so), `Abandon` (the
process died) and `LoseEdit` (an editor wrote a file between the comparison and
the write). The refinement maps a file that the holder has touched to what it
held when the apply was planned.

### SliceTestReview

| State | Code |
| --- | --- |
| `ledger`, `records` | `events.jsonl` and `records/<event>.json` under `.tinysdd/runs/slice-test-review/` |
| `intent` | `pending/<task>.json`, the operator revision that is written down before the controller's record is saved |
| `held` | the operation that holds `workflow.lock`, how far it is and the event it writes |
| `working` | the worker that `withSliceTestWorkerGate` let run, between its two locked parts |
| `saving` | a revision review between `prepareSliceTestOperatorRevision` and the save |
| `runs`, `approval`, `review`, `applied`, `project` | what the gates read of the task's record, its runs and its files |
| `policy` | `config.testReview`, `None` when no review is active |

`Readable` is `history()`, the check each operation makes of all events of its
slice before it does anything; `Fresh` is `freshInput()`, `Acceptable` is
`assertAcceptable()`, the gate of apply and acceptance. An operation that asks a
provider or runs the checks holds the lock meanwhile (`StartAssessment` ..
`FinishAssessment`, `StartChecks` .. `FinishChecks`); each event is a step for its
record file and a step for its line. `ApplyTask` and `AcceptTask` call the gate
inside the controller's transaction and are one step. Sending a candidate back is
`PrepareRevision`, `SaveRevision`, `StartPublish`, `PublishEvent`, `LinkRecord`,
`ClearIntent`, and it may stop between any two of them.

What is abstracted: what an assessment captured is the run, the approval and the
event that captured it (a capture carries the time it was taken, so two never
agree); criteria, questions, evidence files, artifacts and dependency mounts are
folded into it. Of the worker's runs only completed ones that stayed in scope are
kept, and a run that the gate does not record is one step. One worker at a time
revises a slice. An operation that is refused holds the lock for a moment and
changes nothing; it is left out. An operation that fails and one that dies and has
its lock cleared are both `Interrupt`. Inputs edited during a provider's call
have the effect of a failure of the provider. A record that nothing would ever
write again is dropped when its operation is interrupted. Prerequisites of the
task are `TaskLifecycle`'s subject.

### FeatureDelivery

| State | Code |
| --- | --- |
| `specs`, `code`, `config` | the living specifications, the rest of the project, the configuration files with the integration command |
| `change` | `changes/<id>`: descriptors, draft and the bases the draft was made against |
| `slice` | the acceptance of the change's slice in the controller's record |
| `events`, `usage`, `torn` | `feature-events.jsonl`, `usage.jsonl`; which of them ends in a partial line |
| `archives` | `changes/archive` with the acceptance each was published under |
| `cut` | the changes whose merge an error or a crash cut off, until a later call completes it: read off the steps, no file says it |
| `locks`, `proc` | the controller, archive and usage locks; what an invocation has read and where it is |

`AcceptFeature` goes through `acceptFeature`'s reads one by one: the members, the
integration source and configuration, the command, the source again, the
configuration again, the members again, each comparison in its place, and
`AppendEvent` under the usage lock it takes before the last report. `ArchiveChange`
is `archiveChange` (report, stage, report, source, publish) followed by the merge
of each specification (`CheckSpecs`, `WriteSpec`); started on a published archive
it is the recovery. `ImportUsage` is the command that appends usage. `Fail` is an error
at any step: the write of a specification or the digest before it
(`living-spec.mjs:1033`, `1040`), an append that may have written part of its line; the
locks are given up. `Crash` leaves them, `RemoveLocks` is the operator's clearing. A specification's content is the set of what was written into it, so a
merge that loses another change is visible.

### Qualification

`current` is the identity of the configured worker and the suite, `results` and
`kept` the files under `.tinysdd/bench`, `index` is `evidence.json`, `records` and
`refs` the records and `profile-references.json`. `RunBenchmark` runs and
registers a result, `QualifyBenchmark` is the operator's recording,
`RescoreBenchmark` sets another target, `AssessQualification` is what a dispatch asks:
it reads the record, pools what is retained, refreshes under the lock and
decides. A record of an older version names no runs but an aggregate; while nothing is
retained for it, the refresh returns it as it is and the dispatch decides on the
aggregate (`ReadPool`, `Unnamed`; `qualification-dispatch.mjs:143-149`), and no run is
ever merged into it (`Combines`). Between these an editor changes the configuration, the suite or a
result, a write fails and is rolled back (`FailWrite`), or a process dies. A run
has one case; the Wilson interval is an integer inequality.

### PhaseGates

`RecordResearch` resolves the policy, takes `phases.lock`, reads proposal, context
and the producer's qualification one after the other, writes the artifact and
appends; `AdvancePhase` does the same with the selected decision. `FailAppend` is
`appendFile` throwing before, inside or after the line (`phase-gates.mjs:605`); the
artifact is removed in each case (`665-685`, `933-936`), and `lost` names the decisions
whose line was there after all. The ledger's format has rejections, but no operation
records one (`phase-gates.mjs:915`), so the model has none. `ChangeInput`, `ChangePolicy` and `TamperArtifact` are
other programs. `ResearchStatus` and `PlanStatus` are `phaseStatus`.

### WorkerRun

`launcher` is how far `runWorker` is; `child` the worker's process; `clock`,
`forced` the timers and the reason of a stop; `channel`, `asked`, `seen`, `handling`,
`count`, `log` the check channel; `result` is `result.json`; `operator` is `worker
stop` between writing `stop.json` and signalling. `Work` is the worker (it writes
files, calls tools, asks for checks, ends, or does neither), `Terminated` the system,
`Tick`, `Timeout` the timers, `Poll` and `Serve` the channel's callbacks, `Conclude` the
launcher's way from the worker's end to the record. Abstracted: the limits on
raw output, tokens and errors are one kind each with the tool limit and failure;
the second timer that kills is merged with the first; a poll in flight is the
last poll, which may be skipped; the relay is left out; the verdict of a check is
not told apart.

### SliceCapture

`ExportRead`, `ExportSnapshot`, `ExportWrite` are the exporter's reads and the write of
the bundle, whose manifest comes last; `BeginRead` .. `BeginRecord` those of
the capture; `Load(s, completed)` starts a finalization and `Works(s)` takes its next
step: lock, checks, retain the candidate's tree file by file, marker, result,
snapshot, release. `Fails(s)` and `Dies(s)` may come at every step. The files written in
place (`wx`, `harness-adapter.mjs:167`) may also be left without their end: the marker
by `BreakMarker`, the result by `BreakResult`, each with the value `CutOff`. `Edit`, `Approve`,
`Write` and `Spoil` are the operator, the harness and somebody who replaces a file.

### Installation

`bundle` maps each file of `~/.agents/tinysdd` to a version that may be cut short;
`aside` are directories that an update moved away and has not put back or
removed. Setup fetches, plans, writes the files that are missing one by one,
links and places the registry; an update moves the old directory aside, renames the
new one into place and discards the old one. `CutFile` is a failing write, `Crash`
leaves everything as it is.

### Release

A commit is its position on `main`. `StartRelease` clones; `Validate`, `Resume`,
`NothingToRelease`, `PrepareRelease`, `Push`, `Verify`, `CreateDraft`, `EnsureAsset`, `Submit`,
`Confirm`, `Announce` are the script's steps, for a pending release and for a new
one; `GiveUp` is a failing comparison and `StopRun` a stop for any other reason.
`Merge`, `Bootstrap`, `Enable`, `Show` and `Upgrade` are the developers, the operator, npm
and the runner's image. An artifact is the commit it was packed from and the
tools that packed it.

### Polyglot

`queue` is the lines of `queue.jsonl` and `resultLines` those of `results.jsonl`,
gathered by entry, since nothing reads them across entries; `torn` says that a
crash or an error cut one off. `cases` are the attempts' files, `leftover` what lay in the
first one's place when the run of an entry began, `labels` what the triage was shown, `run` the process of each host with its entries in flight (`Down` where it
is not running). `PlanBaseline` and `PlanConfirm` append to the queue, the second
only after the baseline as the runbook orders. `StartRun` reads queue and results
and keeps what is to do (`Todo`); `NextGroup`, `Take`, the steps of `Fly` and `End` are
the groups of one model, a lane, an entry's attempts and the end of a run.
`Interrupt` and `Kill` end a process, `EntryFails` is an error of an entry that is none
of the harness's and stops the run once the other lanes are done, `Switch` is the
infrastructure. An attempt may leave any of the entry's possible solutions or none;
where it leaves none, the file of an earlier attempt stays.

### SemanticGate

`Begin` .. `Review` follow `reviewTask` from the configuration read, over each
question to the judge, to the locked part, which reads brief and evidence again.
A call without an approval, or with the gate off, asks nothing. `Edit` replaces brief,
evidence, approval or configuration in between, and `edits` counts these. The judge
answers anything.

### The pure algorithms

Each of these modules has operators only. What they promise is an operator of the
module itself where it is proved for every input (`ShowsWhatWasApproved`,
`LegacyBindsFiles`, `ElidedOnlyIfRepeatable`, `NothingForgotten`, `AllowedIsOrdinary`,
`StatusFollows`), and an `ASSUME` of its `MC` module over bounded inputs in any case;
the stateful run named here evaluates these before it starts.

| Module | Claims | Over | Host run |
| --- | --- | --- | --- |
| `ContextCompiler` | `ContextBindsWhatItShows`: a fresh approval shows the approved lines; a unique move keeps it; an ambiguous one does not | all pairs of citations of a file of three lines, all edits of one block | `worker_run` |
| `Compaction` | `CompactionKeepsTheSpan`, `CompactionCarriesOn`, `CompactionReadsEarlierSummaries`: each message is kept whole or as a marker that can be followed; a second compaction carries the first one on; damaged summaries are refused, and those larger than the next compaction accepts | spans of up to three messages over two call ids | `worker_run` |
| `FileScope` | `AliasesAreCaught`, `DistinctNamesStayDistinct`, `AllowedChanges`: a path that some filesystem takes for a reserved one is refused, and one that none does is not | a root and one directory, each telling case and Unicode form apart or not, all probe answers | `worker_run` |
| `QualificationScore` | `SearchIsLeast`, `StatusFollowsResults`, `AttemptsCountOnce`, `RostersAreComplete` | counts up to 12 and near 60, ten targets | `qualification` |
| `UsageReport` | `UsageIsWhole`, `EveryRunIsCharged`, `RecordsCountOnce`: a total is known exactly when all its parts are; a run and a record count once | one run under every loss of its artifacts, up to three runs of two tasks | `feature_delivery` |

A moved citation is looked for where the code looks: the citations of a file
from one on move together, by any distance that keeps the first of them behind the
start of the file and all of them within it (`Shifts`,
`context-compiler.mjs:162-186`). `Classify` answers with the first of the
ten reasons for which a change is refused, in the code's order (`RefusalsOf`,
`ScopeReasons`).

Digests are the texts themselves; bytes are counted in lines; a marker has one
unit of size; a name is its letters, case and form; targets are tenths and the
interval's ends are decided by an integer inequality (625 * 1.96^2 = 2401); one
component of usage stands for the six.

## Runs

| Run | Distinct states | Question |
| --- | --- | --- |
| `task` | 1,262,566 | what gives an acceptance, what costs it, what an apply leaves fresh, what prerequisites may become |
| `store` | 991,648 | interleavings, failures and crashes of four invocations |
| `slice_review` | 432,573 | one slice under changing policy and approval; an applied candidate sent back beside another slice |
| `feature_delivery` | 1,385,961 | what an acceptance binds while its inputs change; an archive across errors and a crash |
| `qualification` | 2,155,200 | evidence and records, also an older version's, under concurrent refreshes and failing writes |
| `phases` | 311,213 | artifact, ledger and rollback under concurrent decisions |
| `installation` | 2,030,671 | unlocked setups and updates that stop half-way |
| `worker_run` | 621,938 | the end of a launch, whatever the worker, the checks and the operator do |
| `release` | 157,522 | what a stopped release leaves and the next one makes of it |
| `slice_capture` | 557,748 | evidence gathered while everything around it moves |
| `polyglot` | 539,360 | stops, restarts and retries of the benchmark's queue |
| `task_brief` | violation | which brief a worker was given |

`CHECK_DEADLOCK FALSE` throughout: all of these systems may stop (every task retired,
every bounded start used, every launch over).

**task.** Two beginnings in one run. From two accepted tasks of a row `p <- d <- z`:
each task may be given other prerequisites, all may be retired, and one run of `z`
rewrites the file `p` was accepted with; two stamps more than the start allow `z` to be
approved and accepted. A packet is read any time after the inspection. And from the empty record: one task whose two runs create a
file that is an extra path of the task, an allowed or a protected one, the second
run as a revision of the first or not. Two contents per file are enough: the code
only asks whether a digest is the same.

**store.** An apply of two files, the apply of its revision of one of them, a second
apply of the same run, and an operation of the record. Each starts once. That the
lock is given up is an invariant here (`LockReleased`): an invocation is a finite
program without a waiting loop, so one that is over, or that has returned, may not hold
the lock, and no fairness has to be assumed.

**slice_review.** The policies allow one revision, so the limit is reached; seven
events of one slice are the shortest way in which a mistaken budget would show. When the
policy is switched or the slice approved again, four events are followed; interrupted
operations leave at most two records without a line. The second beginning is the
state in which the first slice's candidate was assessed, checked, reviewed and
applied (four events); what follows covers the operator revision, the dispatch of its
worker and its candidate, or a number taken by the other slice.
`PublishedOnceCommitted` is checked under a policy that stays active there: with the
policy off an apply passes no gate and may slip in between. No liveness is claimed: a
slice may wait for an operator for ever.

**feature_delivery.** Two changes that touch one specification in common, two
invocations, up to five starts, two edits, two slice reviews, one usage record,
one crash, and an error at any step as often as a call is started: an edit on either side of every comparison, a second acceptance or
archive between any two steps of the first. The invocations are symmetric and only
invariants and step properties are checked.

**qualification.** Two invocations, two benchmark runs, two targets, an edit and a
fault: enough for a refresh, a rescoring or a run between the read and the write of
another, and for a rollback. The store begins empty or with a record of an older
version for the first identity, whose aggregate qualifies under one target.

**phases.** Two features and four ids, so an id may be repeated or taken by the other
feature; three records fill the ledger. One edit of an input, the policy or an artifact,
and one fault: a crash, or an append that fails with its line missing, cut short or whole.

**installation.** Three invocations of two versions on a bundle of three files (the
package file, the skill that marks it as installed, a document), two faults.

**worker_run.** One file, two requests, two checks, one operator; every limit can be
reached. Fairness: the launcher starts, its timers fire, its callbacks and awaits go
on, and the operating system ends a killed process. The worker, the operator, the
editor and the poll are owed nothing.

**release.** Three merges (no, a patch or a major release), two stops, one newer
toolchain. Fairness: a run that can go on does; a run that ended is started again,
as the next push or the operator does (`docs/releases.md`); npm shows a submission in
the end. The two ways it stays stuck are excluded by name (`Reproducible`), below.

**slice_capture.** One output, one cited source, two sessions, two writes, one edit,
one failure, death or write that breaks off. Fairness: a call that runs goes on, and the operator repeats the
finalization; strong, because the lock of the other session comes and goes.

**polyglot.** Four entries: two of one model in two lanes, one of the other, one that a
plan appends while the queue runs; three exercises, one in the holdout and one
excluded; one retry, one stop (an interrupt, a kill or an error). There are two contents,
and the entries differ in what their attempts may leave, so a solution that was left
over can be told from the recorded one. Fairness: the process runs, its calls return, and it is
started again. Nothing is assumed of the infrastructure: `QueueFinishes` only speaks
of the time it stays up.

### Disagreements found

The run `task_brief` expects a violation. A worker's packet is the approved task with
its resolved brief (`docs/cli-v0-implementation.md:61`), refused when the approval is
stale (`:64`), and the prompt calls it "Approved task packet" (`worker.mjs:930`). The
task is inspected (`controller.mjs:1686`) and the brief read again afterwards, without
the lock (`1696`); unlike the cited context, the checks, the evidence of a review, and
the brief of a benchmark (`1773`), the text is compared with nothing. The worker
checks that the packet fits its own digest (`worker.mjs:1465-1470`), apply only the
digest of the approval (`controller.mjs:1191-1220`). In the run the brief is edited
after the inspection and edited back when the packet is made; the candidate is applied
under an approval that binds the other text. `AppliedUnderCurrentInputs` therefore
speaks of everything an approval binds except the brief.

Four more sentences of the documents do not hold in the models; each was seen as a
counterexample of the property that states it. The behaviour is in the modules, and
the properties kept there exclude it by name where they must.

1. `docs/quickstart.md:1614` says that acceptance is refused until a run is applied
   again. A blocked review in between drops the record of the revised run
   (`controller.mjs:1949-1985`), and the rejected content is accepted.
2. `docs/quickstart.md:1611` says that a revision of an applied run applies over the
   applied files. If the revision takes a file back to what the first run started
   from, the plan from the lineage's root has nothing left to do for it and the
   rejected content stays (`controller.mjs:1537-1560`).
3. `docs/quickstart.md:1682` sends escalated assessments to `slice-tests check`.
   After a revision that returned no candidate, the check names the started
   assessment where the completed one is demanded
   (`slice-test-review-workflow.mjs:556` and `353-354`), and no later operation
   reads the slice's events again. `HistoryReadable` claims what remains.
4. `docs/quickstart.md:1677-1679` has the returned candidate reassessed. The worker
   gate needs the lock again on return (`slice-test-review-workflow.mjs:658`) and
   does not wait for it; while another slice is being assessed or checked the
   candidate is not recorded, and the route `dispatch-pending` leads nowhere.

Met while modelling, by component; none has a run of its own.

**Tasks and slice test review**
- An apply extends the acceptance of a prerequisite whose candidate file it
  rewrites, but if that prerequisite's own context cites the file, its approval is
  read against the new content and it goes stale (`controller.mjs:1612`;
  `docs/quickstart.md:1619` promises that it stays accepted).
- The worker builds a revision on a lineage of 32 runs; apply refuses the 33
  (`worker.mjs:424`, `controller.mjs:1236`).
- An intent that outlived its publication (a crash before the last `unlink`) refuses
  the operator revision of a later candidate (`slice-test-review-workflow.mjs:761`;
  `docs/quickstart.md:1696`).
- A blocked review between the ledger line and the record of an operator revision
  takes away what a repeated review would repair it by (`controller.mjs:1984`;
  `docs/quickstart.md:1699`).

**Feature delivery**
- The recovery of an archive writes specifications under the archive lock alone and
  without looking at acceptances; an edit by hand between its check
  (`living-spec.mjs:1013-1034`) and the write (`1039`) is lost, and one between the last
  read of the source and the merge leaves `ARCHIVE_RESULT_CONFLICT`. That is why
  `PublishedMerged` speaks of no edits (`docs/quickstart.md:738`, `745-749`).
- A merge of two specifications that a crash or an error interrupts half-way, one of
  which another change is merged into before the repeat, conflicts in every repeat
  (`living-spec.mjs:1013-1043`) and never completes. `PublishedMerged` leaves a change
  out from the interruption until a repeat of its archive has run to the end.
- A torn line in the feature ledger refuses all further acceptance and archiving.
- A usage import that comes while an integration command runs makes that acceptance
  fail at its end.

**Qualification**
- `casePasses` ignores a case's `outcome`, against `docs/benchmark-schema.md:90`.
- A dispatch's refresh undoes the target of a concurrent `bench rescore`
  (`qualification-dispatch.mjs:155-165`), and of two concurrent rescorings one is
  lost (`bin/tinysdd.mjs:585-588`; `docs/cli-workflow.md:937`).
- A crash between a record and its references makes every later operation of the
  store refuse (`qualification-store.mjs:496-506`, `666-694`). `StoreAccepts` excludes it.
- A lock that is busy makes a concurrent assessment answer "unqualified".
- A record of an older version, without sources or roster, qualifies by its aggregate
  alone, without any retained run (`qualification-dispatch.mjs:143-149`), until a run is
  retained for its identity; from then on nothing can be counted with it.
  `QualifiedOnEvidence` names this case.

**Phase gates**
- A required predecessor, other than the research before the plan, can never be met.
- An append that fails after the whole line was written (`phase-gates.mjs:605`) takes the
  artifact with it (`665-685`, `933-936`): the line names an artifact that is not there,
  and every later operation refuses the ledger. `LedgerReadable` names that decision.
- After a crash between artifact and line, a retry with the same `--id` is refused
  because the artifact is there.
- New benchmark evidence makes an approved research stale.

**Installation**
- A first setup that stops before the main skill leaves a bundle that a newer version
  can neither set up nor update; a file that was cut short makes every later setup
  refuse (`docs/quickstart.md:98`).
- Updates beside a setup mix versions; `SetupInstalls` excludes the undermined one.
  After a crash of an update there may be a moved directory and no bundle, with
  dangling links, until the next update.

**Worker**
- `status` and `stop` may report `interrupted` for a run whose result the launcher
  writes between their two reads (`bin/tinysdd.mjs:633-641`).
- The last poll of a stop may signal a process group that has ended; two stops at once,
  or an early one, kill the launcher, and no result is written.
- The context is compiled before the project is copied.
- A channel failure that is seen only while draining leaves the run `completed`.

**Slice capture**
- A bundle with a constitution is always refused (`slice-bundle.mjs:487-502` against
  `harness-adapter.mjs:497-516`; `docs/harness-adapters.md:3-4`, `17-22`).
- A session that dies leaves `finalization.lock`, and every later one is answered
  `HARNESS_FINALIZATION_IN_PROGRESS` (`harness-adapter.mjs:658`).
- `finalization.json` and `result.json` are written in place (`wx`,
  `harness-adapter.mjs:167`, `719`, `1024`). A write that breaks off leaves the beginning
  of the file, which every later finalization refuses. `RetryPublishes` excludes it, like
  the session that dies with the lock (`Undisturbed`).
- Once the retained tree is committed, any later write of the harness means
  `HARNESS_CAPTURE_STALE` for good.

**Release**
- A tag whose draft has no asset, met by a newer Node or npm, packs another archive:
  `RELEASE_ARTIFACT_MISMATCH` (`scripts/release.mjs:626`) in every later run.
- Publishing a version that was submitted and is not visible yet fails until npm shows
  it (`scripts/release.mjs:262-272`).
- A merge that edits the version in `package.json` blocks all releases, and a failed push
  leaves a local tag.

**Polyglot**
- A line of `results.jsonl` that a crash cut short makes every later command throw,
  although `RUNBOOK.md:43-46` calls the run resumable. `QueueFinishes` excludes it.
- `saveAttemptFiles` never clears an attempt's directory (`worker-run.mjs:91-103`): where
  the recorded attempt left no solution, the one of an attempt that was never recorded
  is shown as its own (`SPEC.md:125-127`) and given to the second attempt.
  `ShownAsRecorded` says exactly which: what lay there when that run of the entry began.
- `SPEC.md:190-194` stops at an unreachable infrastructure; the code stops after
  three entries skipped in a row.
- `summary.completed` counts entries that were given up; two plans at once may queue
  an id twice; two processes of one host duplicate results, which `RUNBOOK.md:47`
  forbids; all lanes of a group share `PI_CODING_AGENT_DIR`.

**Semantic gate, compaction and usage report**
- `enforce` blocks an acceptance when any criterion is below the reject threshold
  (`docs/jev-implementation-context.md:72`), but the gate reads brief and evidence, and
  whether there is an approval, before the lock (`controller.mjs:1928`), and the review
  reads them again inside it and binds what it finds then (`1946`). Without an approval
  the gate is skipped, and one that is given before the lock lets the review pass; so does
  an edit of the evidence after it was judged.
- A summary may be written with up to 4 MiB and is accepted as the previous one with up
  to 2 MiB (`deterministic-compaction.mjs:5-14`): a session beyond that is never
  compacted again (`PREVIOUS_SUMMARY_OVERSIZE`).
- `postOnce` clears its timer before the body of the answer is read; an unreadable
  configuration is taken for `off`.
- `aggregateMetrics` (`usage-report.mjs:127-132`) reports a sum that exceeds the safe
  integers when a part is merely unknown, unlike `aggregateSimpleMetrics` (`165-181`).
- A base run without a result whose packet names another task is charged to the task
  that revises it.

## Proofs

The theorems hold for every set of tasks, files, shapes, changes, invocations,
versions, entries and runs, and for every value of the bounds, from the named
assumptions in the modules. A proof module extends what it is about; smaller
components share one, as the table says, and so have names of their own for what
others call `Init`, `Next` or `Spec` (`LaunchSpec`, `ReleaseSpec`, `PolyglotSpec`,
`GateSpec`). The proofs are laid out alike: the inductive invariant as a conjunction
of named parts, facts on the data, one lemma for each action or group of actions and
part it can disturb, and the theorems at the end. TLC finds no violation of any of
these invariants on the runs' instances (`GateInvariant` has none, it is only proved).

| Module | Inductive invariant | Properties of the runs it proves |
| --- | --- | --- |
| `TaskLifecycleProofs` | `TypeInvariant`, `GraphInvariant`, `StampInvariant`, `PacketInvariant` | `GraphsSound`, `AcceptedCoversApplied`, `AcceptanceSurvives`, `AcceptanceNeedsReview`, `ApplyCostsOnlyTouched`, `AppliedUnderCurrentInputs` |
| `ControllerStoreProofs` | `StoreInvariant` | `LockReleased`, `ReportedStaysSaved`, `CandidatesAccounted`, `EditsBeforePlanStay`, `AllOrNothing` |
| | `GateInvariant` | none of a run: `EnforcedAcceptanceJudged` while nothing is edited |
| `SliceTestReviewProofs` | `ReviewInvariant` (and `SentBack`) | `HistoryReadable`, `BudgetHeld`, `DispatchUndisturbed`, `IntentPublishable`, `AppliedVetted`, `PublishedOnceCommitted` |
| `FeatureDeliveryProofs` | `DeliveryInvariant` | `AcceptedTogether`, `PublishedMerged`, `ReportComplete`, `PublishedUnderAcceptance` |
| `BenchmarkProofs` | `QualificationInvariant` | `StoreAccepts`, `QualifiedOnEvidence`, `EvidenceStays` |
| | `PolyglotInvariant` | `RecordedOnce`, `ShownAsRecorded` |
| | none (one evaluation) | `StatusFollows` |
| `PhaseGatesProofs` | `PhaseInvariant` | `LedgerReadable`, `PlanNeedsResearch` |
| `SliceCaptureProofs` | `CaptureKept` | `EvidenceAgrees`, `RetainedOneMoment`, `StartedFromBundle` |
| `InstallLaunchReleaseProofs` | `InstallationInvariant` | `InstallationKept`, `SetupInstalls` |
| | `LaunchInvariant` | `CandidateSettled` |
| | `ReleaseInvariant` | `OneArtifact`, `InOrder` |
| | none (one evaluation) | `ShowsWhatWasApproved`, `LegacyBindsFiles`, `ElidedOnlyIfRepeatable`, `NothingForgotten`, `AllowedIsOrdinary` |

Every invariant and action property of the passing runs is in the table. Proved and
not a property of a run: the type invariants; mutual exclusion of those who write,
wherever a lock gives it (`OneHolder`, `LocksExclude`, `OneInvocationAtWork`, `OneStoreWriter`, `FinalizersExclude`);
`DependenciesOpen`, `DependenciesAcyclic` and `SupersessionAcyclic` (parts of
`GraphsSound`), `ApplyKeepsOwnBinding`, `ResultFinal` (once a result is there, whole or
cut short, no step changes any part of the evidence), `FirstReasonRecorded` (a run's result names the
first reason it was stopped for), and `ModelsTakeTurns` (within one host
process of the polyglot benchmark the entries at work are of one model, in that model's
directory and no more than it has lanes; what two hosts do at once, or what a server has
loaded, is not part of it).

**TaskLifecycle.** The type invariant is not inductive by itself: `LineageOf`
and `ContextText` look into runs by number, so `TypeInvariant` adds that the
lineage and task of each run, and the start of each applied one, name runs that
exist (`RunsSound`, `AppliedSound`). `GraphInvariant` carries both `DependenciesOpen`
and `DependenciesAcyclic`: the code sorts only what the changed task reaches, and a
new cycle would have to run through that task, so nothing else need be looked
at. `SupersessionInvariant` needs that an open task has no successors yet.
`SoundGraphs` joins the three for the property the run checks. `StampInvariant` says
that approvals and acceptances on record are older than `clock`: without it a new
approval could equal an old one and bring a lost acceptance back
(`AcceptanceNeedsReview`). `AcceptanceSurvives` goes through all actions that leave
project, approvals and reviews alone and shows that what `Accepted` reads is
unchanged. `Accepted` is the largest set of tasks that support each other, so
`AppliesCostTouched` needs no induction along the prerequisites: if nothing was
rewritten that a task and its prerequisites were accepted with, these tasks
support each other as before (`UntouchedStays`). `AppliedCurrent`, which leaves the
brief out, needs
`PacketInvariant`: a run keeps the approval it was dispatched under, and a stamp is
never given twice, so the same stamp means the same approval.

**ControllerStore.** `StoreInvariant` has five parts. `HolderInvariant`: who is in
the locked part made the lock directory. `RecordInvariant`: what a holder read is
still on disk, and an operation reports success exactly if it is recorded.
`PlanInvariant`: a file still to be written holds what the run started from, or an
edit; a file touched holds that, the candidate, or an edit. `SourceInvariant`:
each content of the project has an operation that accounts for it. Mutual
exclusion, `LockReleased`, `ReportedStaysSaved`, `CandidatesAccounted` and
`EditsBeforePlanStay` follow, and `StoreIsAtomic` shows that each step maps to a
step of `AtomicStore` or to a stutter.

**SliceTestReview.** `ChainInvariant`: every event fits where it stands, which is
more than the readers ask, and there are no more dispatches up to an event than
its count of revisions says; that count is bounded by the policy. What makes it
inductive is what the other three carry over the gaps between two steps of an
operation: what the holder of the lock is about to write still fits
(`HeldInvariant`), a worker's dispatch stays the last event of its slice
(`WorkInvariant`), and a pending operator revision still follows the review it was
made for (`IntentInvariant`). `AppliedIsVetted` then reads a readable history
backwards. `PublishedCommitted` is stated for policies that are always active
(`None \notin Policies`), as in the run: with the policy off an apply passes no gate.
It needs one thing more (`SentBack`): from the controller's save on, the candidate
that was sent back is neither applied nor accepted until the event is published.

**FeatureDelivery.** An acceptance compares the project twice with the candidate
it retained, and an edit may be undone between the comparisons, or so it seems.
`AcceptInvariant` rests on contents that never come back: preparations are numbered,
and a specification only gains changes, or edits while its changes stay (`Before`,
`Older`). So what is equal at both ends was equal throughout, also at the moment in
between at which the members were inspected. `ArchiveInvariant`: a specification has
a change's requirements only if the change is archived; therefore no merge meets
them already and each one adds. `HeldInvariant` keeps what a lock's holder has read,
and `MergeInvariant` says where a published change that was not cut off stands at each
moment until its last specification is written (`Standing`), and that whoever writes,
in a repeat too, has left nothing out (`Writes`): that is what lets a repeat that runs
to its end take the change out of `cut`.

**Qualification.** `StoreInvariant`: the writer of a record works on the record it
has read, because nobody else has the lock; between its two files the references
bind the record as it was. `RunInvariant`: two benchmarks never measure the same
run, and a run that passed was verified with the suite of its identity.
`EvidenceInvariant`: each run of a record has a result of the record's identity, and
what an assessment pooled is still kept unless it was edited since. An assessment that
pooled nothing answers with the record it read, of an older version and without a run;
a record with such an aggregate has no runs (`Records`) because `Combines` guards the
only write that could add one.

**PhaseGates.** `ArtifactInvariant`: record ids are unique, a record's artifact is as it
was written unless it was touched by hand or its own append failed after the whole line
(`lost`), and the artifact that a failing append may still remove belongs to no record. `SelectionInvariant`: the
research an advance selected stays the latest of its feature until the line is
written, since only the lock's holder appends. Readability and the order of
research and plan follow.

**SliceCapture.** Files are read one by one while the harness writes, so no
state of the code says that what was read is a tree. `SessionInvariant` keeps a
witness (`Between`): some tree of the candidate's past lies between the first
reading and the second. When both agree, the retained files are that tree. It
is inductive because a harness never writes an older content again, and because
`FinalizersExclude` keeps every other session from the evidence meanwhile.
`CopiedAfter` does the same for the bundle's snapshot, whose checks come first. A marker or
result that broke off is evidence of nothing and stays: `BreakTakes` shows that it
disturbs none of this, and `ResultStands` that a result, whole or not, is the last word.

**Installation.** Nobody holds a lock here. `AsideOwned`: a directory that was moved
away belongs to the update that is about to rename or to discard, and holds only
what this update replaces. Thereby `KeptInvariant` may say more than the property:
what was installed is in place or in a directory that nobody is about to remove.
`AllKnow` is what a setup may rely on from the files it found or wrote, as long as no
update moved the bundle; the flag `wx` keeps others from taking it away.

**WorkerRun.** What `CandidateSettled` says of the end is ruled out stage by stage.
`ChildInvariant`: the process lives only while the launcher captures its output.
`ScanInvariant`: a request is handled only within a scan, and a scan that began
then is over before the launcher measures, since it waits for the queue
(`Drain`). `ResultInvariant`: nothing is recorded before, and afterwards no step that
could change the candidate or the list of checks is possible.

**Release.** No step of a run reads its stores in one moment, but the tags change
only under the one run at work. `ClonePlans`: from `Validate` on, the clone's tags are
origin's and its head reaches them, so the plan is made from the newest tag
(`NewestTag`, by the greatest commit) and names a newer version (`BumpedIsNewer`).
`PushInvariant`: a prepared version is newer than every tag, and every tag is
released; that is what `~Pending` of the newest tag gives, because `OrderInvariant`
holds of the older ones. `ShipInvariant`: what a run uploads is the artifact its
version's tag records. `TagInvariant` relates commits and versions, and says that
only the first tag lacks an artifact.

**Polyglot.** A line of results is appended long after the queue was read, and any
number of hosts run at once. `Assigned` says that what a process still has to run,
or runs, belongs to the models its host serves and has no result; it is inductive
because there is one process per host and a model has one host
(`PolyglotAssumption`; `RUNBOOK.md:35` and `47` ask for the first, `models.json` gives
the second), because an entry leaves the process in the step that appends its line, and
because a process that starts again reads the lines first. `FlightFits` and
`LinesFit` say how many attempts there are at each step of an entry and that the
first of them, or what was left over when it left nothing, is what its case directory
shows; the label of a triage then shows what was recorded (`LabelsFit`).

**SemanticGate.** `EnforcedAcceptanceJudged` says of an acceptance under `enforce` that
it binds the brief and evidence its gate had read, and that these were let through
(`LetThrough`): each criterion was answered, none below the threshold, and recorded, or
a record says that nothing could be asked or no answer was had. The code holds it only
for the behaviours without an edit (see the disagreements), so that is what is proved,
however many reviews run at once and whatever the judge answers. `GateInvariant`: what a
call that passed the gate has read was let through (`CallSound`), it is current as long
as nothing was edited (`CallCurrent`), and the review on record is one such call's
(`ReviewSound`).

**Scores.** `StatusesFollow` compares two Wilson intervals whose centre and width both
change with one more result. `ExcessOutweighs` and `ExcessGrows` bound how far
both sides of the inequality move; the rest is arithmetic.

**Context, compaction and file scope.** These are theorems on one evaluation, without
a bound on the length of anything. `ApprovedLinesShown`: the text an approval
digests names the lines and the numbers they were read under, so two equal texts show equal
excerpts, moved or not. `ConversationCarriedOn`: what a compaction summarises and
what it keeps are two halves of the same sequence (`CutAlike`); the reading of an
earlier summary puts its items before them. `AliasesAreRefused` follows a path
down a reserved one: where a directory was probed, the probe answers as the
filesystem does (`ProbesAreTrue`), and where it was not, every spelling counts as
an alias.

**Assumptions.** They are as weak as the code gives: bounds are natural numbers,
a table has the shape its users read, `Touches` names specifications. Where a
variable is either a record or `None` (a file that is missing, a lock nobody
holds), `NoneAssumption` says that `None` is none of the records, as JSON's `null` or
`ENOENT` is none; `NothingAssumption` (`Release`) and `PolyglotAssumption` (`Absent`)
do the same, and `UneditedAcceptanceJudged` has it as its hypothesis, `Absent \notin
Briefs`. `MarksAssumption` (`FeatureDelivery`) says that an edit's mark is
not a change's name, `IntentAssumption` (`SliceTestReview`) that a pending intent is
not `None`. TLC evaluates them on every run.

**Finite sets and least elements.** What needs a last event, a first file or the
bottom of a recursion is proved with the well-founded order of the natural numbers
or with finite sets (`LastExists`, `Least`), not by an induction over an operator,
which the provers used cannot instantiate.

## What is only model-checked and what is not modelled

- Liveness under fairness (`LaunchEnds`, `ChangesShip`, `RetryPublishes`,
  `QueueFinishes`) stays with TLC: the prover has no rule for it here.
- Of the pure algorithms, what a fold or a search computes for every input is an
  induction over data, out of the reach of the provers used: the sums of
  `UsageReport`, the search and the counts of `QualificationScore` (`SearchIsLeast`,
  `AttemptsCountOnce`, `RostersAreComplete`), the reading of damaged summaries, and
  `DistinctNamesStayDistinct`, the converse of what is proved of `FileScope`. They
  are evaluated over the bounded inputs above.
- The run `task_brief` refutes its property, and no theorem says anything of the brief a
  worker was given. `SemanticGate` is the other way round: no run explores it, what is
  true of it is proved (above).
- A crash in the middle of an apply is in `ControllerStore` only, whose files have
  no approvals: what the status of a task is after such a crash is not modelled.
- A torn line of the slice-test-review ledger is left out: it stops every later
  operation on every slice, like that of the other ledgers, where it is modelled.
- Not modelled, because it has no state over time or moves bytes only: the inference
  relay, the runners and sandboxes, configuration and model documents, parsing and
  output of the command line, research packets and constitutions, the benchmark's
  reports, the polyglot benchmark's cards, statistics and exports.
- The process ids of the system are never reused in any module.

## Plan

1. A composition of a crashed apply with the task's status.
2. `Release` with two runs at once, should the workflow's concurrency group go.
