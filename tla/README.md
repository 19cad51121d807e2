# A verification development of allure-report

`allure-report` is a Gauge reporter plugin: Gauge Core sends it callbacks and a
final suite result over gRPC, and it writes Allure result files into a directory.
This directory holds TLA+ modules of the parts of it that are concurrent or have
to survive failures, the TLC configurations that check them on small instances,
and proofs, checked by TLAPS, for every instance. Paths below are relative to the
root of the repository.

## 1. Inventory

| Component | State | Operations | Modelled in |
| --- | --- | --- | --- |
| collector engine, `internal/collector` | under `Engine.mu`: `finalized`, `uuids`, `results`, `live`, `startEvents`, `warnings`, `summary` | `ScenarioEnding`, `Finalize`, `FinalizeInterrupted`; nine notifications | `Collector`; `Lifecycle` (notifications, `startEvents`, `live`) |
| gRPC server, `internal/server` | listener, `stop sync.Once` | `Serve`, 12 RPCs, `Kill`, signals | `Reporter`; `Lifecycle` (dropped notifications) |
| writer, `internal/output` | the results directory, the ownership marker, temporary files | `Prepare`, `write`, `atomicReplace` | `ResultsDir` |
| mapper, `internal/mapping` | none (stateless) | `MapLiveScenario`, `MapSuite`, `mapItems`, containers, parameters | `Mapping`; `Lifecycle` (keys, retries, ranges, parameters of a row); what the collector sees of it in `Collector` |
| status, timing | none | `FromStep`, `FromExecutionStatus`, `Resolve`, `Clamp` | `Mapping`, `Lifecycle` (`Resolve`) |
| attachments | none; reads the file system | `Copy`, `Bytes`, `Messages` | `Attachments` |
| identity | none | `CanonicalPath`, `AttemptKey`, `HistoryID`, UUIDs | `Lifecycle`, by what they tell apart |
| metadata, config, logging, version, command line | none after start | parse, detect, print | not modelled (section 7) |
| build and release tooling, `build/`, `scripts/`, `.github/` | - | - | not part of the program |

How they interact. The server runs each RPC in a goroutine of its own and all of
them call the one engine. The engine calls the mapper (no shared state, may fail,
draws random UUIDs) and the writer (shared directory, may fail) *outside* its
mutex, so an RPC is a sequence of critical sections with unprotected work in
between. `Kill` first finalizes, then stops the server from a goroutine that
sleeps ten milliseconds; a signal cancels the context of `Serve` and stops it
without finalizing. The next launch finds the directory as the last one left it.

What is hard, and what makes it right:

* two callbacks, the suite result and `Kill` overlap: an attempt keeps one UUID,
  attempts never mix, one finalization happens, final data is not overwritten;
* writes fail one by one: the rest of the report is written, the failure shows as
  a warning or an error, memory never claims what the disk lacks;
* the process dies between two steps: acknowledged scenarios are on disk, artifacts
  are whole, the next launch starts from a clean directory;
* the timeline: steps lie in their parents and follow each other whatever durations
  Gauge reports, a failure is never hidden under a passed parent, a scenario that
  failed shows where;
* callbacks of parallel streams, rows of one table and retries share names: a start
  event, a UUID, a range and a history identity belong to one attempt;
* the source of an attachment changes while it is copied: what is published is whole,
  and a result names only what is there;
* shutdown: the process does not end inside a report, a run that Kill cut short
  leaves a trace, Kill stops the process;
* cleaning: a user's files survive.

`PROJECT.json` lists every hazard with its line, also the ones no module reaches
yet, and the properties that cover it.

## 2. Modules

| Module | What it is |
| --- | --- |
| `Collector` | `internal/collector/collector.go` with the results of the mapper |
| `AttemptReport` | abstract: what a reader of the directory may see of each attempt |
| `Reporter` | extends `Collector` with `internal/server/server.go` |
| `ResultsDir` | `internal/output/writer.go` over several processes |
| `ArtifactStore` | abstract: artifacts appear and disappear whole, in one step |
| `Attachments` | extends `ResultsDir` with `internal/attachments/attachments.go` and the results that name attachments |
| `Lifecycle` | the notifications of parallel streams, `internal/identity`, and what the final suite finds of each attempt |
| `Mapping` | `internal/mapping/mapping.go` with `internal/status` and `internal/timing` |
| `MCCollector`, `MCReporter`, `MCResultsDir`, `MCAttachments`, `MCLifecycle`, `MCMapping` | values of the constants for TLC |
| `CollectorProofs` | theorems about `Collector`, and that it implements `AttemptReport` |
| `CompletionProofs` | theorems about `Collector`: errors, completeness, the summary, memory against disk |
| `ReporterProofs` | theorems about `Reporter`, on those of `CompletionProofs` |
| `ResultsDirProofs` | theorems about `ResultsDir`, and that it implements `ArtifactStore` |
| `AttachmentsProofs` | theorems about `Attachments`, on those of `ResultsDirProofs` |
| `MappingProofs` | theorems about `Mapping` |
| `LifecycleProofs` | theorems about `Lifecycle` |

Operators whose comment starts with `Mutated:` are plausible bugs of the operator
defined after them. No specification uses them: they exist to show that each
property can be violated by an error in the code.

### Collector

A step is one critical section of `Engine.mu` or one write of an artifact. Work on
local data (mapping, joining errors) is part of the step after it.

| Code | Model |
| --- | --- |
| `Engine.uuids`, `results`, `warnings`, `finalized`, `summary` | variables of the same names |
| `<uuid>-result.json`, containers, metadata files, the proto dump | `files`, `containers`, `metadata`, `dumped` |
| where a goroutine is, what it returned, its locals | `pc`, `reply`, `artifact`, `plan`, `todo`, `boxes`, `current`, `unmapped`, `errs` |
| a random UUID | the pair of the RPC that drew it and the key it drew it for |
| the content of a result | the pair of the RPC that mapped it and the attempt it describes |
| `ScenarioEnding`: map, lock, compare the UUID, map again, register, write, store | `ScenarioMapped` or `ScenarioConflict` and `ScenarioRemapped`, `StreamResult`, `StoreResult`; failures `ScenarioRejected`, `StreamResultFails` |
| `Finalize`: test and set `finalized`, map, write results, containers, metadata, finish | `AlreadyFinalized`, `SuiteRejected`, `NilSuiteMapped`/`SuiteMapped`, `DumpSuite`, `WriteResult`, `RecordResult`, `WriteContainer`, `CollectWarnings`, `WriteMetadata`, `FinishStrict`/`Finish` |
| `FinalizeInterrupted`: check, then mark, then summary, or `Finalize(nil)` | `KillChecked`, `KillMarked`, `KillSummarised`, or `Finalize` |
| `handleError` | `HandleError`, part of the step that fails |

Setting `finalized` and copying the UUID map are one critical section and
`MapSuite` works on that copy, so `BeginWriting` does all three. The suite result
is chosen freely: any set of attempts and diagnostics, of which the mapper may
lose some. The order in which `MapSuite` sorts its results is arbitrary for the
engine (start times, then keys), so `WriteResult` takes any of them. Containers
carry their scope and children; all scenarios are of one specification. Counts by
status in the summary are replaced by the set of results counted.

Constants choose the configuration (`Streaming`, `Strict`, `ProtoDump`,
`Configured`), which operations may fail (`Faults`: mapping, writing, metadata)
and what Gauge guarantees: `SuiteLast`, the suite result is sent when every
callback has returned, and `KillLast`, Kill is sent when the suite result has. The
first is how Gauge behaves (docs/architecture.md, startup and finalization); the
code does not enforce it.

### Reporter

Adds `server` (serving, draining, stopped) and `stopping`. An RPC is accepted only
while the server serves; `StopServer` is the goroutine of `Kill`, `Interrupt` the
cancelled context, `Drained` the end of `GracefulStop`, which waits for the RPCs
in flight. That waiting is grpc-go's behaviour, modelled as its documentation and
the code's use of it have it.

### ResultsDir

The directory maps names to files; a file is the run that wrote it (0: the user)
and whether it is whole. `Prepare` is the sequence `Inspect`, `ReadMarker`,
`ReadDirectory`, `Remove` in the order of `os.ReadDir` (temporary files, the marker,
the artifacts), `TruncateMarker`, `WriteMarker`; any of its calls may fail
(`PrepareFails`). `write` is `CreateTemp`, `Copied`, `Publish`, or `WriteFails` and
`Discard`. `Crash` may come between any two. What the model assumes: one process
at a time uses the directory; a crash loses the process, not the machine (`Sync`
matters only for the second); the removal of a temporary file of a failed write
succeeds (the code ignores its error); a user leaves files between two launches,
not during one, and no file named like a temporary one.

### Attachments

Adds the source of a screenshot, which belongs to the language runner, to the writes
of `ResultsDir`. `Replace` puts another file in its place or removes it, `Resize`
changes its size where it is, also where it is open; both may come between any two
steps of `Copy`.

| Code | Model |
| --- | --- |
| a file | its identity, its kind, whether it is inside the project, its bytes as a number |
| `Copy`: `Lstat` and the checks, `os.Open` and `sniff`, `WriteAttachment`, `io.Copy` | `Inspected`, `Opened`, `CreateCopy`, `CopiedBytes`, then `EndCopy` |
| `Bytes`, and `Messages` through it | `Buffered`: a content that nobody changes |
| an error before the writer is called, or in it | `NotCopied`, `CopyFails` |
| `io.LimitReader` and the two comparisons after the copy | `Bytes`, `CopiedBytes` |
| `attachStep` and `fixture` append what was copied, or fail in strict mode | `References`, `CreateResult` |

A link and what it leads to are looked at in one step; the search roots, the media
type and the extension are left out. The copy reads the size that the file has when
it ends. A temporary file of an attachment has the number of bytes that `content` says.

### Lifecycle

| Code | Model |
| --- | --- |
| `Engine.startEvents`, `live`, `uuids`, `finalized` | variables of the same names; a start event also remembers what it was the start of |
| the result files | `files`, by UUID: attempt, range, stream, history identity, live or final |
| `correlation`, `AttemptKey`, `HistoryID`, `testParameters` | `Correlation`, `AttemptKey`, `HistoryID`, `Logical`: tuples of what goes into the string |
| `ExecutionStarting` ... `ConceptEnding` | nine actions of these names; the server may drop one with its context (`RecordedOrLost`) |
| `ScenarioEnding` | `MapLiveScenario`, then `ScenarioEnding` (start event, `uuids`, `live`, file), or `ScenarioRejected` |
| `Finalize`, `MapSuite` | `Finalize` with `SuiteKey`, `SuiteUUID`, `SuiteResult`: what it finds under the key it derives from the count of attempts |

Gauge is part of the module: each stream works through its queue, opens and closes
scopes, repeats an attempt or goes on, and sends the suite result when all are done.
The conflict path of `ScenarioEnding` cannot be taken here, because the calls of one
attempt come from one stream; `Collector` has it. The write of a snapshot is part of
`ScenarioEnding`, since nothing here looks in between.

### Mapping

`MapSuite` over the scenarios of one specification; one process, no shared state.
What makes it hard is its recursion and its arithmetic, so the model keeps both.

| Code | Model |
| --- | --- |
| the recursion of `mapItems` | `stack`, a frame per invocation that has not returned: its owner (the concept whose children it maps), cursor, steps so far, warnings |
| the protocol tree | not data: each step chooses the next item, so all trees within the bounds are mapped |
| a step, or a concept without children | `MapStep` |
| a concept with children | `EnterConcept` ... `LeaveConcept`, or `CutConcept` beyond `MaximumNestingDepth` |
| `scenarioSteps`, `scenarioContainer`, `mapScenario` | `OpenSection` ... `CloseSection` for context, steps and teardown, in the order `MappingOrder` of the configured modes, `AttachHooks`, `EndScenario` |
| the loop of `MapSuite` with `live`, `cursor` | `TakeScenario`, `ReturnOutput`; `live` is drawn freely for each scenario, `Lifecycle` has where it comes from |
| `timing.Resolve`, `timing.Clamp`, the millisecond minimum | `Resolve`, `Clamp`, `StepRange`, over int64 addition (`Plus`) in `-Limit .. Limit - 1` |
| `FromStep`, `FromExecutionStatus`, `aggregateStepStatus`, `scenarioStatus`, `findStepFailure` | operators of these names |

A status is a function of the evidence in a protocol message, so the evidence is a
record of the branches the code takes (`StepEvidence`, `ScenarioEvidence`) and the
verdict of a scenario is drawn when its mapping ends: `findStepFailure` looks at the
same items that were mapped, which `failures` remembers. An attachment fails or does
not; in strict mode that ends the invocation of `mapItems`, in best effort it leaves a
warning in the invocation's list. A concept's invocation drops the error of its
children and takes their warnings for its own, as the code does. Timestamps start at
1 because `Clamp` takes zero for unknown.

Left out: the key and the retry of a scenario (`Lifecycle`), parameters, labels, tags and all strings, the containers of the
specification and the suite (`Collector` has them), the final sort (arbitrary for
the engine), the clock that replaces an invalid timestamp, and the synthetic
results for a nil or empty suite and its errors (`Collector` has those).

## 3. Runs

| Run | Instance | Question |
| --- | --- | --- |
| `CollectorAnyOrder` | two callbacks for one attempt, one suite result, one Kill in any order; mapping and writes fail | what holds with no help from Gauge's order |
| `CollectorEarlyKill` | strict mode, suite result after the callbacks, Kill any time; writes and metadata fail | no duplicates, completeness, visibility, a settled report, errors returned, refinement of `AttemptReport` |
| `CollectorGauge` | Gauge's order, an attempt per callback, the suite result twice, a diagnostic, the dump, all metadata, all failures | the summary, memory against disk, final data wins |
| `Reporter` | two callbacks for one attempt, suite result, Kill and a signal any time, fairness | shutdown, every RPC returns |
| `Attachments` | three processes, three writes: a live and a final result of one name and the attachment of the final one, whose source changes twice in a run | cleaning, atomicity, whole attachments, references |
| `Lifecycle` | two streams, three rows of one scenario, one repetition, one fault | correlation, identities, what the final suite finds |
| `Mapping` | up to three scenarios and three items, strict mode and best effort, context as fixtures | the timeline, statuses |

| Run that ends in a counterexample | What it shows |
| --- | --- |
| `SuiteFinalKill` | with `write_mode: suite-final`, Kill after a scenario leaves an empty directory (`collector.go:276` counts results that were never streamed) |
| `CleanInterrupted` | a start that died while cleaning makes every later start refuse the directory (`writer.go:86` removes the marker before the artifacts) |
| `StopBeforeStart` | a fallback range is cut at the end of the specification also when it starts after it, so a result stops before it starts (`mapping.go:163`) |
| `NestedWarnings` | `mapItems` overwrites its warnings and its error with those of a concept's children, so a failed attachment before the concept leaves no trace (`mapping.go:409`) |
| `RetriesGrouped` | a snapshot of a row of the specification's table has no parameters, so its history identity is not that of the final result of the last retry (`mapping.go:94`) |

Why the bounds are enough. Two callbacks for one attempt are what the conflict path
of `ScenarioEnding` needs, a second attempt is what the suite may add or lose, and
two finalizers (three in `CollectorGauge`) are what the test of `finalized` has to
separate. RPCs do not repeat, so nothing grows: all runs are exhaustive. In
`Attachments` three processes are one that leaves something, one that dies cleaning
it and one that finds the rest; two writes share a name as the live and the final
version of a result do. The source changes up to `MaxChanges` = 2 times in a run, which replaces a file and
resizes the new one, and has up to `Largest` = 3 bytes: with `Limit` = 1 a copy may be
within the limit, be one byte above it, which the reader lets through, or be cut there.
`MaxRuns` and `MaxChanges` are the only bounds there that cut a behaviour off.

In `Lifecycle` two rows of a table follow each other on a stream and a third is beside
them, which is what may be confused: the correlation of a start event names no row.
`MaxRetry` = 1 and `MaxRepeats` = 1 let any one attempt be repeated, `MaxSteps` = 1 opens
one step or concept in each attempt, `MaxTime` = 1 is a millisecond that passes anywhere,
so that timestamps and start events differ or agree. A run meets one fault at most
(`MaxFaults`), a lost notification or a rejected callback; section 7 has what both
together do. `RetriesGrouped` needs no fault.

`Mapping` is bounded by `MaxItems` (in `Room`), which counts steps, concepts, failing hooks
and the scenarios before this one: three are a step before a concept and a child in it,
a concept with two children, a step in each of three sections, or three scenarios
whose ranges overlap; with depth 1 a concept in a concept is already cut. One attachment
may fail. `Limit` 8 with timestamps 1 and 4 and durations 0 and 3 makes sums overflow:
4 + 3 + 3 is negative in that width.

Deadlock is checked in every run. Gauge may send nothing more at any time, which
`NothingSent`, `Waiting`, `RunsOver` and `RunOver` say (`Returned` in `Mapping` says that it is over); an RPC in flight that could not move
would be reported.

Fairness. `FairSpec` has weak fairness of each RPC that has entered its handler: a
goroutine is scheduled again and a write returns, with or without an error. Nothing
makes Gauge send an RPC. `ReporterFairSpec` adds the goroutine of Kill waking up and
`GracefulStop` returning when nothing is in flight. Neither assumes that an
operation succeeds.

## 4. Properties

Of the collector: `UUIDOwnership`, `OneFilePerAttempt`, `FinalDataWins`,
`SingleFinalizer`, `AcknowledgedOnDisk`, `ErrorPolicy`, `CompleteReport`,
`ContainerChildrenOnDisk`, `ReportSettled`, `SummaryMadeOnce`, `SummaryCountsDisk`,
`MemoryMatchesDisk`, `InterruptionVisible`, `AttemptsReported`, `RepliesDelivered`,
`ImplementsAttemptReport`. Of the server: `ReportBeforeExit`, `KillStops`. Of the
directory: `FreshReport`, `TempsInUse`, `UserFilesKept`, `ImplementsArtifactStore`; of
attachments: `AttachmentsComplete`, `ReferencesOnDisk`. Of the notifications:
`OwnStart`, `StartsInUse`, `LiveRangeSound`, `AttemptsApart`, `TimesKept`, `ThreadKept`,
`HistoryIdentifiesRow`. Of the mapper: `StepsInParent`, `StepsInOrder`, `FailureVisible`,
`FailedExplained`, `FallbackAfterEarlier`. Each has a comment in its module.

Some need the order Gauge keeps, and the runs show which: `OneFilePerAttempt` and
`FinalDataWins` need `SuiteLast`. With `SuiteLast = FALSE` in `CollectorEarlyKill.cfg` TLC
finds a callback that overlaps the suite result and gives its attempt two files, because
`collector.go:201` copies the UUIDs once, or replaces a final file. `SummaryMadeOnce` and
`SummaryCountsDisk` need `KillLast` as well, because `FinalizeInterrupted` acts on a
`finalized` it read under an earlier lock.

`HistoryIdentifiesRow` leaves out the snapshots of rows of the specification's table,
of which `RetriesGrouped` is the counterexample. `LiveRangeSound` asks that a range is
over only where Gauge has sent its timestamp: without one the mapper adds the duration
to the present. `StartsInUse` is about runs in which no notification is lost.

`StepsInParent` is about ranges that are not inverted themselves: with the one of
`StopBeforeStart` nothing can lie in its parent. `FailedExplained` is about best effort,
because in strict mode the error of a concept's children drops the step it is about.

`ImplementsAttemptReport` maps the files of an attempt to the UUIDs and versions
(live or final) a reader finds. `ImplementsArtifactStore` maps a directory to its
artifacts and the runs that wrote them, a torn artifact being a value the abstract
module never takes; `WholeArtifacts`, which is proved, follows from it.

## 5. Proofs

`CollectorProofs` proves, for every value of the constants that the assumptions of
`Collector` allow (finite sets of RPCs and keys, disjoint kinds):

* `TypeCorrect`, `UUIDsOwned`, `OneFinalization`: for any order of RPCs;
* `AttemptReportedOnce`, `FinalDataKept`, `ReportImplemented`: when `SuiteLast` holds.

`UUIDOwnership` is proved from an invariant that extends ownership to what RPCs have
in hand: the `artifact` of a callback belongs to its attempt and each UUID of a
`plan` to its key. `SingleFinalizer` needs that an RPC has a plan only after
`finalized` was set. `OneFilePerAttempt` is far from inductive: two files of an
attempt can only be excluded if every holder of a UUID agrees with `uuids`. The
invariant `ReportInv` joins

* `PlanInv` and `StageInv`: what a finalizer that has a plan still holds, and which
  plan entries belong to which stage of it;
* `QuietInv`: while or after a finalizer has a plan no callback is in flight, which
  is where `SuiteLast` is used;
* `AgreeInv`: the callbacks past their critical section and the plan hold the
  UUID that `uuids` has for the attempt;
* `FileInv`: each file of an attempt is under the UUID of `uuids`, or, before a
  planned result is recorded, under the one planned for it.

Each action preserves each part under a step of its own; `FinalDataWins` follows
from the same invariant, since only a callback in flight or a second plan could
replace a final file. So does the refinement `ReportImplemented`: a streamed snapshot
publishes its attempt or repeats itself, a result of the suite publishes or promotes
it, because the invariant leaves one UUID for the attempt and no final file under it;
neither comes after a settled report; every other step leaves the files alone and
at most settles.

`ResultsDirProofs` proves, for any number of processes, writes, artifacts and files
of the user:

* `DirTypeCorrect`, `ArtifactsWhole`, `ReportFresh`, `NoStrayTemps`, `UsersKeepFiles`;
* `StoreImplemented`: a reader sees every artifact appear, change and disappear whole.

`WholeArtifacts` is not inductive: `Publish` renames whatever the temporary file holds.
`DirInv` joins the types and the properties with

* `ProcInv`: no write is in flight while a process prepares the directory;
* `RunInv`: no file is of a run that has not started, and none but the marker of this
  one while it prepares;
* `CleanInv`: what `Remove` works on is all there is, and nothing of it is left when the
  marker is written, from which `FreshReport` follows;
* `PublishInv`: a temporary file that is about to be renamed is there and whole. No other
  write can have touched it, since temporary names are distinct (`TempFacts`).

`AttachmentsProofs` proves, for any number of processes, writes and changes of the source,
any limit, both error policies and both policies on links and places:

* `DirectoryKept`: every step of `Attachments` is one of `ResultsDir` or leaves its
  variables alone (`DirStep`), so the theorems above hold here as well;
* `AttachmentsWhole`: `AttachmentsComplete`, from `CopyInv` (while a copy is made the file
  is open, and what is about to be published passed both comparisons);
* `ReferencesKept`: `ReferencesOnDisk`, from `PublishedInv` and `NamedInv`.

`PublishedInv` is the link between the two: an attachment of this run is in the
directory exactly if its write was published. It holds because attachment names are
new (`AttachingAssumption`), because only `Publish` adds an artifact of this run and
nothing but the next `Start` takes one away (`ArtifactStep`, `NoneOfThisRun`).

`CompletionProofs` proves the rest of what the runs check of the collector, on top of
`CollectorProofs`. Its `CompletionInv` joins the invariants there with

* `ErrorInv`: a failure is known to the RPC that met it until it returns (`errs`,
  `unmapped`), and one that returned satisfies what `ErrorPolicy` says of it;
* `WriteInv`: what a finalizer has written at each of its stages, as long as it met no
  failure: a planned result is still in `todo` or on disk, then the containers, then the
  metadata. Containers name planned results only, so `ContainerChildrenOnDisk` follows;
* `StreamInv`: with streaming, a callback past its write and all that memory holds has a
  file. No step removes one (`Grows`), which is why this survives any order;
* `KillInv`: a Kill marks a run only when there is a result, and a finalized run has a
  result, a plan or a failure.

What each theorem assumes about the constants is what the code leaves to Gauge, and the
runs of section 4 show that it is needed:

| Theorem | Assumes | Because |
| --- | --- | --- |
| `ErrorsFollowPolicy`, `ContainersFollowResults`, `AcknowledgedKept` | nothing | |
| `InterruptionSeen`, `EveryAttemptReported` | `Streaming` | `SuiteFinalKill` |
| `ReportComplete`, `ReportStaysSettled` | `SuiteLast` | a late callback replaces a final file |
| `SummaryKept` | `KillLast`, a suite call | `FinalizeInterrupted` acts on a `finalized` it read earlier |
| `SummaryMatchesDisk` | all three | both of the above |
| `MemoryAgrees` | `SuiteLast`, `Streaming`, a callback per attempt | two callbacks of one attempt write in one order and store in the other |

`ReportComplete` and `MemoryAgrees` need `ReportInv`: that a callback and a plan agree on the
UUID of an attempt is what keeps a final file from being replaced. `FinalInv`, `LateInv`,
`HeldInv` and `MemoryInv` are what the particular theorem adds.

`ReporterProofs` proves that the service is a refinement of the engine
(`ReporterRefinesEngine`: every step of the server is one of `Collector` or leaves its variables
alone), so all theorems above hold behind it, and with that `ReportsBeforeExit`. Its `ExitInv`
says that nothing is in flight once the server has stopped.

`MappingProofs` proves, for any tree, nesting depth, number of items and width of the integers:

* `WellTyped`, `StepsStayInParent`, `StepsFollow`: of the timeline;
* `FailuresShow`, `FailuresExplained`: of statuses;
* `FallbackFollows`: of the ranges `MapSuite` gives scenarios without one.

There is no induction over trees, because the stack of frames stands for the recursion: the
invariant says of each frame what `mapItems` keeps in its locals. `MappingInv` joins

* `RangeInv`: the cursor of the sections lies in the range of the scenario, if that is not
  inverted;
* `StackInv` (`StackOK`): a frame's steps follow each other, lie between its parent's start
  and its cursor, and its owner's range lies in what the frame below has left;
* `DoneInv`: the same of the groups and fixtures that are done, and that none that passed
  has anything else below;
* `TimelineInv`: the results so far stop before the cursor of `MapSuite`;
* `ExplainInv`: a failure that `findStepFailure` will find is already shown, in a frame, a
  group or a fixture.

Lemmas about the arithmetic carry it: `Clamp` returns a range in its parent and `StepRange`
one that is not inverted, also where `Plus` overflows.

`LifecycleProofs` proves, for any number of streams, scenarios, rows, repetitions, steps and
faults, and any distribution of the rows over the streams:

* `WellTyped`, `StartsOfOpenScopes`, `KeptRangeSound`, `OneResultPerAttempt`,
  `SnapshotTimesKept` and `ThreadOfAttempt`, without further hypotheses;
* `StartsAreOwn`, if no run meets both faults: with both, the next row of a scenario takes
  over the start that a rejected callback left (section 7);
* `HistoryOfRow`, if no scenario has both a table of its own and one of its specification:
  the code then makes parameters of the first only (section 7);
* `RetriesShareHistory`: what the run `RetriesGrouped` refutes, if no scenario is driven by the
  table of its specification alone. So the rows in that run are the only ones it fails for.

`LifecycleInvariant` is what they follow from. None of the properties is inductive, and
`LifecycleInv` joins

* `PlaceInv`: which scopes are open, one in the other, and that the items before the one a
  stream is at were attempted. `Finalize` relies on it: the suite counts each item at least
  once, so the key it derives from that count is the key of the last attempt
  (`SuiteFacts`);
* `TimeInv`: what a callback has mapped is not inverted and, if it is stamped, over; no start
  event is later than the clock. Replacing a start then keeps a range sound
  (`EndRangeSound`);
* `StartInv`: the start event that an open scenario would find is its own (`FoundOwn`), of
  which `OwnStart` is the trace in the results. When a notification is lost, `FoundOwn` needs
  that nothing was left under that correlation (`NoneLeft`); when a callback is rejected, it
  needs that the next start replaces what was left. That is why each fault alone is
  harmless;
* `FileInv`: a result is under the UUID that `uuids` has for its attempt, a snapshot agrees
  with `live`, and `live` names the stream whose queue has the item;
* `OverInv`: an attempt that ended was of its stream and is in `live` unless its callback
  was rejected.

That keys stand for one attempt (`KeyApart`) and correlations for one stream
(`CorrelationParts`) are lemmas about the identities; that no two items share a key is what
lets `Finalize` write a result for each (`FinalizeEffect`). TLC checked `LifecycleInv` on the
instance of section 3, on one with both faults and on one with two steps, before it was proved.

The proofs rest on the named assumptions on the constants (`RpcAssumption`,
`KeyAssumption` and so on) and on nothing else; TLC evaluates each of them in a run. Those
of `Lifecycle` say that rows of one scenario are rows of the same tables, since a scenario has
one heading in its specification, and that each item is in the queue of exactly one stream,
as Gauge distributes specifications over streams.

TLC alone checks the liveness properties (`RepliesDelivered`, `KillStops`), since
liveness under fairness is out of the prover's reach. Every other property of a run that
passes is a theorem.

## 6. Plan

1. What liveness rests on, as theorems: an RPC in its handler only waits for the lock or for a
   write, and the server that is draining waits for nothing but RPCs in flight.
2. `MappingProofs`: the shape of the sections, so that steps keep the order of the configured
   modes.
3. `RetriesGrouped` and, with `Streaming`, `InterruptionVisible` are theorems under the condition
   that the violating runs break. Of `FailuresReported`, `StopAfterStart` and
   `PreparedNotRefused` that condition is a property of the behaviour, not of a constant: it
   would be stated as an invariant under a hypothesis on the steps taken.

## 7. Not modelled

* Strings: texts, paths, hashes, tags, links, assertion markers, redaction.
* Configuration, metadata detection, command line, logging, version: they run once and
  keep no state. The options that steer the modelled parts are constants.
* The Windows variant of `atomicReplace`: both replace a file in one step.
* gRPC itself: message limits, connection failures, contexts of RPCs. A cancelled
  context shows as a failing write.

Behaviour of the code that no run contradicts a statement with, and that a reader
should know:

* `writeMetadata` stops at its first failure, so executor and categories may be missing
  because the environment file failed;
* a callback that overlaps the suite result may give its attempt a second file, or put a
  late snapshot in place of the final version (section 4); Gauge does not overlap them;
* in strict mode a repeated suite result after a failed one returns success, and a Kill
  whose finalization fails leaves the server running;
* a signal stops the server without finalizing: a run without an ended scenario leaves
  no result;
* with `write_mode: suite-final` an attempt that the suite result does not name, such as
  an earlier retry, has no file, although docs/gauge-allure-mapping.md:45 has a retry
  keep a result of its own;
* in strict mode the error of a concept's children is dropped together with the child
  it is about, and the suite is mapped as if nothing had failed (`mapping.go:409`);
* containers name what the final suite has: streamed files of earlier retries are in
  no container, although docs/gauge-allure-mapping.md:7 has the suite's container span
  all emitted results;
* `writeMetadata` reads `project`, `gaugeEnv` and `streams` without the lock that
  `ExecutionStarting` writes them under;
* when the callback of one row is rejected, its start event stays; if the notification of
  the next row of that scenario is lost as well, the next row takes over that start;
* without a timestamp of Gauge a snapshot ends at the present plus the duration, so in
  the future;
* the steps of a snapshot are laid out from the start that the mapper chose, which the
  recorded start then replaces in the result (`collector.go:152`), although
  docs/gauge-allure-mapping.md:69 has child times clamp to their parent;
* where a scenario has both a table of its own and one of its specification, only the
  first makes parameters, so rows of the second share a history identity;
* `HistoryID` takes parameters in the order of the columns, not sorted as
  docs/gauge-allure-mapping.md:40 has it;
* `Copy` checks the file it inspects and opens what is at the path later: of a file that
  took its place only the size is compared. A source that is rewritten while it is
  copied, with the same size, is not noticed.
