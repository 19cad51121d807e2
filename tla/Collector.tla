------------------------------ MODULE Collector ------------------------------
(***************************************************************************)
(* internal/collector/collector.go: the Engine that reconciles concurrent  *)
(* ScenarioEnding callbacks with the final suite result (Finalize) and     *)
(* with an early shutdown (FinalizeInterrupted).                           *)
(*                                                                         *)
(* Every RPC is a goroutine.  A step of the model is one critical section  *)
(* of Engine.mu or one write of an artifact; work on local data only (the  *)
(* mapper reads no shared state) is part of the step that follows it, and  *)
(* handleError, which only appends a warning, of the step that fails.      *)
(*                                                                         *)
(* A random UUID is written as the pair of the RPC that drew it and the    *)
(* attempt it was drawn for: an RPC draws at most one UUID for an attempt, *)
(* so two draws never give the same pair.  The contents of a stored result *)
(* are written the same way: the RPC that mapped it and the attempt that   *)
(* it describes.                                                           *)
(***************************************************************************)
EXTENDS Naturals, FiniteSets

CONSTANTS
    ScenarioCalls,        \* NotifyScenarioExecutionEnding RPCs
    SuiteCalls,           \* NotifySuiteResult RPCs
    KillCalls,            \* Kill RPCs
    Attempts,             \* attempt keys: scenario, table rows, retry
    AttemptOf,            \* the attempt a ScenarioEnding RPC reports
    Diagnostics,          \* keys of the suite's parse and protocol errors
    NilSuite, EmptySuite, \* "protocol:nil-suite" and "suite:empty"
    Streaming,            \* cfg.WriteMode = "streaming"
    Strict,               \* cfg.Strict
    ProtoDump,            \* cfg.DiagnosticProtoDump
    Configured,           \* optional metadata files the configuration enables
    Faults,               \* which operations may fail
    SuiteLast,            \* Gauge sends the suite result after every ScenarioEnding returned
    KillLast,             \* Gauge sends Kill after the suite result returned
    None

Finalizers == SuiteCalls \cup KillCalls
Rpcs == ScenarioCalls \cup Finalizers
Keys == Attempts \cup Diagnostics \cup {NilSuite, EmptySuite}
UUIDs == Rpcs \X Keys
MetadataFiles == {"environment", "executor", "categories"}

ASSUME RpcAssumption ==
    /\ ScenarioCalls \cap Finalizers = {}
    /\ SuiteCalls \cap KillCalls = {}
    /\ AttemptOf \in [ScenarioCalls -> Attempts]
ASSUME KeyAssumption ==
    /\ Attempts \cap (Diagnostics \cup {NilSuite, EmptySuite}) = {}
    /\ {NilSuite, EmptySuite} \cap Diagnostics = {}
    /\ NilSuite # EmptySuite
ASSUME FiniteAssumption == IsFiniteSet(Rpcs) /\ IsFiniteSet(Keys)
ASSUME NoneAssumption == None \notin UUIDs \cup Keys
ASSUME ConfigAssumption ==
    /\ {Streaming, Strict, ProtoDump, SuiteLast, KillLast} \subseteq BOOLEAN
    /\ Configured \subseteq {"executor", "categories"}
    /\ Faults \subseteq {"mapping", "write", "metadata"}

VARIABLES
    finalized,  \* Engine.finalized
    uuids,      \* Engine.uuids: the UUID of an attempt, or None
    results,    \* Engine.results: UUID -> contents, or None
    warnings,   \* Engine.warnings: who appended one and why
    summary,    \* Engine.summary, None before the first finishSummary
    files,      \* <uuid>-result.json on disk: UUID -> contents, or None
    containers, \* <uuid>-container.json on disk, as the sets of their children
    metadata,   \* environment.properties, executor.json, categories.json
    dumped,     \* the diagnostic proto dump is on disk
    pc,         \* control state of each RPC
    reply,      \* what an RPC returned
    artifact,   \* ScenarioEnding: the UUID of the artifact in hand
    plan,       \* Finalize: key -> UUID of each result MapSuite produced
    todo,       \* Finalize: results still to be written
    boxes,      \* Finalize: containers still to be written
    current,    \* Finalize: the result written and not yet recorded
    unmapped,   \* Finalize: MapSuite dropped an attempt with a warning
    errs,       \* Finalize: len(writeErrors) > 0
    failed      \* history: RPCs of which some operation failed

engineVars == <<finalized, uuids, results, warnings, summary>>
diskVars == <<files, containers, metadata, dumped>>
finalVars == <<plan, todo, boxes, current, unmapped, errs>>
localVars == <<artifact, finalVars>>
vars == <<engineVars, diskVars, localVars, pc, reply, failed>>

-----------------------------------------------------------------------------
(* Helpers.                                                                *)

Done(r) == pc[r] = "done"
InFlight(r) == pc[r] \notin {"idle", "done"}
Goto(r, label) == pc' = [pc EXCEPT ![r] = label]

\* Return from an RPC without an error.
Return(r) ==
    /\ Goto(r, "done")
    /\ reply' = [reply EXCEPT ![r] = "ok"]

\* Mutated: best effort forgets the warning.
HandleErrorSilently(r) ==
    /\ Goto(r, "done")
    /\ failed' = failed \cup {r}
    /\ reply' = [reply EXCEPT ![r] = IF Strict THEN "error" ELSE "ok"]
    /\ UNCHANGED warnings

\* Engine.handleError followed by the return of its value.
HandleError(r) ==
    /\ Goto(r, "done")
    /\ failed' = failed \cup {r}
    /\ reply' = [reply EXCEPT ![r] = IF Strict THEN "error" ELSE "ok"]
    /\ warnings' = IF Strict THEN warnings ELSE warnings \cup {<<r, "error">>}

\* The results an Engine counts in its summary.
Counted == {u \in UUIDs : results[u] # None}

\* Mutated: the suite's own container is taken off the count, also when there is none.
SummaryOffByOne(count, warned) ==
    [results |-> Counted, containers |-> count - 1, warnings |-> Cardinality(warned)]

\* Engine.finishSummary: the results held in memory, as counts by status are
\* of no concern here, and the number of containers and warnings.
Summary(count, warned) ==
    [results |-> Counted, containers |-> count, warnings |-> Cardinality(warned)]

Init ==
    /\ finalized = FALSE
    /\ uuids = [k \in Keys |-> None]
    /\ results = [u \in UUIDs |-> None]
    /\ warnings = {}
    /\ summary = None
    /\ files = [u \in UUIDs |-> None]
    /\ containers = {}
    /\ metadata = {}
    /\ dumped = FALSE
    /\ pc = [r \in Rpcs |-> "idle"]
    /\ reply = [r \in Rpcs |-> "none"]
    /\ artifact = [c \in ScenarioCalls |-> None]
    /\ plan = [f \in Finalizers |-> [k \in Keys |-> None]]
    /\ todo = [f \in Finalizers |-> {}]
    /\ boxes = [f \in Finalizers |-> {}]
    /\ current = [f \in Finalizers |-> None]
    /\ unmapped = [f \in Finalizers |-> FALSE]
    /\ errs = [f \in Finalizers |-> FALSE]
    /\ failed = {}

-----------------------------------------------------------------------------
(* ScenarioEnding.                                                         *)

ScenarioMayStart(c) ==
    /\ pc[c] = "idle"
    /\ SuiteLast => \A s \in SuiteCalls : pc[s] = "idle"

\* A nil request, a missing scenario result or a failing UUID generator.
ScenarioRejected(c) ==
    /\ ScenarioMayStart(c)
    /\ "mapping" \in Faults
    /\ HandleError(c)
    /\ UNCHANGED <<finalized, uuids, results, summary, diskVars, localVars>>

\* Mutated: the artifact is recorded without being streamed.
RecordArtifactUnwritten(c, u) ==
    /\ artifact' = [artifact EXCEPT ![c] = u]
    /\ uuids' = [uuids EXCEPT ![AttemptOf[c]] = u]
    /\ Goto(c, "store")

\* What is done under the lock with the artifact once its UUID is settled.
RecordArtifact(c, u) ==
    /\ artifact' = [artifact EXCEPT ![c] = u]
    /\ uuids' = [uuids EXCEPT ![AttemptOf[c]] = u]
    /\ Goto(c, IF Streaming THEN "write" ELSE "store")

\* Map with a UUID of its own; the attempt has none yet, so that one is kept.
ScenarioMapped(c) ==
    /\ ScenarioMayStart(c)
    /\ uuids[AttemptOf[c]] = None
    /\ RecordArtifact(c, <<c, AttemptOf[c]>>)
    /\ UNCHANGED <<finalized, results, warnings, summary, diskVars, finalVars,
                   reply, failed>>

\* The attempt already has another UUID: the lock is released to map again
\* with the UUID that was read.
ScenarioConflict(c) ==
    /\ ScenarioMayStart(c)
    /\ uuids[AttemptOf[c]] # None
    /\ artifact' = [artifact EXCEPT ![c] = uuids[AttemptOf[c]]]
    /\ Goto(c, "remap")
    /\ UNCHANGED <<engineVars, diskVars, finalVars, reply, failed>>

\* Mutated: the UUID is compared again, still with the one this RPC drew first.
ScenarioComparedAgain(c) ==
    /\ pc[c] = "remap"
    /\ IF uuids[AttemptOf[c]] # <<c, AttemptOf[c]>> THEN UNCHANGED <<uuids, artifact, pc>>
       ELSE RecordArtifact(c, artifact[c])
    /\ UNCHANGED <<finalized, results, warnings, summary, diskVars, finalVars,
                   reply, failed>>

\* The second mapping cannot fail where the first did not (it draws no UUID),
\* and the UUID is not compared again after the lock is taken again.
ScenarioRemapped(c) ==
    /\ pc[c] = "remap"
    /\ RecordArtifact(c, artifact[c])
    /\ UNCHANGED <<finalized, results, warnings, summary, diskVars, finalVars,
                   reply, failed>>

StreamResult(c) ==
    /\ pc[c] = "write"
    /\ files' = [files EXCEPT ![artifact[c]] = <<c, AttemptOf[c]>>]
    /\ Goto(c, "store")
    /\ UNCHANGED <<engineVars, containers, metadata, dumped, localVars, reply, failed>>

\* Mutated: after a failed write the result is stored nevertheless.
StreamResultGoesOn(c) ==
    /\ pc[c] = "write"
    /\ "write" \in Faults
    /\ warnings' = warnings \cup {<<c, "error">>}
    /\ Goto(c, "store")
    /\ UNCHANGED <<finalized, uuids, results, summary, diskVars, localVars, reply, failed>>

StreamResultFails(c) ==
    /\ pc[c] = "write"
    /\ "write" \in Faults
    /\ HandleError(c)
    /\ UNCHANGED <<finalized, uuids, results, summary, diskVars, localVars>>

StoreResult(c) ==
    /\ pc[c] = "store"
    /\ results' = [results EXCEPT ![artifact[c]] = <<c, AttemptOf[c]>>]
    /\ Return(c)
    /\ UNCHANGED <<finalized, uuids, warnings, summary, diskVars, localVars, failed>>

ScenarioEnding(c) ==
    \/ ScenarioRejected(c)
    \/ ScenarioMapped(c)
    \/ ScenarioConflict(c)
    \/ ScenarioRemapped(c)
    \/ StreamResult(c)
    \/ StreamResultFails(c)
    \/ StoreResult(c)

-----------------------------------------------------------------------------
(* Finalize.                                                               *)

\* The containers MapSuite produces for the results of p: one for each mapped
\* scenario, one for their specification and one for the suite; a nil suite has
\* none.  All scenarios belong to one specification.
Boxes(p) ==
    LET scenarios == {p[k] : k \in Attempts} \ {None}
        children == {p[k] : k \in Keys} \ {None}
    IN IF p[NilSuite] # None THEN {}
       ELSE {[scope |-> "scenario", children |-> {u}] : u \in scenarios}
            \cup {[scope |-> "spec", children |-> scenarios] : s \in {scenarios} \ {{}}}
            \cup {[scope |-> "suite", children |-> children]}

\* Finalize is called by NotifySuiteResult, and by FinalizeInterrupted with nil.
FinalizeMayStart(f) ==
    \/ /\ f \in SuiteCalls
       /\ pc[f] = "idle"
       /\ SuiteLast => \A c \in ScenarioCalls : ~InFlight(c)
    \/ pc[f] = "finalize"

AlreadyFinalized(f) ==
    /\ FinalizeMayStart(f)
    /\ finalized
    /\ Return(f)
    /\ UNCHANGED <<engineVars, diskVars, localVars, failed>>

\* MapSuite returns an error: nothing is written and finalized stays set.
SuiteRejected(f) ==
    /\ FinalizeMayStart(f)
    /\ ~finalized
    /\ "mapping" \in Faults
    /\ finalized' = TRUE
    /\ HandleError(f)
    /\ UNCHANGED <<uuids, results, summary, diskVars, localVars>>

\* Mutated: the UUIDs of the live snapshots are not reused.
PlannedAnew(f, keys) == [k \in Keys |-> IF k \in keys THEN <<f, k>> ELSE None]

\* Mutated: one UUID is drawn for all new results.
PlannedTogether(f, keys) ==
    [k \in Keys |-> IF k \notin keys THEN None
                    ELSE IF k \in Attempts /\ uuids[k] # None THEN uuids[k]
                    ELSE <<f, NilSuite>>]

\* MapSuite returns one result for each of keys.  An attempt keeps the UUID of
\* the snapshot of uuids; a synthetic result always has a new one.
Planned(f, keys) ==
    [k \in Keys |-> IF k \notin keys THEN None
                    ELSE IF k \in Attempts /\ uuids[k] # None THEN uuids[k]
                    ELSE <<f, k>>]

\* Mutated: finalized is set but not looked at.
BeginWritingAgain(f, keys, dump) ==
    /\ FinalizeMayStart(f)
    /\ finalized' = TRUE
    /\ plan' = [plan EXCEPT ![f] = Planned(f, keys)]
    /\ todo' = [todo EXCEPT ![f] = keys]
    /\ boxes' = [boxes EXCEPT ![f] = Boxes(Planned(f, keys))]
    /\ Goto(f, IF dump THEN "dump" ELSE "results")
    /\ UNCHANGED <<uuids, results, warnings, summary, diskVars,
                   artifact, current, errs, reply>>

BeginWriting(f, keys, dump) ==
    /\ FinalizeMayStart(f)
    /\ ~finalized
    /\ finalized' = TRUE
    /\ plan' = [plan EXCEPT ![f] = Planned(f, keys)]
    /\ todo' = [todo EXCEPT ![f] = keys]
    /\ boxes' = [boxes EXCEPT ![f] = Boxes(Planned(f, keys))]
    /\ Goto(f, IF dump THEN "dump" ELSE "results")
    /\ UNCHANGED <<uuids, results, warnings, summary, diskVars,
                   artifact, current, errs, reply>>

NilSuiteMapped(f) ==
    /\ BeginWriting(f, {NilSuite}, FALSE)
    /\ UNCHANGED <<unmapped, failed>>

\* A suite with the given scenarios and errors, of which MapSuite drops `lost`
\* with a warning (an error in strict mode).
SuiteMapped(f, attempts, diagnostics, lost) ==
    LET kept == (attempts \ lost) \cup diagnostics
    IN /\ f \in SuiteCalls
       /\ lost # {} => ~Strict /\ "mapping" \in Faults
       /\ BeginWriting(f, IF kept = {} THEN {EmptySuite} ELSE kept, ProtoDump)
       /\ unmapped' = [unmapped EXCEPT ![f] = lost # {}]
       /\ failed' = IF lost = {} THEN failed ELSE failed \cup {f}

\* Mutated: the error is not collected.
WriteErrorDropped(f) ==
    /\ failed' = failed \cup {f}
    /\ UNCHANGED errs

\* A write of a finalizer that fails is remembered in writeErrors.
WriteError(f) ==
    /\ errs' = [errs EXCEPT ![f] = TRUE]
    /\ failed' = failed \cup {f}

\* The outcome of a write: done, or not done and remembered in writeErrors.
Succeeds == UNCHANGED <<errs, failed>>
Fails(f, fault) == fault \in Faults /\ WriteError(f)

DumpSuite(f) ==
    /\ pc[f] = "dump"
    /\ Goto(f, "results")
    /\ \/ Succeeds /\ dumped' = TRUE
       \/ Fails(f, "write") /\ UNCHANGED dumped
    /\ UNCHANGED <<engineVars, files, containers, metadata, artifact, plan, todo,
                   boxes, current, unmapped, reply>>

\* A result that was written has to be recorded before the next one is.
WriteResult(f, k) ==
    /\ pc[f] = "results" /\ current[f] = None /\ k \in todo[f]
    /\ todo' = [todo EXCEPT ![f] = @ \ {k}]
    /\ \/ /\ Succeeds
          /\ files' = [files EXCEPT ![plan[f][k]] = <<f, k>>]
          /\ current' = [current EXCEPT ![f] = k]
       \/ Fails(f, "write") /\ UNCHANGED <<files, current>>
    /\ UNCHANGED <<engineVars, containers, metadata, dumped, artifact, plan,
                   boxes, unmapped, pc, reply>>

\* Mutated: the result is written but Engine.results is left as it was.
RecordResultPartly(f) ==
    /\ pc[f] = "results"
    /\ current[f] # None
    /\ uuids' = [uuids EXCEPT ![current[f]] = plan[f][current[f]]]
    /\ current' = [current EXCEPT ![f] = None]
    /\ UNCHANGED <<finalized, results, warnings, summary, diskVars, artifact, plan,
                   todo, boxes, unmapped, errs, pc, reply, failed>>

RecordResult(f) ==
    /\ pc[f] = "results"
    /\ current[f] # None
    /\ LET k == current[f]
       IN /\ uuids' = [uuids EXCEPT ![k] = plan[f][k]]
          /\ results' = [results EXCEPT ![plan[f][k]] = <<f, k>>]
    /\ current' = [current EXCEPT ![f] = None]
    /\ UNCHANGED <<finalized, warnings, summary, diskVars, artifact, plan, todo,
                   boxes, unmapped, errs, pc, reply, failed>>

\* Mutated: containers need not wait for the results.
ResultsDoneEarly(f) == pc[f] = "results"

ResultsDone(f) == pc[f] = "results" /\ todo[f] = {} /\ current[f] = None

WriteContainer(f, b) ==
    /\ ResultsDone(f)
    /\ b \in boxes[f]
    /\ boxes' = [boxes EXCEPT ![f] = @ \ {b}]
    /\ \/ Succeeds /\ containers' = containers \cup {b}
       \/ Fails(f, "write") /\ UNCHANGED containers
    /\ UNCHANGED <<engineVars, files, metadata, dumped, artifact, plan, todo,
                   current, unmapped, pc, reply>>

\* The warnings of MapSuite are appended only after the containers.
CollectWarnings(f) ==
    /\ ResultsDone(f)
    /\ boxes[f] = {}
    /\ warnings' = IF unmapped[f] THEN warnings \cup {<<f, "unmapped">>} ELSE warnings
    /\ Goto(f, "environment")
    /\ UNCHANGED <<finalized, uuids, results, summary, diskVars, localVars, reply, failed>>

\* Mutated: the optional files are alternatives.
AfterEither(m) ==
    IF m = "environment" /\ "executor" \in Configured THEN "executor"
    ELSE IF m = "environment" /\ "categories" \in Configured THEN "categories"
    ELSE "finish"

\* The metadata file written after m, or the end of writeMetadata.
After(m) ==
    IF m = "environment" /\ "executor" \in Configured THEN "executor"
    ELSE IF m # "categories" /\ "categories" \in Configured THEN "categories"
    ELSE "finish"

\* The first failure ends writeMetadata, whatever is left.
WriteMetadata(f, m) ==
    /\ pc[f] = m
    /\ \/ Succeeds /\ metadata' = metadata \cup {m} /\ Goto(f, After(m))
       \/ Fails(f, "metadata") /\ Goto(f, "finish") /\ UNCHANGED metadata
    /\ UNCHANGED <<engineVars, files, containers, dumped, artifact, plan, todo,
                   boxes, current, unmapped, reply>>

FinishStrict(f) ==
    /\ pc[f] = "finish"
    /\ errs[f] /\ Strict
    /\ Goto(f, "done")
    /\ reply' = [reply EXCEPT ![f] = "error"]
    /\ UNCHANGED <<engineVars, diskVars, localVars, failed>>

Finish(f) ==
    /\ pc[f] = "finish"
    /\ errs[f] => ~Strict
    /\ warnings' = IF errs[f] THEN warnings \cup {<<f, "write">>} ELSE warnings
    /\ summary' = Summary(Cardinality(Boxes(plan[f])), warnings')
    /\ Return(f)
    /\ UNCHANGED <<finalized, uuids, results, diskVars, localVars, failed>>

Finalize(f) ==
    \/ AlreadyFinalized(f)
    \/ SuiteRejected(f)
    \/ NilSuiteMapped(f)
    \/ \E attempts \in SUBSET Attempts, diagnostics \in SUBSET Diagnostics :
          \E lost \in SUBSET attempts : SuiteMapped(f, attempts, diagnostics, lost)
    \/ DumpSuite(f)
    \/ \E k \in Keys : WriteResult(f, k)
    \/ RecordResult(f)
    \/ \E b \in boxes[f] : WriteContainer(f, b)
    \/ CollectWarnings(f)
    \/ \E m \in MetadataFiles : WriteMetadata(f, m)
    \/ FinishStrict(f)
    \/ Finish(f)

-----------------------------------------------------------------------------
(* FinalizeInterrupted.                                                    *)

\* Mutated: Kill does not ask whether the run is finalized.
KillCheckedBlindly(k) ==
    /\ pc[k] = "idle"
    /\ KillLast => \A s \in SuiteCalls : Done(s)
    /\ Goto(k, IF Counted # {} THEN "mark" ELSE "finalize")
    /\ UNCHANGED <<engineVars, diskVars, localVars, reply, failed>>

\* Mutated: Kill keeps what there is, also when there is nothing.
KillCheckedMarks(k) ==
    /\ pc[k] = "idle"
    /\ KillLast => \A s \in SuiteCalls : Done(s)
    /\ IF finalized THEN Return(k) ELSE Goto(k, "mark") /\ UNCHANGED reply
    /\ UNCHANGED <<engineVars, diskVars, localVars, failed>>

KillChecked(k) ==
    /\ pc[k] = "idle"
    /\ KillLast => \A s \in SuiteCalls : Done(s)
    /\ IF finalized THEN Return(k)
       ELSE /\ Goto(k, IF Counted # {} THEN "mark" ELSE "finalize")
            /\ UNCHANGED reply
    /\ UNCHANGED <<engineVars, diskVars, localVars, failed>>

\* finalized was read under an earlier lock and is not read again.
KillMarked(k) ==
    /\ pc[k] = "mark"
    /\ finalized' = TRUE
    /\ Goto(k, "summary")
    /\ UNCHANGED <<uuids, results, warnings, summary, diskVars, localVars, reply, failed>>

KillSummarised(k) ==
    /\ pc[k] = "summary"
    /\ summary' = Summary(0, warnings)
    /\ Return(k)
    /\ UNCHANGED <<finalized, uuids, results, warnings, diskVars, localVars, failed>>

FinalizeInterrupted(k) ==
    \/ KillChecked(k)
    \/ KillMarked(k)
    \/ KillSummarised(k)

-----------------------------------------------------------------------------
Rpc(r) ==
    \/ r \in ScenarioCalls /\ ScenarioEnding(r)
    \/ r \in Finalizers /\ Finalize(r)
    \/ r \in KillCalls /\ FinalizeInterrupted(r)

\* Gauge may send nothing more; an RPC that has entered its handler must go on.
Quiescent == \A r \in Rpcs : ~InFlight(r)
NothingSent == Quiescent /\ UNCHANGED vars

Next == (\E r \in Rpcs : Rpc(r)) \/ NothingSent

Spec == Init /\ [][Next]_vars

\* A goroutine that has entered its handler is scheduled again and every write
\* returns; nothing makes Gauge send an RPC.
Continue(r) == InFlight(r) /\ Rpc(r)
Fairness == \A r \in Rpcs : WF_vars(Continue(r))
FairSpec == Spec /\ Fairness

-----------------------------------------------------------------------------
(* Properties.                                                             *)

Labels == {"idle", "remap", "write", "store", "done",
           "dump", "results", "finish", "finalize", "mark", "summary"}
          \cup MetadataFiles
Contents == UUIDs
Warnings == Rpcs \X {"error", "unmapped", "write"}
Containers == [scope : {"scenario", "spec", "suite"}, children : SUBSET UUIDs]
Summaries == [results : SUBSET UUIDs, containers : Nat, warnings : Nat]
ASSUME SummaryAssumption == None \notin Summaries

\* The types of the variables.
TypeOK ==
    /\ finalized \in BOOLEAN
    /\ uuids \in [Keys -> UUIDs \cup {None}]
    /\ results \in [UUIDs -> Contents \cup {None}]
    /\ warnings \subseteq Warnings
    /\ summary \in Summaries \cup {None}
    /\ files \in [UUIDs -> Contents \cup {None}]
    /\ containers \subseteq Containers
    /\ metadata \subseteq MetadataFiles
    /\ dumped \in BOOLEAN
    /\ pc \in [Rpcs -> Labels]
    /\ reply \in [Rpcs -> {"none", "ok", "error"}]
    /\ artifact \in [ScenarioCalls -> UUIDs \cup {None}]
    /\ plan \in [Finalizers -> [Keys -> UUIDs \cup {None}]]
    /\ todo \in [Finalizers -> SUBSET Keys]
    /\ boxes \in [Finalizers -> SUBSET Containers]
    /\ current \in [Finalizers -> Keys \cup {None}]
    /\ unmapped \in [Finalizers -> BOOLEAN]
    /\ errs \in [Finalizers -> BOOLEAN]
    /\ failed \subseteq Rpcs

OnDisk == {u \in UUIDs : files[u] # None}
HasPlan(f) == \E k \in Keys : plan[f][k] # None
IsFinal(content) == content # None /\ content[1] \in Finalizers

\* A UUID is only ever used for the attempt it was drawn for: no interleaving of
\* ScenarioEnding and Finalize makes two attempts share a UUID, in the UUID map,
\* in memory or as a file name, so no attempt's report replaces another's.
UUIDOwnership ==
    /\ \A k \in Keys : uuids[k] # None => uuids[k][2] = k
    /\ \A u \in UUIDs : files[u] # None => files[u][2] = u[2]
    /\ \A u \in UUIDs : results[u] # None => results[u][2] = u[2]

\* However many callbacks report an attempt, and whatever the suite says of it
\* afterwards, one result file describes it: Allure would show two tests.
OneFilePerAttempt == \A u, v \in OnDisk : u[2] = v[2] => u = v

\* Final suite data wins: a file Finalize wrote is never replaced, and in
\* particular never by the snapshot of a late ScenarioEnding.
FinalDataWins ==
    [][\A u \in UUIDs : IsFinal(files[u]) => files'[u] = files[u]]_vars

\* Engine.finalized lets one finalization through, however SuiteResult and Kill
\* overlap: no two RPCs ever plan, write and record a report each.
SingleFinalizer ==
    \A f, g \in Finalizers : HasPlan(f) /\ HasPlan(g) => f = g

\* When the process dies between two steps, what it acknowledged is on disk: a
\* streamed scenario whose callback returned without a failure has a file, and
\* nothing held in memory is missing from the directory.
AcknowledgedOnDisk ==
    Streaming =>
        /\ Counted \subseteq OnDisk
        /\ \A c \in ScenarioCalls :
              Done(c) /\ c \notin failed => \E u \in OnDisk : u[2] = AttemptOf[c]

\* A failing operation is neither silent nor fatal in the wrong mode: strict mode
\* returns it from its own RPC, best effort returns no error and has a warning.
ErrorPolicy ==
    \A r \in Rpcs : Done(r) =>
        IF r \notin failed THEN reply[r] = "ok"
        ELSE IF Strict THEN reply[r] = "error"
        ELSE reply[r] = "ok" /\ \E w \in warnings : w[1] = r

\* A finalization that met no failure has left the whole report on disk: each
\* planned result in its final version, each container and each metadata file.
CompleteReport ==
    \A f \in Finalizers : Done(f) /\ f \notin failed /\ HasPlan(f) =>
        /\ \A k \in Keys : plan[f][k] # None => files[plan[f][k]] = <<f, k>>
        /\ Boxes(plan[f]) \subseteq containers
        /\ {"environment"} \cup Configured \subseteq metadata
        /\ ProtoDump /\ plan[f][NilSuite] = None => dumped

\* A container never names a result that is not there, at any moment a reader or
\* a crash may look, as long as no write of a finalizer fails.
ContainerChildrenOnDisk ==
    Finalizers \cap failed = {} => \A b \in containers : b.children \subseteq OnDisk

\* After SuiteResult returned, later SuiteResult and Kill RPCs leave the report
\* as it is.
ReportSettled ==
    [][(\E s \in SuiteCalls : Done(s) /\ HasPlan(s)) => UNCHANGED diskVars]_vars

\* The summary is made once: a later finalization does not replace it.
SummaryMadeOnce == [][summary # None => UNCHANGED summary]_vars

\* The summary of a finished run counts exactly the results that are on disk.
SummaryCountsDisk == summary # None => summary.results = OnDisk

\* Between RPCs memory and disk agree on every result, whichever writes failed.
MemoryMatchesDisk == Streaming /\ Quiescent => results = files

\* A run that Kill interrupts is visible: once nothing is in flight there is a
\* result on disk, a streamed one or the synthetic broken one.
InterruptionVisible ==
    Quiescent /\ failed = {} /\ (\E k \in KillCalls : Done(k)) => OnDisk # {}

\* Every attempt that was reported without a failure has a result file once the
\* suite is finalized, also an earlier retry that the final suite has lost.
AttemptsReported ==
    (\E s \in SuiteCalls : Done(s) /\ HasPlan(s)) =>
        \A c \in ScenarioCalls : Done(c) /\ c \notin failed =>
            \E u \in OnDisk : u[2] = AttemptOf[c]

\* Every RPC whose handler was entered returns: a failed write is not retried for
\* ever, and no callback waits for another one.
RepliesDelivered == \A r \in Rpcs : InFlight(r) ~> Done(r)

\* What a reader of the directory knows of each attempt: AttemptReport is the
\* promise that the live snapshot becomes the final result in place.
Version(content) == IF content[1] \in ScenarioCalls THEN "live" ELSE "final"
Report ==
    [k \in Attempts |-> {<<u, Version(files[u])>> : u \in {v \in OnDisk : v[2] = k}}]
Settled == \E s \in SuiteCalls : Done(s) /\ HasPlan(s)
Abstract == INSTANCE AttemptReport WITH report <- Report, settled <- Settled

\* The engine implements AttemptReport.
ImplementsAttemptReport == Abstract!Spec
=============================================================================
