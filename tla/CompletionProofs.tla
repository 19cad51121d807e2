--------------------------- MODULE CompletionProofs ---------------------------
(***************************************************************************)
(* More theorems about Collector, for any number of RPCs, attempts and     *)
(* diagnostics and any of the faults: what an error leads to, and what is  *)
(* on disk when an RPC returns, when a finalization is complete and when   *)
(* Kill interrupts the run.  CollectorProofs has the theorems that these   *)
(* rest on.                                                                *)
(***************************************************************************)
EXTENDS CollectorProofs

\* Where a finalization with a plan may be before it returns.
Closing == MetadataFiles \cup {"finish"}
Writing == {"dump", "results"} \cup Closing

\* An RPC that returned keeps ErrorPolicy.
Policy(r) ==
    Done(r) => IF r \notin failed THEN reply[r] = "ok"
               ELSE IF Strict THEN reply[r] = "error"
               ELSE reply[r] = "ok" /\ \E w \in warnings : w[1] = r

\* A callback fails where it returns.
CallbackErrors(c) == pc[c] \in {"idle", "remap", "write", "store", "done"}
                     /\ (c \in failed => Done(c))

\* What has failed is known to a finalization until it returns, and what MapSuite
\* dropped is a warning once the metadata is written.
FinalizerErrors(f) ==
    /\ errs[f] \/ unmapped[f] => f \in failed
    /\ f \in failed /\ ~Done(f) => pc[f] \in Writing /\ (errs[f] \/ unmapped[f])
    /\ unmapped[f] => ~Strict
    /\ unmapped[f] /\ pc[f] \in Closing => <<f, "unmapped">> \in warnings

ErrorInv ==
    /\ \A r \in Rpcs : Policy(r)
    /\ \A c \in ScenarioCalls : CallbackErrors(c)
    /\ \A f \in Finalizers : FinalizerErrors(f)

\* Where a finalization is, it has a plan; what it has passed is empty; what it
\* wrote and did not record is on disk.
Located(f) ==
    /\ HasPlan(f) => pc[f] \in Writing \cup {"done"}
    /\ pc[f] \in Writing => HasPlan(f)
    /\ HasPlan(f) /\ pc[f] \in Closing \cup {"done"} =>
          todo[f] = {} /\ current[f] = None /\ boxes[f] = {}
    /\ boxes[f] \subseteq Boxes(plan[f])
    /\ current[f] # None => plan[f][current[f]] \in OnDisk

\* Unless it failed, what a finalization planned is still to be written or on disk.
Delivered(f) ==
    f \notin failed /\ HasPlan(f) =>
        /\ \A k \in Keys : plan[f][k] # None => k \in todo[f] \/ plan[f][k] \in OnDisk
        /\ Boxes(plan[f]) \subseteq containers \cup boxes[f]
        /\ ProtoDump /\ plan[f][NilSuite] = None => pc[f] = "dump" \/ dumped
        /\ pc[f] \in {"executor", "categories", "finish", "done"} => "environment" \in metadata
        /\ pc[f] \in {"categories", "finish", "done"} => Configured \cap {"executor"} \subseteq metadata
        /\ pc[f] \in {"finish", "done"} => Configured \subseteq metadata

WriteInv == \A f \in Finalizers : Located(f) /\ Delivered(f)

\* A callback has an artifact while it is in flight; with streaming it is on disk
\* before it is stored, and what is stored is on disk.
Streamed(c) ==
    /\ InFlight(c) => artifact[c] # None
    /\ Streaming /\ pc[c] = "store" => artifact[c] \in OnDisk
    /\ Streaming /\ Done(c) /\ c \notin failed => \E u \in OnDisk : u[2] = AttemptOf[c]

StreamInv ==
    /\ \A c \in ScenarioCalls : Streamed(c)
    /\ Streaming => Counted \subseteq OnDisk

\* Kill marks the run only when there is a result, and a run is finalized with a
\* result, a plan or a failure.
KillInv ==
    /\ \A k \in KillCalls : /\ pc[k] \in {"mark", "summary"} => Counted # {}
                            /\ pc[k] \in {"summary", "done"} => finalized
    /\ finalized => Counted # {} \/ failed # {} \/ \E f \in Finalizers : HasPlan(f)

CompletionInv ==
    /\ TypeOK /\ OwnershipInv /\ PlanInv /\ StageInv
    /\ ErrorInv /\ WriteInv /\ StreamInv /\ KillInv /\ ContainerChildrenOnDisk

-----------------------------------------------------------------------------
(* What a step leaves alone.                                               *)

\* A step of one RPC leaves what another one holds as it is.
LEMMA Elsewhere ==
    ASSUME TypeOK, NEW r \in Rpcs, Rpc(r), NEW q \in Rpcs, q # r
    PROVE  /\ pc'[q] = pc[q] /\ reply'[q] = reply[q] /\ (q \in failed' <=> q \in failed)
           /\ q \in ScenarioCalls => artifact'[q] = artifact[q]
           /\ q \in Finalizers => /\ plan'[q] = plan[q] /\ todo'[q] = todo[q]
                                  /\ boxes'[q] = boxes[q] /\ current'[q] = current[q]
                                  /\ unmapped'[q] = unmapped[q] /\ errs'[q] = errs[q]
<1>1. pc'[q] = pc[q]
  BY PcEffect DEF TypeOK
<1>2. CASE r \in ScenarioCalls /\ ScenarioEnding(r)
  <2>1. UNCHANGED finalVars
    BY <1>2 DEF ScenarioEnding, ScenarioRejected, ScenarioMapped, ScenarioConflict,
       ScenarioRemapped, StreamResult, StreamResultFails, StoreResult, localVars
  <2>2. reply'[q] = reply[q] /\ (q \in failed' <=> q \in failed)
    BY <1>2 DEF ScenarioEnding, ScenarioRejected, ScenarioMapped, ScenarioConflict,
       ScenarioRemapped, StreamResult, StreamResultFails, StoreResult, HandleError, Return, TypeOK
  <2>3. q \in ScenarioCalls => artifact'[q] = artifact[q]
    BY <1>2 DEF ScenarioEnding, ScenarioRejected, ScenarioMapped, ScenarioConflict,
       ScenarioRemapped, StreamResult, StreamResultFails, StoreResult, RecordArtifact, localVars,
       TypeOK
  <2> QED
    BY <1>1, <2>1, <2>2, <2>3 DEF finalVars
<1>3. CASE r \in KillCalls /\ FinalizeInterrupted(r)
  <2>1. UNCHANGED <<localVars, failed>> /\ reply'[q] = reply[q]
    BY <1>3 DEF FinalizeInterrupted, KillChecked, KillMarked, KillSummarised, Return, TypeOK
  <2> QED
    BY <1>1, <2>1 DEF localVars, finalVars
<1>4. CASE r \in Finalizers /\ Finalize(r)
  <2>1. q \in ScenarioCalls => artifact'[q] = artifact[q]
    BY <1>4, CallbackFrame
  <2>2. ASSUME NEW keys, NEW dump, BeginWriting(r, keys, dump),
               \/ unmapped' = unmapped /\ failed' = failed
               \/ /\ \E lost : unmapped' = [unmapped EXCEPT ![r] = lost]
                  /\ failed' \in {failed, failed \cup {r}}
        PROVE  /\ reply'[q] = reply[q] /\ (q \in failed' <=> q \in failed)
               /\ q \in Finalizers => /\ plan'[q] = plan[q] /\ todo'[q] = todo[q]
                                      /\ boxes'[q] = boxes[q] /\ current'[q] = current[q]
                                      /\ unmapped'[q] = unmapped[q] /\ errs'[q] = errs[q]
    BY <2>2 DEF BeginWriting, TypeOK
  <2>3. CASE NilSuiteMapped(r)
    BY <1>1, <2>1, <2>2, <2>3 DEF NilSuiteMapped
  <2>4. ASSUME NEW attempts, NEW diagnostics, NEW lost,
               SuiteMapped(r, attempts, diagnostics, lost)
        PROVE  /\ reply'[q] = reply[q] /\ (q \in failed' <=> q \in failed)
               /\ q \in Finalizers => /\ plan'[q] = plan[q] /\ todo'[q] = todo[q]
                                      /\ boxes'[q] = boxes[q] /\ current'[q] = current[q]
                                      /\ unmapped'[q] = unmapped[q] /\ errs'[q] = errs[q]
    BY <2>2, <2>4 DEF SuiteMapped
  <2>5. CASE \/ AlreadyFinalized(r) \/ SuiteRejected(r) \/ CollectWarnings(r)
             \/ FinishStrict(r) \/ Finish(r)
    BY <1>1, <2>1, <2>5 DEF AlreadyFinalized, SuiteRejected, CollectWarnings, FinishStrict, Finish,
       HandleError, Return, localVars, finalVars, TypeOK
  <2>6. CASE \/ DumpSuite(r) \/ \E b \in boxes[r] : WriteContainer(r, b)
             \/ \E m \in MetadataFiles : WriteMetadata(r, m)
    BY <1>1, <2>1, <2>6 DEF DumpSuite, WriteContainer, WriteMetadata, Succeeds, Fails, WriteError,
       TypeOK
  <2>7. CASE \E k \in Keys : WriteResult(r, k)
    BY <1>1, <2>1, <2>7 DEF WriteResult, Succeeds, Fails, WriteError, TypeOK
  <2>8. CASE RecordResult(r)
    BY <1>1, <2>1, <2>8 DEF RecordResult, TypeOK
  <2> QED
    BY <1>1, <1>4, <2>1, <2>3, <2>4, <2>5, <2>6, <2>7, <2>8 DEF Finalize
<1> QED
  BY <1>2, <1>3, <1>4 DEF Rpc

\* What is on disk, in memory, reported or failed stays so.
LEMMA Grows ==
    ASSUME TypeOK, NEW r \in Rpcs, Rpc(r)
    PROVE  /\ warnings \subseteq warnings' /\ containers \subseteq containers'
           /\ metadata \subseteq metadata' /\ failed \subseteq failed'
           /\ OnDisk \subseteq OnDisk' /\ Counted \subseteq Counted'
           /\ (dumped => dumped') /\ (finalized => finalized')
<1>1. CASE r \in ScenarioCalls /\ ScenarioEnding(r)
  <2>1. <<r, AttemptOf[r]>> # None
    BY <1>1, RpcAssumption, NoneAssumption DEF UUIDs, Keys
  <2>2. UNCHANGED <<containers, metadata, dumped, finalized>>
    BY <1>1 DEF ScenarioEnding, ScenarioRejected, ScenarioMapped, ScenarioConflict,
       ScenarioRemapped, StreamResult, StreamResultFails, StoreResult, engineVars, diskVars
  <2>3. warnings \subseteq warnings' /\ failed \subseteq failed'
    BY <1>1 DEF ScenarioEnding, ScenarioRejected, ScenarioMapped, ScenarioConflict,
       ScenarioRemapped, StreamResult, StreamResultFails, StoreResult, HandleError, engineVars
  <2>4. OnDisk \subseteq OnDisk' /\ Counted \subseteq Counted'
    BY <1>1, <2>1 DEF ScenarioEnding, ScenarioRejected, ScenarioMapped, ScenarioConflict,
       ScenarioRemapped, StreamResult, StreamResultFails, StoreResult, engineVars, diskVars,
       OnDisk, Counted, TypeOK
  <2> QED
    BY <2>2, <2>3, <2>4
<1>2. CASE r \in KillCalls /\ FinalizeInterrupted(r)
  BY <1>2 DEF FinalizeInterrupted, KillChecked, KillMarked, KillSummarised, engineVars, diskVars,
     OnDisk, Counted
<1>3. CASE r \in Finalizers /\ Finalize(r)
  <2>1. ASSUME NEW keys, NEW dump, BeginWriting(r, keys, dump), failed \subseteq failed'
        PROVE  /\ UNCHANGED <<warnings, diskVars, results>> /\ finalized' /\ failed \subseteq failed'
    BY <2>1 DEF BeginWriting
  <2>2. CASE NilSuiteMapped(r)
    BY <2>1, <2>2 DEF NilSuiteMapped, diskVars, OnDisk, Counted
  <2>3. ASSUME NEW attempts, NEW diagnostics, NEW lost,
               SuiteMapped(r, attempts, diagnostics, lost)
        PROVE  /\ UNCHANGED <<warnings, diskVars, results>> /\ finalized' /\ failed \subseteq failed'
    BY <2>1, <2>3 DEF SuiteMapped
  <2>4. CASE \/ AlreadyFinalized(r) \/ SuiteRejected(r) \/ CollectWarnings(r)
             \/ FinishStrict(r) \/ Finish(r)
    BY <2>4 DEF AlreadyFinalized, SuiteRejected, CollectWarnings, FinishStrict, Finish,
       HandleError, engineVars, diskVars, OnDisk, Counted
  <2>5. CASE \/ DumpSuite(r) \/ \E b \in boxes[r] : WriteContainer(r, b)
             \/ \E m \in MetadataFiles : WriteMetadata(r, m)
    BY <2>5 DEF DumpSuite, WriteContainer, WriteMetadata, Succeeds, Fails, WriteError, engineVars,
       OnDisk, Counted
  <2>6. ASSUME NEW k \in Keys, WriteResult(r, k)
        PROVE  /\ OnDisk \subseteq OnDisk' /\ failed \subseteq failed'
               /\ UNCHANGED <<warnings, results, containers, metadata, dumped, finalized>>
    <3>1. <<r, k>> # None
      BY <1>3, NoneAssumption DEF UUIDs, Rpcs
    <3> QED
      BY <2>6, <3>1 DEF WriteResult, Succeeds, Fails, WriteError, engineVars, OnDisk, TypeOK
  <2>7. CASE RecordResult(r)
    <3>1. current[r] \in Keys /\ <<r, current[r]>> # None
      BY <1>3, <2>7, NoneAssumption DEF RecordResult, TypeOK, UUIDs, Rpcs
    <3> QED
      BY <2>7, <3>1 DEF RecordResult, diskVars, OnDisk, Counted, TypeOK
  <2>8. CASE \E attempts \in SUBSET Attempts, diagnostics \in SUBSET Diagnostics :
                \E lost \in SUBSET attempts : SuiteMapped(r, attempts, diagnostics, lost)
    <3>1. UNCHANGED <<warnings, diskVars, results>> /\ finalized' /\ failed \subseteq failed'
      BY <2>3, <2>8
    <3> QED
      BY <3>1 DEF diskVars, OnDisk, Counted
  <2>9. CASE \E k \in Keys : WriteResult(r, k)
    <3>1. /\ OnDisk \subseteq OnDisk' /\ failed \subseteq failed'
          /\ UNCHANGED <<warnings, results, containers, metadata, dumped, finalized>>
      BY <2>6, <2>9
    <3> QED
      BY <3>1 DEF Counted
  <2> QED
    BY <1>3, <2>2, <2>4, <2>5, <2>7, <2>8, <2>9 DEF Finalize
<1> QED
  BY <1>1, <1>2, <1>3 DEF Rpc

-----------------------------------------------------------------------------
(* What an error leads to.                                                 *)

LEMMA ErrorInit == ASSUME Init PROVE ErrorInv
  BY DEF Init, ErrorInv, Policy, CallbackErrors, FinalizerErrors, Done, Rpcs

\* handleError keeps the policy.
LEMMA HandlesError ==
    ASSUME TypeOK, NEW r \in Rpcs, HandleError(r)
    PROVE  Policy(r)' /\ Done(r)' /\ r \in failed'
<1>1. /\ pc'[r] = "done" /\ r \in failed'
      /\ reply'[r] = IF Strict THEN "error" ELSE "ok"
      /\ ~Strict => <<r, "error">> \in warnings'
  BY DEF HandleError, Goto, TypeOK
<1>2. ~Strict => \E w \in warnings' : w[1] = r
  BY <1>1
<1> QED
  BY <1>1, <1>2 DEF Policy, Done

LEMMA ErrorScenario ==
    ASSUME TypeOK, ErrorInv, NEW c \in ScenarioCalls, ScenarioEnding(c)
    PROVE  Policy(c)' /\ CallbackErrors(c)'
<1>1. /\ c \in Rpcs /\ Strict \in BOOLEAN /\ Streaming \in BOOLEAN
      /\ Policy(c) /\ CallbackErrors(c)
      /\ pc \in [Rpcs -> Labels] /\ reply \in [Rpcs -> {"none", "ok", "error"}]
  BY ConfigAssumption DEF Rpcs, ErrorInv, TypeOK
<1> USE <1>1 DEF Policy, CallbackErrors, Done
<1>2. CASE ScenarioRejected(c) \/ StreamResultFails(c)
  <2>1. Policy(c)' /\ pc'[c] = "done"
    BY <1>2, HandlesError DEF ScenarioRejected, StreamResultFails
  <2> QED
    BY <2>1
<1>3. CASE ScenarioMapped(c) \/ ScenarioRemapped(c) \/ ScenarioConflict(c)
  <2>1. pc[c] \in {"idle", "remap"} /\ pc'[c] \in {"remap", "write", "store"} /\ failed' = failed
    BY <1>3 DEF ScenarioMapped, ScenarioMayStart, ScenarioRemapped, ScenarioConflict,
       RecordArtifact, Goto
  <2> QED
    BY <2>1
<1>4. CASE StreamResult(c) \/ StoreResult(c)
  BY <1>4 DEF StreamResult, StoreResult, Return, Goto
<1> QED
  BY <1>2, <1>3, <1>4 DEF ScenarioEnding

LEMMA ErrorFinalize ==
    ASSUME TypeOK, ErrorInv, NEW f \in Finalizers, Finalize(f)
    PROVE  Policy(f)' /\ FinalizerErrors(f)'
<1>1. /\ f \in Rpcs /\ Strict \in BOOLEAN
      /\ Policy(f) /\ FinalizerErrors(f)
      /\ pc \in [Rpcs -> Labels] /\ reply \in [Rpcs -> {"none", "ok", "error"}]
      /\ unmapped \in [Finalizers -> BOOLEAN] /\ errs \in [Finalizers -> BOOLEAN]
  BY ConfigAssumption DEF Rpcs, ErrorInv, TypeOK
<1> USE <1>1 DEF Policy, FinalizerErrors, Done
<1>2. FinalizeMayStart(f) => f \notin failed /\ ~errs[f] /\ ~unmapped[f]
  BY DEF FinalizeMayStart, Writing, Closing, MetadataFiles
<1>3. CASE AlreadyFinalized(f)
  <2>1. pc'[f] = "done" /\ reply'[f] = "ok" /\ UNCHANGED <<unmapped, errs, failed>>
    BY <1>3 DEF AlreadyFinalized, Return, Goto, localVars, finalVars
  <2> QED
    BY <1>2, <1>3, <2>1 DEF AlreadyFinalized, Closing, MetadataFiles
<1>4. CASE NilSuiteMapped(f)
  BY <1>2, <1>4 DEF NilSuiteMapped, BeginWriting, Goto, Writing, Closing, MetadataFiles
<1>5. ASSUME NEW attempts, NEW diagnostics, NEW lost,
             SuiteMapped(f, attempts, diagnostics, lost)
      PROVE  Policy(f)' /\ FinalizerErrors(f)'
  <2>1. /\ pc'[f] \in {"dump", "results"} /\ errs' = errs
        /\ unmapped'[f] = (lost # {})
        /\ lost # {} => ~Strict /\ f \in failed'
        /\ lost = {} => failed' = failed
    BY <1>5 DEF SuiteMapped, BeginWriting, Goto
  <2>2. f \notin failed /\ ~errs[f]
    BY <1>2, <1>5 DEF SuiteMapped, BeginWriting
  <2> QED
    BY <2>1, <2>2 DEF Writing, Closing, MetadataFiles
<1>6. CASE DumpSuite(f)
  BY <1>6 DEF DumpSuite, Succeeds, Fails, WriteError, Goto, Writing, Closing, MetadataFiles
<1>7. CASE \E k \in Keys : WriteResult(f, k)
  BY <1>7 DEF WriteResult, Succeeds, Fails, WriteError, engineVars, Writing, Closing, MetadataFiles
<1>8. CASE RecordResult(f)
  BY <1>8 DEF RecordResult, Writing, Closing, MetadataFiles
<1>9. CASE \E b \in boxes[f] : WriteContainer(f, b)
  BY <1>9 DEF WriteContainer, ResultsDone, Succeeds, Fails, WriteError, engineVars, Writing,
     Closing, MetadataFiles
<1>10. CASE CollectWarnings(f)
  BY <1>10 DEF CollectWarnings, ResultsDone, Goto, localVars, finalVars, Writing, Closing,
     MetadataFiles
<1>11. ASSUME NEW m \in MetadataFiles, WriteMetadata(f, m)
       PROVE  Policy(f)' /\ FinalizerErrors(f)'
  <2>1. pc[f] \in Closing /\ pc'[f] \in Closing /\ pc'[f] # "done"
    BY <1>11 DEF WriteMetadata, After, Goto, Closing, MetadataFiles
  <2>2. /\ UNCHANGED <<unmapped, warnings>>
        /\ \/ errs' = errs /\ failed' = failed
           \/ errs'[f] /\ f \in failed'
    BY <1>11 DEF WriteMetadata, Succeeds, Fails, WriteError, engineVars
  <2>3. pc[f] # "done"
    BY <1>11 DEF WriteMetadata, MetadataFiles
  <2> QED
    BY <2>1, <2>2, <2>3 DEF Writing
<1>12. CASE FinishStrict(f)
  BY <1>12 DEF FinishStrict, Goto, localVars, finalVars, engineVars, Closing, MetadataFiles
<1>13. CASE Finish(f)
  <2>1. /\ pc[f] \in Closing /\ pc[f] # "done" /\ pc'[f] = "done" /\ reply'[f] = "ok"
        /\ UNCHANGED <<unmapped, errs, failed>>
        /\ errs[f] => ~Strict /\ <<f, "write">> \in warnings'
        /\ warnings \subseteq warnings'
    BY <1>13 DEF Finish, Return, Goto, localVars, finalVars, Closing
  <2>2. unmapped[f] => ~Strict /\ <<f, "unmapped">> \in warnings'
    BY <2>1
  <2>3. f \in failed => ~Strict /\ \E w \in warnings' : w[1] = f
    BY <2>1, <2>2
  <2> QED
    BY <2>1, <2>2, <2>3
<1>14. CASE SuiteRejected(f)
  <2>1. Policy(f)' /\ pc'[f] = "done" /\ f \in failed' /\ UNCHANGED <<unmapped, errs>>
    BY <1>14, HandlesError DEF SuiteRejected, localVars, finalVars
  <2> QED
    BY <1>2, <1>14, <2>1 DEF SuiteRejected, Closing, MetadataFiles
<1> QED
  BY <1>3, <1>4, <1>5, <1>6, <1>7, <1>8, <1>9, <1>10, <1>11, <1>12, <1>13, <1>14
     DEF Finalize

LEMMA ErrorStep == ASSUME TypeOK, ErrorInv, NEW r \in Rpcs, Rpc(r) PROVE ErrorInv'
<1> USE DEF ErrorInv
<1>1. ASSUME NEW q \in Rpcs, q # r
      PROVE  /\ Policy(q)'
             /\ q \in ScenarioCalls => CallbackErrors(q)'
             /\ q \in Finalizers => FinalizerErrors(q)'
  BY <1>1, Elsewhere, Grows DEF Policy, CallbackErrors, FinalizerErrors, Done
<1>2. ASSUME r \in KillCalls, FinalizeInterrupted(r)
      PROVE  Policy(r)' /\ FinalizerErrors(r)'
  BY <1>2 DEF FinalizeInterrupted, KillChecked, KillMarked, KillSummarised, Return, Goto, localVars,
     finalVars, engineVars, Policy, FinalizerErrors, Done, TypeOK, Finalizers, Writing, Closing,
     MetadataFiles
<1>3. /\ Policy(r)'
      /\ r \in ScenarioCalls => CallbackErrors(r)'
      /\ r \in Finalizers => FinalizerErrors(r)'
  BY <1>2, ErrorScenario, ErrorFinalize, RpcAssumption DEF Rpc, Finalizers
<1> QED
  BY <1>1, <1>3 DEF Rpcs

-----------------------------------------------------------------------------
(* What a finalization leaves on disk.                                     *)

LEMMA WriteInit == ASSUME Init PROVE WriteInv
<1> SUFFICES ASSUME NEW f \in Finalizers
             PROVE  Located(f) /\ Delivered(f)
  BY DEF WriteInv
<1>1. ~HasPlan(f) /\ pc[f] = "idle" /\ boxes[f] = {} /\ current[f] = None
  BY DEF Init, HasPlan, Rpcs
<1> QED
  BY <1>1 DEF Located, Delivered, Writing, Closing, MetadataFiles

\* Before a finalization has a plan it has nothing in hand.
LEMMA BeforePlan ==
    ASSUME TypeOK, StageInv, WriteInv, NEW f \in Finalizers, pc[f] \notin Writing \cup {"done"}
    PROVE  ~HasPlan(f) /\ current[f] = None
<1>1. ~HasPlan(f)
  BY DEF WriteInv, Located
<1> QED
  BY <1>1 DEF StageInv, HasPlan, TypeOK

\* A finalization that begins plans something, and the dump unless the suite is nil.
LEMMA WriteBegin ==
    ASSUME TypeOK, StageInv, WriteInv, NEW f \in Finalizers,
           NEW keys \in SUBSET Keys, keys # {}, NEW dump \in BOOLEAN,
           ProtoDump /\ NilSuite \notin keys => dump,
           BeginWriting(f, keys, dump)
    PROVE  Located(f)' /\ Delivered(f)'
<1>1. pc[f] \notin Writing \cup {"done"}
  BY DEF BeginWriting, FinalizeMayStart, Writing, Closing, MetadataFiles
<1>2. /\ plan'[f] = Planned(f, keys) /\ todo'[f] = keys
      /\ boxes'[f] = Boxes(Planned(f, keys))
      /\ pc'[f] = IF dump THEN "dump" ELSE "results"
      /\ current'[f] = None
  BY <1>1, BeforePlan DEF BeginWriting, Goto, TypeOK, Rpcs
<1>3. \A k \in Keys : Planned(f, keys)[k] # None <=> k \in keys
  BY NoneAssumption DEF Planned, UUIDs, Rpcs
<1>4. HasPlan(f)'
  BY <1>2, <1>3 DEF HasPlan
<1>5. Located(f)'
  BY <1>2, <1>4 DEF Located, Writing, Closing, MetadataFiles
<1>6. NilSuite \in Keys
  BY DEF Keys
<1> QED
  BY <1>2, <1>3, <1>5, <1>6 DEF Delivered, MetadataFiles

\* Each step of a finalization keeps its own part of WriteInv.
LEMMA WriteFinalize ==
    ASSUME TypeOK, StageInv, WriteInv, NEW f \in Finalizers, Finalize(f)
    PROVE  Located(f)' /\ Delivered(f)'
<1>1. /\ f \in Rpcs /\ Located(f) /\ Delivered(f)
      /\ pc \in [Rpcs -> Labels]
      /\ todo \in [Finalizers -> SUBSET Keys] /\ boxes \in [Finalizers -> SUBSET Containers]
      /\ current \in [Finalizers -> Keys \cup {None}]
  BY DEF Rpcs, WriteInv, TypeOK
<1> DEFINE p == plan[f]
<1>2. ASSUME FinalizeMayStart(f), UNCHANGED <<plan, boxes, current>>, pc'[f] = "done"
      PROVE  Located(f)' /\ Delivered(f)'
  <2>1. ~HasPlan(f) /\ current[f] = None
    BY <1>2, BeforePlan DEF FinalizeMayStart, Writing, Closing, MetadataFiles
  <2>2. ~HasPlan(f)'
    BY <1>2, <2>1 DEF HasPlan
  <2> QED
    BY <1>1, <1>2, <2>1, <2>2 DEF Located, Delivered, Writing, Closing, MetadataFiles
<1>3. CASE AlreadyFinalized(f) \/ SuiteRejected(f)
  BY <1>1, <1>2, <1>3 DEF AlreadyFinalized, SuiteRejected, HandleError, Return, Goto, localVars,
     finalVars
<1>4. CASE NilSuiteMapped(f)
  BY <1>4, WriteBegin DEF NilSuiteMapped, Keys
<1>5. ASSUME NEW attempts \in SUBSET Attempts, NEW diagnostics \in SUBSET Diagnostics,
             NEW lost \in SUBSET attempts, SuiteMapped(f, attempts, diagnostics, lost)
      PROVE  Located(f)' /\ Delivered(f)'
  <2> DEFINE kept == (attempts \ lost) \cup diagnostics
             keys == IF kept = {} THEN {EmptySuite} ELSE kept
  <2>1. keys \in SUBSET Keys /\ keys # {} /\ ProtoDump \in BOOLEAN
    BY ConfigAssumption DEF Keys
  <2>2. BeginWriting(f, keys, ProtoDump)
    BY <1>5 DEF SuiteMapped
  <2> HIDE DEF keys
  <2> QED
    BY <2>1, <2>2, WriteBegin
<1>6. CASE DumpSuite(f)
  <2>1. /\ pc[f] = "dump" /\ pc'[f] = "results"
        /\ UNCHANGED <<plan, todo, boxes, current, files, containers>>
        /\ (failed' = failed /\ dumped') \/ f \in failed'
    BY <1>1, <1>6 DEF DumpSuite, Succeeds, Fails, WriteError, Goto
  <2> QED
    BY <1>1, <2>1 DEF Located, Delivered, HasPlan, OnDisk, Writing, Closing, MetadataFiles
<1>7. ASSUME NEW k \in Keys, WriteResult(f, k)
      PROVE  Located(f)' /\ Delivered(f)'
  <2>1. p[k] \in UUIDs
    BY <1>7 DEF WriteResult, StageInv, TypeOK
  <2>2. /\ pc[f] = "results" /\ UNCHANGED <<pc, plan, boxes, containers, dumped>>
        /\ todo'[f] = todo[f] \ {k}
        /\ \/ f \in failed' /\ UNCHANGED <<files, current>>
           \/ /\ failed' = failed /\ current'[f] = k
              /\ OnDisk' = OnDisk \cup {p[k]}
    <3>1. <<f, k>> # None /\ p[k] # None
      BY <1>1, <2>1, NoneAssumption DEF UUIDs
    <3>2. ASSUME files' = [files EXCEPT ![p[k]] = <<f, k>>]
          PROVE  OnDisk' = OnDisk \cup {p[k]}
      BY <2>1, <3>1, <3>2 DEF OnDisk, TypeOK
    <3> QED
      BY <1>1, <1>7, <3>2 DEF WriteResult, Succeeds, Fails, WriteError
  <2> QED
    BY <1>1, <2>1, <2>2 DEF Located, Delivered, HasPlan, OnDisk, Writing, Closing, MetadataFiles
<1>8. CASE RecordResult(f)
  <2>1. /\ pc[f] = "results" /\ current'[f] = None
        /\ UNCHANGED <<pc, plan, todo, boxes, files, containers, dumped, metadata, failed>>
    BY <1>1, <1>8 DEF RecordResult, diskVars
  <2> QED
    BY <1>1, <2>1 DEF Located, Delivered, HasPlan, OnDisk, Writing, Closing, MetadataFiles
<1>9. ASSUME NEW b \in boxes[f], WriteContainer(f, b)
      PROVE  Located(f)' /\ Delivered(f)'
  <2>1. /\ pc[f] = "results" /\ boxes'[f] = boxes[f] \ {b}
        /\ UNCHANGED <<pc, plan, todo, current, files, dumped>>
        /\ f \in failed' \/ (failed' = failed /\ containers' = containers \cup {b})
    BY <1>1, <1>9 DEF WriteContainer, ResultsDone, Succeeds, Fails, WriteError
  <2> QED
    BY <1>1, <2>1 DEF Located, Delivered, HasPlan, OnDisk, Writing, Closing, MetadataFiles
<1>10. CASE CollectWarnings(f)
  <2>1. /\ pc[f] = "results" /\ pc'[f] = "environment"
        /\ todo[f] = {} /\ current[f] = None /\ boxes[f] = {}
        /\ UNCHANGED <<plan, todo, boxes, current, files, containers, dumped, failed>>
    BY <1>1, <1>10 DEF CollectWarnings, ResultsDone, Goto, localVars, finalVars, diskVars
  <2> QED
    BY <1>1, <2>1 DEF Located, Delivered, HasPlan, OnDisk, Writing, Closing, MetadataFiles
<1>11. ASSUME NEW m \in MetadataFiles, WriteMetadata(f, m)
       PROVE  Located(f)' /\ Delivered(f)'
  <2>1. /\ pc[f] = m /\ UNCHANGED <<plan, todo, boxes, current, files, containers, dumped>>
        /\ \/ pc'[f] = "finish" /\ f \in failed'
           \/ pc'[f] = After(m) /\ metadata' = metadata \cup {m} /\ failed' = failed
    BY <1>1, <1>11 DEF WriteMetadata, Succeeds, Fails, WriteError, Goto
  <2>2. /\ After(m) \in {"executor", "categories", "finish"}
        /\ After(m) = "executor" => m = "environment"
        /\ After(m) = "categories" => m = "executor" \/ "executor" \notin Configured
        /\ After(m) = "finish" => m = "categories" \/ "categories" \notin Configured
        /\ m = "environment" /\ After(m) = "finish" => "executor" \notin Configured
        /\ m = "categories" => After(m) = "finish"
    BY <1>11 DEF After, MetadataFiles
  <2>3. Located(f)'
    BY <1>1, <1>11, <2>1, <2>2 DEF Located, HasPlan, OnDisk, Writing, Closing, MetadataFiles
  <2>4. Delivered(f)'
    <3>1. CASE f \in failed'
      BY <3>1 DEF Delivered
    <3>2. CASE f \notin failed'
      BY <1>1, <1>11, <2>1, <2>2, <3>2, ConfigAssumption
         DEF Delivered, HasPlan, OnDisk, MetadataFiles
    <3> QED
      BY <3>1, <3>2
  <2> QED
    BY <2>3, <2>4
<1>12. CASE FinishStrict(f) \/ Finish(f)
  <2>1. /\ pc[f] = "finish" /\ pc'[f] = "done"
        /\ UNCHANGED <<plan, todo, boxes, current, files, containers, dumped, metadata, failed>>
    BY <1>1, <1>12 DEF FinishStrict, Finish, Return, Goto, localVars, finalVars, diskVars
  <2> QED
    BY <1>1, <2>1 DEF Located, Delivered, HasPlan, OnDisk, Writing, Closing, MetadataFiles
<1> QED
  BY <1>3, <1>4, <1>5, <1>6, <1>7, <1>8, <1>9, <1>10, <1>11, <1>12 DEF Finalize

LEMMA WriteStep ==
    ASSUME TypeOK, StageInv, WriteInv, NEW r \in Rpcs, Rpc(r)
    PROVE  WriteInv'
<1>1. ASSUME NEW q \in Finalizers, q # r
      PROVE  Located(q)' /\ Delivered(q)'
  <2>1. q \in Rpcs /\ Located(q) /\ Delivered(q)
    BY DEF Rpcs, WriteInv
  <2> QED
    BY <1>1, <2>1, Elsewhere, Grows DEF Located, Delivered, HasPlan
<1>2. ASSUME r \in KillCalls, FinalizeInterrupted(r)
      PROVE  Located(r)' /\ Delivered(r)'
  <2>1. r \in Finalizers
    BY <1>2 DEF Finalizers
  <2>2. /\ pc[r] \in {"idle", "mark", "summary"} /\ pc'[r] \in {"mark", "finalize", "summary", "done"}
        /\ UNCHANGED <<plan, boxes, current>>
    BY <1>2 DEF FinalizeInterrupted, KillChecked, KillMarked, KillSummarised, Return, Goto,
       localVars, finalVars, TypeOK
  <2>3. ~HasPlan(r) /\ current[r] = None
    BY <2>1, <2>2, BeforePlan DEF Writing, Closing, MetadataFiles
  <2> QED
    BY <2>1, <2>2, <2>3 DEF WriteInv, Located, Delivered, HasPlan, Writing, Closing, MetadataFiles
<1> QED
  BY <1>1, <1>2, WriteFinalize, RpcAssumption DEF WriteInv, Rpc

\* A container names results of its plan only.
LEMMA BoxesName ==
    ASSUME NEW p, NEW b \in Boxes(p), NEW u \in b.children
    PROVE  u # None /\ \E k \in Keys : p[k] = u
<1> DEFINE scenarios == {p[k] : k \in Attempts} \ {None}
           children == {p[k] : k \in Keys} \ {None}
<1>1. scenarios \subseteq children
  BY DEF Keys
<1>2. \/ b \in {[scope |-> "scenario", children |-> {v}] : v \in scenarios}
      \/ b \in {[scope |-> "spec", children |-> scenarios] : s \in {scenarios} \ {{}}}
      \/ b \in {[scope |-> "suite", children |-> children]}
  <2>1. p[NilSuite] = None
    BY DEF Boxes
  <2> QED
    BY <2>1 DEF Boxes
<1> HIDE DEF scenarios, children
<1>3. b.children \subseteq scenarios \/ b.children \subseteq children
  BY <1>2
<1>4. u \in children
  BY <1>1, <1>3
<1> QED
  BY <1>4 DEF children

LEMMA ContainerStep ==
    ASSUME TypeOK, WriteInv, ContainerChildrenOnDisk, NEW r \in Rpcs, Rpc(r)
    PROVE  ContainerChildrenOnDisk'
<1> SUFFICES ASSUME (Finalizers \cap failed = {})', NEW b \in containers', NEW u \in b.children
             PROVE  u \in OnDisk'
  BY DEF ContainerChildrenOnDisk
<1>1. Finalizers \cap failed = {} /\ OnDisk \subseteq OnDisk'
  BY Grows
<1>2. CASE b \in containers
  BY <1>1, <1>2 DEF ContainerChildrenOnDisk
<1>3. CASE b \notin containers
  <2>1. r \in Finalizers /\ WriteContainer(r, b)
    <3>1. ~ScenarioEnding(r) /\ ~FinalizeInterrupted(r)
      BY <1>3 DEF ScenarioEnding, ScenarioRejected, ScenarioMapped, ScenarioConflict,
         ScenarioRemapped, StreamResult, StreamResultFails, StoreResult, FinalizeInterrupted,
         KillChecked, KillMarked, KillSummarised, diskVars
    <3>2. r \in Finalizers /\ Finalize(r)
      BY <3>1 DEF Rpc
    <3>3. ~Begins(r) /\ ~RecordResult(r) /\ \A k \in Keys : ~WriteResult(r, k)
      BY <1>3 DEF Begins, BeginWriting, RecordResult, WriteResult, diskVars
    <3>4. OtherFinalize(r)
      BY <3>2, <3>3, FinalizeCases
    <3> QED
      BY <1>3, <3>2, <3>4 DEF OtherFinalize, AlreadyFinalized, SuiteRejected, DumpSuite,
         CollectWarnings, FinishStrict, Finish, WriteContainer, WriteMetadata, diskVars
  <2>2. /\ b \in Boxes(plan[r]) /\ HasPlan(r) /\ r \notin failed
        /\ todo[r] = {} /\ current[r] = None
    BY <1>1, <2>1 DEF WriteContainer, ResultsDone, WriteInv, Located, Writing
  <2>3. PICK k \in Keys : plan[r][k] = u /\ u # None
    BY <2>2, BoxesName
  <2>4. u \in OnDisk
    BY <2>1, <2>2, <2>3 DEF WriteInv, Delivered
  <2> QED
    BY <1>1, <2>4
<1> QED
  BY <1>2, <1>3

-----------------------------------------------------------------------------
(* What a callback leaves on disk.                                         *)

LEMMA StreamInit == ASSUME Init PROVE StreamInv
  BY DEF Init, StreamInv, Streamed, InFlight, Done, Counted, OnDisk, Rpcs

\* Only two steps put a result into memory.
LEMMA ResultsEffect ==
    ASSUME TypeOK, NEW r \in Rpcs, Rpc(r)
    PROVE  \/ results' = results
           \/ /\ r \in ScenarioCalls /\ StoreResult(r)
              /\ Counted' \subseteq Counted \cup {artifact[r]}
           \/ /\ r \in Finalizers /\ RecordResult(r)
              /\ Counted' \subseteq Counted \cup {plan[r][current[r]]}
<1>1. CASE r \in ScenarioCalls /\ ScenarioEnding(r)
  BY <1>1 DEF ScenarioEnding, ScenarioRejected, ScenarioMapped, ScenarioConflict, ScenarioRemapped,
     StreamResult, StreamResultFails, StoreResult, engineVars, Counted, TypeOK
<1>2. CASE r \in KillCalls /\ FinalizeInterrupted(r)
  BY <1>2 DEF FinalizeInterrupted, KillChecked, KillMarked, KillSummarised, engineVars
<1>3. CASE r \in Finalizers /\ Finalize(r)
  <2>1. CASE RecordResult(r)
    BY <1>3, <2>1 DEF RecordResult, Counted, TypeOK
  <2>2. CASE ~RecordResult(r)
    BY <1>3, <2>2, FinalizeCases, OtherFinalizeEffect DEF Begins, BeginWriting, WriteResult, engineVars
  <2> QED
    BY <2>1, <2>2
<1> QED
  BY <1>1, <1>2, <1>3 DEF Rpc

LEMMA StreamScenario ==
    ASSUME TypeOK, OwnershipInv, StreamInv, NEW c \in ScenarioCalls, ScenarioEnding(c)
    PROVE  Streamed(c)'
<1>1. /\ c \in Rpcs /\ Streaming \in BOOLEAN /\ Streamed(c)
      /\ pc \in [Rpcs -> Labels] /\ artifact \in [ScenarioCalls -> UUIDs \cup {None}]
      /\ <<c, AttemptOf[c]>> # None
  BY ConfigAssumption, RpcAssumption, NoneAssumption DEF StreamInv, TypeOK, Rpcs, UUIDs, Keys
<1>2. CASE ScenarioRejected(c) \/ StreamResultFails(c)
  <2>1. pc'[c] = "done" /\ c \in failed'
    BY <1>1, <1>2 DEF ScenarioRejected, StreamResultFails, HandleError, Goto
  <2> QED
    BY <2>1 DEF Streamed, InFlight
<1>3. CASE ScenarioMapped(c) \/ ScenarioConflict(c) \/ ScenarioRemapped(c)
  <2>1. pc'[c] \in {"remap", "write", "store"} /\ (Streaming => pc'[c] # "store")
    BY <1>1, <1>3 DEF ScenarioMapped, ScenarioConflict, ScenarioRemapped, RecordArtifact, Goto
  <2>2. artifact'[c] # None
    BY <1>1, <1>3 DEF ScenarioMapped, ScenarioConflict, ScenarioRemapped, RecordArtifact, Streamed,
       InFlight
  <2> QED
    BY <2>1, <2>2 DEF Streamed, Done
<1>4. CASE StreamResult(c)
  <2>1. /\ pc'[c] = "store" /\ artifact' = artifact /\ artifact[c] \in UUIDs
        /\ files' = [files EXCEPT ![artifact[c]] = <<c, AttemptOf[c]>>]
    BY <1>1, <1>4 DEF StreamResult, Goto, localVars, Streamed, InFlight
  <2>2. artifact[c] \in OnDisk'
    BY <1>1, <2>1 DEF OnDisk, TypeOK
  <2> QED
    BY <1>1, <2>1, <2>2, NoneAssumption DEF Streamed, Done
<1>5. CASE StoreResult(c)
  <2>1. pc[c] = "store" /\ pc'[c] = "done" /\ UNCHANGED files /\ artifact[c] # None
    BY <1>1, <1>5 DEF StoreResult, Return, Goto, diskVars, Streamed, InFlight
  <2>2. artifact[c][2] = AttemptOf[c]
    BY <2>1 DEF OwnershipInv
  <2> QED
    BY <1>1, <2>1, <2>2 DEF Streamed, InFlight, OnDisk
<1> QED
  BY <1>2, <1>3, <1>4, <1>5 DEF ScenarioEnding

LEMMA StreamStep ==
    ASSUME TypeOK, OwnershipInv, WriteInv, StreamInv, NEW r \in Rpcs, Rpc(r)
    PROVE  StreamInv'
<1>1. OnDisk \subseteq OnDisk'
  BY Grows
<1>2. ASSUME NEW c \in ScenarioCalls, c # r
      PROVE  Streamed(c)'
  <2>1. c \in Rpcs /\ Streamed(c)
    BY DEF Rpcs, StreamInv
  <2> QED
    BY <1>1, <1>2, <2>1, Elsewhere DEF Streamed, InFlight, Done
<1>3. r \in ScenarioCalls => Streamed(r)'
  BY StreamScenario, RpcAssumption DEF Rpc, Finalizers
<1>4. ASSUME Streaming
      PROVE  Counted' \subseteq OnDisk'
  <2>1. r \in ScenarioCalls /\ StoreResult(r) => artifact[r] \in OnDisk
    BY <1>4 DEF StreamInv, Streamed, StoreResult
  <2>2. r \in Finalizers /\ RecordResult(r) => plan[r][current[r]] \in OnDisk
    BY DEF WriteInv, Located, RecordResult
  <2>3. results' = results => Counted' = Counted
    BY DEF Counted
  <2> QED
    BY <1>1, <1>4, <2>1, <2>2, <2>3, ResultsEffect DEF StreamInv
<1> QED
  BY <1>2, <1>3, <1>4 DEF StreamInv

-----------------------------------------------------------------------------
(* What Kill finds.                                                        *)

LEMMA KillInit == ASSUME Init PROVE KillInv
  BY DEF Init, KillInv, Rpcs, Finalizers

\* Whoever marks the run finalized has a result, a failure or a plan.
LEMMA FinalizedEffect ==
    ASSUME TypeOK, KillInv, NEW r \in Rpcs, Rpc(r), ~finalized, finalized'
    PROVE  Counted # {} \/ r \in failed' \/ (r \in Finalizers /\ HasPlan(r)')
<1>1. ASSUME NEW keys, NEW dump, r \in Finalizers, BeginWriting(r, keys, dump),
             keys \in SUBSET Keys, keys # {}
      PROVE  HasPlan(r)'
  <2>1. plan'[r] = Planned(r, keys)
    BY <1>1 DEF BeginWriting, TypeOK
  <2>2. \A k \in keys : Planned(r, keys)[k] # None
    BY <1>1, NoneAssumption DEF Planned, UUIDs, Rpcs
  <2> QED
    BY <1>1, <2>1, <2>2 DEF HasPlan
<1>2. ~ScenarioEnding(r)
  BY DEF ScenarioEnding, ScenarioRejected, ScenarioMapped, ScenarioConflict, ScenarioRemapped,
     StreamResult, StreamResultFails, StoreResult, engineVars
<1>3. CASE r \in KillCalls /\ FinalizeInterrupted(r)
  BY <1>3 DEF FinalizeInterrupted, KillChecked, KillMarked, KillSummarised, engineVars, KillInv
<1>4. CASE r \in Finalizers /\ SuiteRejected(r)
  BY <1>4 DEF SuiteRejected, HandleError
<1>5. CASE r \in Finalizers /\ NilSuiteMapped(r)
  BY <1>1, <1>5 DEF NilSuiteMapped, Keys
<1>6. ASSUME NEW attempts \in SUBSET Attempts, NEW diagnostics \in SUBSET Diagnostics,
             NEW lost \in SUBSET attempts, r \in Finalizers,
             SuiteMapped(r, attempts, diagnostics, lost)
      PROVE  HasPlan(r)'
  <2> DEFINE kept == (attempts \ lost) \cup diagnostics
             keys == IF kept = {} THEN {EmptySuite} ELSE kept
  <2>1. keys \in SUBSET Keys /\ keys # {}
    BY DEF Keys
  <2>2. BeginWriting(r, keys, ProtoDump)
    BY <1>6 DEF SuiteMapped
  <2> HIDE DEF keys
  <2> QED
    BY <1>1, <1>6, <2>1, <2>2
<1>7. CASE r \in Finalizers /\ Finalize(r)
  <2>1. \/ SuiteRejected(r) \/ NilSuiteMapped(r)
        \/ \E attempts \in SUBSET Attempts, diagnostics \in SUBSET Diagnostics :
              \E lost \in SUBSET attempts : SuiteMapped(r, attempts, diagnostics, lost)
    BY <1>7 DEF Finalize, AlreadyFinalized, DumpSuite, WriteResult, RecordResult, WriteContainer,
       CollectWarnings, WriteMetadata, FinishStrict, Finish, engineVars
  <2> QED
    BY <1>4, <1>5, <1>6, <1>7, <2>1
<1> QED
  BY <1>2, <1>3, <1>7 DEF Rpc

\* A plan is kept.
LEMMA PlanStays ==
    ASSUME TypeOK, PlanInv, NEW r \in Rpcs, Rpc(r), NEW f \in Finalizers, HasPlan(f)
    PROVE  HasPlan(f)' /\ plan' = plan
<1>1. finalized
  BY DEF PlanInv
<1>2. plan' = plan
  BY <1>1, PlanEffect DEF BeginWriting
<1> QED
  BY <1>2 DEF HasPlan

\* The steps in which SuiteResult or Kill returns.
LEMMA Returns ==
    ASSUME TypeOK, NEW f \in Finalizers, Rpc(f), Done(f)'
    PROVE  \/ AlreadyFinalized(f) \/ SuiteRejected(f) \/ FinishStrict(f) \/ Finish(f)
           \/ f \in KillCalls /\ (KillChecked(f) \/ KillSummarised(f))
<1>1. f \in Rpcs /\ f \notin ScenarioCalls
  BY RpcAssumption DEF Rpcs
<1>2. pc[f] # "done" /\ pc'[f] = "done"
  BY <1>1, DoneRests DEF Done
<1>3. ~KillMarked(f)
  BY <1>1, <1>2 DEF KillMarked, Goto, TypeOK
<1>4. ~NilSuiteMapped(f)
  BY <1>1, <1>2 DEF NilSuiteMapped, BeginWriting, Goto, TypeOK
<1>5. ASSUME NEW attempts, NEW diagnostics, NEW lost,
             SuiteMapped(f, attempts, diagnostics, lost)
      PROVE  FALSE
  BY <1>1, <1>2, <1>5 DEF SuiteMapped, BeginWriting, Goto, TypeOK
<1>6. ASSUME \/ DumpSuite(f) \/ RecordResult(f) \/ CollectWarnings(f)
             \/ \E k \in Keys : WriteResult(f, k)
             \/ \E b \in boxes[f] : WriteContainer(f, b)
             \/ \E m \in MetadataFiles : WriteMetadata(f, m)
      PROVE  FALSE
  BY <1>1, <1>2, <1>6 DEF DumpSuite, RecordResult, CollectWarnings, WriteResult, WriteContainer,
     WriteMetadata, After, MetadataFiles, Goto, TypeOK
<1> QED
  BY <1>1, <1>3, <1>4, <1>5, <1>6 DEF Rpc, Finalize, FinalizeInterrupted

\* A finalization returns only from a run that is finalized.
LEMMA ReturnsFinalized ==
    ASSUME TypeOK, PlanInv, WriteInv, KillInv, NEW f \in Finalizers, Rpc(f), Done(f)'
    PROVE  finalized'
<1>1. CASE AlreadyFinalized(f) \/ SuiteRejected(f)
  BY <1>1 DEF AlreadyFinalized, SuiteRejected, engineVars
<1>2. CASE FinishStrict(f) \/ Finish(f)
  <2>1. finalized' = finalized /\ pc[f] \in Writing
    BY <1>2 DEF FinishStrict, Finish, engineVars, Writing, Closing
  <2> QED
    BY <2>1 DEF WriteInv, Located, PlanInv
<1>3. CASE f \in KillCalls /\ (KillChecked(f) \/ KillSummarised(f))
  <2>1. f \in Rpcs /\ pc'[f] = "done"
    BY DEF Rpcs, Done
  <2> QED
    BY <1>3, <2>1 DEF KillChecked, KillSummarised, Goto, engineVars, KillInv, TypeOK
<1> QED
  BY <1>1, <1>2, <1>3, Returns

LEMMA KillStep ==
    ASSUME TypeOK, PlanInv, WriteInv, KillInv, NEW r \in Rpcs, Rpc(r)
    PROVE  KillInv'
<1>1. Counted \subseteq Counted' /\ failed \subseteq failed' /\ (finalized => finalized')
  BY Grows
<1>2. ASSUME NEW k \in KillCalls, k # r
      PROVE  pc'[k] = pc[k]
  BY <1>2, Elsewhere DEF Rpcs, Finalizers
<1>3. ASSUME r \in KillCalls, pc'[r] \in {"mark", "summary"}
      PROVE  Counted # {} /\ (pc'[r] = "summary" => finalized')
  <2>1. r \in Finalizers /\ r \in Rpcs
    BY <1>3 DEF Finalizers, Rpcs
  <2>2. ~Finalize(r)
    BY <1>3, <2>1 DEF Finalize, AlreadyFinalized, SuiteRejected, NilSuiteMapped, SuiteMapped,
       BeginWriting, FinalizeMayStart, DumpSuite, WriteResult, RecordResult, WriteContainer,
       ResultsDone, CollectWarnings, WriteMetadata, After, MetadataFiles, FinishStrict, Finish,
       HandleError, Return, Goto, TypeOK
  <2> QED
    BY <1>3, <2>1, <2>2, RpcAssumption
       DEF Rpc, FinalizeInterrupted, KillChecked, KillMarked, KillSummarised, Return, Goto, KillInv,
           TypeOK
<1>4. r \in KillCalls /\ pc'[r] = "done" => finalized'
  BY ReturnsFinalized DEF Finalizers, Done
<1>5. finalized' => Counted' # {} \/ failed' # {} \/ \E f \in Finalizers : HasPlan(f)'
  <2>1. CASE finalized
    BY <1>1, <2>1, PlanStays DEF KillInv
  <2>2. CASE ~finalized
    BY <1>1, <2>2, FinalizedEffect
  <2> QED
    BY <2>1, <2>2
<1> QED
  BY <1>1, <1>2, <1>3, <1>4, <1>5 DEF KillInv

-----------------------------------------------------------------------------
(* What holds in whatever order Gauge sends the RPCs.                      *)

LEMMA CompletionInit == ASSUME Init PROVE CompletionInv
<1>1. ReportInv
  BY ReportInit
<1>2. ContainerChildrenOnDisk
  BY DEF Init, ContainerChildrenOnDisk
<1> QED
  BY <1>1, <1>2, ErrorInit, WriteInit, StreamInit, KillInit DEF ReportInv, CompletionInv

LEMMA CompletionStep == CompletionInv /\ [Next]_vars => CompletionInv'
<1> SUFFICES ASSUME CompletionInv, [Next]_vars
             PROVE  CompletionInv'
  OBVIOUS
<1> USE DEF CompletionInv
<1>1. TypeOK' /\ OwnershipInv' /\ PlanInv'
  BY TypeStep, OwnershipStep, PlanStep
<1>2. ASSUME NEW r \in Rpcs, Rpc(r)
      PROVE  CompletionInv'
  BY <1>1, <1>2, StageStep, ErrorStep, WriteStep, StreamStep, KillStep, ContainerStep
<1>3. CASE UNCHANGED vars
  <2> USE <1>3 DEF vars, engineVars, diskVars, localVars, finalVars
  <2>1. StageInv' /\ ErrorInv' /\ KillInv'
    BY DEF StageInv, HasPlan, ErrorInv, Policy, CallbackErrors, FinalizerErrors, Done, KillInv,
       Counted
  <2>2. WriteInv'
    BY DEF WriteInv, Located, Delivered, HasPlan, OnDisk
  <2>3. StreamInv' /\ ContainerChildrenOnDisk'
    BY DEF StreamInv, Streamed, InFlight, Done, Counted, OnDisk, ContainerChildrenOnDisk
  <2> QED
    BY <1>1, <2>1, <2>2, <2>3
<1> QED
  BY <1>2, <1>3 DEF Next, NothingSent

LEMMA CompletionHolds == Spec => []CompletionInv
<1> QED
  BY CompletionInit, CompletionStep, PTL DEF Spec

\* handleError and the two places that bypass it agree: strict mode returns every
\* failure from the RPC that met it, best effort returns none and warns of each.
THEOREM ErrorsFollowPolicy == Spec => []ErrorPolicy
<1>1. CompletionInv => ErrorPolicy
  BY DEF CompletionInv, ErrorInv, Policy, ErrorPolicy
<1> QED
  BY <1>1, CompletionHolds, PTL

\* Finalize writes the containers after the results they name: as long as no write of
\* a finalizer fails, no reader finds a container with a child that is not there.
THEOREM ContainersFollowResults == Spec => []ContainerChildrenOnDisk
<1>1. CompletionInv => ContainerChildrenOnDisk
  BY DEF CompletionInv
<1> QED
  BY <1>1, CompletionHolds, PTL

\* With streaming, what a callback acknowledged and what the engine holds in memory is
\* on disk: a crash at any moment loses neither.
THEOREM AcknowledgedKept == Spec => []AcknowledgedOnDisk
<1>1. CompletionInv => AcknowledgedOnDisk
  BY DEF CompletionInv, StreamInv, Streamed, AcknowledgedOnDisk
<1> QED
  BY <1>1, CompletionHolds, PTL

\* A finalization that returned with a plan and without a failure has everything on disk.
LEMMA FinishedOnDisk ==
    ASSUME CompletionInv, NEW f \in Finalizers, Done(f), f \notin failed, HasPlan(f)
    PROVE  /\ \A k \in Keys : plan[f][k] # None => plan[f][k] \in OnDisk
           /\ Boxes(plan[f]) \subseteq containers
           /\ {"environment"} \cup Configured \subseteq metadata
           /\ ProtoDump /\ plan[f][NilSuite] = None => dumped
  BY DEF CompletionInv, WriteInv, Located, Delivered, Done

\* With streaming, a Kill that returned leaves a result on disk, a streamed one or the
\* synthetic one, unless an operation failed: an interrupted run is never an empty report.
THEOREM InterruptionSeen ==
    ASSUME Streaming
    PROVE  Spec => []InterruptionVisible
<1>1. ASSUME CompletionInv, Quiescent, failed = {}, NEW k \in KillCalls, Done(k)
      PROVE  OnDisk # {}
  <2>1. finalized
    BY <1>1 DEF CompletionInv, KillInv, Done
  <2>2. CASE Counted # {}
    BY <1>1, <2>2 DEF CompletionInv, StreamInv
  <2>3. ASSUME NEW f \in Finalizers, HasPlan(f)
        PROVE  OnDisk # {}
    <3>1. Done(f)
      BY <1>1, <2>3 DEF CompletionInv, WriteInv, Located, Quiescent, InFlight, Done, Rpcs, Writing,
         Closing, MetadataFiles
    <3> QED
      BY <1>1, <2>3, <3>1, FinishedOnDisk DEF HasPlan
  <2> QED
    BY <1>1, <2>1, <2>2, <2>3 DEF CompletionInv, KillInv
<1>2. CompletionInv => InterruptionVisible
  BY <1>1 DEF InterruptionVisible
<1> QED
  BY <1>2, CompletionHolds, PTL

\* With streaming, an attempt that was reported without a failure has a result file once
\* the suite is finalized, also a retry that the final suite result does not name.
THEOREM EveryAttemptReported ==
    ASSUME Streaming
    PROVE  Spec => []AttemptsReported
<1>1. CompletionInv => AttemptsReported
  BY DEF CompletionInv, StreamInv, Streamed, AttemptsReported
<1> QED
  BY <1>1, CompletionHolds, PTL

-----------------------------------------------------------------------------
(* What holds when Gauge sends the suite result after the callbacks.       *)

\* Unless it failed, what a finalization planned is still to be written or in its
\* final version.
FinalInv ==
    \A f \in Finalizers : f \notin failed =>
        \A k \in Keys : plan[f][k] # None => k \in todo[f] \/ files[plan[f][k]] = <<f, k>>

LEMMA FinalStep ==
    ASSUME SuiteLast, ReportInv, FinalInv, NEW r \in Rpcs, Rpc(r)
    PROVE  FinalInv'
<1> USE DEF ReportInv
<1> SUFFICES ASSUME NEW f \in Finalizers, f \notin failed', NEW k \in Keys, plan'[f][k] # None
             PROVE  k \in todo'[f] \/ files'[plan'[f][k]] = <<f, k>>
  BY DEF FinalInv
<1>1. f \notin failed
  BY Grows
<1>2. ASSUME plan'[f] = plan[f], k \notin todo[f]
      PROVE  files'[plan'[f][k]] = <<f, k>>
  <2>1. files[plan[f][k]] = <<f, k>> /\ plan[f][k] \in UUIDs
    BY <1>1, <1>2 DEF FinalInv, TypeOK
  <2>2. IsFinal(files[plan[f][k]])
    BY <2>1, NoneAssumption DEF IsFinal, UUIDs, Rpcs
  <2>3. [Next]_vars
    BY DEF Next
  <2> QED
    BY <1>2, <2>1, <2>2, <2>3, FinalFileKept
<1>3. CASE f # r
  <2>1. plan'[f] = plan[f] /\ todo'[f] = todo[f]
    BY <1>3, Elsewhere DEF Rpcs
  <2> QED
    BY <1>2, <2>1
<1>4. CASE f = r /\ Begins(f)
  <2> PICK keys \in SUBSET Keys, dump \in BOOLEAN : BeginWriting(f, keys, dump)
    BY <1>4 DEF Begins
  <2>1. plan'[f] = Planned(f, keys) /\ todo'[f] = keys
    BY DEF BeginWriting, TypeOK
  <2> QED
    BY <2>1 DEF Planned
<1>5. ASSUME f = r, NEW j \in Keys, WriteResult(f, j)
      PROVE  k \in todo'[f] \/ files'[plan'[f][k]] = <<f, k>>
  <2>1. plan' = plan /\ todo'[f] = todo[f] \ {j}
    BY <1>5 DEF WriteResult, TypeOK
  <2>2. files' = [files EXCEPT ![plan[f][j]] = <<f, j>>]
    BY <1>1, <1>5 DEF WriteResult, Fails, WriteError
  <2>3. k = j => files'[plan'[f][k]] = <<f, k>>
    BY <2>1, <2>2 DEF TypeOK
  <2> QED
    BY <1>2, <2>1, <2>3
<1>6. CASE f = r /\ (RecordResult(f) \/ OtherFinalize(f) \/ FinalizeInterrupted(f))
  <2>1. UNCHANGED <<plan, todo>>
    BY <1>6, OtherFinalizeEffect DEF RecordResult, FinalizeInterrupted, KillChecked, KillMarked,
       KillSummarised, localVars, finalVars
  <2> QED
    BY <1>2, <2>1
<1> QED
  BY <1>3, <1>4, <1>5, <1>6, FinalizeCases, RpcAssumption DEF Rpc

\* A finalization that met no failure leaves the whole report on disk, each planned result
\* in its final version: no late callback and no other finalization took one away.
THEOREM ReportComplete ==
    ASSUME SuiteLast
    PROVE  Spec => []CompleteReport
<1>1. Init => ReportInv /\ FinalInv
  <2>1. Init => FinalInv
    BY DEF Init, FinalInv
  <2> QED
    BY <2>1, ReportInit
<1>2. ReportInv /\ FinalInv /\ [Next]_vars => ReportInv' /\ FinalInv'
  <2> SUFFICES ASSUME ReportInv, FinalInv, [Next]_vars
               PROVE  ReportInv' /\ FinalInv'
    OBVIOUS
  <2>1. CASE UNCHANGED vars
    BY <2>1, ReportStep DEF FinalInv, vars, diskVars, localVars, finalVars
  <2> QED
    BY <2>1, ReportStep, FinalStep DEF Next, NothingSent
<1>3. CompletionInv /\ FinalInv => CompleteReport
  <2> SUFFICES ASSUME CompletionInv, FinalInv, NEW f \in Finalizers,
                      Done(f), f \notin failed, HasPlan(f)
               PROVE  /\ \A k \in Keys : plan[f][k] # None => files[plan[f][k]] = <<f, k>>
                      /\ Boxes(plan[f]) \subseteq containers
                      /\ {"environment"} \cup Configured \subseteq metadata
                      /\ ProtoDump /\ plan[f][NilSuite] = None => dumped
    BY DEF CompleteReport
  <2>1. todo[f] = {}
    BY DEF CompletionInv, WriteInv, Located, Done
  <2> QED
    BY <2>1, FinishedOnDisk DEF FinalInv
<1> QED
  BY <1>1, <1>2, <1>3, CompletionHolds, PTL DEF Spec

\* A suite result that returned with a plan leaves nothing to any other RPC: no
\* callback is in flight, no other finalization has a plan.
LEMMA SettledRests ==
    ASSUME TypeOK, PlanInv, QuietInv, WriteInv, Settled, NEW r \in Rpcs, Rpc(r)
    PROVE  /\ UNCHANGED diskVars
           /\ ~(r \in Finalizers /\ Finish(r))
<1> PICK s \in SuiteCalls : Done(s) /\ HasPlan(s)
  BY DEF Settled
<1>1. s \in Finalizers /\ finalized /\ r # s
  BY DoneRests DEF PlanInv, Finalizers, Done
<1>2. CASE r \in ScenarioCalls /\ ScenarioEnding(r)
  <2>1. ~InFlight(r)
    BY <1>2 DEF QuietInv, Done
  <2>2. ~StreamResult(r)
    BY <2>1 DEF StreamResult, InFlight
  <2> QED
    BY <1>2, <2>2, RpcAssumption DEF ScenarioEnding, ScenarioRejected, ScenarioMapped,
       ScenarioConflict, ScenarioRemapped, StreamResultFails, StoreResult
<1>3. CASE r \in Finalizers /\ Finalize(r)
  <2>1. ~HasPlan(r)
    BY <1>1, <1>3 DEF PlanInv, SingleFinalizer
  <2>2. pc[r] \notin Writing
    BY <1>3, <2>1 DEF WriteInv, Located
  <2>3. AlreadyFinalized(r)
    BY <1>1, <1>3, <2>2 DEF Finalize, SuiteRejected, NilSuiteMapped, SuiteMapped, BeginWriting,
       DumpSuite, WriteResult, RecordResult, WriteContainer, ResultsDone, CollectWarnings,
       WriteMetadata, FinishStrict, Finish, Writing, Closing
  <2>4. ~Finish(r)
    BY <2>2 DEF Finish, Writing, Closing
  <2> QED
    BY <2>3, <2>4 DEF AlreadyFinalized
<1>4. CASE r \in KillCalls /\ FinalizeInterrupted(r)
  BY <1>4 DEF FinalizeInterrupted, KillChecked, KillMarked, KillSummarised, Finish
<1> QED
  BY <1>2, <1>3, <1>4 DEF Rpc

\* After SuiteResult returned nothing is written any more, whatever SuiteResult and Kill
\* RPCs are still on their way.
THEOREM ReportStaysSettled ==
    ASSUME SuiteLast
    PROVE  Spec => ReportSettled
<1>1. Init => ReportInv
  BY ReportInit
<1>2. ReportInv /\ [Next]_vars => ReportInv'
  BY ReportStep
<1>3. ReportInv /\ CompletionInv /\ [Next]_vars
        => [(\E s \in SuiteCalls : Done(s) /\ HasPlan(s)) => UNCHANGED diskVars]_vars
  BY SettledRests DEF ReportInv, CompletionInv, Settled, Next, NothingSent
<1> QED
  BY <1>1, <1>2, <1>3, CompletionHolds, PTL DEF Spec, ReportSettled

-----------------------------------------------------------------------------
(* The summary and the memory of a run.                                    *)

\* Only two steps make a summary.
LEMMA SummaryEffect ==
    ASSUME NEW r \in Rpcs, Rpc(r)
    PROVE  summary' = summary \/ (r \in Finalizers /\ Finish(r))
           \/ (r \in KillCalls /\ KillSummarised(r))
<1>1. CASE r \in ScenarioCalls /\ ScenarioEnding(r)
  BY <1>1 DEF ScenarioEnding, ScenarioRejected, ScenarioMapped, ScenarioConflict, ScenarioRemapped,
     StreamResult, StreamResultFails, StoreResult, engineVars
<1>2. CASE r \in KillCalls /\ FinalizeInterrupted(r)
  BY <1>2 DEF FinalizeInterrupted, KillChecked, KillMarked, engineVars
<1>3. CASE r \in Finalizers /\ Finalize(r)
  BY <1>3, FinalizeCases DEF Begins, BeginWriting, WriteResult, RecordResult, OtherFinalize,
     AlreadyFinalized, SuiteRejected, DumpSuite, CollectWarnings, FinishStrict, WriteContainer,
     WriteMetadata, engineVars
<1> QED
  BY <1>1, <1>2, <1>3 DEF Rpc

\* When Kill comes after the suite result it finds the run finalized and returns at
\* once; a summary is made by a suite result that planned a report.
LateInv ==
    /\ \A k \in KillCalls : pc[k] \in {"idle", "done"}
    /\ \A s \in SuiteCalls : Done(s) => finalized
    /\ summary # None => Settled

LEMMA LateStep ==
    ASSUME KillLast, SuiteCalls # {}, CompletionInv, LateInv, NEW r \in Rpcs, Rpc(r)
    PROVE  LateInv'
<1> USE DEF CompletionInv
<1>1. ASSUME r \in KillCalls
      PROVE  KillChecked(r) /\ finalized /\ pc'[r] = "done" /\ summary' = summary
  <2>1. r \in Finalizers /\ r \notin ScenarioCalls /\ r \notin SuiteCalls
    BY <1>1, RpcAssumption DEF Finalizers
  <2>2. pc[r] \in {"idle", "done"}
    BY <1>1 DEF LateInv
  <2>3. ~FinalizeMayStart(r)
    BY <2>1, <2>2 DEF FinalizeMayStart
  <2>4. ~Finalize(r)
    BY <2>2, <2>3 DEF Finalize, AlreadyFinalized, SuiteRejected, NilSuiteMapped, SuiteMapped,
       BeginWriting, DumpSuite, WriteResult, RecordResult, WriteContainer, ResultsDone,
       CollectWarnings, WriteMetadata, MetadataFiles, FinishStrict, Finish
  <2>5. KillChecked(r)
    BY <2>1, <2>2, <2>4 DEF Rpc, FinalizeInterrupted, KillMarked, KillSummarised
  <2>6. finalized
    BY <2>5 DEF KillChecked, LateInv
  <2> QED
    BY <2>5, <2>6 DEF KillChecked, Return, Goto, TypeOK, engineVars
<1>2. ASSUME NEW k \in KillCalls
      PROVE  pc'[k] \in {"idle", "done"}
  <2>1. k # r => pc'[k] = pc[k]
    BY Elsewhere DEF Rpcs, Finalizers
  <2> QED
    BY <1>1, <2>1 DEF LateInv
<1>3. ASSUME NEW s \in SuiteCalls, Done(s)'
      PROVE  finalized'
  <2>1. s \in Finalizers /\ s \in Rpcs
    BY DEF Finalizers, Rpcs
  <2>2. CASE s = r
    BY <1>3, <2>1, <2>2, ReturnsFinalized
  <2>3. CASE s # r
    BY <1>3, <2>1, <2>3, Elsewhere, Grows DEF LateInv, Done
  <2> QED
    BY <2>2, <2>3
<1>4. ASSUME summary' # None
      PROVE  Settled'
  <2>1. CASE summary' = summary
    BY <1>4, <2>1, SettledStays DEF LateInv
  <2>2. CASE r \in Finalizers /\ Finish(r)
    <3>1. r \in SuiteCalls
      BY <2>2 DEF LateInv, Finish, Finalizers
    <3>2. Done(r)' /\ plan' = plan /\ HasPlan(r)
      BY <2>2 DEF Finish, Return, Goto, Done, localVars, finalVars, TypeOK, WriteInv, Located,
         Writing, Closing
    <3> QED
      BY <3>1, <3>2 DEF Settled, HasPlan
  <2>3. CASE r \in KillCalls /\ KillSummarised(r)
    BY <2>3 DEF LateInv, KillSummarised
  <2> QED
    BY <2>1, <2>2, <2>3, SummaryEffect
<1> QED
  BY <1>2, <1>3, <1>4 DEF LateInv

LEMMA LateInit == ASSUME Init PROVE LateInv
  BY DEF Init, LateInv, Done, Rpcs, Finalizers

LEMMA LateHolds ==
    ASSUME KillLast, SuiteCalls # {}
    PROVE  Spec => [](CompletionInv /\ LateInv)
<1>1. CompletionInv /\ LateInv /\ [Next]_vars => LateInv'
  <2> SUFFICES ASSUME CompletionInv, LateInv, [Next]_vars
               PROVE  LateInv'
    OBVIOUS
  <2>1. CASE UNCHANGED vars
    BY <2>1 DEF vars, engineVars, localVars, finalVars, LateInv, Done, Settled, HasPlan
  <2> QED
    BY <2>1, LateStep DEF Next, NothingSent
<1>2. Init => LateInv
  BY LateInit
<1> QED
  BY <1>1, <1>2, CompletionHolds, PTL DEF Spec

\* When Kill comes after the suite result the summary is made once: neither another
\* suite result nor Kill replaces it.
THEOREM SummaryKept ==
    ASSUME KillLast, SuiteCalls # {}
    PROVE  Spec => SummaryMadeOnce
<1>1. ASSUME CompletionInv, LateInv, [Next]_vars, summary # None
      PROVE  summary' = summary
  <2>1. CASE UNCHANGED vars
    BY <2>1 DEF vars, engineVars
  <2>2. ASSUME NEW r \in Rpcs, Rpc(r)
        PROVE  summary' = summary
    <3>1. ~(r \in KillCalls /\ KillSummarised(r))
      BY <1>1 DEF LateInv, KillSummarised
    <3>2. ASSUME r \in Finalizers, Finish(r)
          PROVE  FALSE
      <4>1. HasPlan(r)
        BY <1>1, <3>2 DEF Finish, CompletionInv, WriteInv, Located, Writing, Closing
      <4>2. PICK s \in SuiteCalls : Done(s) /\ HasPlan(s)
        BY <1>1 DEF LateInv, Settled
      <4>3. s = r
        BY <1>1, <3>2, <4>1, <4>2 DEF CompletionInv, PlanInv, SingleFinalizer, Finalizers
      <4> QED
        BY <3>2, <4>2, <4>3 DEF Finish, Done
    <3> QED
      BY <2>2, <3>1, <3>2, SummaryEffect
  <2> QED
    BY <1>1, <2>1, <2>2 DEF Next, NothingSent
<1>2. CompletionInv /\ LateInv /\ [Next]_vars => [summary # None => UNCHANGED summary]_vars
  BY <1>1
<1> QED
  BY <1>2, LateHolds, PTL DEF Spec, SummaryMadeOnce

\* A result that was written and is not yet in memory: a callback has yet to store it or
\* a finalization to record it.
Stores(c, u) == pc[c] = "store" /\ artifact[c] = u
Records(f, u) == current[f] # None /\ plan[f][current[f]] = u

\* A file is of a result in memory or in some RPC's hands.
HeldInv ==
    \A u \in OnDisk : \/ u \in Counted
                      \/ \E c \in ScenarioCalls : Stores(c, u)
                      \/ \E f \in Finalizers : Records(f, u)

\* A callback that has yet to store a result stores it next.
LEMMA StoresEffect ==
    ASSUME TypeOK, NEW c \in ScenarioCalls, Rpc(c), NEW u \in UUIDs, Stores(c, u)
    PROVE  StoreResult(c) /\ results'[u] = <<c, AttemptOf[c]>> /\ <<c, AttemptOf[c]>> # None
<1>1. StoreResult(c)
  BY RpcAssumption DEF Stores, Rpc, ScenarioEnding, ScenarioRejected, ScenarioMapped,
     ScenarioConflict, ScenarioMayStart, ScenarioRemapped, StreamResult, StreamResultFails,
     Finalizers
<1>2. <<c, AttemptOf[c]>> # None
  BY RpcAssumption, NoneAssumption DEF UUIDs, Keys, Rpcs
<1> QED
  BY <1>1, <1>2 DEF StoreResult, Stores, TypeOK

\* A finalization that has yet to record a result records it, or has it still.
LEMMA RecordsEffect ==
    ASSUME TypeOK, StageInv, WriteInv, NEW f \in Finalizers, Rpc(f), NEW u \in UUIDs,
           Records(f, u)
    PROVE  \/ /\ RecordResult(f) /\ results'[u] = <<f, current[f]>>
              /\ <<f, current[f]>> # None
           \/ Records(f, u)' /\ current' = current
<1>1. HasPlan(f) /\ current[f] \in Keys
  BY DEF Records, StageInv, HasPlan, TypeOK
<1>2. pc[f] \in {"dump", "results"}
  BY <1>1, DoneRests DEF WriteInv, Located, Records, Writing, Closing, Rpcs
<1>3. CASE RecordResult(f)
  <2>1. <<f, current[f]>> # None
    BY <1>1, NoneAssumption DEF UUIDs, Rpcs
  <2> QED
    BY <1>3, <2>1 DEF RecordResult, Records, TypeOK
<1>4. CASE ~RecordResult(f)
  <2>1. DumpSuite(f) \/ CollectWarnings(f) \/ \E b \in boxes[f] : WriteContainer(f, b)
    BY <1>2, <1>4, RpcAssumption DEF Rpc, Finalize, AlreadyFinalized, SuiteRejected,
       NilSuiteMapped, SuiteMapped, BeginWriting, FinalizeMayStart, WriteResult, WriteMetadata,
       MetadataFiles, FinishStrict, Finish, FinalizeInterrupted, KillChecked, KillMarked,
       KillSummarised, Records
  <2> QED
    BY <2>1 DEF DumpSuite, CollectWarnings, WriteContainer, localVars, finalVars, Records
<1> QED
  BY <1>3, <1>4

\* Only two steps write a result file.
LEMMA FilesEffect ==
    ASSUME TypeOK, NEW r \in Rpcs, Rpc(r)
    PROVE  \/ files' = files
           \/ /\ r \in ScenarioCalls /\ StreamResult(r) /\ pc'[r] = "store"
              /\ UNCHANGED <<results, artifact, current, plan>>
           \/ /\ r \in Finalizers
              /\ UNCHANGED <<results, artifact, pc, plan>>
              /\ \E k \in Keys : /\ WriteResult(r, k) /\ current'[r] = k
                                 /\ files' = [files EXCEPT ![plan[r][k]] = <<r, k>>]
<1>1. CASE r \in ScenarioCalls /\ ScenarioEnding(r)
  BY <1>1 DEF ScenarioEnding, ScenarioRejected, ScenarioMapped, ScenarioConflict, ScenarioRemapped,
     StreamResult, StreamResultFails, StoreResult, diskVars, engineVars, localVars, finalVars, Goto,
     TypeOK
<1>2. CASE r \in KillCalls /\ FinalizeInterrupted(r)
  BY <1>2 DEF FinalizeInterrupted, KillChecked, KillMarked, KillSummarised, diskVars
<1>3. CASE r \in Finalizers /\ Finalize(r)
  <2>1. CASE \E k \in Keys : WriteResult(r, k)
    BY <1>3, <2>1 DEF WriteResult, engineVars, TypeOK
  <2>2. CASE ~\E k \in Keys : WriteResult(r, k)
    BY <1>3, <2>2, FinalizeCases, OtherFinalizeEffect DEF Begins, BeginWriting, RecordResult,
       diskVars
  <2> QED
    BY <2>1, <2>2
<1> QED
  BY <1>1, <1>2, <1>3 DEF Rpc

\* What is in an RPC's hands stays there, or comes into memory.
LEMMA HeldStays ==
    ASSUME TypeOK, StageInv, WriteInv, NEW r \in Rpcs, Rpc(r), NEW u \in UUIDs,
           \/ u \in Counted
           \/ \E c \in ScenarioCalls : Stores(c, u)
           \/ \E f \in Finalizers : Records(f, u)
    PROVE  \/ u \in Counted'
           \/ \E c \in ScenarioCalls : Stores(c, u)'
           \/ \E f \in Finalizers : Records(f, u)'
<1>1. Counted \subseteq Counted'
  BY Grows
<1>2. ASSUME NEW c \in ScenarioCalls, Stores(c, u)
      PROVE  u \in Counted' \/ Stores(c, u)'
  <2>1. c # r => Stores(c, u)'
    BY <1>2, Elsewhere DEF Stores, Rpcs
  <2> QED
    BY <1>2, <2>1, StoresEffect DEF Counted
<1>3. ASSUME NEW f \in Finalizers, Records(f, u)
      PROVE  u \in Counted' \/ Records(f, u)'
  <2>1. f # r => Records(f, u)'
    BY <1>3, Elsewhere DEF Records, Rpcs
  <2> QED
    BY <1>3, <2>1, RecordsEffect DEF Counted
<1> QED
  BY <1>1, <1>2, <1>3

LEMMA HeldStep ==
    ASSUME TypeOK, StageInv, WriteInv, HeldInv, NEW r \in Rpcs, Rpc(r)
    PROVE  HeldInv'
<1> SUFFICES ASSUME NEW u \in OnDisk'
             PROVE  \/ u \in Counted'
                    \/ \E c \in ScenarioCalls : Stores(c, u)'
                    \/ \E f \in Finalizers : Records(f, u)'
  BY DEF HeldInv
<1>1. u \in UUIDs
  BY DEF OnDisk
<1>2. CASE u \in OnDisk
  BY <1>1, <1>2, HeldStays DEF HeldInv
<1>3. ASSUME u \notin OnDisk, r \in ScenarioCalls, StreamResult(r), pc'[r] = "store",
             artifact' = artifact
      PROVE  Stores(r, u)'
  BY <1>1, <1>3 DEF StreamResult, Stores, OnDisk, TypeOK
<1>4. ASSUME u \notin OnDisk, r \in Finalizers, plan' = plan, NEW k \in Keys,
             current'[r] = k, files' = [files EXCEPT ![plan[r][k]] = <<r, k>>]
      PROVE  Records(r, u)'
  BY <1>1, <1>4, NoneAssumption DEF Records, OnDisk, TypeOK
<1> QED
  BY <1>2, <1>3, <1>4, FilesEffect DEF OnDisk

\* With streaming, once a suite result finishes, memory and disk hold the same UUIDs.
LEMMA FinishCounts ==
    ASSUME Streaming, ReportInv, CompletionInv, HeldInv, NEW f \in SuiteCalls, Finish(f)
    PROVE  Counted = OnDisk
<1> USE DEF ReportInv, CompletionInv
<1>1. f \in Finalizers /\ pc[f] = "finish"
  BY DEF Finalizers, Finish
<1>2. HasPlan(f) /\ current[f] = None
  BY <1>1 DEF WriteInv, Located, Writing, Closing
<1>3. \A c \in ScenarioCalls, u \in OnDisk : ~Stores(c, u)
  BY <1>1 DEF QuietInv, Stores, InFlight
<1>4. ASSUME NEW g \in Finalizers, NEW u \in OnDisk, Records(g, u)
      PROVE  FALSE
  <2>1. HasPlan(g)
    BY <1>4 DEF Records, StageInv, HasPlan, TypeOK
  <2> QED
    BY <1>1, <1>2, <1>4, <2>1 DEF PlanInv, SingleFinalizer, Records
<1> QED
  BY <1>3, <1>4 DEF HeldInv, StreamInv

\* With streaming, the summary counts exactly the results a reader finds on disk, also
\* after later RPCs.
THEOREM SummaryMatchesDisk ==
    ASSUME SuiteLast, KillLast, SuiteCalls # {}, Streaming
    PROVE  Spec => []SummaryCountsDisk
<1> DEFINE Inv == ReportInv /\ HeldInv /\ SummaryCountsDisk
           Known == CompletionInv /\ LateInv
<1>1. Init => Inv
  <2>1. Init => HeldInv
    BY DEF Init, HeldInv, OnDisk
  <2>2. Init => SummaryCountsDisk
    BY DEF Init, SummaryCountsDisk
  <2> QED
    BY <2>1, <2>2, ReportInit
<1>2. ASSUME Inv, Known, Known', NEW r \in Rpcs, Rpc(r), summary' # None
      PROVE  summary'.results = OnDisk'
  <2>1. CASE summary # None
    <3>1. Settled
      BY <1>2, <2>1 DEF LateInv
    <3>2. UNCHANGED diskVars /\ ~(r \in Finalizers /\ Finish(r))
      BY <1>2, <3>1, SettledRests DEF ReportInv, CompletionInv
    <3>3. ~(r \in KillCalls /\ KillSummarised(r))
      BY <1>2 DEF LateInv, KillSummarised
    <3>4. summary' = summary
      BY <1>2, <3>2, <3>3, SummaryEffect
    <3> QED
      BY <1>2, <2>1, <3>2, <3>4 DEF SummaryCountsDisk, diskVars, OnDisk
  <2>2. CASE summary = None
    <3>1. r \in SuiteCalls /\ Finish(r)
      BY <1>2, <2>2, SummaryEffect DEF LateInv, KillSummarised, Finish, Finalizers
    <3>2. Counted = OnDisk
      BY <1>2, <3>1, FinishCounts
    <3>3. summary'.results = Counted /\ OnDisk' = OnDisk
      BY <3>1 DEF Finish, Summary, diskVars, OnDisk
    <3> QED
      BY <3>2, <3>3
  <2> QED
    BY <2>1, <2>2
<1>3. Inv /\ Known /\ Known' /\ [Next]_vars => Inv'
  <2> SUFFICES ASSUME Inv, Known, Known', [Next]_vars
               PROVE  Inv'
    OBVIOUS
  <2>1. ReportInv'
    BY ReportStep
  <2>2. CASE UNCHANGED vars
    BY <2>1, <2>2 DEF vars, engineVars, diskVars, localVars, finalVars, HeldInv, SummaryCountsDisk,
       OnDisk, Counted, Stores, Records
  <2>3. ASSUME NEW r \in Rpcs, Rpc(r)
        PROVE  HeldInv' /\ SummaryCountsDisk'
    BY <1>2, <2>3, HeldStep DEF ReportInv, CompletionInv, SummaryCountsDisk
  <2> QED
    BY <2>1, <2>2, <2>3 DEF Next, NothingSent
<1>4. Spec => [](CompletionInv /\ LateInv)
  BY LateHolds
<1> QED
  BY <1>1, <1>3, <1>4, PTL DEF Spec

\* What an RPC has yet to bring into memory is what the file says; everything else is
\* the same in memory and on disk.
MemoryInv ==
    /\ \A c \in ScenarioCalls :
          pc[c] = "store" => files[artifact[c]] = <<c, AttemptOf[c]>>
    /\ \A f \in Finalizers :
          current[f] # None => files[plan[f][current[f]]] = <<f, current[f]>>
    /\ \A u \in UUIDs : \/ results[u] = files[u]
                        \/ \E c \in ScenarioCalls : Stores(c, u)
                        \/ \E f \in Finalizers : Records(f, u)

\* With SuiteLast a callback in flight and a finalization never hold the same UUID.
LEMMA HoldersApart ==
    ASSUME ReportInv, NEW c \in ScenarioCalls, InFlight(c),
           NEW f \in Finalizers, NEW k \in Keys, plan[f][k] # None
    PROVE  plan[f][k] # artifact[c]
<1> USE DEF ReportInv
<1>1. artifact[c] # None /\ artifact[c][2] = AttemptOf[c] /\ plan[f][k][2] = k
  BY DEF AgreeInv, OwnershipInv
<1>2. f \notin SuiteCalls
  BY DEF StageInv, QuietInv, HasPlan
<1>3. k = NilSuite
  BY <1>2 DEF StageInv, Finalizers
<1>4. AttemptOf[c] # NilSuite
  BY RpcAssumption, KeyAssumption
<1> QED
  BY <1>1, <1>3, <1>4

LEMMA MemoryStep ==
    ASSUME SuiteLast, Streaming, ReportInv, WriteInv, MemoryInv,
           \A c, d \in ScenarioCalls : AttemptOf[c] = AttemptOf[d] => c = d,
           NEW r \in Rpcs, Rpc(r)
    PROVE  MemoryInv'
<1> USE DEF ReportInv
<1>1. ASSUME NEW c \in ScenarioCalls, pc'[c] = "store"
      PROVE  files'[artifact'[c]] = <<c, AttemptOf[c]>>
  <2>1. CASE c = r
    <3>1. StreamResult(c)
      <4>1. ScenarioEnding(c)
        BY <2>1, RpcAssumption DEF Rpc, Finalizers
      <4> QED
        BY <1>1, <4>1 DEF ScenarioEnding, ScenarioRejected, ScenarioMapped, ScenarioConflict,
           ScenarioRemapped, RecordArtifact, StreamResultFails, StoreResult, HandleError, Return,
           Goto, TypeOK, Rpcs
    <3>2. artifact[c] \in UUIDs /\ artifact' = artifact
      BY <3>1 DEF StreamResult, InFlight, AgreeInv, TypeOK, localVars
    <3> QED
      BY <3>1, <3>2 DEF StreamResult, TypeOK
  <2>2. CASE c # r
    <3>1. pc[c] = "store" /\ artifact'[c] = artifact[c] /\ InFlight(c)
      BY <1>1, <2>2, Elsewhere DEF Rpcs, InFlight
    <3>2. files[artifact[c]] = <<c, AttemptOf[c]>> /\ artifact[c] \in UUIDs
      BY <3>1 DEF MemoryInv, AgreeInv, TypeOK
    <3>3. ASSUME r \in ScenarioCalls, StreamResult(r)
          PROVE  artifact[r] # artifact[c]
      <4>1. artifact[r] # None /\ InFlight(r)
        BY <3>3 DEF StreamResult, InFlight, AgreeInv
      <4> QED
        BY <2>2, <3>1, <3>3, <4>1 DEF AgreeInv, OwnershipInv
    <3>4. ASSUME r \in Finalizers, NEW k \in Keys, WriteResult(r, k)
          PROVE  plan[r][k] # artifact[c]
      BY <3>1, <3>4, HoldersApart DEF WriteResult, StageInv
    <3>5. files'[artifact[c]] = files[artifact[c]]
      BY <3>2, <3>3, <3>4, FilesEffect DEF StreamResult, TypeOK
    <3> QED
      BY <3>1, <3>2, <3>5
  <2> QED
    BY <2>1, <2>2
<1>2. ASSUME NEW f \in Finalizers, current'[f] # None
      PROVE  files'[plan'[f][current'[f]]] = <<f, current'[f]>>
  <2>1. CASE f = r /\ \E k \in Keys : WriteResult(f, k) /\ current'[f] = k /\ plan' = plan
                        /\ files' = [files EXCEPT ![plan[f][k]] = <<f, k>>]
    <3> PICK k \in Keys : WriteResult(f, k) /\ current'[f] = k /\ plan' = plan
                          /\ files' = [files EXCEPT ![plan[f][k]] = <<f, k>>]
      BY <2>1
    <3>1. plan[f][k] \in UUIDs
      BY DEF WriteResult, StageInv, TypeOK
    <3> QED
      BY <3>1 DEF TypeOK
  <2>2. ASSUME current[f] # None, current'[f] = current[f], files' = files
        PROVE  files'[plan'[f][current'[f]]] = <<f, current'[f]>>
    <3>1. HasPlan(f)
      BY <2>2 DEF StageInv, HasPlan, TypeOK
    <3>2. plan' = plan
      BY <3>1, PlanStays
    <3> QED
      BY <2>2, <3>2 DEF MemoryInv
  <2>3. ASSUME f = r, files' = files
        PROVE  current'[f] = current[f] /\ current[f] # None
    <3>1. CASE current[f] # None
      <4>1. ~RecordResult(f)
        BY <1>2 DEF RecordResult, TypeOK
      <4>2. Records(f, plan[f][current[f]]) /\ plan[f][current[f]] \in UUIDs
        BY <3>1 DEF Records, StageInv, TypeOK
      <4> QED
        BY <2>3, <3>1, <4>1, <4>2, RecordsEffect
    <3>2. CASE current[f] = None
      <4>1. ~\E k \in Keys : WriteResult(f, k)
        <5>1. ASSUME NEW k \in Keys, WriteResult(f, k)
              PROVE  FALSE
          <6>1. current'[f] = k /\ files' = [files EXCEPT ![plan[f][k]] = <<f, k>>]
            BY <1>2, <3>2, <5>1 DEF WriteResult, TypeOK
          <6>2. plan[f][k] \in UUIDs /\ k \in todo[f] /\ plan[f][k] # None /\ plan[f][k][2] = k
            BY <5>1 DEF WriteResult, StageInv, OwnershipInv, TypeOK
          <6>3. files[plan[f][k]] = <<f, k>>
            BY <2>3, <6>1, <6>2 DEF TypeOK
          <6>4. IsFinal(files[plan[f][k]]) /\ plan[f][k] \in OnDisk
            BY <6>2, <6>3, NoneAssumption DEF IsFinal, OnDisk, UUIDs, Rpcs
          <6> QED
            BY <6>2, <6>3, <6>4 DEF FileInv
        <5> QED
          BY <5>1
      <4>2. current' = current
        <5>1. CASE Finalize(f)
          BY <1>2, <3>2, <4>1, <5>1, FinalizeCases, OtherFinalizeEffect
             DEF Begins, BeginWriting, RecordResult, TypeOK
        <5>2. CASE FinalizeInterrupted(f)
          BY <5>2 DEF FinalizeInterrupted, KillChecked, KillMarked, KillSummarised, localVars,
             finalVars
        <5> QED
          BY <2>3, <5>1, <5>2, RpcAssumption DEF Rpc
      <4> QED
        BY <1>2, <3>2, <4>2
    <3> QED
      BY <3>1, <3>2
  <2>4. CASE f # r
    <3>1. current[f] # None /\ current'[f] = current[f] /\ plan'[f] = plan[f]
      BY <1>2, <2>4, Elsewhere DEF Rpcs
    <3>2. /\ current[f] \in Keys /\ plan[f][current[f]] \in UUIDs /\ plan[f][current[f]] # None
          /\ HasPlan(f) /\ files[plan[f][current[f]]] = <<f, current[f]>>
      BY <3>1 DEF StageInv, HasPlan, MemoryInv, TypeOK
    <3>3. ASSUME r \in ScenarioCalls, StreamResult(r)
          PROVE  artifact[r] # plan[f][current[f]]
      BY <3>2, <3>3, HoldersApart DEF StreamResult, InFlight
    <3>4. ASSUME r \in Finalizers, NEW k \in Keys, WriteResult(r, k)
          PROVE  FALSE
      <4>1. HasPlan(r)
        BY <3>4 DEF WriteResult, StageInv, HasPlan
      <4> QED
        BY <2>4, <3>2, <3>4, <4>1 DEF PlanInv, SingleFinalizer
    <3>5. files'[plan[f][current[f]]] = files[plan[f][current[f]]]
      BY <3>2, <3>3, <3>4, FilesEffect DEF StreamResult, TypeOK
    <3> QED
      BY <3>1, <3>2, <3>5
  <2>5. CASE f = r
    BY <2>1, <2>2, <2>3, <2>5, FilesEffect, RpcAssumption DEF Finalizers
  <2> QED
    BY <2>4, <2>5
<1>3. ASSUME NEW u \in UUIDs
      PROVE  \/ results'[u] = files'[u]
             \/ \E c \in ScenarioCalls : Stores(c, u)'
             \/ \E f \in Finalizers : Records(f, u)'
  <2>1. ASSUME NEW c \in ScenarioCalls, Stores(c, u), c # r
        PROVE  Stores(c, u)'
    BY <2>1, Elsewhere DEF Stores, Rpcs
  <2>2. ASSUME NEW f \in Finalizers, Records(f, u), f # r
        PROVE  Records(f, u)'
    BY <2>2, Elsewhere DEF Records, Rpcs
  <2>3. ASSUME r \in ScenarioCalls, Stores(r, u)
        PROVE  results'[u] = files'[u]
    <3>1. StoreResult(r) /\ results'[u] = <<r, AttemptOf[r]>>
      BY <2>3, StoresEffect
    <3> QED
      BY <2>3, <3>1 DEF MemoryInv, Stores, StoreResult, diskVars
  <2>4. ASSUME r \in Finalizers, Records(r, u)
        PROVE  results'[u] = files'[u] \/ Records(r, u)'
    <3>1. CASE RecordResult(r) /\ results'[u] = <<r, current[r]>>
      BY <2>4, <3>1 DEF MemoryInv, Records, RecordResult, diskVars
    <3> QED
      BY <2>4, <3>1, RecordsEffect
  <2>5. CASE \/ \E c \in ScenarioCalls : Stores(c, u)
             \/ \E f \in Finalizers : Records(f, u)
    BY <2>1, <2>2, <2>3, <2>4, <2>5
  <2>6. ASSUME results[u] = files[u],
               \A c \in ScenarioCalls : ~Stores(c, u), \A f \in Finalizers : ~Records(f, u)
        PROVE  \/ results'[u] = files'[u]
               \/ \E c \in ScenarioCalls : Stores(c, u)'
               \/ \E f \in Finalizers : Records(f, u)'
    <3>1. results'[u] = results[u]
      BY <2>6, ResultsEffect DEF StoreResult, RecordResult, Stores, Records, TypeOK
    <3>2. ASSUME r \in ScenarioCalls, StreamResult(r), pc'[r] = "store", artifact' = artifact,
                 files'[u] # files[u]
          PROVE  Stores(r, u)'
      BY <3>2 DEF StreamResult, Stores, TypeOK
    <3>3. ASSUME r \in Finalizers, plan' = plan, NEW k \in Keys, current'[r] = k,
                 files' = [files EXCEPT ![plan[r][k]] = <<r, k>>], files'[u] # files[u]
          PROVE  Records(r, u)'
      BY <3>3, NoneAssumption DEF Records, TypeOK
    <3> QED
      BY <2>6, <3>1, <3>2, <3>3, FilesEffect
  <2> QED
    BY <2>5, <2>6 DEF MemoryInv
<1> QED
  BY <1>1, <1>2, <1>3 DEF MemoryInv

\* With streaming and one callback for each attempt, memory and disk agree on the version
\* of every result as soon as no RPC is in flight, whichever of the writes failed.
THEOREM MemoryAgrees ==
    ASSUME SuiteLast, Streaming,
           \A c, d \in ScenarioCalls : AttemptOf[c] = AttemptOf[d] => c = d
    PROVE  Spec => []MemoryMatchesDisk
<1>1. Init => ReportInv /\ MemoryInv
  <2>1. Init => MemoryInv
    BY DEF Init, MemoryInv, Rpcs
  <2> QED
    BY <2>1, ReportInit
<1>2. ReportInv /\ CompletionInv /\ MemoryInv /\ [Next]_vars => ReportInv' /\ MemoryInv'
  <2> SUFFICES ASSUME ReportInv, CompletionInv, MemoryInv, [Next]_vars
               PROVE  ReportInv' /\ MemoryInv'
    OBVIOUS
  <2>1. CASE UNCHANGED vars
    BY <2>1, ReportStep DEF vars, engineVars, diskVars, localVars, finalVars, MemoryInv, Stores,
       Records
  <2> QED
    BY <2>1, ReportStep, MemoryStep DEF Next, NothingSent, CompletionInv
<1>3. CompletionInv /\ ReportInv /\ MemoryInv => MemoryMatchesDisk
  <2> SUFFICES ASSUME CompletionInv, ReportInv, MemoryInv, Quiescent
               PROVE  results = files
    BY DEF MemoryMatchesDisk
  <2>1. ASSUME NEW c \in ScenarioCalls, NEW u
        PROVE  ~Stores(c, u)
    BY <2>1 DEF Quiescent, InFlight, Stores, Rpcs
  <2>2. ASSUME NEW f \in Finalizers
        PROVE  current[f] = None
    <3>1. ASSUME current[f] # None
          PROVE  FALSE
      <4>1. HasPlan(f)
        BY <3>1 DEF ReportInv, StageInv, HasPlan, TypeOK
      <4>2. pc[f] = "done"
        BY <4>1 DEF Quiescent, InFlight, CompletionInv, WriteInv, Located, Rpcs, Writing, Closing,
           MetadataFiles
      <4> QED
        BY <3>1, <4>1, <4>2 DEF CompletionInv, WriteInv, Located
    <3> QED
      BY <3>1
  <2>3. \A u \in UUIDs : results[u] = files[u]
    BY <2>1, <2>2 DEF MemoryInv, Records
  <2> QED
    BY <2>3 DEF ReportInv, TypeOK
<1> QED
  BY <1>1, <1>2, <1>3, CompletionHolds, PTL DEF Spec
=============================================================================
