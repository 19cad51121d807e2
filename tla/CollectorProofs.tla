--------------------------- MODULE CollectorProofs ---------------------------
(***************************************************************************)
(* Theorems about Collector, for every number of RPCs and attempts and     *)
(* every configuration.                                                    *)
(***************************************************************************)
EXTENDS Collector, FiniteSetTheorems, TLAPS

\* The image of a finite set under a function is finite.
LEMMA FiniteImage ==
    ASSUME NEW S, NEW g, IsFiniteSet(S)
    PROVE  IsFiniteSet({g[x] : x \in S})
<1> DEFINE T == {g[x] : x \in S}
           h == [x \in S |-> g[x]]
<1>1. h \in Surjection(S, T)
  BY DEF Surjection
<1> QED
  BY <1>1, FS_Surjection

\* The warnings are finitely many.
LEMMA WarningsFinite == ASSUME NEW w, w \subseteq Warnings PROVE Cardinality(w) \in Nat
<1> DEFINE causes == {"error", "unmapped", "write"}
<1>1. IsFiniteSet(causes)
  <2>1. IsFiniteSet({"error"}) /\ IsFiniteSet({"error"} \cup {"unmapped"})
    BY FS_Singleton, FS_AddElement
  <2>2. IsFiniteSet(({"error"} \cup {"unmapped"}) \cup {"write"})
    BY <2>1, FS_AddElement
  <2>3. causes = ({"error"} \cup {"unmapped"}) \cup {"write"}
    OBVIOUS
  <2> QED
    BY <2>2, <2>3
<1>2. IsFiniteSet(Rpcs \X causes)
  BY <1>1, FiniteAssumption, FS_Product
<1> QED
  BY <1>2, FS_Subset, FS_CardinalityType DEF Warnings

\* A plan yields finitely many containers.
LEMMA BoxesFinite ==
    ASSUME NEW p \in [Keys -> UUIDs \cup {None}]
    PROVE  Boxes(p) \subseteq Containers /\ Cardinality(Boxes(p)) \in Nat
<1> DEFINE scenarios == {p[k] : k \in Attempts} \ {None}
           children == {p[k] : k \in Keys} \ {None}
           g == [u \in scenarios |-> [scope |-> "scenario", children |-> {u}]]
           sc == {[scope |-> "scenario", children |-> {u}] : u \in scenarios}
           sp == {[scope |-> "spec", children |-> scenarios] : s \in {scenarios} \ {{}}}
           su == {[scope |-> "suite", children |-> children]}
<1>1. Attempts \subseteq Keys
  BY DEF Keys
<1>2. scenarios \subseteq UUIDs /\ children \subseteq UUIDs
  BY <1>1
<1>3. IsFiniteSet(scenarios)
  <2>1. IsFiniteSet(Attempts)
    BY <1>1, FiniteAssumption, FS_Subset
  <2>2. IsFiniteSet({p[k] : k \in Attempts})
    BY <2>1, FiniteImage
  <2> QED
    BY <2>2, FS_Subset
<1>4. IsFiniteSet(sc)
  <2>1. sc = {g[u] : u \in scenarios}
    OBVIOUS
  <2> HIDE DEF sc, scenarios, g
  <2> QED
    BY <2>1, <1>3, FiniteImage
<1>5. IsFiniteSet(sp)
  <2> DEFINE box == [scope |-> "spec", children |-> scenarios]
  <2>1. sp \in SUBSET {box}
    OBVIOUS
  <2> HIDE DEF sp, box
  <2>2. IsFiniteSet({box})
    BY FS_Singleton
  <2> QED
    BY <2>1, <2>2, FS_Subset
<1>6. IsFiniteSet(su)
  BY FS_Singleton
<1>7. sc \subseteq Containers /\ sp \subseteq Containers /\ su \subseteq Containers
  BY <1>2 DEF Containers
<1>8. Boxes(p) = IF p[NilSuite] # None THEN {} ELSE sc \cup sp \cup su
  BY DEF Boxes
<1>9. IsFiniteSet(Boxes(p))
  <2> HIDE DEF sc, sp, su
  <2>1. IsFiniteSet(sc \cup sp)
    BY <1>4, <1>5, FS_Union
  <2>2. IsFiniteSet(sc \cup sp \cup su)
    BY <2>1, <1>6, FS_Union
  <2> QED
    BY <2>2, <1>8, FS_EmptySet
<1> HIDE DEF sc, sp, su
<1> QED
  BY <1>7, <1>8, <1>9, FS_CardinalityType

-----------------------------------------------------------------------------
\* The initial state is well typed.
LEMMA TypeInit == ASSUME Init PROVE TypeOK
<1> USE DEF Init
<1>1. uuids \in [Keys -> UUIDs \cup {None}] /\ results \in [UUIDs -> Contents \cup {None}]
      /\ files \in [UUIDs -> Contents \cup {None}]
  OBVIOUS
<1>2. pc \in [Rpcs -> Labels] /\ reply \in [Rpcs -> {"none", "ok", "error"}]
  BY DEF Labels
<1>3. plan \in [Finalizers -> [Keys -> UUIDs \cup {None}]]
  OBVIOUS
<1>4. boxes \in [Finalizers -> SUBSET Containers] /\ todo \in [Finalizers -> SUBSET Keys]
  OBVIOUS
<1>5. /\ current \in [Finalizers -> Keys \cup {None}]
      /\ artifact \in [ScenarioCalls -> UUIDs \cup {None}]
      /\ unmapped \in [Finalizers -> BOOLEAN] /\ errs \in [Finalizers -> BOOLEAN]
  OBVIOUS
<1>6. /\ finalized \in BOOLEAN /\ dumped \in BOOLEAN /\ summary \in Summaries \cup {None}
      /\ warnings \subseteq Warnings /\ containers \subseteq Containers
      /\ metadata \subseteq MetadataFiles /\ failed \subseteq Rpcs
  OBVIOUS
<1> QED
  BY <1>1, <1>2, <1>3, <1>4, <1>5, <1>6 DEF TypeOK

\* A callback that reports a scenario keeps the types.
LEMMA TypeScenario ==
    ASSUME TypeOK, NEW c \in ScenarioCalls, ScenarioEnding(c)
    PROVE  TypeOK'
<1> DEFINE k == AttemptOf[c]
<1>1. c \in Rpcs /\ k \in Attempts /\ k \in Keys /\ <<c, k>> \in UUIDs
  BY RpcAssumption DEF Rpcs, Keys, UUIDs
<1> HIDE DEF k
<1> USE <1>1 DEF TypeOK
<1>2. CASE ScenarioRejected(c)
  BY <1>2 DEF ScenarioRejected, HandleError, Goto, Warnings, Labels, diskVars, localVars, finalVars
<1>3. CASE ScenarioMapped(c)
  BY <1>3 DEF ScenarioMapped, RecordArtifact, Goto, Labels, diskVars, finalVars, k
<1>4. CASE ScenarioConflict(c)
  BY <1>4 DEF ScenarioConflict, Goto, Labels, engineVars, diskVars, finalVars, k
<1>5. CASE ScenarioRemapped(c)
  BY <1>5 DEF ScenarioRemapped, RecordArtifact, Goto, Labels, diskVars, finalVars, k
<1>6. CASE StreamResult(c)
  BY <1>6 DEF StreamResult, Goto, Labels, Contents, engineVars, localVars, finalVars, k
<1>7. CASE StreamResultFails(c)
  BY <1>7 DEF StreamResultFails, HandleError, Goto, Warnings, Labels, diskVars, localVars, finalVars
<1>8. CASE StoreResult(c)
  BY <1>8 DEF StoreResult, Return, Goto, Labels, Contents, diskVars, localVars, finalVars, k
<1> QED
  BY <1>2, <1>3, <1>4, <1>5, <1>6, <1>7, <1>8 DEF ScenarioEnding

\* Planning a report keeps the types, whatever the suite holds.
LEMMA TypeBegin ==
    ASSUME TypeOK, NEW f \in Finalizers, NEW keys \in SUBSET Keys, NEW dump \in BOOLEAN,
           BeginWriting(f, keys, dump),
           unmapped' \in [Finalizers -> BOOLEAN], failed' \subseteq Rpcs
    PROVE  TypeOK'
<1>1. f \in Rpcs
  BY DEF Rpcs
<1>2. Planned(f, keys) \in [Keys -> UUIDs \cup {None}]
  BY <1>1 DEF Planned, UUIDs, TypeOK
<1>3. Boxes(Planned(f, keys)) \subseteq Containers
  BY <1>2, BoxesFinite
<1>4. /\ plan' \in [Finalizers -> [Keys -> UUIDs \cup {None}]]
      /\ todo' \in [Finalizers -> SUBSET Keys]
      /\ boxes' \in [Finalizers -> SUBSET Containers]
      /\ pc' \in [Rpcs -> Labels]
  BY <1>1, <1>2, <1>3 DEF BeginWriting, Goto, Labels, TypeOK
<1>5. finalized' \in BOOLEAN
  BY DEF BeginWriting
<1> QED
  BY <1>4, <1>5 DEF BeginWriting, TypeOK, diskVars

\* A finalization keeps the types.
LEMMA TypeFinalize ==
    ASSUME TypeOK, NEW f \in Finalizers, Finalize(f)
    PROVE  TypeOK'
<1>1. f \in Rpcs /\ \A k \in Keys : <<f, k>> \in UUIDs
  BY DEF Rpcs, UUIDs
<1>2. CASE AlreadyFinalized(f)
  BY <1>1, <1>2 DEF AlreadyFinalized, Return, Goto, Labels, engineVars, diskVars, localVars,
     finalVars, TypeOK
<1>3. CASE SuiteRejected(f)
  BY <1>1, <1>3 DEF SuiteRejected, HandleError, Goto, Labels, Warnings, diskVars, localVars,
     finalVars, TypeOK
<1>4. CASE NilSuiteMapped(f)
  BY <1>4, TypeBegin DEF NilSuiteMapped, Keys, TypeOK
<1>5. ASSUME NEW attempts \in SUBSET Attempts, NEW diagnostics \in SUBSET Diagnostics,
             NEW lost \in SUBSET attempts, SuiteMapped(f, attempts, diagnostics, lost)
      PROVE  TypeOK'
  <2> DEFINE kept == (attempts \ lost) \cup diagnostics
             keys == IF kept = {} THEN {EmptySuite} ELSE kept
  <2>1. keys \in SUBSET Keys /\ ProtoDump \in BOOLEAN
    BY ConfigAssumption DEF Keys
  <2>2. unmapped' \in [Finalizers -> BOOLEAN] /\ failed' \subseteq Rpcs
    BY <1>1, <1>5 DEF SuiteMapped, TypeOK
  <2>3. BeginWriting(f, keys, ProtoDump)
    BY <1>5 DEF SuiteMapped
  <2> QED
    BY <2>1, <2>2, <2>3, TypeBegin
<1>6. CASE DumpSuite(f)
  BY <1>1, <1>6 DEF DumpSuite, Succeeds, Fails, WriteError, Goto, Labels, engineVars, TypeOK
<1>7. ASSUME NEW k \in Keys, WriteResult(f, k)
      PROVE  TypeOK'
  <2>1. /\ files' \in [UUIDs -> Contents \cup {None}]
        /\ current' \in [Finalizers -> Keys \cup {None}]
        /\ todo' \in [Finalizers -> SUBSET Keys]
    BY <1>1, <1>7 DEF WriteResult, Contents, TypeOK
  <2>2. errs' \in [Finalizers -> BOOLEAN] /\ failed' \subseteq Rpcs
    BY <1>1, <1>7 DEF WriteResult, Succeeds, Fails, WriteError, TypeOK
  <2> QED
    BY <1>7, <2>1, <2>2 DEF WriteResult, engineVars, TypeOK
<1>8. CASE RecordResult(f)
  <2>1. current[f] \in Keys
    BY <1>8 DEF RecordResult, TypeOK
  <2>2. plan[f][current[f]] \in UUIDs \cup {None}
    BY <2>1 DEF TypeOK
  <2>3. /\ uuids' \in [Keys -> UUIDs \cup {None}]
        /\ results' \in [UUIDs -> Contents \cup {None}]
        /\ current' \in [Finalizers -> Keys \cup {None}]
    BY <1>1, <1>8, <2>1, <2>2 DEF RecordResult, Contents, TypeOK
  <2> QED
    BY <1>8, <2>3 DEF RecordResult, diskVars, TypeOK
<1>9. ASSUME NEW b \in boxes[f], WriteContainer(f, b)
      PROVE  TypeOK'
  BY <1>1, <1>9 DEF WriteContainer, Succeeds, Fails, WriteError, engineVars, TypeOK
<1>10. CASE CollectWarnings(f)
  BY <1>1, <1>10 DEF CollectWarnings, Goto, Labels, MetadataFiles, Warnings, diskVars, localVars,
     finalVars, TypeOK
<1>11. ASSUME NEW m \in MetadataFiles, WriteMetadata(f, m)
       PROVE  TypeOK'
  <2>1. After(m) \in Labels
    BY DEF After, Labels, MetadataFiles
  <2> QED
    BY <1>1, <1>11, <2>1 DEF WriteMetadata, Succeeds, Fails, WriteError, Goto, Labels, engineVars,
       TypeOK
<1>12. CASE FinishStrict(f)
  BY <1>1, <1>12 DEF FinishStrict, Goto, Labels, engineVars, diskVars, localVars, finalVars, TypeOK
<1>13. CASE Finish(f)
  <2>1. warnings' \subseteq Warnings
    BY <1>1, <1>13 DEF Finish, Warnings, TypeOK
  <2>2. plan[f] \in [Keys -> UUIDs \cup {None}]
    BY DEF TypeOK
  <2>3. Cardinality(warnings') \in Nat /\ Cardinality(Boxes(plan[f])) \in Nat
    BY <2>1, <2>2, WarningsFinite, BoxesFinite
  <2>4. summary' \in Summaries
    BY <1>13, <2>3 DEF Finish, Summary, Summaries, Counted
  <2> QED
    BY <1>1, <1>13, <2>1, <2>4 DEF Finish, Return, Goto, Labels, diskVars, localVars, finalVars,
       TypeOK
<1> QED
  BY <1>2, <1>3, <1>4, <1>5, <1>6, <1>7, <1>8, <1>9, <1>10, <1>11, <1>12, <1>13 DEF Finalize

\* An interruption keeps the types.
LEMMA TypeInterrupted ==
    ASSUME TypeOK, NEW k \in KillCalls, FinalizeInterrupted(k)
    PROVE  TypeOK'
<1>1. k \in Rpcs
  BY DEF Rpcs, Finalizers
<1>2. CASE KillChecked(k)
  BY <1>1, <1>2 DEF KillChecked, Return, Goto, Labels, engineVars, diskVars, localVars, finalVars,
     TypeOK
<1>3. CASE KillMarked(k)
  BY <1>1, <1>3 DEF KillMarked, Goto, Labels, diskVars, localVars, finalVars, TypeOK
<1>4. CASE KillSummarised(k)
  <2>1. Cardinality(warnings) \in Nat
    BY WarningsFinite DEF TypeOK
  <2>2. summary' \in Summaries
    BY <1>4, <2>1 DEF KillSummarised, Summary, Summaries, Counted
  <2> QED
    BY <1>1, <1>4, <2>2 DEF KillSummarised, Return, Goto, Labels, diskVars, localVars, finalVars,
       TypeOK
<1> QED
  BY <1>2, <1>3, <1>4 DEF FinalizeInterrupted

\* Every step keeps the types.
LEMMA TypeStep == TypeOK /\ [Next]_vars => TypeOK'
<1> SUFFICES ASSUME TypeOK, [Next]_vars
             PROVE  TypeOK'
  OBVIOUS
<1>1. ASSUME NEW r \in Rpcs, Rpc(r)
      PROVE  TypeOK'
  BY <1>1, TypeScenario, TypeFinalize, TypeInterrupted DEF Rpc
<1>2. CASE UNCHANGED vars
  BY <1>2 DEF vars, engineVars, diskVars, localVars, finalVars, TypeOK
<1> QED
  BY <1>1, <1>2 DEF Next, NothingSent

\* The variables keep their types in every run of the engine.
THEOREM TypeCorrect == Spec => []TypeOK
<1> QED
  BY TypeInit, TypeStep, PTL DEF Spec

-----------------------------------------------------------------------------
(* No two attempts share a UUID.                                           *)

\* The strengthening of UUIDOwnership: it also holds of the UUIDs that an RPC
\* has taken out of the engine and has not brought back.
OwnershipInv ==
    /\ UUIDOwnership
    /\ \A c \in ScenarioCalls : artifact[c] # None => artifact[c][2] = AttemptOf[c]
    /\ \A f \in Finalizers, k \in Keys : plan[f][k] # None => plan[f][k][2] = k

LEMMA OwnershipInit == ASSUME Init PROVE OwnershipInv
  BY DEF Init, OwnershipInv, UUIDOwnership

\* Steps that touch no UUID, file, result, artifact or plan keep OwnershipInv.
LEMMA OwnershipFrame ==
    ASSUME OwnershipInv, UNCHANGED <<uuids, files, results, artifact, plan>>
    PROVE  OwnershipInv'
  BY DEF OwnershipInv, UUIDOwnership

LEMMA OwnershipScenario ==
    ASSUME TypeOK, OwnershipInv, NEW c \in ScenarioCalls, ScenarioEnding(c)
    PROVE  OwnershipInv'
<1> DEFINE k == AttemptOf[c]
<1>1. k \in Keys /\ <<c, k>> \in UUIDs /\ <<c, k>>[2] = k
  BY RpcAssumption DEF Rpcs, Keys, UUIDs
<1> HIDE DEF k
<1>2. CASE ScenarioRejected(c)
  BY <1>2, OwnershipFrame DEF ScenarioRejected, diskVars, localVars, finalVars
<1>3. ASSUME NEW u \in UUIDs \cup {None}, u # None => u[2] = k, RecordArtifact(c, u),
             UNCHANGED <<files, results, plan>>
      PROVE  OwnershipInv'
  <2>1. artifact' = [artifact EXCEPT ![c] = u] /\ uuids' = [uuids EXCEPT ![k] = u]
    BY <1>3 DEF RecordArtifact, k
  <2>2. \A d \in ScenarioCalls : artifact'[d] # None => artifact'[d][2] = AttemptOf[d]
    BY <1>3, <2>1 DEF OwnershipInv, TypeOK, k
  <2>3. \A j \in Keys : uuids'[j] # None => uuids'[j][2] = j
    BY <1>1, <1>3, <2>1 DEF OwnershipInv, UUIDOwnership, TypeOK
  <2> QED
    BY <1>3, <2>2, <2>3 DEF OwnershipInv, UUIDOwnership
<1>4. CASE ScenarioMapped(c)
  BY <1>1, <1>3, <1>4 DEF ScenarioMapped, diskVars, finalVars, k
<1>5. CASE ScenarioConflict(c)
  <2>1. artifact' = [artifact EXCEPT ![c] = uuids[k]] /\ UNCHANGED <<uuids, files, results, plan>>
    BY <1>5 DEF ScenarioConflict, engineVars, diskVars, finalVars, k
  <2>2. uuids[k] # None => uuids[k][2] = k
    BY <1>1 DEF OwnershipInv, UUIDOwnership
  <2>3. \A d \in ScenarioCalls : artifact'[d] # None => artifact'[d][2] = AttemptOf[d]
    BY <2>1, <2>2 DEF OwnershipInv, TypeOK, k
  <2> QED
    BY <2>1, <2>3 DEF OwnershipInv, UUIDOwnership
<1>6. CASE ScenarioRemapped(c)
  <2>1. artifact[c] \in UUIDs \cup {None} /\ (artifact[c] # None => artifact[c][2] = k)
    BY DEF OwnershipInv, TypeOK, k
  <2> QED
    BY <1>3, <1>6, <2>1 DEF ScenarioRemapped, diskVars, finalVars
<1>7. CASE StreamResult(c)
  <2>1. files' = [files EXCEPT ![artifact[c]] = <<c, k>>] /\ UNCHANGED <<uuids, results, artifact, plan>>
    BY <1>7 DEF StreamResult, engineVars, localVars, finalVars, k
  <2>2. \A u \in UUIDs : files'[u] # None => files'[u][2] = u[2]
    BY <1>1, <2>1, NoneAssumption DEF OwnershipInv, UUIDOwnership, TypeOK, k
  <2> QED
    BY <2>1, <2>2 DEF OwnershipInv, UUIDOwnership
<1>8. CASE StreamResultFails(c)
  BY <1>8, OwnershipFrame DEF StreamResultFails, diskVars, localVars, finalVars
<1>9. CASE StoreResult(c)
  <2>1. results' = [results EXCEPT ![artifact[c]] = <<c, k>>] /\ UNCHANGED <<uuids, files, artifact, plan>>
    BY <1>9 DEF StoreResult, diskVars, localVars, finalVars, k
  <2>2. ASSUME NEW u \in UUIDs, results'[u] # None
        PROVE  results'[u][2] = u[2]
    <3>1. CASE u = artifact[c]
      BY <1>1, <2>1, <3>1, NoneAssumption DEF OwnershipInv, TypeOK, k
    <3>2. CASE u # artifact[c]
      BY <2>1, <2>2, <3>2 DEF OwnershipInv, UUIDOwnership, TypeOK
    <3> QED
      BY <3>1, <3>2
  <2> QED
    BY <2>1, <2>2 DEF OwnershipInv, UUIDOwnership
<1> QED
  BY <1>2, <1>4, <1>5, <1>6, <1>7, <1>8, <1>9 DEF ScenarioEnding

LEMMA OwnershipFinalize ==
    ASSUME TypeOK, OwnershipInv, NEW f \in Finalizers, Finalize(f)
    PROVE  OwnershipInv'
<1>1. f \in Rpcs /\ \A k \in Keys : <<f, k>> \in UUIDs
  BY DEF Rpcs, UUIDs
<1>2. ASSUME NEW keys \in SUBSET Keys, NEW dump, BeginWriting(f, keys, dump)
      PROVE  OwnershipInv'
  <2>1. /\ plan' = [plan EXCEPT ![f] = Planned(f, keys)]
        /\ UNCHANGED <<uuids, files, results, artifact>>
    BY <1>2 DEF BeginWriting, diskVars
  <2>2. \A k \in Keys : Planned(f, keys)[k] # None => Planned(f, keys)[k][2] = k
    BY <1>1, NoneAssumption DEF Planned, OwnershipInv, UUIDOwnership
  <2>3. \A g \in Finalizers, k \in Keys : plan'[g][k] # None => plan'[g][k][2] = k
    BY <2>1, <2>2 DEF OwnershipInv, TypeOK
  <2> QED
    BY <2>1, <2>3 DEF OwnershipInv, UUIDOwnership
<1>3. CASE NilSuiteMapped(f)
  BY <1>2, <1>3 DEF NilSuiteMapped, Keys
<1>4. ASSUME NEW attempts \in SUBSET Attempts, NEW diagnostics \in SUBSET Diagnostics,
             NEW lost \in SUBSET attempts, SuiteMapped(f, attempts, diagnostics, lost)
      PROVE  OwnershipInv'
  <2> DEFINE kept == (attempts \ lost) \cup diagnostics
             keys == IF kept = {} THEN {EmptySuite} ELSE kept
  <2>1. keys \in SUBSET Keys
    BY DEF Keys
  <2> QED
    BY <1>2, <1>4, <2>1 DEF SuiteMapped
<1>5. ASSUME NEW k \in Keys, WriteResult(f, k)
      PROVE  OwnershipInv'
  <2>1. UNCHANGED <<uuids, results, artifact, plan>>
    BY <1>5 DEF WriteResult, engineVars
  <2>2. files' = [files EXCEPT ![plan[f][k]] = <<f, k>>] \/ files' = files
    BY <1>5 DEF WriteResult
  <2>3. ASSUME NEW u \in UUIDs, files'[u] # None
        PROVE  files'[u][2] = u[2]
    <3>1. CASE files'[u] = files[u]
      BY <2>3, <3>1 DEF OwnershipInv, UUIDOwnership
    <3>2. CASE u = plan[f][k] /\ files'[u] = <<f, k>>
      BY <3>2, NoneAssumption DEF OwnershipInv
    <3> QED
      BY <2>2, <3>1, <3>2 DEF TypeOK
  <2> QED
    BY <2>1, <2>3 DEF OwnershipInv, UUIDOwnership
<1>6. CASE RecordResult(f)
  <2> DEFINE k == current[f]
  <2>1. k \in Keys /\ UNCHANGED <<files, artifact, plan>>
    BY <1>6 DEF RecordResult, diskVars, TypeOK
  <2>2. uuids' = [uuids EXCEPT ![k] = plan[f][k]] /\ results' = [results EXCEPT ![plan[f][k]] = <<f, k>>]
    BY <1>6 DEF RecordResult
  <2>3. \A j \in Keys : uuids'[j] # None => uuids'[j][2] = j
    BY <2>1, <2>2 DEF OwnershipInv, UUIDOwnership, TypeOK
  <2>4. ASSUME NEW u \in UUIDs, results'[u] # None
        PROVE  results'[u][2] = u[2]
    <3>1. CASE results'[u] = results[u]
      BY <2>4, <3>1 DEF OwnershipInv, UUIDOwnership
    <3>2. CASE u = plan[f][k] /\ results'[u] = <<f, k>>
      BY <2>1, <3>2, NoneAssumption DEF OwnershipInv
    <3> QED
      BY <2>2, <3>1, <3>2 DEF TypeOK
  <2> QED
    BY <2>1, <2>3, <2>4 DEF OwnershipInv, UUIDOwnership
<1>7. ASSUME \/ AlreadyFinalized(f) \/ SuiteRejected(f) \/ DumpSuite(f) \/ CollectWarnings(f)
             \/ FinishStrict(f) \/ Finish(f)
             \/ \E b \in boxes[f] : WriteContainer(f, b)
             \/ \E m \in MetadataFiles : WriteMetadata(f, m)
      PROVE  OwnershipInv'
  <2>1. UNCHANGED <<uuids, files, results, artifact, plan>>
    BY <1>7 DEF AlreadyFinalized, SuiteRejected, DumpSuite, CollectWarnings, FinishStrict, Finish,
       WriteContainer, WriteMetadata, engineVars, diskVars, localVars, finalVars
  <2> QED
    BY <2>1, OwnershipFrame
<1> QED
  BY <1>3, <1>4, <1>5, <1>6, <1>7 DEF Finalize

LEMMA OwnershipInterrupted ==
    ASSUME OwnershipInv, NEW k \in KillCalls, FinalizeInterrupted(k)
    PROVE  OwnershipInv'
<1>1. UNCHANGED <<uuids, files, results, artifact, plan>>
  BY DEF FinalizeInterrupted, KillChecked, KillMarked, KillSummarised, engineVars, diskVars,
     localVars, finalVars
<1> QED
  BY <1>1, OwnershipFrame

LEMMA OwnershipStep == TypeOK /\ OwnershipInv /\ [Next]_vars => OwnershipInv'
<1> SUFFICES ASSUME TypeOK, OwnershipInv, [Next]_vars
             PROVE  OwnershipInv'
  OBVIOUS
<1>1. ASSUME NEW r \in Rpcs, Rpc(r)
      PROVE  OwnershipInv'
  BY <1>1, OwnershipScenario, OwnershipFinalize, OwnershipInterrupted DEF Rpc
<1>2. CASE UNCHANGED vars
  BY <1>2, OwnershipFrame DEF vars, engineVars, diskVars, localVars, finalVars
<1> QED
  BY <1>1, <1>2 DEF Next, NothingSent

\* No two attempts ever share a UUID, in whatever order the RPCs run: the UUID map,
\* the results in memory and the files each stay with the attempt they were made for.
THEOREM UUIDsOwned == Spec => []UUIDOwnership
<1>1. OwnershipInv => UUIDOwnership
  BY DEF OwnershipInv
<1> QED
  BY <1>1, OwnershipInit, OwnershipStep, TypeCorrect, PTL DEF Spec

-----------------------------------------------------------------------------
(* One finalization, and one file for each attempt.                        *)

\* Only an RPC that found finalized unset has a plan, and it has one for ever.
PlanInv ==
    /\ (\E f \in Finalizers : HasPlan(f)) => finalized
    /\ SingleFinalizer

\* Every step leaves the plans alone and does not reset finalized, or it begins one.
LEMMA PlanEffect ==
    ASSUME NEW r \in Rpcs, Rpc(r)
    PROVE  \/ UNCHANGED plan /\ (finalized => finalized')
           \/ \E keys \in SUBSET Keys, dump \in BOOLEAN : BeginWriting(r, keys, dump)
<1>1. CASE ScenarioEnding(r)
  BY <1>1 DEF ScenarioEnding, ScenarioRejected, ScenarioMapped, ScenarioConflict, ScenarioRemapped,
     StreamResult, StreamResultFails, StoreResult, engineVars, localVars, finalVars
<1>2. CASE FinalizeInterrupted(r)
  BY <1>2 DEF FinalizeInterrupted, KillChecked, KillMarked, KillSummarised, engineVars, localVars,
     finalVars
<1>3. CASE NilSuiteMapped(r)
  BY <1>3 DEF NilSuiteMapped, Keys
<1>4. ASSUME NEW attempts \in SUBSET Attempts, NEW diagnostics \in SUBSET Diagnostics,
             NEW lost \in SUBSET attempts, SuiteMapped(r, attempts, diagnostics, lost)
      PROVE  \E keys \in SUBSET Keys, dump \in BOOLEAN : BeginWriting(r, keys, dump)
  <2> DEFINE kept == (attempts \ lost) \cup diagnostics
             keys == IF kept = {} THEN {EmptySuite} ELSE kept
  <2>1. keys \in SUBSET Keys /\ ProtoDump \in BOOLEAN
    BY ConfigAssumption DEF Keys
  <2> QED
    BY <1>4, <2>1 DEF SuiteMapped
<1>5. ASSUME \/ AlreadyFinalized(r) \/ SuiteRejected(r) \/ DumpSuite(r) \/ CollectWarnings(r)
             \/ RecordResult(r) \/ FinishStrict(r) \/ Finish(r)
             \/ \E k \in Keys : WriteResult(r, k)
             \/ \E b \in boxes[r] : WriteContainer(r, b)
             \/ \E m \in MetadataFiles : WriteMetadata(r, m)
      PROVE  UNCHANGED plan /\ (finalized => finalized')
  BY <1>5 DEF AlreadyFinalized, SuiteRejected, DumpSuite, CollectWarnings, FinishStrict, Finish,
     RecordResult, WriteResult, WriteContainer, WriteMetadata, engineVars, localVars, finalVars
<1> QED
  BY <1>1, <1>2, <1>3, <1>4, <1>5 DEF Rpc, Finalize

LEMMA PlanStep == TypeOK /\ PlanInv /\ [Next]_vars => PlanInv'
<1> SUFFICES ASSUME TypeOK, PlanInv, [Next]_vars
             PROVE  PlanInv'
  OBVIOUS
<1>1. ASSUME UNCHANGED plan, finalized => finalized'
      PROVE  PlanInv'
  BY <1>1 DEF PlanInv, SingleFinalizer, HasPlan
<1>2. ASSUME NEW f \in Rpcs, NEW keys, NEW dump, BeginWriting(f, keys, dump)
      PROVE  PlanInv'
  <2>1. ~finalized /\ finalized' /\ plan' = [plan EXCEPT ![f] = Planned(f, keys)]
    BY <1>2 DEF BeginWriting
  <2>2. \A g \in Finalizers : ~HasPlan(g)
    BY <2>1 DEF PlanInv
  <2>3. \A g \in Finalizers : HasPlan(g)' => g = f
    BY <2>1, <2>2 DEF HasPlan, TypeOK
  <2> QED
    BY <2>1, <2>3 DEF PlanInv, SingleFinalizer
<1>3. CASE UNCHANGED vars
  BY <1>1, <1>3 DEF vars, engineVars, localVars, finalVars
<1> QED
  BY <1>1, <1>2, <1>3, PlanEffect DEF Next, NothingSent

\* However SuiteResult and Kill overlap, one finalization at most plans, writes and
\* records a report.
THEOREM OneFinalization == Spec => []SingleFinalizer
<1>1. Init => PlanInv
  BY DEF Init, PlanInv, SingleFinalizer, HasPlan
<1>2. PlanInv => SingleFinalizer
  BY DEF PlanInv
<1> QED
  BY <1>1, <1>2, PlanStep, TypeCorrect, PTL DEF Spec

\* Where a finalization has got to: what it has yet to write is planned, Kill
\* plans a nil suite only, a suite call with a plan is no longer idle, and only a
\* finalization puts the UUID of a synthetic result into the map.
StageInv ==
    /\ \A f \in Finalizers :
          /\ \A k \in todo[f] : plan[f][k] # None
          /\ current[f] # None => plan[f][current[f]] # None
    /\ \A f \in KillCalls, k \in Keys : plan[f][k] # None => k = NilSuite
    /\ \A f \in SuiteCalls : HasPlan(f) => pc[f] # "idle"
    /\ \A k \in Keys \ Attempts : uuids[k] # None => finalized

\* With SuiteLast no callback is in flight beside a suite call.
QuietInv == \A s \in SuiteCalls, c \in ScenarioCalls : pc[s] # "idle" => ~InFlight(c)

\* The UUID in an RPC's hands is the one in the map: a callback's artifact, and
\* a finalization's plan where the map has an entry.
AgreeInv ==
    /\ \A c \in ScenarioCalls : InFlight(c) =>
          artifact[c] # None /\ uuids[AttemptOf[c]] = artifact[c]
    /\ \A f \in Finalizers, k \in Keys :
          plan[f][k] # None /\ uuids[k] # None => plan[f][k] = uuids[k]

\* A file has the UUID of its attempt, in the map or in a plan; a final one is
\* in its author's plan and no longer to be written.
FileInv ==
    \A u \in OnDisk :
        /\ uuids[u[2]] = u \/ \E f \in Finalizers : plan[f][u[2]] = u
        /\ IsFinal(files[u]) => plan[files[u][1]][u[2]] = u /\ u[2] \notin todo[files[u][1]]

ReportInv ==
    TypeOK /\ OwnershipInv /\ PlanInv /\ StageInv /\ QuietInv /\ AgreeInv /\ FileInv

LEMMA ReportInit == ASSUME Init PROVE ReportInv
<1>1. TypeOK /\ OwnershipInv
  BY TypeInit, OwnershipInit
<1>2. PlanInv /\ StageInv /\ QuietInv
  BY DEF Init, PlanInv, SingleFinalizer, HasPlan, StageInv, QuietInv, InFlight, Rpcs, Finalizers
<1>3. AgreeInv /\ FileInv
  BY DEF Init, AgreeInv, FileInv, OnDisk, InFlight, Rpcs, Keys
<1> QED
  BY <1>1, <1>2, <1>3 DEF ReportInv

\* A step moves its own RPC only, and never back to idle.
LEMMA PcEffect ==
    ASSUME TypeOK, NEW r \in Rpcs, Rpc(r)
    PROVE  \E label \in Labels \ {"idle"} : pc' = [pc EXCEPT ![r] = label]
<1> USE DEF Goto, Labels
<1>1. CASE ScenarioEnding(r)
  BY <1>1 DEF ScenarioEnding, ScenarioRejected, ScenarioMapped, ScenarioConflict, ScenarioRemapped,
     StreamResult, StreamResultFails, StoreResult, HandleError, RecordArtifact, Return
<1>2. CASE FinalizeInterrupted(r)
  BY <1>2 DEF FinalizeInterrupted, KillChecked, KillMarked, KillSummarised, Return
<1>3. CASE \E keys \in SUBSET Keys, dump \in BOOLEAN : BeginWriting(r, keys, dump)
  BY <1>3 DEF BeginWriting
<1>4. CASE \E m \in MetadataFiles : WriteMetadata(r, m)
  BY <1>4 DEF WriteMetadata, After, MetadataFiles
<1>5. CASE RecordResult(r) \/ \E k \in Keys : WriteResult(r, k)
  <2>1. pc' = pc /\ pc[r] = "results"
    BY <1>5 DEF RecordResult, WriteResult
  <2> QED
    BY <2>1 DEF TypeOK
<1>6. CASE \E b \in boxes[r] : WriteContainer(r, b)
  <2>1. pc' = pc /\ pc[r] = "results"
    BY <1>6 DEF WriteContainer, ResultsDone
  <2> QED
    BY <2>1 DEF TypeOK
<1>7. CASE \/ AlreadyFinalized(r) \/ SuiteRejected(r) \/ DumpSuite(r) \/ CollectWarnings(r)
           \/ FinishStrict(r) \/ Finish(r)
  BY <1>7 DEF AlreadyFinalized, SuiteRejected, DumpSuite, CollectWarnings, FinishStrict, Finish,
     Return, HandleError, MetadataFiles
<1>8. CASE NilSuiteMapped(r)
  BY <1>3, <1>8 DEF NilSuiteMapped, Keys
<1>9. CASE \E attempts \in SUBSET Attempts, diagnostics \in SUBSET Diagnostics :
              \E lost \in SUBSET attempts : SuiteMapped(r, attempts, diagnostics, lost)
  BY <1>9 DEF SuiteMapped, BeginWriting
<1> QED
  BY <1>1, <1>2, <1>4, <1>5, <1>6, <1>7, <1>8, <1>9 DEF Rpc, Finalize

\* A finalization starts only where FinalizeMayStart allows it.
LEMMA FinalizeStarts ==
    ASSUME NEW f \in Finalizers, Finalize(f), pc[f] = "idle"
    PROVE  FinalizeMayStart(f)
<1>1. CASE \/ AlreadyFinalized(f) \/ SuiteRejected(f) \/ NilSuiteMapped(f)
           \/ \E attempts \in SUBSET Attempts, diagnostics \in SUBSET Diagnostics :
                 \E lost \in SUBSET attempts : SuiteMapped(f, attempts, diagnostics, lost)
  BY <1>1 DEF AlreadyFinalized, SuiteRejected, NilSuiteMapped, SuiteMapped, BeginWriting
<1>2. CASE \/ DumpSuite(f) \/ RecordResult(f) \/ CollectWarnings(f) \/ FinishStrict(f) \/ Finish(f)
           \/ \E k \in Keys : WriteResult(f, k)
           \/ \E b \in boxes[f] : WriteContainer(f, b)
           \/ \E m \in MetadataFiles : WriteMetadata(f, m)
  BY <1>2 DEF DumpSuite, RecordResult, CollectWarnings, FinishStrict, Finish, WriteResult,
     WriteContainer, WriteMetadata, ResultsDone, MetadataFiles
<1> QED
  BY <1>1, <1>2 DEF Finalize

LEMMA QuietStep ==
    ASSUME SuiteLast, TypeOK, QuietInv, NEW r \in Rpcs, Rpc(r)
    PROVE  QuietInv'
<1> SUFFICES ASSUME NEW s \in SuiteCalls, NEW c \in ScenarioCalls, pc'[s] # "idle"
             PROVE  ~InFlight(c)'
  BY DEF QuietInv
<1> PICK label \in Labels \ {"idle"} : pc' = [pc EXCEPT ![r] = label]
  BY PcEffect
<1>1. s \in Finalizers /\ s \in Rpcs /\ c \in Rpcs /\ c # s
  BY RpcAssumption DEF Rpcs, Finalizers
<1>2. CASE r = s
  <2>1. pc'[c] = pc[c]
    BY <1>1, <1>2 DEF TypeOK
  <2>2. CASE pc[s] = "idle"
    <3>1. Finalize(s)
      BY <1>1, <1>2, RpcAssumption DEF Rpc, Finalizers
    <3>2. FinalizeMayStart(s)
      BY <1>1, <2>2, <3>1, FinalizeStarts
    <3> QED
      BY <2>1, <2>2, <3>2 DEF FinalizeMayStart, InFlight
  <2>3. CASE pc[s] # "idle"
    BY <2>1, <2>3 DEF QuietInv, InFlight
  <2> QED
    BY <2>2, <2>3
<1>3. CASE r = c
  <2>1. pc'[s] = pc[s]
    BY <1>1, <1>3 DEF TypeOK
  <2>2. ScenarioEnding(c)
    BY <1>3, RpcAssumption DEF Rpc, Finalizers
  <2>3. InFlight(c) \/ ScenarioMayStart(c)
    BY <2>2 DEF ScenarioEnding, ScenarioRejected, ScenarioMapped, ScenarioConflict,
       ScenarioRemapped, StreamResult, StreamResultFails, StoreResult, InFlight
  <2> QED
    BY <2>1, <2>3 DEF ScenarioMayStart, QuietInv
<1>4. CASE r # s /\ r # c
  BY <1>1, <1>4 DEF QuietInv, InFlight, TypeOK
<1> QED
  BY <1>2, <1>3, <1>4

\* Steps that touch neither a plan nor what is left of one keep StageInv.
LEMMA StageFrame ==
    ASSUME StageInv, UNCHANGED <<todo, current, plan>>, finalized => finalized',
           \A k \in Keys \ Attempts : uuids'[k] = uuids[k],
           \A s \in SuiteCalls : pc'[s] = "idle" => pc[s] = "idle"
    PROVE  StageInv'
  BY DEF StageInv, HasPlan

\* The steps of Finalize that neither begin it nor handle a result.
OtherFinalize(f) ==
    \/ AlreadyFinalized(f) \/ SuiteRejected(f) \/ DumpSuite(f) \/ CollectWarnings(f)
    \/ FinishStrict(f) \/ Finish(f)
    \/ \E b \in boxes[f] : WriteContainer(f, b)
    \/ \E m \in MetadataFiles : WriteMetadata(f, m)

LEMMA OtherFinalizeEffect ==
    ASSUME NEW f \in Finalizers, OtherFinalize(f)
    PROVE  /\ UNCHANGED <<uuids, results, files, artifact, plan, todo, current>>
           /\ finalized => finalized'
  BY DEF OtherFinalize, AlreadyFinalized, SuiteRejected, DumpSuite, CollectWarnings, FinishStrict,
     Finish, WriteContainer, WriteMetadata, engineVars, diskVars, localVars, finalVars

\* How a finalization begins: Kill brings a nil suite only.
Begins(f) ==
    \E keys \in SUBSET Keys, dump \in BOOLEAN :
        BeginWriting(f, keys, dump) /\ (f \in KillCalls => keys = {NilSuite})

LEMMA FinalizeCases ==
    ASSUME NEW f \in Finalizers, Finalize(f)
    PROVE  Begins(f) \/ (\E k \in Keys : WriteResult(f, k)) \/ RecordResult(f) \/ OtherFinalize(f)
<1>1. CASE NilSuiteMapped(f)
  BY <1>1 DEF NilSuiteMapped, Begins, Keys
<1>2. ASSUME NEW attempts \in SUBSET Attempts, NEW diagnostics \in SUBSET Diagnostics,
             NEW lost \in SUBSET attempts, SuiteMapped(f, attempts, diagnostics, lost)
      PROVE  Begins(f)
  <2> DEFINE kept == (attempts \ lost) \cup diagnostics
             keys == IF kept = {} THEN {EmptySuite} ELSE kept
  <2>1. keys \in SUBSET Keys /\ ProtoDump \in BOOLEAN /\ f \notin KillCalls
    BY <1>2, ConfigAssumption, RpcAssumption DEF Keys, SuiteMapped
  <2> QED
    BY <1>2, <2>1 DEF SuiteMapped, Begins
<1> QED
  BY <1>1, <1>2 DEF Finalize, OtherFinalize

LEMMA StageStep ==
    ASSUME TypeOK, PlanInv, StageInv, NEW r \in Rpcs, Rpc(r)
    PROVE  StageInv'
<1> PICK label \in Labels \ {"idle"} : pc' = [pc EXCEPT ![r] = label]
  BY PcEffect
<1>1. \A s \in SuiteCalls : /\ pc'[s] = "idle" => pc[s] = "idle"
                           /\ s = r => pc'[s] # "idle"
  BY DEF TypeOK, Rpcs, Finalizers
<1>2. CASE r \in ScenarioCalls /\ ScenarioEnding(r)
  <2>1. UNCHANGED <<todo, current, plan, finalized>>
    BY <1>2 DEF ScenarioEnding, ScenarioRejected, ScenarioMapped, ScenarioConflict,
       ScenarioRemapped, StreamResult, StreamResultFails, StoreResult, engineVars, localVars, finalVars
  <2>2. uuids' = uuids \/ \E u : uuids' = [uuids EXCEPT ![AttemptOf[r]] = u]
    BY <1>2 DEF ScenarioEnding, ScenarioRejected, ScenarioMapped, ScenarioConflict,
       ScenarioRemapped, StreamResult, StreamResultFails, StoreResult, RecordArtifact, engineVars
  <2>3. \A k \in Keys \ Attempts : uuids'[k] = uuids[k]
    BY <1>2, <2>2, RpcAssumption DEF TypeOK
  <2> QED
    BY <1>1, <2>1, <2>3, StageFrame
<1>3. CASE r \in KillCalls /\ FinalizeInterrupted(r)
  <2>1. UNCHANGED <<todo, current, plan, uuids>> /\ (finalized => finalized')
    BY <1>3 DEF FinalizeInterrupted, KillChecked, KillMarked, KillSummarised, engineVars, localVars,
       finalVars
  <2> QED
    BY <1>1, <2>1, StageFrame
<1>4. CASE r \in Finalizers /\ Begins(r)
  <2> PICK keys \in SUBSET Keys, dump \in BOOLEAN :
            BeginWriting(r, keys, dump) /\ (r \in KillCalls => keys = {NilSuite})
    BY <1>4 DEF Begins
  <2>1. /\ ~finalized /\ finalized'
        /\ plan' = [plan EXCEPT ![r] = Planned(r, keys)]
        /\ todo' = [todo EXCEPT ![r] = keys]
        /\ UNCHANGED <<current, uuids>>
    BY DEF BeginWriting
  <2>2. \A g \in Finalizers, k \in Keys : plan[g][k] = None
    BY <2>1 DEF PlanInv, HasPlan
  <2>3. \A g \in Finalizers : current[g] = None
    BY <2>2 DEF StageInv, TypeOK
  <2>4. \A k \in Keys : Planned(r, keys)[k] # None <=> k \in keys
    BY <1>4, NoneAssumption DEF Planned, UUIDs, Rpcs
  <2>5. \A g \in Finalizers, k \in Keys : plan'[g][k] # None => g = r /\ k \in keys
    BY <2>1, <2>2, <2>4 DEF TypeOK
  <2>6. \A g \in Finalizers : \A k \in todo'[g] : plan'[g][k] # None
    BY <1>4, <2>1, <2>2, <2>4 DEF StageInv, TypeOK
  <2> QED
    BY <1>1, <2>1, <2>3, <2>5, <2>6 DEF StageInv, HasPlan, Finalizers
<1>5. ASSUME NEW k \in Keys, r \in Finalizers, WriteResult(r, k)
      PROVE  StageInv'
  <2>1. /\ todo' = [todo EXCEPT ![r] = @ \ {k}]
        /\ current' = [current EXCEPT ![r] = k] \/ current' = current
        /\ k \in todo[r]
        /\ UNCHANGED <<plan, uuids, finalized>>
    BY <1>5 DEF WriteResult, engineVars
  <2>2. \A g \in Finalizers : \A j \in todo'[g] : plan'[g][j] # None
    BY <2>1 DEF StageInv, TypeOK
  <2>3. \A g \in Finalizers : current'[g] # None => plan'[g][current'[g]] # None
    BY <2>1 DEF StageInv, TypeOK
  <2> QED
    BY <1>1, <2>1, <2>2, <2>3 DEF StageInv, HasPlan
<1>6. CASE r \in Finalizers /\ RecordResult(r)
  <2> DEFINE k == current[r]
  <2>1. /\ k \in Keys
        /\ uuids' = [uuids EXCEPT ![k] = plan[r][k]]
        /\ current' = [current EXCEPT ![r] = None]
        /\ UNCHANGED <<plan, todo, finalized>>
    BY <1>6 DEF RecordResult, TypeOK
  <2>2. finalized
    BY <1>6, <2>1 DEF RecordResult, StageInv, PlanInv, HasPlan
  <2>3. \A g \in Finalizers : current'[g] # None => plan'[g][current'[g]] # None
    BY <2>1 DEF StageInv, TypeOK
  <2> QED
    BY <1>1, <2>1, <2>2, <2>3 DEF StageInv, HasPlan
<1>7. CASE r \in Finalizers /\ OtherFinalize(r)
  BY <1>1, <1>7, OtherFinalizeEffect, StageFrame
<1> QED
  BY <1>2, <1>3, <1>4, <1>5, <1>6, <1>7, FinalizeCases DEF Rpc

\* What a step of Finalize or FinalizeInterrupted does to a callback: nothing.
LEMMA CallbackFrame ==
    ASSUME TypeOK, NEW r \in Finalizers, Rpc(r), NEW c \in ScenarioCalls
    PROVE  /\ pc'[c] = pc[c]
           /\ artifact' = artifact
<1>1. r \in Rpcs /\ c \in Rpcs /\ r # c /\ r \notin ScenarioCalls
  BY RpcAssumption DEF Rpcs
<1>2. pc'[c] = pc[c]
  BY <1>1, PcEffect DEF TypeOK
<1>3. artifact' = artifact
  <2>1. CASE Finalize(r)
    <3>1. CASE OtherFinalize(r)
      BY <3>1 DEF OtherFinalize, AlreadyFinalized, SuiteRejected, DumpSuite, CollectWarnings,
         FinishStrict, Finish, WriteContainer, WriteMetadata, localVars
    <3> QED
      BY <2>1, <3>1, FinalizeCases DEF Begins, BeginWriting, WriteResult, RecordResult
  <2>2. CASE FinalizeInterrupted(r)
    BY <2>2 DEF FinalizeInterrupted, KillChecked, KillMarked, KillSummarised, localVars
  <2> QED
    BY <1>1, <2>1, <2>2 DEF Rpc
<1> QED
  BY <1>2, <1>3

\* Steps that touch neither map, plans nor artifacts and put no callback in flight.
LEMMA AgreeFrame ==
    ASSUME AgreeInv, UNCHANGED <<uuids, plan, artifact>>,
           \A c \in ScenarioCalls : InFlight(c)' => InFlight(c)
    PROVE  AgreeInv'
  BY DEF AgreeInv

\* With SuiteLast a callback that begins finds no plan for its attempt.
LEMMA NoPlanYet ==
    ASSUME SuiteLast, StageInv, NEW c \in ScenarioCalls, ScenarioMayStart(c)
    PROVE  \A f \in Finalizers : plan[f][AttemptOf[c]] = None
<1>1. AttemptOf[c] \in Attempts /\ AttemptOf[c] # NilSuite /\ AttemptOf[c] \in Keys
  BY RpcAssumption, KeyAssumption DEF Keys
<1> QED
  BY <1>1 DEF ScenarioMayStart, StageInv, HasPlan, Finalizers

LEMMA AgreeScenario ==
    ASSUME SuiteLast, TypeOK, StageInv, AgreeInv, NEW c \in ScenarioCalls, ScenarioEnding(c)
    PROVE  AgreeInv'
<1> DEFINE k == AttemptOf[c]
<1>1. k \in Keys /\ c \in Rpcs /\ <<c, k>> \in UUIDs /\ <<c, k>> # None
  BY RpcAssumption, NoneAssumption DEF Keys, Rpcs, UUIDs
<1>2. Rpc(c)
  BY DEF Rpc
<1>3. \A d \in ScenarioCalls \ {c} : pc'[d] = pc[d]
  BY <1>1, <1>2, PcEffect DEF TypeOK, Rpcs
<1>4. CASE ScenarioRejected(c) \/ StreamResultFails(c) \/ StoreResult(c)
  <2>1. pc' = [pc EXCEPT ![c] = "done"] /\ UNCHANGED <<uuids, plan, artifact>>
    BY <1>4 DEF ScenarioRejected, StreamResultFails, StoreResult, HandleError, Return, Goto,
       localVars, finalVars
  <2> QED
    BY <1>1, <1>3, <2>1, AgreeFrame DEF InFlight, TypeOK
<1>5. CASE StreamResult(c)
  <2>1. InFlight(c) /\ UNCHANGED <<uuids, plan, artifact>>
    BY <1>5 DEF StreamResult, InFlight, engineVars, localVars, finalVars
  <2> QED
    BY <1>3, <2>1, AgreeFrame DEF InFlight
<1>6. CASE ScenarioRemapped(c)
  <2>1. InFlight(c) /\ artifact[c] # None /\ uuids[k] = artifact[c]
    BY <1>6 DEF ScenarioRemapped, InFlight, AgreeInv
  <2>2. /\ artifact' = [artifact EXCEPT ![c] = artifact[c]]
        /\ uuids' = [uuids EXCEPT ![k] = artifact[c]]
        /\ UNCHANGED plan
    BY <1>6 DEF ScenarioRemapped, RecordArtifact, finalVars
  <2>3. UNCHANGED <<uuids, plan, artifact>>
    BY <1>1, <2>1, <2>2 DEF TypeOK
  <2> QED
    BY <1>3, <2>1, <2>3, AgreeFrame DEF InFlight
<1>7. CASE ScenarioConflict(c)
  <2>1. /\ artifact' = [artifact EXCEPT ![c] = uuids[k]]
        /\ uuids[k] # None
        /\ UNCHANGED <<uuids, plan>>
    BY <1>7 DEF ScenarioConflict, engineVars, finalVars
  <2> QED
    BY <1>3, <2>1 DEF AgreeInv, InFlight, TypeOK
<1>8. CASE ScenarioMapped(c)
  <2>1. /\ artifact' = [artifact EXCEPT ![c] = <<c, k>>]
        /\ uuids' = [uuids EXCEPT ![k] = <<c, k>>]
        /\ uuids[k] = None
        /\ UNCHANGED plan
    BY <1>8 DEF ScenarioMapped, RecordArtifact, finalVars
  <2>2. \A f \in Finalizers : plan[f][k] = None
    BY <1>8, NoPlanYet DEF ScenarioMapped
  <2>3. ASSUME NEW d \in ScenarioCalls, InFlight(d)'
        PROVE  artifact'[d] # None /\ uuids'[AttemptOf[d]] = artifact'[d]
    <3>1. CASE d = c
      BY <1>1, <2>1, <3>1 DEF TypeOK
    <3>2. CASE d # c
      <4>1. artifact[d] # None /\ uuids[AttemptOf[d]] = artifact[d] /\ AttemptOf[d] \in Keys
        BY <1>3, <2>3, <3>2, RpcAssumption DEF AgreeInv, InFlight, Keys
      <4> QED
        BY <2>1, <3>2, <4>1 DEF TypeOK
    <3> QED
      BY <3>1, <3>2
  <2>4. \A f \in Finalizers, j \in Keys :
            plan'[f][j] # None /\ uuids'[j] # None => plan'[f][j] = uuids'[j]
    BY <2>1, <2>2 DEF AgreeInv, TypeOK
  <2> QED
    BY <2>3, <2>4 DEF AgreeInv
<1> QED
  BY <1>4, <1>5, <1>6, <1>7, <1>8 DEF ScenarioEnding

LEMMA AgreeFinalize ==
    ASSUME TypeOK, PlanInv, StageInv, QuietInv, AgreeInv, NEW f \in Finalizers, Finalize(f)
    PROVE  AgreeInv'
<1>1. Rpc(f) /\ f \in Rpcs
  BY DEF Rpc, Rpcs
<1>2. \A c \in ScenarioCalls : pc'[c] = pc[c] /\ artifact' = artifact
  BY <1>1, CallbackFrame
<1>3. CASE Begins(f)
  <2> PICK keys \in SUBSET Keys, dump \in BOOLEAN : BeginWriting(f, keys, dump)
    BY <1>3 DEF Begins
  <2>1. /\ ~finalized
        /\ plan' = [plan EXCEPT ![f] = Planned(f, keys)]
        /\ UNCHANGED uuids
    BY DEF BeginWriting
  <2>2. \A k \in Keys : Planned(f, keys)[k] # None /\ uuids[k] # None
                            => Planned(f, keys)[k] = uuids[k]
    BY <2>1 DEF Planned, StageInv
  <2>3. \A g \in Finalizers, k \in Keys :
            plan'[g][k] # None /\ uuids[k] # None => plan'[g][k] = uuids[k]
    BY <2>1, <2>2 DEF AgreeInv, TypeOK
  <2> QED
    BY <1>2, <2>1, <2>3 DEF AgreeInv, InFlight
<1>4. CASE \E k \in Keys : WriteResult(f, k)
  <2>1. UNCHANGED <<uuids, plan>>
    BY <1>4 DEF WriteResult, engineVars
  <2> QED
    BY <1>2, <2>1 DEF AgreeInv, InFlight
<1>5. CASE RecordResult(f)
  <2> DEFINE k == current[f]
  <2>1. /\ k \in Keys
        /\ uuids' = [uuids EXCEPT ![k] = plan[f][k]]
        /\ UNCHANGED plan
    BY <1>5 DEF RecordResult, TypeOK
  <2>2. plan[f][k] # None /\ HasPlan(f)
    BY <1>5, <2>1 DEF RecordResult, StageInv, HasPlan
  <2>3. ASSUME NEW c \in ScenarioCalls, InFlight(c)
        PROVE  AttemptOf[c] # k
    <3>1. AttemptOf[c] # NilSuite
      BY RpcAssumption, KeyAssumption
    <3>2. CASE f \in KillCalls
      BY <2>1, <2>2, <3>1, <3>2 DEF StageInv
    <3>3. CASE f \in SuiteCalls
      BY <2>2, <2>3, <3>3 DEF StageInv, QuietInv
    <3> QED
      BY <3>2, <3>3 DEF Finalizers
  <2>4. ASSUME NEW g \in Finalizers, NEW j \in Keys, plan'[g][j] # None, uuids'[j] # None
        PROVE  plan'[g][j] = uuids'[j]
    <3>1. CASE j = k
      <4>1. g = f
        BY <2>1, <2>2, <2>4 DEF PlanInv, SingleFinalizer, HasPlan
      <4> QED
        BY <2>1, <3>1, <4>1 DEF TypeOK
    <3>2. CASE j # k
      BY <2>1, <2>4, <3>2 DEF AgreeInv, TypeOK
    <3> QED
      BY <3>1, <3>2
  <2>5. ASSUME NEW c \in ScenarioCalls, InFlight(c)'
        PROVE  artifact'[c] # None /\ uuids'[AttemptOf[c]] = artifact'[c]
    <3>1. InFlight(c) /\ AttemptOf[c] \in Keys
      BY <1>2, <2>5, RpcAssumption DEF InFlight, Keys
    <3> QED
      BY <1>2, <2>1, <2>3, <3>1 DEF AgreeInv, TypeOK
  <2> QED
    BY <2>4, <2>5 DEF AgreeInv
<1>6. CASE OtherFinalize(f)
  BY <1>2, <1>6, OtherFinalizeEffect DEF AgreeInv, InFlight
<1> QED
  BY <1>3, <1>4, <1>5, <1>6, FinalizeCases

LEMMA AgreeStep ==
    ASSUME SuiteLast, TypeOK, PlanInv, StageInv, QuietInv, AgreeInv, NEW r \in Rpcs, Rpc(r)
    PROVE  AgreeInv'
<1>1. CASE r \in KillCalls /\ FinalizeInterrupted(r)
  <2>1. r \in Finalizers
    BY <1>1 DEF Finalizers
  <2>2. \A c \in ScenarioCalls : pc'[c] = pc[c] /\ artifact' = artifact
    BY <2>1, CallbackFrame
  <2>3. UNCHANGED <<uuids, plan, artifact>>
    BY <1>1 DEF FinalizeInterrupted, KillChecked, KillMarked, KillSummarised, engineVars, localVars,
       finalVars
  <2> QED
    BY <2>2, <2>3, AgreeFrame DEF InFlight
<1> QED
  BY <1>1, AgreeScenario, AgreeFinalize DEF Rpc

\* Steps that write no result keep FileInv.
LEMMA FileFrame ==
    ASSUME FileInv, UNCHANGED <<uuids, files, plan, todo>>
    PROVE  FileInv'
  BY DEF FileInv, OnDisk

LEMMA FileScenario ==
    ASSUME TypeOK, OwnershipInv, AgreeInv, FileInv, NEW c \in ScenarioCalls, ScenarioEnding(c)
    PROVE  FileInv'
<1> DEFINE k == AttemptOf[c]
<1>1. k \in Keys /\ c \in Rpcs /\ c \notin Finalizers /\ <<c, k>> \in UUIDs /\ <<c, k>> # None
  BY RpcAssumption, NoneAssumption DEF Keys, Rpcs, UUIDs
<1>2. CASE ScenarioRejected(c) \/ ScenarioConflict(c) \/ StreamResultFails(c) \/ StoreResult(c)
  BY <1>2, FileFrame DEF ScenarioRejected, ScenarioConflict, StreamResultFails, StoreResult,
     engineVars, diskVars, localVars, finalVars
<1>3. CASE ScenarioRemapped(c)
  <2>1. uuids[k] = artifact[c]
    BY <1>3 DEF ScenarioRemapped, AgreeInv, InFlight
  <2>2. /\ uuids' = [uuids EXCEPT ![k] = artifact[c]]
        /\ UNCHANGED <<files, plan, todo>>
    BY <1>3 DEF ScenarioRemapped, RecordArtifact, diskVars, finalVars
  <2> QED
    BY <1>1, <2>1, <2>2, FileFrame DEF TypeOK
<1>4. CASE ScenarioMapped(c)
  <2>1. /\ uuids[k] = None
        /\ uuids' = [uuids EXCEPT ![k] = <<c, k>>]
        /\ UNCHANGED <<files, plan, todo>>
    BY <1>4 DEF ScenarioMapped, RecordArtifact, diskVars, finalVars
  <2>2. \A u \in UUIDs : uuids[u[2]] = u => uuids'[u[2]] = u
    BY <2>1, NoneAssumption DEF TypeOK
  <2> QED
    BY <2>1, <2>2 DEF FileInv, OnDisk
<1>5. CASE StreamResult(c)
  <2> DEFINE u == artifact[c]
  <2>1. /\ files' = [files EXCEPT ![u] = <<c, k>>]
        /\ u \in UUIDs
        /\ uuids[k] = u
        /\ UNCHANGED <<uuids, plan, todo>>
    BY <1>5 DEF StreamResult, AgreeInv, InFlight, TypeOK, engineVars, localVars, finalVars
  <2>2. u[2] = k
    BY <1>1, <2>1, NoneAssumption DEF OwnershipInv, UUIDOwnership
  <2>3. ASSUME NEW v \in OnDisk'
        PROVE  /\ uuids[v[2]] = v \/ \E f \in Finalizers : plan[f][v[2]] = v
               /\ IsFinal(files'[v]) => plan[files'[v][1]][v[2]] = v
                                        /\ v[2] \notin todo[files'[v][1]]
    <3>1. CASE v = u
      BY <1>1, <2>1, <2>2, <3>1 DEF IsFinal, TypeOK
    <3>2. CASE v # u
      <4>1. v \in OnDisk /\ files'[v] = files[v]
        BY <2>1, <2>3, <3>2 DEF OnDisk, TypeOK
      <4> QED
        BY <4>1 DEF FileInv
    <3> QED
      BY <3>1, <3>2
  <2> QED
    BY <2>1, <2>3 DEF FileInv, IsFinal
<1> QED
  BY <1>2, <1>3, <1>4, <1>5 DEF ScenarioEnding

LEMMA FileFinalize ==
    ASSUME TypeOK, OwnershipInv, PlanInv, StageInv, AgreeInv, FileInv,
           NEW f \in Finalizers, Finalize(f)
    PROVE  FileInv'
<1>1. CASE Begins(f)
  <2> PICK keys \in SUBSET Keys, dump \in BOOLEAN : BeginWriting(f, keys, dump)
    BY <1>1 DEF Begins
  <2>1. ~finalized /\ UNCHANGED <<uuids, files>>
    BY DEF BeginWriting, diskVars
  <2>2. \A g \in Finalizers, k \in Keys : plan[g][k] = None
    BY <2>1 DEF PlanInv, HasPlan
  <2>3. \A u \in OnDisk : u[2] \in Keys /\ u # None
    BY NoneAssumption DEF OnDisk, UUIDs
  <2>4. \A u \in OnDisk : uuids[u[2]] = u /\ ~IsFinal(files[u])
    BY <2>2, <2>3 DEF FileInv, IsFinal
  <2> QED
    BY <2>1, <2>4 DEF FileInv, OnDisk, IsFinal
<1>2. ASSUME NEW k \in Keys, WriteResult(f, k)
      PROVE  FileInv'
  <2> DEFINE u == plan[f][k]
  <2>1. /\ k \in todo[f]
        /\ todo' = [todo EXCEPT ![f] = @ \ {k}]
        /\ files' = [files EXCEPT ![u] = <<f, k>>] \/ files' = files
        /\ UNCHANGED <<uuids, plan>>
    BY <1>2 DEF WriteResult, engineVars
  <2>2. u # None /\ u[2] = k
    BY <2>1 DEF StageInv, OwnershipInv
  <2>3. \A g \in Finalizers : todo'[g] \subseteq todo[g] /\ k \notin todo'[f]
    BY <2>1 DEF TypeOK
  <2>4. ASSUME NEW v \in OnDisk'
        PROVE  /\ uuids[v[2]] = v \/ \E g \in Finalizers : plan[g][v[2]] = v
               /\ IsFinal(files'[v]) => plan[files'[v][1]][v[2]] = v
                                        /\ v[2] \notin todo'[files'[v][1]]
    <3>1. CASE v = u /\ files'[v] = <<f, k>>
      BY <2>2, <2>3, <3>1
    <3>2. CASE files'[v] = files[v]
      <4>1. v \in OnDisk
        BY <3>2 DEF OnDisk
      <4> QED
        BY <2>3, <3>2, <4>1 DEF FileInv, IsFinal
    <3> QED
      BY <2>1, <2>4, <3>1, <3>2 DEF OnDisk, TypeOK
  <2> QED
    BY <2>1, <2>4 DEF FileInv, IsFinal
<1>3. CASE RecordResult(f)
  <2> DEFINE k == current[f]
  <2>1. /\ k \in Keys
        /\ uuids' = [uuids EXCEPT ![k] = plan[f][k]]
        /\ UNCHANGED <<files, plan, todo>>
    BY <1>3 DEF RecordResult, diskVars, TypeOK
  <2>2. plan[f][k] # None
    BY <1>3, <2>1 DEF RecordResult, StageInv
  <2>3. ASSUME NEW u \in OnDisk
        PROVE  uuids'[u[2]] = u \/ \E g \in Finalizers : plan[g][u[2]] = u
    <3>1. u \in UUIDs /\ u # None /\ u[2] \in Keys
      BY NoneAssumption DEF OnDisk, UUIDs
    <3>2. CASE uuids[u[2]] = u /\ u[2] = k
      BY <2>1, <2>2, <3>1, <3>2 DEF AgreeInv
    <3>3. CASE uuids[u[2]] = u /\ u[2] # k
      BY <2>1, <3>1, <3>3 DEF TypeOK
    <3> QED
      BY <3>2, <3>3 DEF FileInv
  <2> QED
    BY <2>1, <2>3 DEF FileInv, OnDisk, IsFinal
<1>4. CASE OtherFinalize(f)
  <2>1. UNCHANGED <<uuids, files, plan, todo>>
    BY <1>4, OtherFinalizeEffect
  <2> QED
    BY <2>1, FileFrame
<1> QED
  BY <1>1, <1>2, <1>3, <1>4, FinalizeCases

LEMMA FileStep ==
    ASSUME TypeOK, OwnershipInv, PlanInv, StageInv, AgreeInv, FileInv, NEW r \in Rpcs, Rpc(r)
    PROVE  FileInv'
<1>1. CASE r \in KillCalls /\ FinalizeInterrupted(r)
  BY <1>1, FileFrame DEF FinalizeInterrupted, KillChecked, KillMarked, KillSummarised, engineVars,
     diskVars, localVars, finalVars
<1> QED
  BY <1>1, FileScenario, FileFinalize DEF Rpc

\* Each part of ReportInv needs only the parts before it; SuiteLast is what keeps a
\* late callback from drawing a UUID that a plan does not know.
LEMMA ReportStep == ASSUME SuiteLast PROVE ReportInv /\ [Next]_vars => ReportInv'
<1> SUFFICES ASSUME ReportInv, [Next]_vars
             PROVE  ReportInv'
  OBVIOUS
<1>1. TypeOK' /\ OwnershipInv' /\ PlanInv'
  BY TypeStep, OwnershipStep, PlanStep DEF ReportInv
<1>2. ASSUME NEW r \in Rpcs, Rpc(r)
      PROVE  StageInv' /\ QuietInv' /\ AgreeInv' /\ FileInv'
  BY <1>2, StageStep, QuietStep, AgreeStep, FileStep DEF ReportInv
<1>3. CASE UNCHANGED vars
  <2>1. /\ UNCHANGED <<finalized, uuids, files, plan, todo, current, artifact, pc>>
    BY <1>3 DEF vars, engineVars, diskVars, localVars, finalVars
  <2>2. StageInv' /\ QuietInv'
    BY <2>1 DEF ReportInv, StageInv, QuietInv, HasPlan, InFlight
  <2>3. AgreeInv' /\ FileInv'
    BY <2>1, AgreeFrame, FileFrame DEF ReportInv, InFlight
  <2> QED
    BY <1>1, <2>2, <2>3 DEF ReportInv
<1> QED
  BY <1>1, <1>2, <1>3 DEF Next, NothingSent, ReportInv

\* Two files of one attempt would both have its UUID, which map and plan agree on.
LEMMA OneFile == ReportInv => OneFilePerAttempt
<1> SUFFICES ASSUME ReportInv, NEW u \in OnDisk, NEW v \in OnDisk, u[2] = v[2]
             PROVE  u = v
  BY DEF OneFilePerAttempt
<1>1. u # None /\ v # None /\ u[2] \in Keys
  BY NoneAssumption DEF OnDisk, UUIDs
<1>2. /\ uuids[u[2]] = u \/ \E f \in Finalizers : plan[f][u[2]] = u
      /\ uuids[u[2]] = v \/ \E f \in Finalizers : plan[f][u[2]] = v
  BY DEF ReportInv, FileInv
<1>3. ASSUME NEW f \in Finalizers, NEW g \in Finalizers, plan[f][u[2]] = u, plan[g][u[2]] = v
      PROVE  u = v
  BY <1>1, <1>3 DEF ReportInv, PlanInv, SingleFinalizer, HasPlan
<1>4. ASSUME NEW f \in Finalizers, plan[f][u[2]] # None, uuids[u[2]] # None
      PROVE  plan[f][u[2]] = uuids[u[2]]
  BY <1>1, <1>4 DEF ReportInv, AgreeInv
<1> QED
  BY <1>1, <1>2, <1>3, <1>4

\* When Gauge sends the suite result after the callbacks returned, every attempt has
\* at most one result file, however callbacks, suite results and Kill interleave.
THEOREM AttemptReportedOnce ==
    ASSUME SuiteLast
    PROVE  Spec => []OneFilePerAttempt
<1>1. ReportInv /\ [Next]_vars => ReportInv'
  BY ReportStep
<1>2. Init => ReportInv
  BY ReportInit
<1> QED
  BY <1>1, <1>2, OneFile, PTL DEF Spec

\* What a step does to the result file with a given UUID.
LEMMA FinalFileKept ==
    ASSUME SuiteLast, ReportInv, [Next]_vars, NEW u \in UUIDs, IsFinal(files[u])
    PROVE  files'[u] = files[u]
<1> USE DEF ReportInv
<1> DEFINE author == files[u][1]
<1>1. /\ author \in Finalizers
      /\ u # None
      /\ u[2] \in Keys
      /\ plan[author][u[2]] = u
      /\ u[2] \notin todo[author]
  BY NoneAssumption DEF IsFinal, FileInv, OnDisk, UUIDs
<1>2. HasPlan(author)
  BY <1>1 DEF HasPlan
<1>3. ASSUME NEW c \in ScenarioCalls, ScenarioEnding(c)
      PROVE  files'[u] = files[u]
  <2>1. CASE StreamResult(c) /\ artifact[c] = u
    <3>1. /\ InFlight(c)
          /\ u[2] = AttemptOf[c]
          /\ AttemptOf[c] \in Attempts
      BY <2>1, <1>1, RpcAssumption
         DEF StreamResult, InFlight, AgreeInv, OwnershipInv, UUIDOwnership, Keys
    <3>2. AttemptOf[c] # NilSuite
      BY <3>1, KeyAssumption
    <3>3. author \in SuiteCalls
      BY <1>1, <3>1, <3>2 DEF StageInv, Finalizers
    <3> QED
      BY <1>2, <3>1, <3>3 DEF StageInv, QuietInv
  <2>2. CASE StreamResult(c) /\ artifact[c] # u
    BY <2>2 DEF StreamResult, TypeOK
  <2>3. CASE ~StreamResult(c)
    BY <1>3, <2>3 DEF ScenarioEnding, ScenarioRejected, ScenarioMapped, ScenarioConflict,
       ScenarioRemapped, StreamResultFails, StoreResult, diskVars
  <2> QED
    BY <2>1, <2>2, <2>3
<1>4. ASSUME NEW f \in Finalizers, NEW k \in Keys, WriteResult(f, k)
      PROVE  files'[u] = files[u]
  <2>1. /\ k \in todo[f]
        /\ files' = [files EXCEPT ![plan[f][k]] = <<f, k>>] \/ files' = files
    BY <1>4 DEF WriteResult
  <2>2. plan[f][k] # None /\ plan[f][k][2] = k
    BY <2>1 DEF StageInv, OwnershipInv
  <2>3. f = author
    BY <1>1, <1>2, <2>2 DEF PlanInv, SingleFinalizer, HasPlan
  <2>4. plan[f][k] # u
    BY <1>1, <2>1, <2>2, <2>3
  <2> QED
    BY <2>1, <2>4 DEF TypeOK
<1>5. ASSUME NEW f \in Finalizers, Begins(f) \/ RecordResult(f) \/ OtherFinalize(f)
      PROVE  files'[u] = files[u]
  BY <1>5, OtherFinalizeEffect DEF Begins, BeginWriting, RecordResult, diskVars
<1>6. ASSUME NEW k \in KillCalls, FinalizeInterrupted(k)
      PROVE  files'[u] = files[u]
  BY <1>6 DEF FinalizeInterrupted, KillChecked, KillMarked, KillSummarised, diskVars
<1>7. CASE UNCHANGED vars
  BY <1>7 DEF vars, diskVars
<1> QED
  BY <1>3, <1>4, <1>5, <1>6, <1>7, FinalizeCases DEF Next, NothingSent, Rpc

\* Under the same assumption a result that Finalize wrote stays as it is: no late
\* callback and no second finalization replaces it.
THEOREM FinalDataKept ==
    ASSUME SuiteLast
    PROVE  Spec => FinalDataWins
<1>1. ReportInv /\ [Next]_vars => ReportInv'
  BY ReportStep
<1>2. Init => ReportInv
  BY ReportInit
<1>3. ReportInv /\ [Next]_vars
        => [\A u \in UUIDs : IsFinal(files[u]) => files'[u] = files[u]]_vars
  BY FinalFileKept
<1> QED
  BY <1>1, <1>2, <1>3, PTL DEF Spec, FinalDataWins

-----------------------------------------------------------------------------
(* The engine implements AttemptReport.                                    *)

\* An RPC that returned takes no step.
LEMMA DoneRests ==
    ASSUME NEW r \in Rpcs, Rpc(r)
    PROVE  pc[r] # "done"
<1>1. CASE ScenarioEnding(r)
  BY <1>1 DEF ScenarioEnding, ScenarioRejected, ScenarioMapped, ScenarioConflict, ScenarioRemapped,
     StreamResult, StreamResultFails, StoreResult, ScenarioMayStart
<1>2. CASE FinalizeInterrupted(r)
  BY <1>2, FinalizeStarts DEF FinalizeInterrupted, KillChecked, KillMarked, KillSummarised
<1>3. CASE Finalize(r)
  <2>1. CASE FinalizeMayStart(r)
    BY <2>1 DEF FinalizeMayStart
  <2>2. CASE ~FinalizeMayStart(r)
    BY <1>3, <2>2 DEF Finalize, AlreadyFinalized, SuiteRejected, NilSuiteMapped, SuiteMapped,
       BeginWriting, DumpSuite, WriteResult, RecordResult, WriteContainer, ResultsDone,
       CollectWarnings, WriteMetadata, MetadataFiles, FinishStrict, Finish
  <2> QED
    BY <2>1, <2>2
<1> QED
  BY <1>1, <1>2, <1>3 DEF Rpc

\* A report that is settled stays settled.
LEMMA SettledStays ==
    ASSUME TypeOK, PlanInv, NEW r \in Rpcs, Rpc(r), Settled
    PROVE  Settled'
<1> PICK s \in SuiteCalls : Done(s) /\ HasPlan(s)
  BY DEF Settled
<1>1. s \in Rpcs /\ s \in Finalizers
  BY DEF Rpcs, Finalizers
<1>2. Done(s)'
  <2>1. pc[r] # "done"
    BY DoneRests
  <2>2. pc'[s] = pc[s]
    BY <1>1, <2>1, PcEffect DEF Done, TypeOK
  <2> QED
    BY <2>2 DEF Done
<1>3. HasPlan(s)'
  <2>1. finalized
    BY <1>1 DEF PlanInv
  <2>2. plan' = plan
    BY <2>1, PlanEffect DEF BeginWriting
  <2> QED
    BY <2>2 DEF HasPlan
<1> QED
  BY <1>2, <1>3 DEF Settled

\* A step that writes no result settles the report or does nothing to it.
LEMMA AbstractFrame ==
    ASSUME files' = files, Settled => Settled'
    PROVE  [Abstract!Next]_(Abstract!vars)
<1>1. Report' = Report
  BY DEF Report, OnDisk, Version
<1>2. CASE Settled'
  <2>1. Abstract!Settle
    BY <1>1, <1>2 DEF Abstract!Settle
  <2> QED
    BY <2>1 DEF Abstract!Next
<1>3. CASE ~Settled'
  <2>1. Settled' = Settled
    BY <1>3 DEF Settled
  <2> QED
    BY <1>1, <2>1 DEF Abstract!vars
<1> QED
  BY <1>2, <1>3

\* A result written under the only UUID of its attempt is published, promoted from
\* live to final, or replaced by another snapshot.
LEMMA AbstractWrite ==
    ASSUME TypeOK, NEW k \in Attempts, NEW u \in UUIDs, u[2] = k,
           NEW content \in UUIDs, files' = [files EXCEPT ![u] = content],
           \A v \in OnDisk : v[2] = k => v = u,
           files[u] # None => Version(files[u]) = "live",
           ~Settled, ~Settled'
    PROVE  [Abstract!Next]_(Abstract!vars)
<1>1. content # None
  BY NoneAssumption
<1>2. OnDisk' = OnDisk \cup {u} /\ u # None
  BY <1>1, NoneAssumption DEF OnDisk, TypeOK
<1>3. \A v \in OnDisk : v # u => files'[v] = files[v]
  BY DEF OnDisk, TypeOK
<1>4. Report' = [Report EXCEPT ![k] = {<<u, Version(content)>>}]
  <2>1. {<<v, Version(files'[v])>> : v \in {w \in OnDisk' : w[2] = k}} = {<<u, Version(content)>>}
    <3>1. {w \in OnDisk' : w[2] = k} = {u}
      BY <1>2
    <3>2. files'[u] = content
      BY DEF TypeOK
    <3> QED
      BY <3>1, <3>2
  <2>2. ASSUME NEW j \in Attempts, j # k
        PROVE  {<<v, Version(files'[v])>> : v \in {w \in OnDisk' : w[2] = j}}
                 = {<<v, Version(files[v])>> : v \in {w \in OnDisk : w[2] = j}}
    <3>1. {w \in OnDisk' : w[2] = j} = {w \in OnDisk : w[2] = j}
      BY <1>2, <2>2
    <3>2. \A v \in {w \in OnDisk : w[2] = j} : files'[v] = files[v]
      BY <1>3, <2>2
    <3> QED
      BY <3>1, <3>2
  <2> QED
    BY <2>1, <2>2 DEF Report
<1>5. CASE files[u] = None
  <2>1. {w \in OnDisk : w[2] = k} = {}
    BY <1>5 DEF OnDisk
  <2>2. Report[k] = {}
    BY <2>1 DEF Report
  <2>3. Version(content) \in Abstract!Versions
    BY DEF Version, Abstract!Versions
  <2>4. Settled' = Settled
    BY DEF Settled
  <2>5. Abstract!Publish(k)
    BY <1>4, <2>2, <2>3, <2>4 DEF Abstract!Publish
  <2> QED
    BY <2>5 DEF Abstract!Next
<1>6. CASE files[u] # None
  <2>1. {w \in OnDisk : w[2] = k} = {u}
    BY <1>6 DEF OnDisk
  <2>2. Report[k] = {<<u, "live">>}
    BY <1>6, <2>1 DEF Report
  <2>3. Settled' = Settled
    BY DEF Settled
  <2>4. CASE Version(content) = "live"
    <3>1. Report' = Report
      BY <1>4, <2>2, <2>4 DEF Report
    <3> QED
      BY <2>3, <3>1 DEF Abstract!vars
  <2>5. CASE Version(content) = "final"
    <3>1. Abstract!Promote(k)
      BY <1>4, <2>2, <2>3, <2>5 DEF Abstract!Promote
    <3> QED
      BY <3>1 DEF Abstract!Next
  <2> QED
    BY <2>4, <2>5 DEF Version
<1> QED
  BY <1>5, <1>6

\* A snapshot is streamed before any suite result, under the UUID in the map.
LEMMA AbstractStream ==
    ASSUME SuiteLast, ReportInv, ReportInv', NEW c \in ScenarioCalls, StreamResult(c)
    PROVE  [Abstract!Next]_(Abstract!vars)
<1> USE DEF ReportInv
<1> DEFINE k == AttemptOf[c]
           u == artifact[c]
<1>1. /\ k \in Attempts /\ k \in Keys /\ k # NilSuite
      /\ <<c, k>> \in UUIDs
  BY RpcAssumption, KeyAssumption DEF Keys, Rpcs, UUIDs
<1>2. InFlight(c) /\ files' = [files EXCEPT ![u] = <<c, k>>] /\ UNCHANGED <<plan, uuids>>
  BY DEF StreamResult, InFlight, engineVars, localVars, finalVars
<1>3. u \in UUIDs /\ u # None /\ uuids[k] = u /\ u[2] = k
  BY <1>1, <1>2, NoneAssumption DEF AgreeInv, OwnershipInv, UUIDOwnership, TypeOK
<1>4. \A s \in SuiteCalls : pc[s] = "idle" /\ ~HasPlan(s)
  BY <1>2 DEF QuietInv, StageInv
<1>5. ~Settled
  BY <1>4 DEF Settled
<1>6. ~Settled'
  <2>1. \A s \in SuiteCalls : ~HasPlan(s)'
    BY <1>2, <1>4 DEF HasPlan
  <2> QED
    BY <2>1 DEF Settled
<1>7. \A f \in Finalizers : plan[f][k] = None
  BY <1>1, <1>4 DEF StageInv, HasPlan, Finalizers
<1>8. \A v \in OnDisk : v[2] = k => v = u
  <2>1. \A v \in OnDisk : v # None /\ v \in UUIDs
    BY NoneAssumption DEF OnDisk
  <2> QED
    BY <1>3, <1>7, <2>1 DEF FileInv
<1>9. files[u] # None => Version(files[u]) = "live"
  <2>1. ASSUME files[u] # None, IsFinal(files[u])
        PROVE  FALSE
    <3>1. u \in OnDisk /\ files[u][1] \in Finalizers /\ plan[files[u][1]][k] = u
      BY <1>3, <2>1 DEF OnDisk, FileInv, IsFinal
    <3> QED
      BY <1>3, <1>7, <3>1
  <2>2. \A x \in UUIDs : x[1] \in Rpcs
    BY DEF UUIDs
  <2>3. files[u] \in UUIDs \cup {None}
    BY <1>3 DEF TypeOK, Contents
  <2> QED
    BY <2>1, <2>2, <2>3 DEF Version, IsFinal, Rpcs
<1> QED
  BY <1>1, <1>2, <1>3, <1>5, <1>6, <1>8, <1>9, AbstractWrite

\* A result of the suite is published or promoted; a synthetic one is no attempt.
LEMMA AbstractFinal ==
    ASSUME ReportInv, NEW f \in Finalizers, NEW k \in Keys, WriteResult(f, k)
    PROVE  [Abstract!Next]_(Abstract!vars)
<1> USE DEF ReportInv
<1> DEFINE u == plan[f][k]
<1>1. k \in todo[f] /\ pc[f] = "results" /\ UNCHANGED <<plan, pc>>
  BY DEF WriteResult
<1>2. u \in UUIDs /\ u # None /\ u[2] = k /\ HasPlan(f)
  BY <1>1, NoneAssumption DEF StageInv, OwnershipInv, TypeOK, HasPlan
<1>3. <<f, k>> \in UUIDs
  BY DEF UUIDs, Rpcs
<1>4. Settled' = Settled
  BY <1>1 DEF Settled, Done, HasPlan
<1>5. CASE files' = files
  BY <1>4, <1>5, AbstractFrame
<1>6. CASE files' = [files EXCEPT ![u] = <<f, k>>] /\ k \in Attempts
  <2>1. ~Settled
    <3>1. \A s \in SuiteCalls : HasPlan(s) => s = f
      BY <1>2 DEF PlanInv, SingleFinalizer, Finalizers
    <3> QED
      BY <1>1, <3>1 DEF Settled, Done
  <2>2. ~Settled'
    BY <1>4, <2>1
  <2>3. \A g \in Finalizers : plan[g][k] # None => g = f
    BY <1>2 DEF PlanInv, SingleFinalizer, HasPlan
  <2>4. \A v \in OnDisk : v[2] = k => v = u
    <3>1. \A v \in OnDisk : v # None /\ v \in UUIDs
      BY NoneAssumption DEF OnDisk
    <3>2. ASSUME NEW v \in OnDisk, v[2] = k
          PROVE  v = u
      <4>1. uuids[k] = v \/ \E g \in Finalizers : plan[g][k] = v
        BY <3>2 DEF FileInv
      <4>2. uuids[k] = v => u = v
        BY <1>2, <3>1 DEF AgreeInv
      <4> QED
        BY <2>3, <3>1, <4>1, <4>2
    <3> QED
      BY <3>2
  <2>5. files[u] # None => Version(files[u]) = "live"
    <3>1. ASSUME files[u] # None, IsFinal(files[u])
          PROVE  FALSE
      <4>1. u \in OnDisk
        BY <1>2, <3>1 DEF OnDisk
      <4>2. files[u][1] \in Finalizers /\ plan[files[u][1]][k] = u /\ k \notin todo[files[u][1]]
        BY <1>2, <3>1, <4>1 DEF FileInv, IsFinal
      <4> QED
        BY <1>1, <1>2, <2>3, <4>2
    <3>2. \A x \in UUIDs : x[1] \in Rpcs
      BY DEF UUIDs
    <3>3. files[u] \in UUIDs \cup {None}
      BY <1>2 DEF TypeOK, Contents
    <3> QED
      BY <3>1, <3>2, <3>3 DEF Version, IsFinal, Rpcs
  <2> QED
    BY <1>2, <1>3, <1>6, <2>1, <2>2, <2>4, <2>5, AbstractWrite
<1>7. CASE files' = [files EXCEPT ![u] = <<f, k>>] /\ k \notin Attempts
  <2>1. \A v \in UUIDs : v # u => files'[v] = files[v]
    BY <1>7 DEF TypeOK
  <2>2. ASSUME NEW j \in Attempts
        PROVE  {<<v, Version(files'[v])>> : v \in {w \in OnDisk' : w[2] = j}}
                 = {<<v, Version(files[v])>> : v \in {w \in OnDisk : w[2] = j}}
    <3>1. \A v \in UUIDs : v[2] = j => v # u
      BY <1>2, <1>7
    <3>2. {w \in OnDisk' : w[2] = j} = {w \in OnDisk : w[2] = j}
      BY <2>1, <3>1 DEF OnDisk
    <3>3. \A v \in {w \in OnDisk : w[2] = j} : files'[v] = files[v]
      BY <2>1, <3>1 DEF OnDisk
    <3> QED
      BY <3>2, <3>3
  <2>3. Report' = Report
    BY <2>2 DEF Report
  <2> QED
    BY <1>4, <2>3 DEF Abstract!vars
<1> QED
  BY <1>5, <1>6, <1>7 DEF WriteResult

LEMMA AbstractStep ==
    ASSUME SuiteLast, ReportInv, ReportInv', [Next]_vars
    PROVE  [Abstract!Next]_(Abstract!vars)
<1>1. CASE UNCHANGED vars
  <2>1. UNCHANGED <<files, pc, plan>>
    BY <1>1 DEF vars, diskVars, localVars, finalVars
  <2>2. Settled' = Settled
    BY <2>1 DEF Settled, Done, HasPlan
  <2> QED
    BY <2>1, <2>2, AbstractFrame
<1>2. ASSUME NEW r \in Rpcs, Rpc(r)
      PROVE  [Abstract!Next]_(Abstract!vars)
  <2>1. Settled => Settled'
    BY <1>2, SettledStays DEF ReportInv
  <2>2. CASE r \in ScenarioCalls /\ ScenarioEnding(r)
    <3>1. CASE StreamResult(r)
      BY <2>2, <3>1, AbstractStream
    <3>2. CASE ~StreamResult(r)
      <4>1. files' = files
        BY <2>2, <3>2 DEF ScenarioEnding, ScenarioRejected, ScenarioMapped, ScenarioConflict,
           ScenarioRemapped, StreamResultFails, StoreResult, diskVars
      <4> QED
        BY <2>1, <4>1, AbstractFrame
    <3> QED
      BY <3>1, <3>2
  <2>3. CASE r \in Finalizers /\ Finalize(r)
    <3>1. CASE \E k \in Keys : WriteResult(r, k)
      BY <2>3, <3>1, AbstractFinal
    <3>2. CASE Begins(r) \/ RecordResult(r) \/ OtherFinalize(r)
      <4>1. files' = files
        BY <2>3, <3>2, OtherFinalizeEffect DEF Begins, BeginWriting, RecordResult, diskVars
      <4> QED
        BY <2>1, <4>1, AbstractFrame
    <3> QED
      BY <2>3, <3>1, <3>2, FinalizeCases
  <2>4. CASE r \in KillCalls /\ FinalizeInterrupted(r)
    <3>1. files' = files
      BY <2>4 DEF FinalizeInterrupted, KillChecked, KillMarked, KillSummarised, diskVars
    <3> QED
      BY <2>1, <3>1, AbstractFrame
  <2> QED
    BY <1>2, <2>2, <2>3, <2>4 DEF Rpc
<1> QED
  BY <1>1, <1>2 DEF Next, NothingSent

LEMMA AbstractInit == ASSUME Init PROVE Abstract!Init
<1>1. OnDisk = {}
  BY DEF Init, OnDisk
<1>2. Report = [k \in Attempts |-> {}]
  BY <1>1 DEF Report
<1>3. Settled = FALSE
  BY DEF Init, Settled, HasPlan, Finalizers
<1> QED
  BY <1>2, <1>3 DEF Abstract!Init

\* To a reader each attempt is published once, its live snapshot is promoted in place,
\* and nothing is published after the suite result is settled: the engine implements
\* AttemptReport whenever Gauge sends the suite result after the callbacks returned.
THEOREM ReportImplemented ==
    ASSUME SuiteLast
    PROVE  Spec => ImplementsAttemptReport
<1>1. ReportInv /\ [Next]_vars => ReportInv'
  BY ReportStep
<1>2. Init => ReportInv
  BY ReportInit
<1>3. ReportInv /\ ReportInv' /\ [Next]_vars => [Abstract!Next]_(Abstract!vars)
  BY AbstractStep
<1>4. Init => Abstract!Init
  BY AbstractInit
<1> QED
  BY <1>1, <1>2, <1>3, <1>4, PTL DEF Spec, ImplementsAttemptReport, Abstract!Spec
=============================================================================
