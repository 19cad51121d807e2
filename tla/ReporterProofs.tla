---------------------------- MODULE ReporterProofs -----------------------------
(***************************************************************************)
(* Theorems about Reporter: the service is a run of the engine, so that    *)
(* what CollectorProofs and CompletionProofs prove holds behind it, and    *)
(* the process ends only when every report that was begun is complete.     *)
(***************************************************************************)
EXTENDS Reporter, CompletionProofs

\* A step of the service is a step of the engine or leaves it alone.
LEMMA ReporterStep == [ReporterNext]_reporterVars => [Next]_vars
<1>1. ASSUME NEW r \in Rpcs, Handle(r)
      PROVE  [Next]_vars
  BY <1>1 DEF Handle, Next
<1>2. CASE StopServer \/ Interrupt \/ Drained \/ Waiting \/ UNCHANGED reporterVars
  BY <1>2 DEF StopServer, Interrupt, Drained, Waiting, reporterVars
<1> QED
  BY <1>1, <1>2 DEF ReporterNext

\* Every theorem about the engine holds of the engine behind the service: whatever stops
\* the server, the engine takes no step that it could not take alone.
THEOREM ReporterRefinesEngine == ReporterSpec => Spec
<1>1. ReporterInit => Init
  BY DEF ReporterInit
<1> QED
  BY <1>1, ReporterStep, PTL DEF ReporterSpec, Spec

\* GracefulStop has waited for every RPC, and a finalization that returned without a
\* failure has made the summary.
ExitInv ==
    /\ Stopped => Quiescent
    /\ \A f \in Finalizers : Done(f) /\ HasPlan(f) /\ f \notin failed => summary # None

LEMMA ExitInit == ASSUME ReporterInit PROVE ExitInv
  BY DEF ReporterInit, Init, ExitInv, Stopped, HasPlan

\* A summary is a record.
LEMMA SummaryTyped ==
    ASSUME TypeOK, NEW count \in Nat, NEW warned, warned \subseteq Warnings
    PROVE  Summary(count, warned) # None
<1>1. Cardinality(warned) \in Nat
  BY WarningsFinite
<1>2. Summary(count, warned) \in Summaries
  BY <1>1 DEF Summary, Summaries, Counted
<1> QED
  BY <1>2, SummaryAssumption

\* A summary is never taken away, and the one step that ends a finalization with a plan
\* and without an error makes one.
LEMMA SummaryStep ==
    ASSUME CompletionInv, CompletionInv', ExitInv, NEW r \in Rpcs, Rpc(r),
           NEW f \in Finalizers, Done(f)', HasPlan(f)', f \notin failed'
    PROVE  summary' # None
<1> USE DEF CompletionInv
<1>1. f \in Rpcs /\ f \notin failed
  BY Grows DEF Rpcs
<1>2. ASSUME summary # None
      PROVE  summary' # None
  <2>1. ASSUME r \in Finalizers, Finish(r)
        PROVE  summary' # None
    <3>1. plan[r] \in [Keys -> UUIDs \cup {None}]
      BY <2>1 DEF TypeOK
    <3>2. Cardinality(Boxes(plan[r])) \in Nat /\ warnings' \subseteq Warnings
      BY <3>1, BoxesFinite DEF TypeOK
    <3> QED
      BY <2>1, <3>2, SummaryTyped DEF Finish
  <2>2. ASSUME r \in KillCalls, KillSummarised(r)
        PROVE  summary' # None
    BY <2>2, SummaryTyped DEF KillSummarised, TypeOK
  <2> QED
    BY <1>2, <2>1, <2>2, SummaryEffect
<1>3. CASE f # r
  <2>1. Done(f) /\ HasPlan(f)
    BY <1>1, <1>3, Elsewhere DEF Done, HasPlan
  <2> QED
    BY <1>1, <1>2, <2>1 DEF ExitInv
<1>4. CASE f = r
  <2>1. ~AlreadyFinalized(f) /\ ~SuiteRejected(f)
    <3>1. ASSUME FinalizeMayStart(f), plan' = plan
          PROVE  FALSE
      BY <3>1, BeforePlan DEF FinalizeMayStart, HasPlan, Writing, Closing, MetadataFiles
    <3> QED
      BY <3>1 DEF AlreadyFinalized, SuiteRejected, localVars, finalVars
  <2>2. ~FinishStrict(f)
    BY <1>1 DEF FinishStrict, ErrorInv, FinalizerErrors
  <2>3. ~(f \in KillCalls /\ (KillChecked(f) \/ KillSummarised(f)))
    <3>1. ASSUME KillChecked(f) \/ KillSummarised(f)
          PROVE  FALSE
      BY <3>1, BeforePlan DEF KillChecked, KillSummarised, localVars, finalVars, HasPlan, Writing,
         Closing, MetadataFiles
    <3> QED
      BY <3>1
  <2>4. Finish(f)
    BY <1>4, <2>1, <2>2, <2>3, Returns
  <2>5. Cardinality(Boxes(plan[f])) \in Nat /\ warnings' \subseteq Warnings
    BY BoxesFinite DEF TypeOK
  <2> QED
    BY <2>4, <2>5, SummaryTyped DEF Finish
<1> QED
  BY <1>3, <1>4

LEMMA ExitStep ==
    ASSUME CompletionInv, CompletionInv', ExitInv, [ReporterNext]_reporterVars
    PROVE  ExitInv'
<1>1. ASSUME NEW r \in Rpcs, Handle(r)
      PROVE  ExitInv'
  <2>1. Rpc(r) /\ server' = server
    BY <1>1 DEF Handle
  <2>2. ~Stopped
    <3>1. ASSUME Stopped
          PROVE  FALSE
      <4>1. pc[r] # "done" /\ ~InFlight(r)
        BY <2>1, <3>1, DoneRests DEF ExitInv, Quiescent
      <4>2. pc[r] = "idle"
        BY <4>1 DEF InFlight
      <4> QED
        BY <1>1, <3>1, <4>2 DEF Handle, Stopped
    <3> QED
      BY <3>1
  <2>3. ~Stopped'
    BY <2>1, <2>2 DEF Stopped
  <2> QED
    BY <2>1, <2>3, SummaryStep DEF ExitInv
<1>2. ASSUME vars' = vars
      PROVE  /\ \A f \in Finalizers : (Done(f) /\ HasPlan(f) /\ f \notin failed)' => summary' # None
             /\ Quiescent' <=> Quiescent
  BY <1>2 DEF vars, engineVars, localVars, finalVars, ExitInv, Done, HasPlan, Quiescent, InFlight
<1>3. CASE StopServer \/ Interrupt
  <2>1. vars' = vars /\ ~Stopped'
    BY <1>3 DEF StopServer, Interrupt, Stopped
  <2> QED
    BY <1>2, <2>1 DEF ExitInv
<1>4. CASE Drained
  <2>1. vars' = vars /\ Quiescent
    BY <1>4 DEF Drained
  <2> QED
    BY <1>2, <2>1 DEF ExitInv
<1>5. CASE Waiting \/ UNCHANGED reporterVars
  <2>1. vars' = vars /\ server' = server
    BY <1>5 DEF Waiting, reporterVars
  <2> QED
    BY <1>2, <2>1 DEF ExitInv, Stopped
<1> QED
  BY <1>1, <1>3, <1>4, <1>5 DEF ReporterNext

\* Whatever ends the process, an answered Kill or a signal, and whichever RPCs were still in
\* flight then: a report that a finalization began and that met no failure is complete and
\* summarised before the server has stopped.
THEOREM ReportsBeforeExit ==
    ASSUME SuiteLast
    PROVE  ReporterSpec => []ReportBeforeExit
<1>1. Spec => []CompletionInv
  BY CompletionHolds
<1>2. Spec => []CompleteReport
  BY ReportComplete
<1>3. ReporterInit => ExitInv
  BY ExitInit
<1>4. CompletionInv /\ CompletionInv' /\ ExitInv /\ [ReporterNext]_reporterVars => ExitInv'
  BY ExitStep
<1>5. CompletionInv /\ CompleteReport /\ ExitInv => ReportBeforeExit
  <2> SUFFICES ASSUME CompletionInv, CompleteReport, ExitInv, Stopped
               PROVE  /\ \A f \in Finalizers : HasPlan(f) /\ f \notin failed => reply[f] = "ok"
                      /\ CompleteReport
                      /\ (\E f \in Finalizers : HasPlan(f) /\ f \notin failed) => summary # None
    BY DEF ReportBeforeExit
  <2>1. ASSUME NEW f \in Finalizers, HasPlan(f)
        PROVE  Done(f) /\ Policy(f)
    BY <2>1 DEF ExitInv, Quiescent, InFlight, Done, Rpcs, CompletionInv, WriteInv, Located, ErrorInv,
       Writing, Closing, MetadataFiles
  <2> QED
    BY <2>1 DEF ExitInv, Policy
<1> QED
  BY <1>1, <1>2, <1>3, <1>4, <1>5, ReporterRefinesEngine, PTL DEF ReporterSpec
=============================================================================
