------------------------------ MODULE Lifecycle ------------------------------
(***************************************************************************)
(* internal/collector/collector.go, internal/mapping/mapping.go and        *)
(* internal/identity/identity.go: how the nine start and end notifications *)
(* and the ScenarioEnding callbacks of parallel streams are correlated,    *)
(* what is kept of an attempt, and what the final suite makes of it.       *)
(*                                                                         *)
(* Gauge makes the calls of one stream one after another, those of         *)
(* different streams overlap.  A notification is one critical section of   *)
(* Engine.mu.  ScenarioEnding maps first and takes the lock later; the     *)
(* write of the snapshot, which Collector has as a step of its own, is     *)
(* part of that later step, since nothing here looks in between.           *)
(*                                                                         *)
(* One specification is run.  All its steps have one text and all the rows *)
(* of a table one scenario name, which is the worst case for correlation.  *)
(***************************************************************************)
EXTENDS Naturals, Sequences, FiniteSets, Functions

CONSTANTS
    Streams,     \* execution streams
    Items,       \* scenarios, or rows of them, that the run executes
    Queue,       \* the items each stream executes, in order
    MaxRetry,    \* Gauge repeats a failed scenario up to so many times
    FaultModes,  \* sets of faults, one of which a run meets
    MaxFaults,   \* bound: how often it meets one
    MaxRepeats,  \* bound: attempts repeated in the run
    MaxSteps,    \* bound: steps and concepts in one attempt
    MaxTime,     \* bound: milliseconds that pass
    None

ScenarioNames == {i.scenario : i \in Items}
Rows == {i.specRow : i \in Items} \cup {i.scenarioRow : i \in Items}
Retries == 0 .. MaxRetry
Attempts == [item : Items, retry : Retries]
Scopes == {"suite", "spec", "scenario", "concept", "step"}

\* A row says which tables it is a row of; the index of a table is 0 without one.
\* A scenario has one heading in its specification, so its rows are of the same tables.
ASSUME ItemAssumption ==
    /\ Items \subseteq [scenario : ScenarioNames, specTable : BOOLEAN, specRow : Nat,
                        scenarioTable : BOOLEAN, scenarioRow : Nat]
    /\ \A i \in Items : /\ ~i.specTable => i.specRow = 0
                        /\ ~i.scenarioTable => i.scenarioRow = 0
    /\ \A i, j \in Items : i.scenario = j.scenario =>
          i.specTable = j.specTable /\ i.scenarioTable = j.scenarioTable
\* Each item is executed by one stream, once.
ASSUME QueueAssumption ==
    /\ Queue \in [Streams -> Seq(Items)]
    /\ \A s, t \in Streams : \A m \in DOMAIN Queue[s], n \in DOMAIN Queue[t] :
          Queue[s][m] = Queue[t][n] => s = t /\ m = n
    /\ \A i \in Items : \E s \in Streams : \E n \in DOMAIN Queue[s] : Queue[s][n] = i
ASSUME NumberAssumption == 0 \notin Streams /\ {MaxRetry, MaxFaults, MaxRepeats, MaxSteps, MaxTime} \subseteq Nat
ASSUME FaultAssumption == \A mode \in FaultModes : mode \subseteq {"lost", "rejected"}
ASSUME NoneAssumption == None \notin ScenarioNames \cup Attempts \cup Scopes

VARIABLES
    clock,        \* the time
    faults,       \* the faults of this run
    met,          \* how many of them it met
    startEvents,  \* Engine.startEvents: correlation -> when it started, and of what
    live,         \* Engine.live: attempt key -> its range and stream
    uuids,        \* Engine.uuids: attempt key -> UUID
    files,        \* UUID -> the result on disk
    finalized,    \* the suite result was processed
    position,     \* stream -> the item of its queue it is at
    retry,        \* stream -> the retry it is at
    scopes,       \* stream -> the scopes that are open, innermost last
    steps,        \* stream -> steps of this attempt so far
    began,        \* stream -> Gauge's timestamp of the scenario
    pc,           \* stream -> "ready", "begun" or "mapped"
    artifact,     \* ScenarioEnding: the mapped result in hand, or None
    attempts,     \* Gauge: item -> how many attempts were made of it
    over          \* history: the attempts that ended, their stream and whether
                  \* the callback was rejected

engineVars == <<startEvents, live, uuids, files, finalized>>
streamVars == <<position, retry, scopes, steps, began, pc, artifact>>
vars == <<clock, faults, met, engineVars, streamVars, attempts, over>>

-----------------------------------------------------------------------------
(* Identities.                                                             *)

Item(s) == Queue[s][position[s]]
Attempt(s) == [item |-> Item(s), retry |-> retry[s]]

\* Mutated: the stream is left out.
CorrelationAcrossStreams(scope, s) ==
    <<scope, IF scope \in {"suite", "spec"} THEN <<None, 0>>
             ELSE <<Item(s).scenario, retry[s]>> >>

\* correlation: scope, stream, names and retry, and no table row.  A stream has
\* its own runner.
Correlation(scope, s) ==
    <<scope, s, IF scope \in {"suite", "spec"} THEN <<None, 0>>
                ELSE <<Item(s).scenario, retry[s]>> >>

\* Mutated: attempts are counted from one.
AttemptKeyFromOne(item, r) ==
    [scenario |-> item.scenario, specRow |-> item.specRow,
     scenarioRow |-> item.scenarioRow, retry |-> r + 1]

\* Mutated: the row of the scenario's own table is left out.
AttemptKeyOfSpecRow(item, r) ==
    [scenario |-> item.scenario, specRow |-> item.specRow, scenarioRow |-> 0, retry |-> r]

\* scenarioIdentity and identity.AttemptKey.
AttemptKey(item, r) ==
    [scenario |-> item.scenario, specRow |-> item.specRow,
     scenarioRow |-> item.scenarioRow, retry |-> r]

Keys == [scenario : ScenarioNames, specRow : Rows, scenarioRow : Rows, retry : Retries]

\* Mutated: the count of attempts is taken for the number of the last one.
RetryIndexFromOne(count) == count

\* retryIndex of the final suite's count of attempts.
RetryIndex(count) == IF count <= 1 THEN 0 ELSE count - 1

\* Mutated: only a table of the specification makes parameters.
LogicalOfSpec(item, specTable) ==
    IF item.specTable /\ specTable THEN <<"spec", item.specRow>> ELSE <<>>

\* testParameters: the cells of the row, which differ from row to row.  The rows
\* of the specification's table are only known where that table is given.
Logical(item, specTable) ==
    IF item.scenarioTable THEN <<"scenario", item.scenarioRow>>
    ELSE IF item.specTable /\ specTable THEN <<"spec", item.specRow>>
    ELSE <<>>

\* identity.HistoryID.
HistoryID(item, specTable) == <<item.scenario, Logical(item, specTable)>>

\* A UUID is written as the attempt it was drawn for and by whom.
UUIDs == [attempt : Attempts, by : {"ScenarioEnding", "MapSuite"}]

Init ==
    /\ clock = 0
    /\ faults \in FaultModes
    /\ met = 0
    /\ startEvents = <<>>
    /\ live = <<>>
    /\ uuids = <<>>
    /\ files = <<>>
    /\ finalized = FALSE
    /\ position = [s \in Streams |-> 1]
    /\ retry = [s \in Streams |-> 0]
    /\ scopes = [s \in Streams |-> <<>>]
    /\ steps = [s \in Streams |-> 0]
    /\ began = [s \in Streams |-> 0]
    /\ pc = [s \in Streams |-> "ready"]
    /\ artifact = [s \in Streams |-> None]
    /\ attempts = [i \in Items |-> 0]
    /\ over = {}

-----------------------------------------------------------------------------
(* Start and end notifications.                                            *)

Opened(s, scope) == scopes' = [scopes EXCEPT ![s] = Append(@, scope)]
Closed(s) == scopes' = [scopes EXCEPT ![s] = SubSeq(@, 1, Len(@) - 1)]
Innermost(s) == IF scopes[s] = <<>> THEN None ELSE scopes[s][Len(scopes[s])]
QueueDone(s) == position[s] > Len(Queue[s])
Ready(s) == pc[s] = "ready"

\* What an event is the start of: an attempt, or something around it.
Within(s, scope) == IF scope \in {"suite", "spec"} THEN None ELSE Attempt(s)

\* Assignments to entries of a Go map.
Assigned(map, entries) ==
    [k \in DOMAIN map \cup DOMAIN entries |->
        IF k \in DOMAIN entries THEN entries[k] ELSE map[k]]

\* recordStart, and the same assignment in the handlers that do without it.
RecordStart(s, scope) ==
    startEvents' = Assigned(startEvents,
        [k \in {Correlation(scope, s)} |-> [at |-> clock, of |-> Within(s, scope)]])

\* Mutated: the end of a step is looked up under the scope of a concept.
RecordEndMixed(s, scope) ==
    startEvents' = Restrict(startEvents, DOMAIN startEvents \
                       {Correlation(IF scope = "step" THEN "concept" ELSE scope, s)})

\* recordEnd, and the same deletion in the handlers that do without it.
RecordEnd(s, scope) ==
    startEvents' = Restrict(startEvents, DOMAIN startEvents \ {Correlation(scope, s)})

\* The run meets a fault, if it meets faults of that kind.
Meets(fault) ==
    /\ fault \in faults
    /\ met < MaxFaults
    /\ met' = met + 1

\* The server drops a notification whose context is over before it is recorded.
RecordedOrLost(recorded) ==
    \/ recorded /\ UNCHANGED met
    \/ Meets("lost") /\ UNCHANGED startEvents

\* Where Gauge opens a scope that is not a scenario.
Opens(s, scope) ==
    /\ Ready(s)
    /\ ~QueueDone(s)
    /\ CASE scope = "suite" -> scopes[s] = <<>>
         [] scope = "spec" -> Innermost(s) = "suite"
         [] scope = "concept" -> Innermost(s) = "scenario" /\ steps[s] < MaxSteps
         [] scope = "step" -> Innermost(s) \in {"scenario", "concept"} /\ steps[s] < MaxSteps

\* Where Gauge closes it.
Closes(s, scope) ==
    /\ Ready(s)
    /\ Innermost(s) = scope
    /\ scope \in {"suite", "spec"} => QueueDone(s)

\* Gauge opens a scope and tells the reporter.
Starting(s, scope) ==
    /\ Opens(s, scope)
    /\ Opened(s, scope)
    /\ steps' = IF scope \in {"concept", "step"} THEN [steps EXCEPT ![s] = @ + 1] ELSE steps
    /\ RecordedOrLost(RecordStart(s, scope))
    /\ UNCHANGED <<clock, faults, live, uuids, files, finalized, position, retry, began, pc,
                   artifact, attempts, over>>

\* Gauge closes a scope and tells the reporter.
Ending(s, scope) ==
    /\ Closes(s, scope)
    /\ Closed(s)
    /\ RecordedOrLost(RecordEnd(s, scope))
    /\ UNCHANGED <<clock, faults, live, uuids, files, finalized, position, retry, steps, began,
                   pc, artifact, attempts, over>>

ExecutionStarting(s) == Starting(s, "suite")
ExecutionEnding(s) == Ending(s, "suite")
SpecStarting(s) == Starting(s, "spec")
SpecEnding(s) == Ending(s, "spec")
StepStarting(s) == Starting(s, "step")
StepEnding(s) == Ending(s, "step")
ConceptStarting(s) == Starting(s, "concept")
ConceptEnding(s) == Ending(s, "concept")

\* Gauge takes the time of a scenario, then tells the reporter that it starts.
BeginScenario(s) ==
    /\ Ready(s) /\ Innermost(s) = "spec" /\ ~QueueDone(s)
    /\ Opened(s, "scenario")
    /\ began' = [began EXCEPT ![s] = clock]
    /\ pc' = [pc EXCEPT ![s] = "begun"]
    /\ UNCHANGED <<clock, faults, met, engineVars, position, retry, steps, artifact, attempts, over>>

ScenarioStarting(s) ==
    /\ pc[s] = "begun"
    /\ RecordedOrLost(RecordStart(s, "scenario"))
    /\ pc' = [pc EXCEPT ![s] = "ready"]
    /\ UNCHANGED <<clock, faults, live, uuids, files, finalized, position, retry, scopes, steps,
                   began, artifact, attempts, over>>

-----------------------------------------------------------------------------
(* ScenarioEnding.                                                         *)

\* timing.Resolve.
Resolve(start, duration) == [start |-> start, stop |-> start + duration]

\* MapLiveScenario: the range starts at Gauge's timestamp, or now without one.  The
\* time Gauge has measured is at most what has passed.
MapLiveScenario(s) ==
    /\ Ready(s) /\ Innermost(s) = "scenario"
    /\ \E start \in {began[s], clock}, duration \in {0, clock - began[s]} :
         artifact' = [artifact EXCEPT ![s] =
             [range |-> Resolve(start, duration), stamped |-> start = began[s]]]
    /\ pc' = [pc EXCEPT ![s] = "mapped"]
    /\ UNCHANGED <<clock, faults, met, engineVars, position, retry, scopes, steps, began, attempts,
                   over>>

Repeated == {e \in over : e.attempt.retry > 0}
Repeating == {s \in Streams : retry[s] > 0}

\* Gauge repeats an attempt that failed, or goes on to the next item.
NextAttempt(s, rejected) ==
    /\ over' = over \cup {[attempt |-> Attempt(s), stream |-> s, rejected |-> rejected]}
    /\ attempts' = [attempts EXCEPT ![Item(s)] = retry[s] + 1]
    /\ \/ /\ retry[s] < MaxRetry
          /\ Cardinality(Repeated) + Cardinality(Repeating) < MaxRepeats
          /\ retry' = [retry EXCEPT ![s] = @ + 1]
          /\ UNCHANGED position
       \/ /\ position' = [position EXCEPT ![s] = @ + 1]
          /\ retry' = [retry EXCEPT ![s] = 0]
    /\ Closed(s)
    /\ steps' = [steps EXCEPT ![s] = 0]
    /\ began' = [began EXCEPT ![s] = 0]
    /\ artifact' = [artifact EXCEPT ![s] = None]
    /\ pc' = [pc EXCEPT ![s] = "ready"]

\* A nil request or a missing result: the start event stays.
ScenarioRejected(s) ==
    /\ Ready(s) /\ Innermost(s) = "scenario"
    /\ Meets("rejected")
    /\ NextAttempt(s, TRUE)
    /\ UNCHANGED <<clock, faults, engineVars>>

\* Mutated: the end is left where the mapper put it.
CorrelatedStartOnly(range, start) == [range EXCEPT !.start = start]

\* The recorded start replaces the mapper's; an end before it becomes the time now.
Correlated(range, start) ==
    [start |-> start, stop |-> IF range.stop < start THEN clock ELSE range.stop]

\* Mutated: the range of the mapper is kept for the final suite.
KeptUncorrelated(s, range) == artifact[s].range

\* LiveInfo.Range.
Kept(s, range) == range

ScenarioEnding(s) ==
    LET correlation == Correlation("scenario", s)
        found == correlation \in DOMAIN startEvents
        range == IF found THEN Correlated(artifact[s].range, startEvents[correlation].at)
                 ELSE artifact[s].range
        key == AttemptKey(Item(s), retry[s])
        uuid == IF key \in DOMAIN uuids THEN uuids[key]
                ELSE [attempt |-> Attempt(s), by |-> "ScenarioEnding"]
    IN  /\ pc[s] = "mapped"
        /\ startEvents' = Restrict(startEvents, DOMAIN startEvents \ {correlation})
        /\ uuids' = Assigned(uuids, [k \in {key} |-> uuid])
        /\ live' = Assigned(live, [k \in {key} |->
              [range |-> Kept(s, range), stream |-> s, stamped |-> artifact[s].stamped]])
        /\ files' = Assigned(files, [u \in {uuid} |->
              [attempt |-> Attempt(s), range |-> range, stream |-> s,
               history |-> HistoryID(Item(s), FALSE), final |-> FALSE,
               startOf |-> IF found THEN startEvents[correlation].of ELSE None]])
        /\ NextAttempt(s, FALSE)
        /\ UNCHANGED <<clock, faults, met, finalized>>

-----------------------------------------------------------------------------
(* Finalize.                                                               *)

LastAttempt(i) == [item |-> i, retry |-> attempts[i] - 1]

\* MapSuite looks an item up by the key it derives from the count of attempts.
SuiteKey(i) == AttemptKey(i, RetryIndex(attempts[i]))
SuiteUUID(i) ==
    IF SuiteKey(i) \in DOMAIN uuids THEN uuids[SuiteKey(i)]
    ELSE [attempt |-> LastAttempt(i), by |-> "MapSuite"]

\* mapScenario with the range and stream of the callback, or none: Mapping has
\* the range that takes its place, the stream is 0 then.
SuiteResult(i) ==
    LET found == SuiteKey(i) \in DOMAIN live
    IN  [attempt |-> LastAttempt(i),
         range |-> IF found THEN live[SuiteKey(i)].range ELSE None,
         stream |-> IF found THEN live[SuiteKey(i)].stream ELSE 0,
         history |-> HistoryID(i, TRUE), final |-> TRUE, startOf |-> None]

\* Gauge sends the suite result when every stream is done.  It names the last
\* attempt of each item only.
Finalize ==
    /\ ~finalized
    /\ \A s \in Streams : QueueDone(s) /\ scopes[s] = <<>>
    /\ finalized' = TRUE
    /\ files' = Assigned(files, [u \in {SuiteUUID(i) : i \in Items} |->
                                    SuiteResult(CHOOSE i \in Items : SuiteUUID(i) = u)])
    /\ uuids' = Assigned(uuids, [k \in {SuiteKey(i) : i \in Items} |->
                                    SuiteUUID(CHOOSE i \in Items : SuiteKey(i) = k)])
    /\ UNCHANGED <<clock, faults, met, startEvents, live, streamVars, attempts, over>>

-----------------------------------------------------------------------------
Tick ==
    /\ clock < MaxTime
    /\ clock' = clock + 1
    /\ UNCHANGED <<faults, met, engineVars, streamVars, attempts, over>>

RunOver == finalized /\ UNCHANGED vars

Next ==
    \/ \E s \in Streams :
          \/ ExecutionStarting(s) \/ ExecutionEnding(s)
          \/ SpecStarting(s) \/ SpecEnding(s)
          \/ StepStarting(s) \/ StepEnding(s)
          \/ ConceptStarting(s) \/ ConceptEnding(s)
          \/ BeginScenario(s)
          \/ ScenarioStarting(s)
          \/ MapLiveScenario(s)
          \/ ScenarioRejected(s)
          \/ ScenarioEnding(s)
    \/ Finalize
    \/ Tick
    \/ RunOver

Spec == Init /\ [][Next]_vars

-----------------------------------------------------------------------------
(* Properties.                                                             *)

Correlations == Scopes \X Streams \X ((ScenarioNames \cup {None}) \X Retries)
Times == 0 .. 2 * MaxTime
Ranges == [start : Times, stop : Times]
Histories == ScenarioNames \X ({<<>>} \cup ({"scenario", "spec"} \X Rows))
Results == [attempt : Attempts, range : Ranges \cup {None}, stream : Streams \cup {0},
            history : Histories, final : BOOLEAN, startOf : Attempts \cup {None}]

\* A Go map: a function on some of the keys.
IsMap(f, keys, values) == DOMAIN f \subseteq keys /\ \A k \in DOMAIN f : f[k] \in values

\* The types of the variables.
TypeOK ==
    /\ clock \in 0 .. MaxTime
    /\ faults \in FaultModes
    /\ met \in 0 .. MaxFaults
    /\ IsMap(startEvents, Correlations, [at : 0 .. MaxTime, of : Attempts \cup {None}])
    /\ IsMap(live, Keys, [range : Ranges, stream : Streams, stamped : BOOLEAN])
    /\ IsMap(uuids, Keys, UUIDs)
    /\ IsMap(files, UUIDs, Results)
    /\ finalized \in BOOLEAN
    /\ position \in [Streams -> Nat]
    /\ \A s \in Streams : position[s] \in 1 .. Len(Queue[s]) + 1
    /\ retry \in [Streams -> Retries]
    /\ scopes \in [Streams -> Seq(Scopes)]
    /\ steps \in [Streams -> 0 .. MaxSteps]
    /\ began \in [Streams -> 0 .. MaxTime]
    /\ pc \in [Streams -> {"ready", "begun", "mapped"}]
    /\ artifact \in [Streams -> [range : Ranges, stamped : BOOLEAN] \cup {None}]
    /\ attempts \in [Items -> 0 .. MaxRetry + 1]
    /\ over \subseteq [attempt : Attempts, stream : Streams, rejected : BOOLEAN]

\* A start event that replaces the start of a result is the start of that very
\* attempt: not of another row of the scenario, of an earlier retry or of what
\* another stream runs, although the correlation names no row and a rejected
\* callback leaves its start behind.
OwnStart ==
    \A u \in DOMAIN files : files[u].startOf \in {None, files[u].attempt}

\* When nothing is lost the start events are those of scopes that are open, and of
\* scenarios whose callback was rejected: nothing else accumulates in a long run.
StartsInUse ==
    "lost" \notin faults =>
        \A k \in DOMAIN startEvents :
            \/ \E s \in Streams : \E n \in DOMAIN scopes[s] : k = Correlation(scopes[s][n], s)
            \/ k[1] = "scenario" /\ \E e \in over : e.rejected /\ e.attempt = startEvents[k].of

\* What is kept of an attempt starts before it stops and, if Gauge has sent its
\* timestamp, is over by now, whichever of the two starts was taken.
LiveRangeSound ==
    \A k \in DOMAIN live :
        /\ live[k].range.start <= live[k].range.stop
        /\ live[k].stamped => live[k].range.stop <= clock

\* Every attempt whose callback was not rejected has one result on disk that
\* describes it and no other attempt: rows, retries and streams do not share one,
\* and the final suite finds the snapshot of the attempt it counts from one.
AttemptsApart ==
    \A e \in over : ~e.rejected =>
        Cardinality({u \in DOMAIN files : files[u].attempt = e.attempt}) = 1

\* The final version of a result has the times of the snapshot that it replaces.
TimesKept ==
    [][\A u \in DOMAIN files :
          files'[u].final /\ ~files[u].final => files'[u].range = files[u].range]_vars

\* The final result is labelled with the stream that ran the attempt, which only
\* its callback knew.
ThreadKept ==
    finalized => \A e \in over : ~e.rejected =>
        \A u \in DOMAIN files : files[u].attempt = e.attempt => files[u].stream = e.stream

\* Results have one history identity exactly if they are of one scenario and one
\* row of its table, whatever their retry, stream or version; snapshots of rows of
\* the specification's table are left out, see RetriesGrouped.
HistoryIdentifiesRow ==
    LET shown == {u \in DOMAIN files : files[u].final \/ ~files[u].attempt.item.specTable}
    IN  \A u, v \in shown :
            files[u].history = files[v].history <=> files[u].attempt.item = files[v].attempt.item

\* docs/gauge-allure-mapping.md, Identity and retries: "Earlier retry attempts
\* remain separate result files with the same logical identifiers".
RetriesGrouped ==
    finalized => \A u, v \in DOMAIN files :
        files[u].attempt.item = files[v].attempt.item => files[u].history = files[v].history
=============================================================================
