-------------------------------- MODULE Mapping --------------------------------
(***************************************************************************)
(* internal/mapping/mapping.go with internal/status and internal/timing:   *)
(* MapSuite over the scenarios of one specification.  Each scenario gets a *)
(* range on the timeline, the steps of its sections are laid out in that   *)
(* range, concepts nest, attachments may fail.                             *)
(*                                                                         *)
(* The recursion of mapItems is a stack of frames, one per invocation that *)
(* has not returned.  The protocol tree is not data of the model: each     *)
(* step chooses the item that comes next, so that every tree within the    *)
(* bounds is mapped.                                                       *)
(***************************************************************************)
EXTENDS Integers, Sequences, FiniteSets

CONSTANTS
    MaximumNestingDepth, \* cfg.MaximumNestingDepth
    StrictModes,         \* values of cfg.Strict to try
    ContextModes,        \* values of cfg.ContextMode to try
    TeardownModes,       \* values of cfg.TeardownMode to try
    Starts,              \* Gauge's timestamps in milliseconds
    Durations,           \* Gauge's execution times in milliseconds
    StepEvidence,        \* step execution results to try
    ScenarioEvidence,    \* statuses and hooks of scenarios to try
    Limit,               \* an int64 is in -Limit .. Limit - 1
    MaxItems,            \* bound: ended scenarios, steps, concepts, failing hooks
    MaxFailures,         \* bound: items whose attachments fail
    None

Modes == {"grouped", "flat", "fixtures"}
SectionNames == {"Context", "Steps", "Teardown"}
Statuses == {"passed", "failed", "broken", "skipped"}
ErrorKinds == {"assertion", "verification", "unexpected"}
Times == -Limit .. Limit - 1
Ranges == [start : Times, stop : Times]

ASSUME ModeAssumption ==
    StrictModes \subseteq BOOLEAN /\ ContextModes \cup TeardownModes \subseteq Modes
ASSUME NumberAssumption ==
    /\ MaximumNestingDepth \in Nat
    /\ {Limit, MaxItems, MaxFailures} \subseteq Nat
    /\ Starts \subseteq 1 .. Limit - 1
    /\ Durations \subseteq Times
ASSUME EvidenceAssumption ==
    /\ StepEvidence \subseteq [given : BOOLEAN, skipped : BOOLEAN, hook : BOOLEAN,
                               executed : BOOLEAN, skips : BOOLEAN,
                               failed : BOOLEAN, kind : ErrorKinds]
    /\ ScenarioEvidence \subseteq [status : {"PASSED", "FAILED", "SKIPPED", "NOTEXECUTED"},
                                   skips : BOOLEAN, hook : BOOLEAN]

VARIABLES
    config,    \* the modes this reporter runs with
    specRange, \* MapSuite: range of the specification
    cursor,    \* MapSuite: cursor
    scenario,  \* the scenario in hand: its range and where that is from, or None
    left,      \* what is left to map of the scenario in hand, in order
    at,        \* scenarioSteps: cursor
    stack,     \* mapItems: the invocations, innermost last
    groups,    \* scenarioSteps: groups
    fixtures,  \* scenarioContainer: the steps of its fixtures
    failures,  \* history: section -> kind of its first failed execution, or None
    items,     \* history: how many items were mapped
    lost,      \* history: the items an attachment of which failed
    warnings,  \* output.Warnings, as the items they are about
    results,   \* output.Results
    returned   \* "no" while mapping, then "output" or "error"

scenarioVars == <<scenario, left, at, stack, groups, fixtures, failures>>
vars == <<config, specRange, cursor, scenarioVars, items, lost, warnings, results, returned>>

-----------------------------------------------------------------------------
(* Times.                                                                  *)

Greater(a, b) == IF a > b THEN a ELSE b
Smaller(a, b) == IF a < b THEN a ELSE b

\* int64 addition.
Plus(a, b) == ((a + b + Limit) % (2 * Limit)) - Limit

\* timing.Resolve of a valid timestamp.
Resolve(start, duration) ==
    [start |-> start, stop |-> Greater(start, Plus(start, Greater(duration, 0)))]

\* timing.Clamp: a zero end of the parent counts as unknown.
Clamp(child, parent) ==
    LET start == IF parent.start # 0 THEN Greater(child.start, parent.start) ELSE child.start
        stop == IF parent.stop # 0 THEN Smaller(child.stop, parent.stop) ELSE child.stop
    IN  [start |-> start, stop |-> Greater(stop, start)]

\* Mutated: a step without duration is a millisecond long also where its parent ends.
StepRangeUnbounded(from, duration, parent) ==
    LET child == Clamp([start |-> from, stop |-> Plus(from, Greater(duration, 0))], parent)
    IN  IF child.stop = child.start
        THEN [child EXCEPT !.stop = child.start + 1]
        ELSE child

\* mapItems: the range of a step, a millisecond at least where its parent has room.
StepRange(from, duration, parent) ==
    LET child == Clamp([start |-> from, stop |-> Plus(from, Greater(duration, 0))], parent)
    IN  IF child.stop = child.start /\ parent.stop > child.start
        THEN [child EXCEPT !.stop = Smaller(parent.stop, child.start + 1)]
        ELSE child

\* MapSuite: the range of a scenario no callback has reported.
FallbackRange(from, duration) ==
    [start |-> from, stop |-> Smaller(Plus(from, Greater(duration, 0)), specRange.stop)]

\* Mutated: the cursor goes back to a scenario of another stream that ended earlier.
AdvanceTo(range) == range.stop

\* MapSuite: the cursor after a scenario.
Advance(range) == Greater(cursor, range.stop)

LiveRanges == {Resolve(s, d) : s \in Starts, d \in Durations}

-----------------------------------------------------------------------------
(* Statuses.                                                               *)

\* FromExecutionStatus, for the statuses its callers here pass.
FromExecutionStatus(status, kind) ==
    CASE status = "PASSED" -> "passed"
      [] status = "SKIPPED" -> "skipped"
      [] status = "FAILED" /\ kind \in {"assertion", "verification"} -> "failed"
      [] OTHER -> "broken"

\* Mutated: a failure the runner recovered from is no failure.
FromStepRecovers(e) ==
    IF ~e.given THEN "broken"
    ELSE IF e.skipped THEN "skipped"
    ELSE IF e.hook \/ ~e.executed THEN "broken"
    ELSE IF e.skips THEN "skipped"
    ELSE IF e.failed /\ e.kind # "verification" THEN "failed" ELSE "passed"

\* FromStep: each kind of evidence only counts when those above it are absent.
FromStep(e) ==
    IF ~e.given THEN "broken"
    ELSE IF e.skipped THEN "skipped"
    ELSE IF e.hook \/ ~e.executed THEN "broken"
    ELSE IF e.skips THEN "skipped"
    ELSE FromExecutionStatus(IF e.failed THEN "FAILED" ELSE "PASSED", e.kind)

\* Mutated: only a broken step makes its concept or group other than passed.
AggregateBroken(statuses) == IF "broken" \in statuses THEN "broken" ELSE "passed"

\* aggregateStepStatus, which asks for the worst status whatever the order.
AggregateStepStatus(statuses) ==
    IF "broken" \in statuses THEN "broken"
    ELSE IF "failed" \in statuses THEN "failed"
    ELSE IF "skipped" \in statuses THEN "skipped" ELSE "passed"

\* findStepFailure: the first failed execution, in the order of the document.
FindStepFailure ==
    IF failures["Context"] # None THEN failures["Context"]
    ELSE IF failures["Steps"] # None THEN failures["Steps"]
    ELSE failures["Teardown"]

\* scenarioStatus; FailureKind of no failure is not an assertion either.
ScenarioStatus(e) ==
    IF e.status = "SKIPPED" \/ e.skips THEN "skipped"
    ELSE IF e.hook THEN "broken"
    ELSE FromExecutionStatus(e.status, FindStepFailure)

-----------------------------------------------------------------------------
(* Frames of mapItems.                                                     *)

Steps == [start : Times, stop : Times, status : Statuses, below : SUBSET Statuses]
Owners == [range : Ranges, status : Statuses, item : Nat]

\* owner is the concept whose children are mapped, None for a section; ended
\* is set when the invocation returns an error before its last item.
Frames == [owner : Owners \cup {None}, cursor : Times, steps : Seq(Steps),
           warned : SUBSET Nat, ended : BOOLEAN]

\* The scenario in hand.
Scenarios == [range : Ranges, found : BOOLEAN]

ASSUME NoneAssumption ==
    /\ None \notin ErrorKinds /\ None \notin Ranges
    /\ None \notin Owners /\ None \notin Scenarios

Top == stack[Len(stack)]
Below == SubSeq(stack, 1, Len(stack) - 1)
Section == Head(left)

\* The range an invocation lays its steps out in.
Parent(frame) == IF frame.owner = None THEN scenario.range ELSE frame.owner.range

Frame(owner, from) ==
    [owner |-> owner, cursor |-> from, steps |-> <<>>, warned |-> {}, ended |-> FALSE]

\* The step of a range; below holds the statuses of all steps nested in it.
StepOf(range, status, below) ==
    [start |-> range.start, stop |-> range.stop, status |-> status, below |-> below]

\* The statuses of some steps and of all that is nested in them.
AllStatuses(steps) ==
    UNION {{steps[i].status} \cup steps[i].below : i \in DOMAIN steps}

\* The statuses of the steps themselves.
TopStatuses(steps) == {steps[i].status : i \in DOMAIN steps}

\* A concept that passed takes the status of its children.
ConceptStatus(status, children) ==
    IF status = "passed" THEN AggregateStepStatus(children) ELSE status

Appended(frame, step, warned) ==
    [frame EXCEPT !.steps = Append(@, step),
                  !.cursor = Greater(@, step.stop),
                  !.warned = warned]

\* The mode a section is mapped in.
Mode(section) ==
    CASE section = "Context" -> config.context
      [] section = "Teardown" -> config.teardown
      [] OTHER -> "grouped"

\* The order of mapScenario and scenarioContainer: the sections that become
\* steps, the hooks, the sections that become fixtures.
MappingOrder ==
    LET AsSteps(section) == IF Mode(section) = "fixtures" THEN <<>> ELSE <<section>>
        AsFixture(section) == IF Mode(section) = "fixtures" THEN <<section>> ELSE <<>>
    IN  AsSteps("Context") \o <<"Steps">> \o AsSteps("Teardown")
        \o <<"Hooks">> \o AsFixture("Context") \o AsFixture("Teardown")

\* The duration of a step comes with its execution result.
DurationOf(e, duration) == IF e.given /\ e.executed THEN duration ELSE 0

Init ==
    /\ config \in [strict : StrictModes, context : ContextModes, teardown : TeardownModes]
    /\ specRange \in LiveRanges
    /\ cursor = specRange.start
    /\ scenario = None
    /\ left = <<>>
    /\ at = specRange.start
    /\ stack = <<>>
    /\ groups = <<>>
    /\ fixtures = <<>>
    /\ failures = [s \in SectionNames |-> None]
    /\ items = 0
    /\ lost = {}
    /\ warnings = {}
    /\ results = <<>>
    /\ returned = "no"

-----------------------------------------------------------------------------
(* Scenarios.                                                              *)

\* The bound on what is mapped.
Room == items + Len(results) < MaxItems

\* MapSuite takes the next scenario: live may have a range under its key, which
\* Lifecycle is about.
TakeScenario ==
    /\ returned = "no" /\ scenario = None
    /\ Room
    /\ \E reported \in LiveRanges \cup {None}, duration \in Durations :
         LET range == IF reported # None THEN reported ELSE FallbackRange(cursor, duration)
         IN  /\ scenario' = [range |-> range, found |-> reported # None]
             /\ cursor' = Advance(range)
             /\ at' = range.start
    /\ left' = MappingOrder
    /\ UNCHANGED <<config, specRange, stack, groups, fixtures, failures, items, lost,
                   warnings, results, returned>>

\* The variables of mapScenario are gone.
NoScenario ==
    /\ at' = specRange.start
    /\ groups' = <<>>
    /\ fixtures' = <<>>
    /\ failures' = [s \in SectionNames |-> None]

\* mapScenario and scenarioContainer have returned: the result and its
\* container join the output.
EndScenario ==
    /\ scenario # None /\ left = <<>>
    /\ \E e \in ScenarioEvidence :
         results' = Append(results,
             [start |-> scenario.range.start, stop |-> scenario.range.stop,
              found |-> scenario.found, status |-> ScenarioStatus(e),
              shown |-> TopStatuses(groups) \cup TopStatuses(fixtures)])
    /\ scenario' = None
    /\ NoScenario
    /\ UNCHANGED <<config, specRange, cursor, left, stack, items, lost, warnings, returned>>

\* MapSuite returns.
ReturnOutput ==
    /\ returned = "no" /\ scenario = None
    /\ returned' = "output"
    /\ UNCHANGED <<config, specRange, cursor, scenarioVars, items, lost, warnings, results>>

-----------------------------------------------------------------------------
(* Sections and steps.                                                     *)

\* mapItems is called for a section, in a fixture from the scenario's start.
OpenSection ==
    /\ left # <<>> /\ Section \in SectionNames /\ stack = <<>>
    /\ stack' = <<Frame(None, IF Mode(Section) = "fixtures"
                              THEN scenario.range.start ELSE at)>>
    /\ UNCHANGED <<config, specRange, cursor, scenario, left, at, groups, fixtures, failures,
                   items, lost, warnings, results, returned>>

\* An item is mapped; its attachments fail or not.
NextItem(fails) ==
    /\ Room
    /\ items' = items + 1
    /\ fails => Cardinality(lost) < MaxFailures
    /\ lost' = IF fails THEN lost \cup {items + 1} ELSE lost

\* attachStep fails in strict mode: a section's invocation fails the mapping of
\* the suite, a concept's children end there and the caller drops the error.
FailItems(frames) ==
    IF Len(frames) = 1
    THEN /\ returned' = "error"
         /\ stack' = <<>>
         /\ scenario' = None
         /\ left' = <<>>
    ELSE /\ stack' = [frames EXCEPT ![Len(frames)].ended = TRUE]
         /\ UNCHANGED <<scenario, left, returned>>

\* attachStep, then the step is appended to the innermost frame; item names it
\* in warnings, warned holds those of the frame so far.
Attach(frames, item, step, warned, fails) ==
    IF fails /\ config.strict
    THEN FailItems(frames)
    ELSE /\ stack' = [frames EXCEPT ![Len(frames)] =
                        Appended(@, step, IF fails THEN warned \cup {item} ELSE warned)]
         /\ UNCHANGED <<scenario, left, returned>>

\* mapItems maps a step, or a concept without children.
MapStep ==
    /\ stack # <<>> /\ ~Top.ended
    /\ \E e \in StepEvidence, duration \in Durations, fails \in BOOLEAN :
         /\ NextItem(fails)
         /\ LET range == StepRange(Top.cursor, DurationOf(e, duration), Parent(Top))
            IN  Attach(stack, items + 1, StepOf(range, FromStep(e), {}), Top.warned, fails)
         /\ failures' = IF e.given /\ e.executed /\ e.failed /\ failures[Section] = None
                        THEN [failures EXCEPT ![Section] = e.kind] ELSE failures
    /\ UNCHANGED <<config, specRange, cursor, at, groups, fixtures, warnings, results>>

\* Mutated: the limit itself is taken for one more level.
TooDeepByOne == Len(stack) > MaximumNestingDepth + 1

\* The children of a concept in the innermost frame are beyond the depth limit.
TooDeep == Len(stack) > MaximumNestingDepth

\* mapItems calls itself for the children of a concept.
EnterConcept ==
    /\ stack # <<>> /\ ~Top.ended
    /\ ~TooDeep
    /\ NextItem(FALSE)
    /\ \E e \in StepEvidence, duration \in Durations :
         LET range == StepRange(Top.cursor, DurationOf(e, duration), Parent(Top))
             owner == [range |-> range, status |-> FromStep(e), item |-> items + 1]
         IN  stack' = Append(stack, Frame(owner, range.start))
    /\ UNCHANGED <<config, specRange, cursor, scenario, left, at, groups, fixtures, failures,
                   warnings, results, returned>>

\* The concept is nested too deep: a broken step stands for its children, of
\* which findStepFailure still sees the failures.
CutConcept ==
    /\ stack # <<>> /\ ~Top.ended
    /\ TooDeep
    /\ \E e \in StepEvidence, duration \in Durations, fails \in BOOLEAN,
          hidden \in ErrorKinds \cup {None} :
         /\ NextItem(fails)
         /\ LET range == StepRange(Top.cursor, DurationOf(e, duration), Parent(Top))
                status == ConceptStatus(FromStep(e), {"broken"})
            IN  Attach(stack, items + 1, StepOf(range, status, {"broken"}), {}, fails)
         /\ failures' = IF failures[Section] = None
                        THEN [failures EXCEPT ![Section] = hidden] ELSE failures
    /\ UNCHANGED <<config, specRange, cursor, at, groups, fixtures, warnings, results>>

\* The invocation for the children of a concept returns: its warnings replace
\* those of the caller and its error is dropped.
LeaveConcept ==
    /\ Len(stack) > 1
    /\ \E fails \in BOOLEAN :
         LET owner == Top.owner
             status == ConceptStatus(owner.status, TopStatuses(Top.steps))
             step == StepOf(owner.range, status, AllStatuses(Top.steps))
         IN  /\ Attach(Below, owner.item, step, Top.warned, fails)
             /\ lost' = IF fails THEN lost \cup {owner.item} ELSE lost
    /\ UNCHANGED <<config, specRange, cursor, at, groups, fixtures, failures, items,
                   warnings, results>>

\* The group that stands for the steps of a section.
GroupOf(steps) ==
    StepOf([start |-> steps[1].start, stop |-> steps[Len(steps)].stop],
           AggregateStepStatus(TopStatuses(steps)), AllStatuses(steps))

\* Mutated: the cursor that mapItems returned is not kept.
CursorKept(frame) == at

\* scenarioSteps: where the next section starts.
NextCursor(frame) == frame.cursor

\* mapItems returns to scenarioSteps or scenarioContainer.
CloseSection ==
    /\ Len(stack) = 1
    /\ LET steps == Top.steps
           grouped == IF Mode(Section) = "flat" \/ steps = <<>>
                      THEN steps ELSE <<GroupOf(steps)>>
       IN  IF Mode(Section) = "fixtures"
           THEN fixtures' = fixtures \o steps /\ UNCHANGED <<at, groups>>
           ELSE /\ groups' = groups \o grouped
                /\ at' = NextCursor(Top)
                /\ UNCHANGED fixtures
    /\ warnings' = warnings \cup Top.warned
    /\ stack' = <<>>
    /\ left' = Tail(left)
    /\ UNCHANGED <<config, specRange, cursor, scenario, failures, items, lost, results, returned>>

\* The fixtures of the container: messages and screenshots of hooks.
AttachHooks ==
    /\ left # <<>> /\ Section = "Hooks"
    /\ \/ /\ left' = Tail(left)
          /\ UNCHANGED <<scenario, items, lost, warnings, returned>>
       \/ /\ NextItem(TRUE)
          /\ IF config.strict
             THEN /\ returned' = "error" /\ scenario' = None /\ left' = <<>>
                  /\ UNCHANGED warnings
             ELSE /\ warnings' = warnings \cup {items + 1} /\ left' = Tail(left)
                  /\ UNCHANGED <<scenario, returned>>
    /\ UNCHANGED <<config, specRange, cursor, at, stack, groups, fixtures, failures, results>>

\* Termination, not a deadlock.
Returned == returned # "no" /\ UNCHANGED vars

Next ==
    \/ TakeScenario \/ EndScenario \/ ReturnOutput
    \/ OpenSection \/ MapStep \/ EnterConcept \/ CutConcept \/ LeaveConcept
    \/ CloseSection \/ AttachHooks \/ Returned

Spec == Init /\ [][Next]_vars

-----------------------------------------------------------------------------
(* Properties.                                                             *)

Results == [start : Times, stop : Times, found : BOOLEAN, status : Statuses,
            shown : SUBSET Statuses]

\* Types; the invocations of mapItems are never more than the configured depth.
TypeOK ==
    /\ config \in [strict : BOOLEAN, context : Modes, teardown : Modes]
    /\ specRange \in Ranges /\ cursor \in Times /\ at \in Times
    /\ scenario \in Scenarios \cup {None}
    /\ left \in Seq(SectionNames \cup {"Hooks"})
    /\ stack \in Seq(Frames) /\ Len(stack) <= MaximumNestingDepth + 1
    /\ groups \in Seq(Steps) /\ fixtures \in Seq(Steps)
    /\ failures \in [SectionNames -> ErrorKinds \cup {None}]
    /\ items \in Nat /\ lost \subseteq Nat /\ warnings \subseteq Nat
    /\ results \in Seq(Results)
    /\ returned \in {"no", "output", "error"}

Within(steps, range) ==
    \A i \in DOMAIN steps : range.start <= steps[i].start /\ steps[i].stop <= range.stop

OneAfterAnother(steps) ==
    \A i \in DOMAIN steps :
        /\ steps[i].start <= steps[i].stop
        /\ i > 1 => steps[i - 1].stop <= steps[i].start

\* A step lies in the range of its concept or scenario, at any depth, for
\* whatever durations Gauge reported, also when their sum overflows.
StepsInParent ==
    scenario # None /\ scenario.range.start <= scenario.range.stop =>
        /\ Within(groups \o fixtures, scenario.range)
        /\ \A i \in DOMAIN stack : Within(stack[i].steps, Parent(stack[i]))

\* Steps of one concept or section follow each other without overlap, and so
\* do the sections: the cursor moves on from one to the next.
StepsInOrder ==
    scenario # None => /\ OneAfterAnother(groups)
                       /\ \A i \in DOMAIN stack : OneAfterAnother(stack[i].steps)

\* Where a reader of the report sees a concept or section that passed, nothing
\* in it did anything else: no failure is hidden under a passed parent.
FailureVisible ==
    LET Honest(steps) ==
            \A i \in DOMAIN steps :
                steps[i].status = "passed" => steps[i].below \subseteq {"passed"}
    IN  /\ Honest(groups) /\ Honest(fixtures)
        /\ \A i \in DOMAIN stack : Honest(stack[i].steps)

\* In best effort a scenario reported as failed shows, in its steps or its
\* fixtures, where: the step findStepFailure took the verdict from was mapped, or
\* the diagnostic of the nesting depth stands for it.
FailedExplained ==
    ~config.strict =>
        \A i \in DOMAIN results :
            results[i].status = "failed" => results[i].shown \ {"passed"} # {}

\* A scenario without a range of its own starts when those before it have
\* ended, whatever ranges callbacks of parallel streams left.
FallbackAfterEarlier ==
    \A i, j \in DOMAIN results :
        i < j /\ ~results[j].found => results[i].stop <= results[j].start

\* docs/gauge-allure-mapping.md, Timing: "`stop` never precedes `start`".
StopAfterStart == \A i \in DOMAIN results : results[i].start <= results[i].stop

\* docs/adr/0011-best-effort-and-strict-error-handling.md: best effort is to
\* "collect bounded warnings", strict "to return mapping/output errors".
FailuresReported == returned = "output" => lost \subseteq warnings
=============================================================================
