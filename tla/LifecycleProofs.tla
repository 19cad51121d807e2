--------------------------- MODULE LifecycleProofs ---------------------------
(***************************************************************************)
(* Theorems about Lifecycle, for any number of streams, scenarios, rows,   *)
(* retries, steps and faults and any distribution of the items over the    *)
(* streams.                                                                *)
(***************************************************************************)
EXTENDS Lifecycle, FiniteSetTheorems, SequenceTheorems, TLAPS

KeyOf(a) == AttemptKey(a.item, a.retry)

\* A stream that has the item in its queue.
Runs(s, i) == s \in Streams /\ \E n \in DOMAIN Queue[s] : Queue[s][n] = i

\* The scopes that may be open on a stream, one in the other.
Shaped(t) ==
    /\ Len(t) <= 5
    /\ Len(t) >= 1 => t[1] = "suite"
    /\ Len(t) >= 2 => t[2] = "spec"
    /\ Len(t) >= 3 => t[3] = "scenario"
    /\ Len(t) >= 4 => t[4] \in {"concept", "step"}
    /\ Len(t) = 5 => t[4] = "concept" /\ t[5] = "step"

\* Where a stream is: inside a scenario there is an item of the queue, and the items
\* before it were attempted.
Placed(s) ==
    /\ Shaped(scopes[s])
    /\ Len(scopes[s]) >= 3 => ~QueueDone(s)
    /\ pc[s] # "ready" => Len(scopes[s]) = 3
    /\ \A n \in 1 .. position[s] - 1 : attempts[Queue[s][n]] >= 1

PlaceInv == \A s \in Streams : Placed(s)

\* A result that MapLiveScenario returned.
Mapped(a) ==
    /\ a \in [range : Ranges, stamped : BOOLEAN]
    /\ a.range.start <= a.range.stop
    /\ a.stamped => a.range.stop <= clock

TimeInv ==
    /\ \A s \in Streams : began[s] <= clock /\ (pc[s] = "mapped" => Mapped(artifact[s]))
    /\ \A k \in DOMAIN startEvents : startEvents[k].at <= clock
    /\ LiveRangeSound

\* The run may both lose notifications and reject callbacks.
BothFaults == "lost" \in faults /\ "rejected" \in faults

\* The scenario that is open on the stream, whose notification was sent.
Told(s) == Len(scopes[s]) >= 3 /\ pc[s] # "begun"

\* The start event that the callback of an open scenario would find is its own.
FoundOwn ==
    \A s \in Streams : Told(s) /\ Correlation("scenario", s) \in DOMAIN startEvents =>
        startEvents[Correlation("scenario", s)].of = Attempt(s)

\* Without rejected callbacks, the start events of scenarios are those of open ones.
NoneLeft ==
    \A k \in DOMAIN startEvents : k[1] = "scenario" =>
        \E s \in Streams : Told(s) /\ k = Correlation("scenario", s)

StartInv ==
    /\ ~BothFaults => FoundOwn /\ OwnStart
    /\ "rejected" \notin faults => NoneLeft
    /\ StartsInUse

\* A result file is of the attempt that its UUID was drawn for, and the one that uuids
\* has for it; the snapshot agrees with live, and a file that live knows of is labelled
\* with the stream that runs the item.
FileOK(u) ==
    /\ files[u].attempt = u.attempt
    /\ KeyOf(u.attempt) \in DOMAIN uuids /\ uuids[KeyOf(u.attempt)] = u
    /\ files[u].history = HistoryID(u.attempt.item, files[u].final)
    /\ ~files[u].final => /\ KeyOf(u.attempt) \in DOMAIN live
                          /\ live[KeyOf(u.attempt)].range = files[u].range
    /\ KeyOf(u.attempt) \in DOMAIN live => Runs(files[u].stream, u.attempt.item)

FileInv ==
    /\ \A u \in DOMAIN files : FileOK(u)
    /\ \A k \in DOMAIN uuids : KeyOf(uuids[k].attempt) = k /\ uuids[k] \in DOMAIN files
    /\ \A k \in DOMAIN live : k \in DOMAIN uuids /\ Runs(live[k].stream, uuids[k].attempt.item)

\* An attempt that ended was run by its stream and, unless its callback was rejected,
\* is known.
OverInv ==
    \A e \in over : /\ Runs(e.stream, e.attempt.item)
                    /\ ~e.rejected => KeyOf(e.attempt) \in DOMAIN live

LifecycleInv == TypeOK /\ PlaceInv /\ TimeInv /\ StartInv /\ FileInv /\ OverInv

-----------------------------------------------------------------------------
(* Maps.                                                                   *)

LEMMA RestrictFacts ==
    ASSUME NEW map, NEW S
    PROVE  /\ DOMAIN Restrict(map, S) = S
           /\ \A k \in S : Restrict(map, S)[k] = map[k]
  BY DEF Restrict

LEMMA RestrictMap ==
    ASSUME NEW keys, NEW values, NEW map, IsMap(map, keys, values), NEW S, S \subseteq DOMAIN map
    PROVE  IsMap(Restrict(map, S), keys, values)
  BY RestrictFacts DEF IsMap

-----------------------------------------------------------------------------
(* Identities.                                                             *)

LEMMA ItemFields ==
    ASSUME NEW i \in Items
    PROVE  /\ i \in [scenario : ScenarioNames, specTable : BOOLEAN, specRow : Nat,
                     scenarioTable : BOOLEAN, scenarioRow : Nat]
           /\ i.specRow \in Rows /\ i.scenarioRow \in Rows /\ i.scenario \in ScenarioNames
  BY ItemAssumption DEF Rows, ScenarioNames

\* A key stands for one attempt.
LEMMA KeyApart ==
    ASSUME NEW a \in Attempts, NEW b \in Attempts, KeyOf(a) = KeyOf(b)
    PROVE  a = b
<1>1. a.item \in Items /\ b.item \in Items
  BY DEF Attempts
<1>2. /\ a.item.scenario = b.item.scenario /\ a.item.specRow = b.item.specRow
      /\ a.item.scenarioRow = b.item.scenarioRow /\ a.retry = b.retry
  BY DEF KeyOf, AttemptKey
<1>3. a.item.specTable = b.item.specTable /\ a.item.scenarioTable = b.item.scenarioTable
  BY <1>1, <1>2, ItemAssumption
<1>4. a.item = b.item
  BY <1>1, <1>2, <1>3, ItemFields
<1> QED
  BY <1>2, <1>4 DEF Attempts

LEMMA KeyTyped ==
    ASSUME NEW a \in Attempts
    PROVE  KeyOf(a) \in Keys
<1>1. a.item \in Items /\ a.retry \in Retries
  BY DEF Attempts
<1> QED
  BY <1>1, ItemFields DEF KeyOf, AttemptKey, Keys

\* The snapshot and the final result of an item have one of these.
LEMMA HistoryTyped ==
    ASSUME NEW i \in Items, NEW known \in BOOLEAN
    PROVE  HistoryID(i, known) \in Histories
<1>1. Logical(i, known) \in {<<>>} \cup ({"scenario", "spec"} \X Rows)
  BY ItemFields DEF Logical
<1> QED
  BY <1>1, ItemFields DEF HistoryID, Histories

LEMMA OneStream ==
    ASSUME NEW s \in Streams, NEW t \in Streams, NEW i, Runs(s, i), Runs(t, i)
    PROVE  s = t
  BY QueueAssumption DEF Runs

LEMMA CurrentItem ==
    ASSUME TypeOK, NEW s \in Streams, ~QueueDone(s)
    PROVE  /\ Item(s) \in Items /\ Runs(s, Item(s))
           /\ Attempt(s) \in Attempts /\ Attempt(s).item = Item(s) /\ Attempt(s).retry = retry[s]
           /\ KeyOf(Attempt(s)) = AttemptKey(Item(s), retry[s])
<1>1. Queue[s] \in Seq(Items)
  BY QueueAssumption
<1>2. position[s] \in DOMAIN Queue[s]
  BY <1>1 DEF TypeOK, QueueDone
<1>3. Item(s) \in Items /\ Runs(s, Item(s))
  BY <1>1, <1>2 DEF Item, Runs
<1> QED
  BY <1>3 DEF Attempt, Attempts, TypeOK, KeyOf

LEMMA CorrelationTyped ==
    ASSUME TypeOK, NEW s \in Streams, NEW scope \in Scopes,
           scope \in {"suite", "spec"} \/ ~QueueDone(s)
    PROVE  Correlation(scope, s) \in Correlations
<1>1. CASE scope \in {"suite", "spec"}
  BY <1>1, NumberAssumption DEF Correlation, Correlations, Retries
<1>2. CASE scope \notin {"suite", "spec"}
  <2>1. Item(s).scenario \in ScenarioNames
    BY <1>2, CurrentItem, ItemFields
  <2> QED
    BY <1>2, <2>1 DEF Correlation, Correlations, TypeOK
<1> QED
  BY <1>1, <1>2

\* A correlation tells scopes and streams apart.
LEMMA CorrelationParts ==
    ASSUME NEW s, NEW scope
    PROVE  Correlation(scope, s)[1] = scope /\ Correlation(scope, s)[2] = s
  BY DEF Correlation

\* A stream that stays at its item stays at its identities.
LEMMA SamePlace ==
    ASSUME NEW s \in Streams, position'[s] = position[s], retry'[s] = retry[s]
    PROVE  /\ Item(s)' = Item(s) /\ Attempt(s)' = Attempt(s)
           /\ \A scope : Correlation(scope, s)' = Correlation(scope, s)
  BY DEF Item, Attempt, Correlation

-----------------------------------------------------------------------------
(* What the steps do.                                                      *)

Around == {"suite", "spec", "concept", "step"}

LEMMA NextCases ==
    ASSUME Next
    PROVE  \/ \E s \in Streams, scope \in Around : Starting(s, scope) \/ Ending(s, scope)
           \/ \E s \in Streams : \/ BeginScenario(s) \/ ScenarioStarting(s) \/ MapLiveScenario(s)
                                 \/ ScenarioRejected(s) \/ ScenarioEnding(s)
           \/ Finalize \/ Tick \/ UNCHANGED vars
  BY DEF Next, Around, RunOver, ExecutionStarting, ExecutionEnding, SpecStarting, SpecEnding,
     StepStarting, StepEnding, ConceptStarting, ConceptEnding

\* A scope that is opened fits in those that are open.
LEMMA ShapeOpened ==
    ASSUME NEW t \in Seq(Scopes), Shaped(t), NEW scope \in Scopes,
           /\ scope = "suite" => Len(t) = 0
           /\ scope = "spec" => Len(t) = 1
           /\ scope = "scenario" => Len(t) = 2
           /\ scope = "concept" => Len(t) = 3
           /\ scope = "step" => Len(t) = 3 \/ (Len(t) = 4 /\ t[4] = "concept")
    PROVE  /\ Append(t, scope) \in Seq(Scopes) /\ Shaped(Append(t, scope))
           /\ Len(Append(t, scope)) = Len(t) + 1
           /\ Append(t, scope)[Len(t) + 1] = scope
           /\ \A n \in 1 .. Len(t) : Append(t, scope)[n] = t[n]
<1>1. /\ Append(t, scope) \in Seq(Scopes) /\ Len(Append(t, scope)) = Len(t) + 1
      /\ Append(t, scope)[Len(t) + 1] = scope
      /\ \A n \in 1 .. Len(t) : Append(t, scope)[n] = t[n]
  OBVIOUS
<1>2. Len(t) \in Nat
  OBVIOUS
<1>3. Shaped(Append(t, scope))
  <2> DEFINE u == Append(t, scope)
  <2>1. Len(u) = Len(t) + 1 /\ u[Len(t) + 1] = scope /\ \A n \in 1 .. Len(t) : u[n] = t[n]
    BY <1>1
  <2> HIDE DEF u
  <2>2. Shaped(u)
    <3>1. CASE scope = "suite"
      BY <1>2, <2>1, <3>1 DEF Shaped
    <3>2. CASE scope = "spec"
      <4>1. Len(t) = 1
        BY <3>2
      <4>2. Len(u) = 2 /\ u[2] = "spec" /\ \A n \in 1 .. 1 : u[n] = t[n]
        BY <2>1, <3>2, <4>1
      <4>3. u[1] = "suite"
        BY <4>1, <4>2 DEF Shaped
      <4> QED
        BY <4>2, <4>3 DEF Shaped
    <3>3. CASE scope = "scenario"
      <4>1. Len(t) = 2
        BY <3>3
      <4>2. Len(u) = 3 /\ u[3] = "scenario" /\ \A n \in 1 .. 2 : u[n] = t[n]
        BY <2>1, <3>3, <4>1
      <4>3. u[1] = "suite" /\ u[2] = "spec"
        BY <4>1, <4>2 DEF Shaped
      <4> QED
        BY <4>2, <4>3 DEF Shaped
    <3>4. CASE scope = "concept"
      <4>1. Len(t) = 3
        BY <3>4
      <4>2. Len(u) = 4 /\ u[4] = "concept" /\ \A n \in 1 .. 3 : u[n] = t[n]
        BY <2>1, <3>4, <4>1
      <4>3. u[1] = "suite" /\ u[2] = "spec" /\ u[3] = "scenario"
        BY <4>1, <4>2 DEF Shaped
      <4> QED
        BY <4>2, <4>3 DEF Shaped
    <3>5. CASE scope = "step"
      <4>1. Len(t) = 3 \/ (Len(t) = 4 /\ t[4] = "concept")
        BY <3>5
      <4>2. CASE Len(t) = 3
        <5>1. Len(u) = 4 /\ u[4] = "step" /\ \A n \in 1 .. 3 : u[n] = t[n]
          BY <2>1, <3>5, <4>2
        <5>2. u[1] = "suite" /\ u[2] = "spec" /\ u[3] = "scenario"
          BY <4>2, <5>1 DEF Shaped
        <5> QED
          BY <5>1, <5>2 DEF Shaped
      <4>3. CASE Len(t) = 4 /\ t[4] = "concept"
        <5>1. Len(u) = 5 /\ u[5] = "step" /\ \A n \in 1 .. 4 : u[n] = t[n]
          BY <2>1, <3>5, <4>3
        <5>2. u[1] = "suite" /\ u[2] = "spec" /\ u[3] = "scenario" /\ u[4] = "concept"
          BY <4>3, <5>1 DEF Shaped
        <5> QED
          BY <5>1, <5>2 DEF Shaped
      <4> QED
        BY <4>1, <4>2, <4>3
    <3> QED
      BY <3>1, <3>2, <3>3, <3>4, <3>5 DEF Scopes
  <2> QED
    BY <2>2 DEF u
<1> QED
  BY <1>1, <1>3

LEMMA ShapeClosed ==
    ASSUME NEW t \in Seq(Scopes), Shaped(t), t # <<>>
    PROVE  /\ SubSeq(t, 1, Len(t) - 1) \in Seq(Scopes) /\ Shaped(SubSeq(t, 1, Len(t) - 1))
           /\ Len(SubSeq(t, 1, Len(t) - 1)) = Len(t) - 1
           /\ \A n \in 1 .. Len(t) - 1 : SubSeq(t, 1, Len(t) - 1)[n] = t[n]
<1>1. Len(t) \in Nat \ {0} /\ \A n \in 1 .. Len(t) - 1 : t[n] \in Scopes
  OBVIOUS
<1>2. /\ SubSeq(t, 1, Len(t) - 1) \in Seq(Scopes)
      /\ Len(SubSeq(t, 1, Len(t) - 1)) = Len(t) - 1
      /\ \A n \in 1 .. Len(t) - 1 : SubSeq(t, 1, Len(t) - 1)[n] = t[n]
  <2>1. /\ SubSeq(t, 1, Len(t) - 1) \in Seq(Scopes)
        /\ Len(SubSeq(t, 1, Len(t) - 1)) = IF 1 <= Len(t) - 1 THEN Len(t) - 1 - 1 + 1 ELSE 0
        /\ \A n \in 1 .. Len(t) - 1 - 1 + 1 : SubSeq(t, 1, Len(t) - 1)[n] = t[1 + n - 1]
    BY <1>1, SubSeqProperties
  <2>2. \A l \in Nat \ {0} : /\ (IF 1 <= l - 1 THEN l - 1 - 1 + 1 ELSE 0) = l - 1
                              /\ l - 1 - 1 + 1 = l - 1
    OBVIOUS
  <2>3. Len(SubSeq(t, 1, Len(t) - 1)) = Len(t) - 1
    BY <1>1, <2>1, <2>2
  <2>4. ASSUME NEW n \in 1 .. Len(t) - 1
        PROVE  SubSeq(t, 1, Len(t) - 1)[n] = t[n]
    <3>1. n \in 1 .. Len(t) - 1 - 1 + 1 /\ 1 + n - 1 = n
      BY <1>1, <2>2
    <3> QED
      BY <2>1, <3>1
  <2> QED
    BY <2>1, <2>3, <2>4
<1>3. Shaped(SubSeq(t, 1, Len(t) - 1))
  <2> DEFINE u == SubSeq(t, 1, Len(t) - 1)
  <2>1. Len(u) = Len(t) - 1 /\ \A n \in 1 .. Len(t) - 1 : u[n] = t[n]
    BY <1>2
  <2> HIDE DEF u
  <2>2. Shaped(u)
    BY <1>1, <2>1 DEF Shaped
  <2> QED
    BY <2>2 DEF u
<1> QED
  BY <1>2, <1>3

\* The innermost scope says how many are open.
LEMMA InnermostLen ==
    ASSUME TypeOK, PlaceInv, NEW s \in Streams
    PROVE  /\ Innermost(s) = "suite" <=> Len(scopes[s]) = 1
           /\ Innermost(s) = "spec" <=> Len(scopes[s]) = 2
           /\ Innermost(s) = "scenario" <=> Len(scopes[s]) = 3
           /\ Innermost(s) = "concept" <=> Len(scopes[s]) = 4 /\ scopes[s][4] = "concept"
           /\ Innermost(s) \in Scopes <=> scopes[s] # <<>>
           /\ Len(scopes[s]) \in 0 .. 5 /\ scopes[s] \in Seq(Scopes)
           /\ scopes[s] # <<>> => Innermost(s) = scopes[s][Len(scopes[s])]
<1> DEFINE t == scopes[s]
<1>1. t \in Seq(Scopes) /\ Shaped(t)
  BY DEF TypeOK, PlaceInv, Placed
<1>2. Len(t) \in 0 .. 5 /\ (t = <<>> <=> Len(t) = 0)
  <2>1. Len(t) \in Nat /\ (t = <<>> <=> Len(t) = 0)
    BY <1>1, EmptySeq
  <2>2. Len(t) <= 5
    BY <1>1 DEF Shaped
  <2>3. \A l \in Nat : l <= 5 => l \in 0 .. 5
    OBVIOUS
  <2> QED
    BY <2>1, <2>2, <2>3
<1>3. t # <<>> => t[Len(t)] \in Scopes
  BY <1>1, <1>2
<1> HIDE DEF t
<1>4. Innermost(s) = IF t = <<>> THEN None ELSE t[Len(t)]
  BY DEF Innermost, t
<1>5. CASE t = <<>>
  <2>1. Innermost(s) \notin Scopes /\ Len(t) = 0
    BY <1>2, <1>4, <1>5, NoneAssumption
  <2> QED
    BY <1>1, <1>2, <1>5, <2>1 DEF Scopes, t
<1>6. CASE t # <<>>
  <2>1. Len(t) \in 1 .. 5 /\ Innermost(s) = t[Len(t)]
    BY <1>2, <1>4, <1>6
  <2>2. CASE Len(t) = 1
    BY <1>1, <1>2, <1>3, <1>6, <2>1, <2>2 DEF Shaped, t
  <2>3. CASE Len(t) = 2
    BY <1>1, <1>2, <1>3, <1>6, <2>1, <2>3 DEF Shaped, t
  <2>4. CASE Len(t) = 3
    BY <1>1, <1>2, <1>3, <1>6, <2>1, <2>4 DEF Shaped, t
  <2>5. CASE Len(t) = 4
    BY <1>1, <1>2, <1>3, <1>6, <2>1, <2>5 DEF Shaped, t
  <2>6. CASE Len(t) = 5
    BY <1>1, <1>2, <1>3, <1>6, <2>1, <2>6 DEF Shaped, t
  <2> QED
    BY <2>1, <2>2, <2>3, <2>4, <2>5, <2>6
<1> QED
  BY <1>5, <1>6

\* Where Gauge opens a scope, it fits.
LEMMA OpensFits ==
    ASSUME TypeOK, PlaceInv, NEW s \in Streams, NEW scope \in Around, Opens(s, scope)
    PROVE  /\ Append(scopes[s], scope) \in Seq(Scopes) /\ Shaped(Append(scopes[s], scope))
           /\ Len(Append(scopes[s], scope)) = Len(scopes[s]) + 1
           /\ Append(scopes[s], scope)[Len(scopes[s]) + 1] = scope
           /\ \A n \in 1 .. Len(scopes[s]) : Append(scopes[s], scope)[n] = scopes[s][n]
           /\ pc[s] = "ready" /\ ~QueueDone(s) /\ Len(scopes[s]) \in 0 .. 4
           /\ scope \in {"concept", "step"} => steps[s] < MaxSteps
           /\ Len(scopes[s]) >= 3 <=> scope \in {"concept", "step"}
           /\ Len(scopes[s]) # 2
<1>1. /\ scope = "suite" => Len(scopes[s]) = 0
      /\ scope = "spec" => Len(scopes[s]) = 1
      /\ scope = "concept" => Len(scopes[s]) = 3 /\ steps[s] < MaxSteps
      /\ scope = "step" => /\ Len(scopes[s]) = 3 \/ (Len(scopes[s]) = 4 /\ scopes[s][4] = "concept")
                           /\ steps[s] < MaxSteps
  <2>1. CASE scope = "suite"
    BY <2>1, EmptySeq DEF Opens
  <2>2. CASE scope = "spec"
    BY <2>2, InnermostLen DEF Opens
  <2>3. CASE scope = "concept"
    BY <2>3, InnermostLen DEF Opens
  <2>4. CASE scope = "step"
    BY <2>4, InnermostLen DEF Opens
  <2> QED
    BY <2>1, <2>2, <2>3, <2>4 DEF Around
<1>2. scopes[s] \in Seq(Scopes) /\ Shaped(scopes[s])
  BY DEF TypeOK, PlaceInv, Placed
<1>3. /\ Append(scopes[s], scope) \in Seq(Scopes) /\ Shaped(Append(scopes[s], scope))
      /\ Len(Append(scopes[s], scope)) = Len(scopes[s]) + 1
      /\ Append(scopes[s], scope)[Len(scopes[s]) + 1] = scope
      /\ \A n \in 1 .. Len(scopes[s]) : Append(scopes[s], scope)[n] = scopes[s][n]
  BY <1>1, <1>2, ShapeOpened DEF Around, Scopes
<1>4. pc[s] = "ready" /\ ~QueueDone(s)
  BY DEF Opens, Ready
<1>5. /\ Len(scopes[s]) \in 0 .. 4 /\ Len(scopes[s]) # 2
      /\ Len(scopes[s]) >= 3 <=> scope \in {"concept", "step"}
  <2>1. CASE scope = "suite" \/ scope = "spec"
    <3>1. Len(scopes[s]) \in {0, 1} /\ scope \notin {"concept", "step"}
      BY <1>1, <2>1
    <3>2. \A l \in {0, 1} : l \in 0 .. 4 /\ l # 2 /\ ~(l >= 3)
      OBVIOUS
    <3> QED
      BY <3>1, <3>2
  <2>2. CASE scope = "concept" \/ scope = "step"
    <3>1. Len(scopes[s]) \in {3, 4} /\ scope \in {"concept", "step"}
      BY <1>1, <2>2
    <3>2. \A l \in {3, 4} : l \in 0 .. 4 /\ l # 2 /\ l >= 3
      OBVIOUS
    <3> QED
      BY <3>1, <3>2
  <2> QED
    BY <2>1, <2>2 DEF Around
<1>6. scope \in {"concept", "step"} => steps[s] < MaxSteps
  BY <1>1
<1> QED
  BY <1>3, <1>4, <1>5, <1>6

\* What Gauge closes is open; what is left keeps its shape.
LEMMA Unwound ==
    ASSUME TypeOK, PlaceInv, NEW s \in Streams, scopes[s] # <<>>
    PROVE  LET t == SubSeq(scopes[s], 1, Len(scopes[s]) - 1)
           IN  /\ t \in Seq(Scopes) /\ Shaped(t) /\ Len(t) = Len(scopes[s]) - 1
               /\ \A n \in 1 .. Len(scopes[s]) - 1 : t[n] = scopes[s][n]
<1>1. scopes[s] \in Seq(Scopes) /\ Shaped(scopes[s])
  BY DEF TypeOK, PlaceInv, Placed
<1> QED
  BY <1>1, ShapeClosed

LEMMA ClosesOpen ==
    ASSUME TypeOK, PlaceInv, NEW s \in Streams, NEW scope \in Around, Closes(s, scope)
    PROVE  /\ scopes[s] # <<>> /\ Len(scopes[s]) \in 1 .. 5
           /\ scopes[s][Len(scopes[s])] = scope /\ scope # "scenario"
           /\ pc[s] = "ready" /\ Len(scopes[s]) # 3
<1>1. Innermost(s) = scope /\ scope \in Scopes /\ pc[s] = "ready" /\ scope # "scenario"
  BY DEF Closes, Ready, Around, Scopes
<1>2. scopes[s] # <<>>
  BY <1>1, InnermostLen
<1>3. Len(scopes[s]) # 0
  BY <1>2, EmptySeq DEF TypeOK
<1> QED
  BY <1>1, <1>2, <1>3, InnermostLen

\* A callback is taken inside a scenario.
LEMMA EndingPlace ==
    ASSUME TypeOK, PlaceInv, NEW s \in Streams,
           pc[s] = "mapped" \/ (Ready(s) /\ Innermost(s) = "scenario")
    PROVE  Len(scopes[s]) = 3 /\ ~QueueDone(s) /\ scopes[s] # <<>>
<1>1. Len(scopes[s]) = 3
  BY InnermostLen DEF PlaceInv, Placed
<1>2. scopes[s] # <<>>
  <2>1. Len(<<>>) = 0
    OBVIOUS
  <2> QED
    BY <1>1, <2>1
<1> QED
  BY <1>1, <1>2 DEF PlaceInv, Placed

\* NextAttempt leaves the scenario and stays at the item or goes to the next one.
LEMMA NextEffect ==
    ASSUME TypeOK, PlaceInv, NEW s \in Streams, Len(scopes[s]) = 3, NEW rejected \in BOOLEAN,
           NextAttempt(s, rejected)
    PROVE  /\ over' = over \cup {[attempt |-> Attempt(s), stream |-> s, rejected |-> rejected]}
           /\ attempts' \in [Items -> 0 .. MaxRetry + 1]
           /\ attempts'[Item(s)] = retry[s] + 1
           /\ \A i \in Items \ {Item(s)} : attempts'[i] = attempts[i]
           /\ position' \in [Streams -> Nat] /\ retry' \in [Streams -> Retries]
           /\ position'[s] \in {position[s], position[s] + 1}
           /\ scopes' \in [Streams -> Seq(Scopes)]
           /\ Len(scopes'[s]) = 2 /\ Shaped(scopes'[s])
           /\ scopes'[s][1] = "suite" /\ scopes'[s][2] = "spec"
           /\ steps' \in [Streams -> 0 .. MaxSteps] /\ began' = [began EXCEPT ![s] = 0]
           /\ artifact' = [artifact EXCEPT ![s] = None] /\ pc' = [pc EXCEPT ![s] = "ready"]
           /\ \A t \in Streams \ {s} : /\ position'[t] = position[t] /\ retry'[t] = retry[t]
                                       /\ scopes'[t] = scopes[t] /\ pc'[t] = pc[t]
<1>1. Item(s) \in Items
  BY CurrentItem DEF PlaceInv, Placed
<1>2. MaxRetry \in Nat /\ MaxSteps \in Nat /\ retry[s] \in Retries /\ position[s] \in Nat
  BY NumberAssumption DEF TypeOK
<1>3. /\ attempts' \in [Items -> 0 .. MaxRetry + 1]
      /\ attempts'[Item(s)] = retry[s] + 1
      /\ \A i \in Items \ {Item(s)} : attempts'[i] = attempts[i]
  BY <1>1, <1>2 DEF NextAttempt, TypeOK, Retries
<1>4. /\ position' \in [Streams -> Nat] /\ retry' \in [Streams -> Retries]
      /\ position'[s] \in {position[s], position[s] + 1}
      /\ \A t \in Streams \ {s} : position'[t] = position[t] /\ retry'[t] = retry[t]
  <2>1. CASE /\ retry[s] < MaxRetry /\ retry' = [retry EXCEPT ![s] = @ + 1] /\ UNCHANGED position
    BY <1>2, <2>1 DEF TypeOK, Retries
  <2>2. CASE position' = [position EXCEPT ![s] = @ + 1] /\ retry' = [retry EXCEPT ![s] = 0]
    BY <1>2, <2>2 DEF TypeOK, Retries
  <2> QED
    BY <2>1, <2>2 DEF NextAttempt
<1>5. scopes[s] # <<>>
  BY EmptySeq
<1> DEFINE rest == SubSeq(scopes[s], 1, Len(scopes[s]) - 1)
<1>6. /\ rest \in Seq(Scopes) /\ Shaped(rest) /\ Len(rest) = 2
      /\ rest[1] = "suite" /\ rest[2] = "spec"
  <2>1. /\ rest \in Seq(Scopes) /\ Shaped(rest) /\ Len(rest) = Len(scopes[s]) - 1
    BY <1>5, Unwound
  <2> HIDE DEF rest
  <2> QED
    BY <2>1 DEF Shaped
<1>7. scopes' = [scopes EXCEPT ![s] = rest]
  BY DEF NextAttempt, Closed
<1> HIDE DEF rest
<1>8. /\ scopes' \in [Streams -> Seq(Scopes)] /\ scopes'[s] = rest
      /\ \A t \in Streams \ {s} : scopes'[t] = scopes[t]
  BY <1>6, <1>7 DEF TypeOK
<1>9. /\ steps' \in [Streams -> 0 .. MaxSteps]
      /\ \A t \in Streams \ {s} : pc'[t] = pc[t]
  BY <1>2 DEF NextAttempt, TypeOK
<1> QED
  BY <1>3, <1>4, <1>6, <1>8, <1>9 DEF NextAttempt

\* What ScenarioEnding finds and leaves.
EndStart(s) == Correlation("scenario", s)
EndKey(s) == KeyOf(Attempt(s))
EndUUID(s) ==
    IF EndKey(s) \in DOMAIN uuids THEN uuids[EndKey(s)]
    ELSE [attempt |-> Attempt(s), by |-> "ScenarioEnding"]
EndRange(s) ==
    IF EndStart(s) \in DOMAIN startEvents
    THEN Correlated(artifact[s].range, startEvents[EndStart(s)].at)
    ELSE artifact[s].range
EndOf(s) == IF EndStart(s) \in DOMAIN startEvents THEN startEvents[EndStart(s)].of ELSE None
EndInfo(s) == [range |-> EndRange(s), stream |-> s, stamped |-> artifact[s].stamped]
EndFile(s) ==
    [attempt |-> Attempt(s), range |-> EndRange(s), stream |-> s,
     history |-> HistoryID(Item(s), FALSE), final |-> FALSE, startOf |-> EndOf(s)]

LEMMA EndingEffect ==
    ASSUME NEW s \in Streams, ScenarioEnding(s)
    PROVE  /\ pc[s] = "mapped" /\ NextAttempt(s, FALSE)
           /\ UNCHANGED <<clock, faults, met, finalized>>
           /\ DOMAIN startEvents' = DOMAIN startEvents \ {EndStart(s)}
           /\ \A k \in DOMAIN startEvents' : startEvents'[k] = startEvents[k]
           /\ DOMAIN uuids' = DOMAIN uuids \cup {EndKey(s)} /\ uuids'[EndKey(s)] = EndUUID(s)
           /\ \A k \in DOMAIN uuids : k # EndKey(s) => uuids'[k] = uuids[k]
           /\ DOMAIN live' = DOMAIN live \cup {EndKey(s)} /\ live'[EndKey(s)] = EndInfo(s)
           /\ \A k \in DOMAIN live : k # EndKey(s) => live'[k] = live[k]
           /\ DOMAIN files' = DOMAIN files \cup {EndUUID(s)} /\ files'[EndUUID(s)] = EndFile(s)
           /\ \A u \in DOMAIN files : u # EndUUID(s) => files'[u] = files[u]
<1>1. EndKey(s) = AttemptKey(Item(s), retry[s])
  BY DEF EndKey, KeyOf, Attempt
<1>2. /\ pc[s] = "mapped" /\ NextAttempt(s, FALSE)
      /\ UNCHANGED <<clock, faults, met, finalized>>
      /\ startEvents' = Restrict(startEvents, DOMAIN startEvents \ {EndStart(s)})
      /\ uuids' = Assigned(uuids, [k \in {EndKey(s)} |-> EndUUID(s)])
      /\ live' = Assigned(live, [k \in {EndKey(s)} |-> EndInfo(s)])
      /\ files' = Assigned(files, [u \in {EndUUID(s)} |-> EndFile(s)])
  BY <1>1 DEF ScenarioEnding, EndStart, EndUUID, EndRange, EndOf, EndInfo, EndFile, Kept
<1>3. /\ DOMAIN startEvents' = DOMAIN startEvents \ {EndStart(s)}
      /\ \A k \in DOMAIN startEvents' : startEvents'[k] = startEvents[k]
  BY <1>2 DEF Restrict
<1>4. /\ DOMAIN uuids' = DOMAIN uuids \cup {EndKey(s)} /\ uuids'[EndKey(s)] = EndUUID(s)
      /\ \A k \in DOMAIN uuids : k # EndKey(s) => uuids'[k] = uuids[k]
  BY <1>2 DEF Assigned
<1>5. /\ DOMAIN live' = DOMAIN live \cup {EndKey(s)} /\ live'[EndKey(s)] = EndInfo(s)
      /\ \A k \in DOMAIN live : k # EndKey(s) => live'[k] = live[k]
  BY <1>2 DEF Assigned
<1>6. /\ DOMAIN files' = DOMAIN files \cup {EndUUID(s)} /\ files'[EndUUID(s)] = EndFile(s)
      /\ \A u \in DOMAIN files : u # EndUUID(s) => files'[u] = files[u]
  BY <1>2 DEF Assigned
<1> QED
  BY <1>2, <1>3, <1>4, <1>5, <1>6

LEMMA EndRangeSound ==
    ASSUME TypeOK, TimeInv, NEW s \in Streams, pc[s] = "mapped"
    PROVE  /\ EndRange(s) \in Ranges /\ EndRange(s).start <= EndRange(s).stop
           /\ artifact[s].stamped \in BOOLEAN
           /\ artifact[s].stamped => EndRange(s).stop <= clock
<1>1. /\ artifact[s] \in [range : Ranges, stamped : BOOLEAN]
      /\ artifact[s].range.start <= artifact[s].range.stop
      /\ artifact[s].stamped => artifact[s].range.stop <= clock
  BY DEF TimeInv, Mapped
<1>2. artifact[s].range \in Ranges /\ artifact[s].stamped \in BOOLEAN
  BY <1>1
<1>3. clock \in Times /\ clock \in Nat /\ Times \subseteq Nat
  BY NumberAssumption DEF TypeOK, Times
<1>4. CASE EndStart(s) \notin DOMAIN startEvents
  BY <1>1, <1>2, <1>4 DEF EndRange
<1>5. CASE EndStart(s) \in DOMAIN startEvents
  <2> DEFINE at == startEvents[EndStart(s)].at
  <2>1. startEvents[EndStart(s)] \in [at : 0 .. MaxTime, of : Attempts \cup {None}]
    BY <1>5 DEF TypeOK, IsMap
  <2>2. at \in Times /\ at <= clock
    BY <1>5, <2>1, NumberAssumption DEF TimeInv, Times
  <2>3. EndRange(s) = [start |-> at, stop |-> IF artifact[s].range.stop < at THEN clock
                                             ELSE artifact[s].range.stop]
    BY <1>5 DEF EndRange, Correlated
  <2> HIDE DEF at
  <2> DEFINE stop == artifact[s].range.stop
  <2>4. stop \in Times /\ at \in Nat /\ stop \in Nat
    BY <1>2, <1>3, <2>2 DEF Ranges
  <2>5. artifact[s].stamped => stop <= clock
    BY <1>1
  <2> HIDE DEF stop
  <2>6. EndRange(s) = [start |-> at, stop |-> IF stop < at THEN clock ELSE stop]
    BY <2>3 DEF stop
  <2>7. CASE stop < at
    BY <1>2, <1>3, <2>2, <2>6, <2>7 DEF Ranges
  <2>8. CASE ~(stop < at)
    BY <1>2, <2>2, <2>4, <2>5, <2>6, <2>8 DEF Ranges
  <2> QED
    BY <2>7, <2>8
<1> QED
  BY <1>4, <1>5

LEMMA EndUUIDSound ==
    ASSUME TypeOK, FileInv, NEW s \in Streams, ~QueueDone(s)
    PROVE  EndUUID(s) \in UUIDs /\ EndUUID(s).attempt = Attempt(s) /\ EndKey(s) \in Keys
<1>1. Attempt(s) \in Attempts /\ EndKey(s) \in Keys
  BY CurrentItem, KeyTyped DEF EndKey
<1>2. CASE EndKey(s) \in DOMAIN uuids
  <2>1. uuids[EndKey(s)] \in UUIDs /\ KeyOf(uuids[EndKey(s)].attempt) = EndKey(s)
    BY <1>2 DEF TypeOK, IsMap, FileInv
  <2>2. uuids[EndKey(s)].attempt \in Attempts
    BY <2>1 DEF UUIDs
  <2>3. uuids[EndKey(s)].attempt = Attempt(s)
    BY <1>1, <2>1, <2>2, KeyApart DEF EndKey
  <2> QED
    BY <1>1, <1>2, <2>1, <2>3 DEF EndUUID
<1>3. CASE EndKey(s) \notin DOMAIN uuids
  BY <1>1, <1>3 DEF EndUUID, UUIDs
<1> QED
  BY <1>2, <1>3

\* When every stream is done, the suite counts at least one attempt of each item, and
\* looks it up by the key of the last one.
LEMMA SuiteFacts ==
    ASSUME TypeOK, PlaceInv, FileInv, \A s \in Streams : QueueDone(s), NEW i \in Items
    PROVE  /\ LastAttempt(i) \in Attempts /\ LastAttempt(i).item = i
           /\ SuiteKey(i) = KeyOf(LastAttempt(i)) /\ SuiteKey(i) \in Keys
           /\ SuiteUUID(i) \in UUIDs /\ SuiteUUID(i).attempt = LastAttempt(i)
<1>1. PICK s \in Streams : \E n \in DOMAIN Queue[s] : Queue[s][n] = i
  BY QueueAssumption
<1>2. PICK n \in DOMAIN Queue[s] : Queue[s][n] = i
  BY <1>1
<1>3. n \in 1 .. position[s] - 1
  <2>1. Queue[s] \in Seq(Items)
    BY QueueAssumption
  <2>2. n \in 1 .. Len(Queue[s]) /\ Len(Queue[s]) \in Nat
    BY <1>2, <2>1
  <2>3. position[s] > Len(Queue[s]) /\ position[s] \in Nat
    BY DEF QueueDone, TypeOK
  <2> QED
    BY <2>2, <2>3
<1>4. attempts[i] >= 1 /\ attempts[i] \in 0 .. MaxRetry + 1 /\ MaxRetry \in Nat
  BY <1>2, <1>3, NumberAssumption DEF PlaceInv, Placed, TypeOK
<1>5. RetryIndex(attempts[i]) = attempts[i] - 1 /\ attempts[i] - 1 \in Retries
  BY <1>4 DEF RetryIndex, Retries
<1>6. LastAttempt(i) \in Attempts /\ LastAttempt(i).item = i
  BY <1>5 DEF LastAttempt, Attempts
<1>7. SuiteKey(i) = KeyOf(LastAttempt(i))
  BY <1>5 DEF SuiteKey, KeyOf, LastAttempt
<1>8. SuiteKey(i) \in Keys
  BY <1>6, <1>7, KeyTyped
<1>9. CASE SuiteKey(i) \in DOMAIN uuids
  <2>1. uuids[SuiteKey(i)] \in UUIDs /\ KeyOf(uuids[SuiteKey(i)].attempt) = SuiteKey(i)
    BY <1>9 DEF TypeOK, IsMap, FileInv
  <2>2. uuids[SuiteKey(i)].attempt \in Attempts
    BY <2>1 DEF UUIDs
  <2>3. uuids[SuiteKey(i)].attempt = LastAttempt(i)
    BY <1>6, <1>7, <2>1, <2>2, KeyApart
  <2> QED
    BY <1>6, <1>7, <1>8, <1>9, <2>1, <2>3 DEF SuiteUUID
<1>10. CASE SuiteKey(i) \notin DOMAIN uuids
  BY <1>6, <1>7, <1>8, <1>10 DEF SuiteUUID, UUIDs
<1> QED
  BY <1>9, <1>10

\* No two items share a key or a UUID, so Finalize writes a result for each.
LEMMA FinalizeEffect ==
    ASSUME TypeOK, PlaceInv, FileInv, Finalize
    PROVE  /\ \A s \in Streams : QueueDone(s)
           /\ DOMAIN files' = DOMAIN files \cup {SuiteUUID(i) : i \in Items}
           /\ \A i \in Items : files'[SuiteUUID(i)] = SuiteResult(i)
           /\ \A u \in DOMAIN files : (\A i \in Items : u # SuiteUUID(i)) => files'[u] = files[u]
           /\ DOMAIN uuids' = DOMAIN uuids \cup {SuiteKey(i) : i \in Items}
           /\ \A i \in Items : uuids'[SuiteKey(i)] = SuiteUUID(i)
           /\ \A k \in DOMAIN uuids : (\A i \in Items : k # SuiteKey(i)) => uuids'[k] = uuids[k]
           /\ finalized' = TRUE
           /\ UNCHANGED <<clock, faults, met, startEvents, live, streamVars, attempts, over>>
<1>1. \A s \in Streams : QueueDone(s)
  BY DEF Finalize
<1>2. ASSUME NEW i \in Items, NEW j \in Items, SuiteUUID(i) = SuiteUUID(j) \/ SuiteKey(i) = SuiteKey(j)
      PROVE  i = j
  <2>1. /\ LastAttempt(i) \in Attempts /\ LastAttempt(i).item = i
        /\ SuiteKey(i) = KeyOf(LastAttempt(i)) /\ SuiteUUID(i).attempt = LastAttempt(i)
    BY <1>1, SuiteFacts
  <2>2. /\ LastAttempt(j) \in Attempts /\ LastAttempt(j).item = j
        /\ SuiteKey(j) = KeyOf(LastAttempt(j)) /\ SuiteUUID(j).attempt = LastAttempt(j)
    BY <1>1, SuiteFacts
  <2>3. LastAttempt(i) = LastAttempt(j)
    BY <1>2, <2>1, <2>2, KeyApart
  <2> QED
    BY <2>1, <2>2, <2>3
<1> DEFINE final == [u \in {SuiteUUID(i) : i \in Items} |->
                        SuiteResult(CHOOSE i \in Items : SuiteUUID(i) = u)]
           drawn == [k \in {SuiteKey(i) : i \in Items} |->
                        SuiteUUID(CHOOSE i \in Items : SuiteKey(i) = k)]
<1>3. files' = Assigned(files, final) /\ uuids' = Assigned(uuids, drawn)
  BY DEF Finalize
<1>4. /\ DOMAIN final = {SuiteUUID(i) : i \in Items}
      /\ \A i \in Items : final[SuiteUUID(i)] = SuiteResult(i)
  <2>1. ASSUME NEW i \in Items
        PROVE  (CHOOSE j \in Items : SuiteUUID(j) = SuiteUUID(i)) = i
    BY <1>2
  <2> QED
    BY <2>1
<1>5. /\ DOMAIN drawn = {SuiteKey(i) : i \in Items}
      /\ \A i \in Items : drawn[SuiteKey(i)] = SuiteUUID(i)
  <2>1. ASSUME NEW i \in Items
        PROVE  (CHOOSE j \in Items : SuiteKey(j) = SuiteKey(i)) = i
    BY <1>2
  <2> QED
    BY <2>1
<1> HIDE DEF final, drawn
<1>6. /\ DOMAIN files' = DOMAIN files \cup {SuiteUUID(i) : i \in Items}
      /\ \A i \in Items : files'[SuiteUUID(i)] = SuiteResult(i)
      /\ \A u \in DOMAIN files : (\A i \in Items : u # SuiteUUID(i)) => files'[u] = files[u]
  <2>1. /\ DOMAIN files' = DOMAIN files \cup DOMAIN final
        /\ \A k \in DOMAIN final : files'[k] = final[k]
        /\ \A k \in DOMAIN files \ DOMAIN final : files'[k] = files[k]
    BY <1>3 DEF Assigned
  <2> QED
    BY <1>4, <2>1
<1>7. /\ DOMAIN uuids' = DOMAIN uuids \cup {SuiteKey(i) : i \in Items}
      /\ \A i \in Items : uuids'[SuiteKey(i)] = SuiteUUID(i)
      /\ \A k \in DOMAIN uuids : (\A i \in Items : k # SuiteKey(i)) => uuids'[k] = uuids[k]
  <2>1. /\ DOMAIN uuids' = DOMAIN uuids \cup DOMAIN drawn
        /\ \A k \in DOMAIN drawn : uuids'[k] = drawn[k]
        /\ \A k \in DOMAIN uuids \ DOMAIN drawn : uuids'[k] = uuids[k]
    BY <1>3 DEF Assigned
  <2> QED
    BY <1>5, <2>1
<1> QED
  BY <1>1, <1>6, <1>7 DEF Finalize

-----------------------------------------------------------------------------
(* Types.                                                                  *)

Events == [at : 0 .. MaxTime, of : Attempts \cup {None}]

LEMMA StartTyped ==
    ASSUME TypeOK, NEW s \in Streams, NEW scope \in Scopes, ~QueueDone(s),
           RecordedOrLost(RecordStart(s, scope))
    PROVE  met' \in 0 .. MaxFaults /\ IsMap(startEvents', Correlations, Events)
<1>1. IsMap(startEvents, Correlations, Events) /\ met \in 0 .. MaxFaults /\ MaxFaults \in Nat
  BY NumberAssumption DEF TypeOK, Events
<1>2. CASE RecordStart(s, scope) /\ UNCHANGED met
  <2> DEFINE event == [at |-> clock, of |-> Within(s, scope)]
  <2>1. event \in Events
    BY CurrentItem DEF Events, Within, TypeOK
  <2>2. Correlation(scope, s) \in Correlations
    BY CorrelationTyped
  <2>3. startEvents' = Assigned(startEvents, [k \in {Correlation(scope, s)} |-> event])
    BY <1>2 DEF RecordStart
  <2> HIDE DEF event
  <2> QED
    BY <1>1, <1>2, <2>1, <2>2, <2>3 DEF Assigned, IsMap
<1>3. CASE Meets("lost") /\ UNCHANGED startEvents
  BY <1>1, <1>3 DEF Meets
<1> QED
  BY <1>2, <1>3 DEF RecordedOrLost

LEMMA EndTyped ==
    ASSUME TypeOK, NEW s \in Streams, NEW scope \in Scopes, RecordedOrLost(RecordEnd(s, scope))
    PROVE  met' \in 0 .. MaxFaults /\ IsMap(startEvents', Correlations, Events)
<1>1. IsMap(startEvents, Correlations, Events) /\ met \in 0 .. MaxFaults /\ MaxFaults \in Nat
  BY NumberAssumption DEF TypeOK, Events
<1>2. CASE RecordEnd(s, scope) /\ UNCHANGED met
  <2>1. startEvents' = Restrict(startEvents, DOMAIN startEvents \ {Correlation(scope, s)})
    BY <1>2 DEF RecordEnd
  <2>2. IsMap(Restrict(startEvents, DOMAIN startEvents \ {Correlation(scope, s)}),
              Correlations, Events)
    BY <1>1, RestrictMap
  <2> QED
    BY <1>1, <1>2, <2>1, <2>2
<1>3. CASE Meets("lost") /\ UNCHANGED startEvents
  BY <1>1, <1>3 DEF Meets
<1> QED
  BY <1>2, <1>3 DEF RecordedOrLost

LEMMA EndingTyped ==
    ASSUME TypeOK, PlaceInv, TimeInv, FileInv, NEW s \in Streams, ScenarioEnding(s)
    PROVE  /\ IsMap(startEvents', Correlations, Events)
           /\ IsMap(live', Keys, [range : Ranges, stream : Streams, stamped : BOOLEAN])
           /\ IsMap(uuids', Keys, UUIDs)
           /\ IsMap(files', UUIDs, Results)
<1>1. pc[s] = "mapped" /\ ~QueueDone(s)
  BY EndingEffect, EndingPlace
<1>2. EndRange(s) \in Ranges /\ artifact[s].stamped \in BOOLEAN
  BY <1>1, EndRangeSound
<1>3. EndUUID(s) \in UUIDs /\ EndKey(s) \in Keys
  BY <1>1, EndUUIDSound
<1>4. IsMap(startEvents', Correlations, Events)
  BY EndingEffect DEF TypeOK, IsMap, Events
<1>5. EndInfo(s) \in [range : Ranges, stream : Streams, stamped : BOOLEAN]
  BY <1>2 DEF EndInfo
<1>6. EndFile(s) \in Results
  <2>1. Item(s) \in Items /\ Attempt(s) \in Attempts
    BY <1>1, CurrentItem
  <2>2. HistoryID(Item(s), FALSE) \in Histories
    BY <2>1, HistoryTyped
  <2>3. EndOf(s) \in Attempts \cup {None}
    BY DEF EndOf, TypeOK, IsMap
  <2> QED
    BY <1>2, <2>1, <2>2, <2>3 DEF EndFile, Results
<1>7. IsMap(live', Keys, [range : Ranges, stream : Streams, stamped : BOOLEAN])
  <2>1. DOMAIN live \subseteq Keys /\ \A k \in DOMAIN live : live[k] \in [range : Ranges, stream : Streams, stamped : BOOLEAN]
    BY DEF TypeOK, IsMap
  <2>2. /\ DOMAIN live' = DOMAIN live \cup {EndKey(s)} /\ live'[EndKey(s)] = EndInfo(s)
        /\ \A k \in DOMAIN live : k # EndKey(s) => live'[k] = live[k]
    BY EndingEffect
  <2>3. DOMAIN live' \subseteq Keys
    BY <1>3, <2>1, <2>2
  <2>4. ASSUME NEW k \in DOMAIN live'
        PROVE  live'[k] \in [range : Ranges, stream : Streams, stamped : BOOLEAN]
    BY <1>3, <1>5, <2>1, <2>2
  <2> QED
    BY <2>3, <2>4 DEF IsMap
<1>8. IsMap(uuids', Keys, UUIDs)
  <2>1. DOMAIN uuids \subseteq Keys /\ \A k \in DOMAIN uuids : uuids[k] \in UUIDs
    BY DEF TypeOK, IsMap
  <2>2. /\ DOMAIN uuids' = DOMAIN uuids \cup {EndKey(s)} /\ uuids'[EndKey(s)] = EndUUID(s)
        /\ \A k \in DOMAIN uuids : k # EndKey(s) => uuids'[k] = uuids[k]
    BY EndingEffect
  <2>3. DOMAIN uuids' \subseteq Keys
    BY <1>3, <2>1, <2>2
  <2>4. ASSUME NEW k \in DOMAIN uuids'
        PROVE  uuids'[k] \in UUIDs
    BY <1>3, <2>1, <2>2
  <2> QED
    BY <2>3, <2>4 DEF IsMap
<1>9. IsMap(files', UUIDs, Results)
  <2>1. DOMAIN files \subseteq UUIDs /\ \A k \in DOMAIN files : files[k] \in Results
    BY DEF TypeOK, IsMap
  <2>2. /\ DOMAIN files' = DOMAIN files \cup {EndUUID(s)} /\ files'[EndUUID(s)] = EndFile(s)
        /\ \A k \in DOMAIN files : k # EndUUID(s) => files'[k] = files[k]
    BY EndingEffect
  <2>3. DOMAIN files' \subseteq UUIDs
    BY <1>3, <2>1, <2>2
  <2>4. ASSUME NEW k \in DOMAIN files'
        PROVE  files'[k] \in Results
    BY <1>3, <1>6, <2>1, <2>2
  <2> QED
    BY <2>3, <2>4 DEF IsMap
<1> QED
  BY <1>4, <1>7, <1>8, <1>9

LEMMA FinalizeTyped ==
    ASSUME TypeOK, PlaceInv, FileInv, Finalize
    PROVE  IsMap(uuids', Keys, UUIDs) /\ IsMap(files', UUIDs, Results)
<1>1. \A i \in Items : SuiteUUID(i) \in UUIDs /\ SuiteKey(i) \in Keys
  BY FinalizeEffect, SuiteFacts
<1>2. ASSUME NEW i \in Items
      PROVE  SuiteResult(i) \in Results
  <2>1. LastAttempt(i) \in Attempts
    BY FinalizeEffect, SuiteFacts
  <2>2. HistoryID(i, TRUE) \in Histories
    BY HistoryTyped
  <2>3. SuiteKey(i) \in DOMAIN live =>
           live[SuiteKey(i)] \in [range : Ranges, stream : Streams, stamped : BOOLEAN]
    BY DEF TypeOK, IsMap
  <2> QED
    BY <2>1, <2>2, <2>3 DEF SuiteResult, Results
<1>3. IsMap(uuids', Keys, UUIDs)
  <2>1. IsMap(uuids, Keys, UUIDs)
    BY DEF TypeOK
  <2>2. DOMAIN uuids' \subseteq Keys
    BY <1>1, <2>1, FinalizeEffect DEF IsMap
  <2>3. ASSUME NEW k \in DOMAIN uuids'
        PROVE  uuids'[k] \in UUIDs
    <3>1. CASE \E i \in Items : k = SuiteKey(i)
      BY <1>1, <3>1, FinalizeEffect
    <3>2. CASE \A i \in Items : k # SuiteKey(i)
      BY <2>1, <3>2, FinalizeEffect DEF IsMap
    <3> QED
      BY <3>1, <3>2
  <2> QED
    BY <2>2, <2>3 DEF IsMap
<1>4. IsMap(files', UUIDs, Results)
  <2>1. IsMap(files, UUIDs, Results)
    BY DEF TypeOK
  <2>2. DOMAIN files' \subseteq UUIDs
    BY <1>1, <2>1, FinalizeEffect DEF IsMap
  <2>3. ASSUME NEW u \in DOMAIN files'
        PROVE  files'[u] \in Results
    <3>1. CASE \E i \in Items : u = SuiteUUID(i)
      BY <1>1, <1>2, <3>1, FinalizeEffect
    <3>2. CASE \A i \in Items : u # SuiteUUID(i)
      BY <2>1, <3>2, FinalizeEffect DEF IsMap
    <3> QED
      BY <3>1, <3>2
  <2> QED
    BY <2>2, <2>3 DEF IsMap
<1> QED
  BY <1>3, <1>4

LEMMA InitHolds == ASSUME Init PROVE LifecycleInv
<1>1. DOMAIN <<>> = {}
  OBVIOUS
<1>2. MaxRetry \in Nat /\ MaxFaults \in Nat /\ MaxSteps \in Nat /\ MaxTime \in Nat
  BY NumberAssumption
<1>3. TypeOK
  <2>1. \A s \in Streams : 1 \in 1 .. Len(Queue[s]) + 1
    <3>1. \A s \in Streams : Len(Queue[s]) \in Nat
      BY QueueAssumption
    <3> QED
      BY <3>1
  <2>2. <<>> \in Seq(Scopes)
    BY EmptySeq
  <2>3. /\ IsMap(startEvents, Correlations, Events)
        /\ IsMap(live, Keys, [range : Ranges, stream : Streams, stamped : BOOLEAN])
        /\ IsMap(uuids, Keys, UUIDs) /\ IsMap(files, UUIDs, Results)
    BY <1>1 DEF Init, IsMap
  <2>4. /\ clock \in 0 .. MaxTime /\ faults \in FaultModes /\ met \in 0 .. MaxFaults
        /\ finalized \in BOOLEAN
    <3>1. clock = 0 /\ faults \in FaultModes /\ met = 0
      BY Zenon DEF Init
    <3>2. finalized \in BOOLEAN
      BY Zenon DEF Init
    <3> QED
      BY <1>2, <3>1, <3>2
  <2>5. /\ position \in [Streams -> Nat]
        /\ \A s \in Streams : position[s] = 1
    BY DEF Init
  <2>6. /\ retry \in [Streams -> Retries] /\ scopes \in [Streams -> Seq(Scopes)]
        /\ steps \in [Streams -> 0 .. MaxSteps] /\ began \in [Streams -> 0 .. MaxTime]
    BY <1>2, <2>2 DEF Init, Retries
  <2>7. /\ pc \in [Streams -> {"ready", "begun", "mapped"}]
        /\ artifact \in [Streams -> [range : Ranges, stamped : BOOLEAN] \cup {None}]
        /\ attempts \in [Items -> 0 .. MaxRetry + 1]
        /\ over \subseteq [attempt : Attempts, stream : Streams, rejected : BOOLEAN]
    BY <1>2 DEF Init
  <2> QED
    BY <2>1, <2>3, <2>4, <2>5, <2>6, <2>7 DEF TypeOK, Events
<1>4. PlaceInv
  <2>1. Len(<<>>) = 0
    OBVIOUS
  <2>2. Shaped(<<>>)
    BY <2>1 DEF Shaped
  <2> QED
    BY <2>1, <2>2 DEF Init, PlaceInv, Placed
<1>5. TimeInv
  BY <1>1 DEF Init, TimeInv, LiveRangeSound
<1>6. StartInv
  BY <1>1 DEF Init, StartInv, FoundOwn, OwnStart, NoneLeft, StartsInUse
<1>7. FileInv /\ OverInv
  BY <1>1 DEF Init, FileInv, OverInv
<1> QED
  BY <1>3, <1>4, <1>5, <1>6, <1>7 DEF LifecycleInv

LEMMA AroundScopes == Around \subseteq Scopes
  BY DEF Around, Scopes

LEMMA NumbersTyped ==
    MaxRetry \in Nat /\ MaxFaults \in Nat /\ MaxSteps \in Nat /\ MaxTime \in Nat
  BY NumberAssumption

\* MapLiveScenario returns a range that is not inverted and over, or without a timestamp.
LEMMA MappedSound ==
    ASSUME TypeOK, TimeInv, NEW s \in Streams, MapLiveScenario(s)
    PROVE  /\ Mapped(artifact'[s])
           /\ \A t \in Streams \ {s} : artifact'[t] = artifact[t]
           /\ artifact' \in [Streams -> [range : Ranges, stamped : BOOLEAN] \cup {None}]
<1>1. PICK start \in {began[s], clock}, duration \in {0, clock - began[s]} :
         artifact' = [artifact EXCEPT ![s] =
             [range |-> Resolve(start, duration), stamped |-> start = began[s]]]
  BY DEF MapLiveScenario
<1>2. began[s] \in Nat /\ clock \in Nat /\ began[s] <= clock /\ clock <= MaxTime /\ MaxTime \in Nat
  BY NumbersTyped DEF TypeOK, TimeInv
<1>3. /\ start \in Times /\ start + duration \in Times /\ start <= start + duration
      /\ start = began[s] => start + duration <= clock
  BY <1>1, <1>2 DEF Times
<1> DEFINE a == [range |-> Resolve(start, duration), stamped |-> start = began[s]]
<1>4. /\ a \in [range : Ranges, stamped : BOOLEAN] /\ a.range.start <= a.range.stop
      /\ a.stamped => a.range.stop <= clock
  BY <1>3 DEF Resolve, Ranges
<1>5. artifact' = [artifact EXCEPT ![s] = a]
  BY <1>1
<1> HIDE DEF a
<1>6. /\ artifact'[s] = a /\ \A t \in Streams \ {s} : artifact'[t] = artifact[t]
      /\ artifact' \in [Streams -> [range : Ranges, stamped : BOOLEAN] \cup {None}]
  BY <1>4, <1>5 DEF TypeOK
<1> QED
  BY <1>4, <1>6 DEF Mapped

LEMMA TypeStep == ASSUME LifecycleInv, [Next]_vars PROVE TypeOK'
<1> USE DEF LifecycleInv
<1>1. ASSUME NEW s \in Streams, NEW scope \in Around, Starting(s, scope)
      PROVE  TypeOK'
  <2>1. /\ Append(scopes[s], scope) \in Seq(Scopes) /\ ~QueueDone(s)
        /\ scope \in {"concept", "step"} => steps[s] < MaxSteps
    BY <1>1, OpensFits DEF Starting
  <2>2. met' \in 0 .. MaxFaults /\ IsMap(startEvents', Correlations, Events)
    BY <1>1, <2>1, StartTyped, AroundScopes DEF Starting
  <2>3. scopes' \in [Streams -> Seq(Scopes)]
    BY <1>1, <2>1 DEF Starting, Opened, TypeOK
  <2>4. steps' \in [Streams -> 0 .. MaxSteps]
    BY <1>1, <2>1, NumbersTyped DEF Starting, TypeOK
  <2> QED
    BY <1>1, <2>2, <2>3, <2>4 DEF Starting, TypeOK, Events
<1>2. ASSUME NEW s \in Streams, NEW scope \in Around, Ending(s, scope)
      PROVE  TypeOK'
  <2>1. scopes[s] # <<>>
    BY <1>2, ClosesOpen DEF Ending
  <2>2. SubSeq(scopes[s], 1, Len(scopes[s]) - 1) \in Seq(Scopes)
    BY <2>1, Unwound
  <2>3. met' \in 0 .. MaxFaults /\ IsMap(startEvents', Correlations, Events)
    BY <1>2, EndTyped, AroundScopes DEF Ending
  <2>4. scopes' \in [Streams -> Seq(Scopes)]
    BY <1>2, <2>2 DEF Ending, Closed, TypeOK
  <2> QED
    BY <1>2, <2>3, <2>4 DEF Ending, TypeOK, Events
<1>3. ASSUME NEW s \in Streams, BeginScenario(s)
      PROVE  TypeOK'
  <2>1. scopes' \in [Streams -> Seq(Scopes)]
    <3>1. scopes[s] \in Seq(Scopes) /\ "scenario" \in Scopes
      BY DEF TypeOK, Scopes
    <3>2. Append(scopes[s], "scenario") \in Seq(Scopes)
      BY <3>1
    <3> QED
      BY <1>3, <3>2 DEF BeginScenario, Opened, TypeOK
  <2>2. /\ began' \in [Streams -> 0 .. MaxTime]
        /\ pc' \in [Streams -> {"ready", "begun", "mapped"}]
    BY <1>3 DEF BeginScenario, TypeOK
  <2> QED
    BY <1>3, <2>1, <2>2 DEF BeginScenario, TypeOK, engineVars
<1>4. ASSUME NEW s \in Streams, ScenarioStarting(s)
      PROVE  TypeOK'
  <2>1. ~QueueDone(s)
    BY <1>4 DEF ScenarioStarting, PlaceInv, Placed
  <2>2. met' \in 0 .. MaxFaults /\ IsMap(startEvents', Correlations, Events)
    BY <1>4, <2>1, StartTyped DEF ScenarioStarting, Scopes
  <2>3. pc' \in [Streams -> {"ready", "begun", "mapped"}]
    BY <1>4 DEF ScenarioStarting, TypeOK
  <2> QED
    BY <1>4, <2>2, <2>3 DEF ScenarioStarting, TypeOK, Events
<1>5. ASSUME NEW s \in Streams, MapLiveScenario(s)
      PROVE  TypeOK'
  <2>1. pc' \in [Streams -> {"ready", "begun", "mapped"}]
    BY <1>5 DEF MapLiveScenario, TypeOK
  <2> QED
    BY <1>5, <2>1, MappedSound DEF MapLiveScenario, TypeOK, engineVars
<1>6. ASSUME NEW s \in Streams, NEW rejected \in BOOLEAN, Len(scopes[s]) = 3, ~QueueDone(s),
             NextAttempt(s, rejected)
      PROVE  /\ position' \in [Streams -> Nat]
             /\ \A t \in Streams : position'[t] \in 1 .. Len(Queue[t]) + 1
             /\ retry' \in [Streams -> Retries] /\ scopes' \in [Streams -> Seq(Scopes)]
             /\ steps' \in [Streams -> 0 .. MaxSteps] /\ began' \in [Streams -> 0 .. MaxTime]
             /\ pc' \in [Streams -> {"ready", "begun", "mapped"}]
             /\ artifact' \in [Streams -> [range : Ranges, stamped : BOOLEAN] \cup {None}]
             /\ attempts' \in [Items -> 0 .. MaxRetry + 1]
             /\ over' \subseteq [attempt : Attempts, stream : Streams, rejected : BOOLEAN]
  <2>1. \A t \in Streams : position'[t] \in 1 .. Len(Queue[t]) + 1
    <3>1. \A t \in Streams : position[t] \in 1 .. Len(Queue[t]) + 1 /\ Len(Queue[t]) \in Nat
      BY QueueAssumption DEF TypeOK
    <3>2. position'[s] \in 1 .. Len(Queue[s]) + 1
      <4>1. position'[s] \in {position[s], position[s] + 1}
        BY <1>6, NextEffect
      <4>2. ~(position[s] > Len(Queue[s]))
        BY <1>6 DEF QueueDone
      <4> QED
        BY <3>1, <4>1, <4>2
    <3>3. \A t \in Streams \ {s} : position'[t] = position[t]
      BY <1>6, NextEffect
    <3> QED
      BY <3>1, <3>2, <3>3
  <2>2. /\ began' \in [Streams -> 0 .. MaxTime]
        /\ pc' \in [Streams -> {"ready", "begun", "mapped"}]
        /\ artifact' \in [Streams -> [range : Ranges, stamped : BOOLEAN] \cup {None}]
    <3>1. /\ began' = [began EXCEPT ![s] = 0] /\ pc' = [pc EXCEPT ![s] = "ready"]
          /\ artifact' = [artifact EXCEPT ![s] = None]
      BY <1>6 DEF NextAttempt
    <3> QED
      BY <3>1, NumbersTyped DEF TypeOK
  <2>3. over' \subseteq [attempt : Attempts, stream : Streams, rejected : BOOLEAN]
    <3>1. over' = over \cup {[attempt |-> Attempt(s), stream |-> s, rejected |-> rejected]}
      BY <1>6, NextEffect
    <3>2. over \subseteq [attempt : Attempts, stream : Streams, rejected : BOOLEAN]
      BY DEF TypeOK
    <3> QED
      BY <1>6, <3>1, <3>2, CurrentItem
  <2> QED
    BY <1>6, <2>1, <2>2, <2>3, NextEffect
<1>7. ASSUME NEW s \in Streams, ScenarioRejected(s)
      PROVE  TypeOK'
  <2>1. Len(scopes[s]) = 3 /\ ~QueueDone(s)
    BY <1>7, EndingPlace DEF ScenarioRejected
  <2>2. NextAttempt(s, TRUE)
    BY <1>7 DEF ScenarioRejected
  <2>3. met' \in 0 .. MaxFaults
    BY <1>7, NumbersTyped DEF ScenarioRejected, Meets, TypeOK
  <2>4. UNCHANGED <<clock, faults, engineVars>>
    BY <1>7 DEF ScenarioRejected
  <2> QED
    BY <1>6, <2>1, <2>2, <2>3, <2>4 DEF TypeOK, engineVars
<1>8. ASSUME NEW s \in Streams, ScenarioEnding(s)
      PROVE  TypeOK'
  <2>1. /\ pc[s] = "mapped" /\ NextAttempt(s, FALSE)
        /\ UNCHANGED <<clock, faults, met, finalized>>
    BY <1>8, EndingEffect
  <2>2. Len(scopes[s]) = 3 /\ ~QueueDone(s)
    BY <2>1, EndingPlace
  <2>3. /\ IsMap(startEvents', Correlations, Events)
        /\ IsMap(live', Keys, [range : Ranges, stream : Streams, stamped : BOOLEAN])
        /\ IsMap(uuids', Keys, UUIDs)
        /\ IsMap(files', UUIDs, Results)
    BY <1>8, EndingTyped
  <2> QED
    BY <1>6, <2>1, <2>2, <2>3 DEF TypeOK, Events
<1>9. CASE Finalize
  BY <1>9, FinalizeEffect, FinalizeTyped DEF TypeOK, streamVars
<1>10. CASE Tick
  BY <1>10, NumbersTyped DEF Tick, TypeOK, engineVars, streamVars
<1>11. CASE UNCHANGED vars
  BY <1>11 DEF vars, TypeOK, engineVars, streamVars
<1> QED
  BY <1>1, <1>2, <1>3, <1>4, <1>5, <1>7, <1>8, <1>9, <1>10, <1>11, NextCases

-----------------------------------------------------------------------------
(* Places and times.                                                       *)

LEMMA PlaceKept ==
    ASSUME NEW t \in Streams, Placed(t), scopes'[t] = scopes[t], pc'[t] = pc[t],
           position'[t] = position[t],
           \A n \in 1 .. position[t] - 1 : attempts'[Queue[t][n]] >= 1
    PROVE  Placed(t)'
  BY DEF Placed, QueueDone

LEMMA PlaceStep == ASSUME LifecycleInv, [Next]_vars PROVE PlaceInv'
<1> USE DEF LifecycleInv
<1>1. ASSUME NEW s \in Streams, NEW scope \in Around, Starting(s, scope)
      PROVE  PlaceInv'
  <2>1. /\ Append(scopes[s], scope) \in Seq(Scopes) /\ Shaped(Append(scopes[s], scope))
        /\ pc[s] = "ready" /\ ~QueueDone(s)
    BY <1>1, OpensFits DEF Starting
  <2>2. /\ scopes'[s] = Append(scopes[s], scope)
        /\ \A t \in Streams \ {s} : scopes'[t] = scopes[t]
        /\ UNCHANGED <<pc, position, attempts>>
    BY <1>1 DEF Starting, Opened, TypeOK
  <2>3. Placed(s)'
    BY <2>1, <2>2 DEF PlaceInv, Placed, QueueDone
  <2>4. ASSUME NEW t \in Streams \ {s}
        PROVE  Placed(t)'
    BY <2>2, PlaceKept DEF PlaceInv, Placed
  <2> QED
    BY <2>3, <2>4 DEF PlaceInv
<1>2. ASSUME NEW s \in Streams, NEW scope \in Around, Ending(s, scope)
      PROVE  PlaceInv'
  <2>1. /\ scopes[s] # <<>> /\ pc[s] = "ready" /\ Len(scopes[s]) \in Nat
    BY <1>2, ClosesOpen DEF Ending
  <2> DEFINE rest == SubSeq(scopes[s], 1, Len(scopes[s]) - 1)
  <2>2. Shaped(rest) /\ Len(rest) = Len(scopes[s]) - 1
    BY <2>1, Unwound
  <2>3. /\ scopes'[s] = rest
        /\ \A t \in Streams \ {s} : scopes'[t] = scopes[t]
        /\ UNCHANGED <<pc, position, attempts>>
    BY <1>2 DEF Ending, Closed, TypeOK
  <2> HIDE DEF rest
  <2>4. Placed(s)'
    <3>1. Len(rest) >= 3 => Len(scopes[s]) >= 3
      BY <2>1, <2>2
    <3> QED
      BY <2>1, <2>2, <2>3, <3>1 DEF PlaceInv, Placed, QueueDone
  <2>5. ASSUME NEW t \in Streams \ {s}
        PROVE  Placed(t)'
    BY <2>3, PlaceKept DEF PlaceInv, Placed
  <2> QED
    BY <2>4, <2>5 DEF PlaceInv
<1>3. ASSUME NEW s \in Streams, BeginScenario(s)
      PROVE  PlaceInv'
  <2>1. Len(scopes[s]) = 2 /\ ~QueueDone(s)
    BY <1>3, InnermostLen DEF BeginScenario
  <2>2. scopes[s] \in Seq(Scopes) /\ Shaped(scopes[s]) /\ "scenario" \in Scopes
    BY DEF TypeOK, PlaceInv, Placed, Scopes
  <2>3. Shaped(Append(scopes[s], "scenario")) /\ Len(Append(scopes[s], "scenario")) = 3
    <3>1. \A scope \in Scopes : scope = "scenario" =>
             /\ Shaped(Append(scopes[s], scope))
             /\ Len(Append(scopes[s], scope)) = Len(scopes[s]) + 1
      BY <2>1, <2>2, ShapeOpened
    <3> QED
      BY <2>1, <2>2, <3>1
  <2>4. /\ scopes'[s] = Append(scopes[s], "scenario")
        /\ \A t \in Streams \ {s} : scopes'[t] = scopes[t] /\ pc'[t] = pc[t]
        /\ UNCHANGED <<position, attempts>>
    BY <1>3 DEF BeginScenario, Opened, TypeOK
  <2>5. Placed(s)'
    BY <2>1, <2>3, <2>4 DEF PlaceInv, Placed, QueueDone
  <2>6. ASSUME NEW t \in Streams \ {s}
        PROVE  Placed(t)'
    BY <2>4, PlaceKept DEF PlaceInv, Placed
  <2> QED
    BY <2>5, <2>6 DEF PlaceInv
<1>4. ASSUME NEW s \in Streams, ScenarioStarting(s) \/ MapLiveScenario(s)
      PROVE  PlaceInv'
  <2>1. Len(scopes[s]) = 3
    BY <1>4, InnermostLen DEF ScenarioStarting, MapLiveScenario, PlaceInv, Placed
  <2>2. /\ \A t \in Streams \ {s} : pc'[t] = pc[t]
        /\ UNCHANGED <<scopes, position, attempts>>
    BY <1>4 DEF ScenarioStarting, MapLiveScenario, TypeOK
  <2>3. Placed(s)'
    BY <2>1, <2>2 DEF PlaceInv, Placed, QueueDone
  <2>4. ASSUME NEW t \in Streams \ {s}
        PROVE  Placed(t)'
    BY <2>2, PlaceKept DEF PlaceInv, Placed
  <2> QED
    BY <2>3, <2>4 DEF PlaceInv
<1>5. ASSUME NEW s \in Streams, NEW rejected \in BOOLEAN, Len(scopes[s]) = 3, ~QueueDone(s),
             NextAttempt(s, rejected)
      PROVE  PlaceInv'
  <2>1. /\ attempts'[Item(s)] = retry[s] + 1
        /\ \A i \in Items \ {Item(s)} : attempts'[i] = attempts[i]
        /\ position'[s] \in {position[s], position[s] + 1}
        /\ Len(scopes'[s]) = 2 /\ Shaped(scopes'[s])
        /\ pc' = [pc EXCEPT ![s] = "ready"]
        /\ \A t \in Streams \ {s} : /\ position'[t] = position[t] /\ scopes'[t] = scopes[t]
                                    /\ pc'[t] = pc[t]
    BY <1>5, NextEffect
  <2>2. retry[s] \in Nat
    BY NumbersTyped DEF TypeOK, Retries
  <2>3. ASSUME NEW t \in Streams, NEW n \in 1 .. position[t] - 1
        PROVE  attempts'[Queue[t][n]] >= 1
    <3>1. n \in 1 .. Len(Queue[t])
      <4>1. position[t] \in 1 .. Len(Queue[t]) + 1 /\ Len(Queue[t]) \in Nat
        BY QueueAssumption DEF TypeOK
      <4> QED
        BY <4>1
    <3>2. Queue[t][n] \in Items
      BY <3>1, QueueAssumption
    <3>3. attempts[Queue[t][n]] >= 1
      BY DEF PlaceInv, Placed
    <3> QED
      BY <2>1, <2>2, <3>2, <3>3
  <2>4. Placed(s)'
    <3>1. \A n \in 1 .. position'[s] - 1 : attempts'[Queue[s][n]] >= 1
      <4>1. position[s] \in Nat
        BY DEF TypeOK
      <4>2. attempts'[Queue[s][position[s]]] >= 1
        BY <2>1, <2>2 DEF Item
      <4> QED
        BY <2>1, <2>3, <4>1, <4>2
    <3>2. pc'[s] = "ready"
      BY <2>1 DEF TypeOK
    <3> QED
      BY <2>1, <3>1, <3>2 DEF Placed
  <2>5. ASSUME NEW t \in Streams \ {s}
        PROVE  Placed(t)'
    BY <2>1, <2>3, PlaceKept DEF PlaceInv
  <2> QED
    BY <2>4, <2>5 DEF PlaceInv
<1>6. ASSUME NEW s \in Streams, ScenarioRejected(s)
      PROVE  PlaceInv'
  BY <1>5, <1>6, EndingPlace DEF ScenarioRejected
<1>7. ASSUME NEW s \in Streams, ScenarioEnding(s)
      PROVE  PlaceInv'
  BY <1>5, <1>7, EndingPlace, EndingEffect
<1>8. CASE Finalize \/ Tick \/ UNCHANGED vars
  <2>1. UNCHANGED <<scopes, pc, position, attempts>>
    BY <1>8 DEF Finalize, Tick, streamVars, vars
  <2>2. ASSUME NEW t \in Streams
        PROVE  Placed(t)'
    BY <2>1, PlaceKept DEF PlaceInv, Placed
  <2> QED
    BY <2>2 DEF PlaceInv
<1> QED
  BY <1>1, <1>2, <1>3, <1>4, <1>6, <1>7, <1>8, NextCases

LEMMA TimeStep == ASSUME LifecycleInv, [Next]_vars PROVE TimeInv'
<1> USE DEF LifecycleInv
<1> DEFINE Own(s) == began[s] <= clock /\ (pc[s] = "mapped" => Mapped(artifact[s]))
           Stored == \A k \in DOMAIN startEvents : startEvents[k].at <= clock
\* Time does not go back.
<1>1. clock <= clock' /\ clock \in Nat /\ clock' \in Nat
  <2>1. clock \in Nat
    BY NumbersTyped DEF TypeOK
  <2>2. clock' = clock \/ clock' = clock + 1
    BY NextCases DEF Starting, Ending, BeginScenario, ScenarioStarting, MapLiveScenario,
       ScenarioRejected, ScenarioEnding, Finalize, Tick, vars
  <2> QED
    BY <2>1, <2>2
<1>2. ASSUME NEW t \in Streams, began'[t] = began[t], pc'[t] = "mapped" => pc[t] = "mapped",
             artifact'[t] = artifact[t]
      PROVE  Own(t)'
  <2>1. began[t] \in Nat /\ began[t] <= clock
    BY NumbersTyped DEF TypeOK, TimeInv
  <2>2. pc'[t] = "mapped" => Mapped(artifact[t])
    BY <1>2 DEF TimeInv
  <2>3. Mapped(artifact[t]) => Mapped(artifact[t])'
    <3>1. CASE artifact[t] \in [range : Ranges, stamped : BOOLEAN]
      <4>1. artifact[t].range.stop \in Nat
        BY <3>1, NumbersTyped DEF Ranges, Times
      <4> QED
        BY <1>1, <1>2, <4>1 DEF Mapped
    <3> QED
      BY <3>1 DEF Mapped
  <2> QED
    BY <1>1, <1>2, <2>1, <2>2, <2>3
<1>3. ASSUME \A k \in DOMAIN startEvents' :
                \/ k \in DOMAIN startEvents /\ startEvents'[k] = startEvents[k]
                \/ startEvents'[k].at = clock
      PROVE  Stored'
  <2>1. ASSUME NEW k \in DOMAIN startEvents
        PROVE  startEvents[k].at \in Nat /\ startEvents[k].at <= clock
    BY NumbersTyped DEF TypeOK, IsMap, TimeInv
  <2> QED
    BY <1>1, <1>3, <2>1
<1>4. ASSUME NEW s \in Streams, NEW scope, RecordedOrLost(RecordStart(s, scope))
      PROVE  Stored'
  <2>1. startEvents' = Assigned(startEvents,
           [k \in {Correlation(scope, s)} |-> [at |-> clock, of |-> Within(s, scope)]])
        \/ startEvents' = startEvents
    BY <1>4 DEF RecordedOrLost, RecordStart
  <2> QED
    BY <1>3, <2>1 DEF Assigned
<1>5. ASSUME NEW s \in Streams, NEW scope, RecordedOrLost(RecordEnd(s, scope))
      PROVE  Stored'
  <2>1. startEvents' = Restrict(startEvents, DOMAIN startEvents \ {Correlation(scope, s)})
        \/ startEvents' = startEvents
    BY <1>5 DEF RecordedOrLost, RecordEnd
  <2> QED
    BY <1>3, <2>1 DEF Restrict
<1>6. live' = live => LiveRangeSound'
  <2>1. ASSUME NEW k \in DOMAIN live
        PROVE  /\ live[k].range.start <= live[k].range.stop /\ live[k].range.stop \in Nat
               /\ live[k].stamped => live[k].range.stop <= clock
    BY NumbersTyped DEF TypeOK, IsMap, Ranges, Times, TimeInv, LiveRangeSound
  <2> QED
    BY <1>1, <2>1 DEF LiveRangeSound
<1>7. (\A s \in Streams : Own(s)') /\ Stored' /\ LiveRangeSound' => TimeInv'
  BY DEF TimeInv
<1> HIDE DEF Own, Stored
<1>8. ASSUME NEW s \in Streams, NEW scope \in Around, Starting(s, scope) \/ Ending(s, scope)
      PROVE  TimeInv'
  <2>1. UNCHANGED <<began, pc, artifact, live>>
    BY <1>8 DEF Starting, Ending
  <2>2. Stored'
    BY <1>4, <1>5, <1>8 DEF Starting, Ending
  <2> QED
    BY <1>2, <1>6, <1>7, <2>1, <2>2
<1>9. ASSUME NEW s \in Streams, BeginScenario(s)
      PROVE  TimeInv'
  <2>1. /\ UNCHANGED <<startEvents, live, artifact, clock>> /\ began'[s] = clock /\ pc'[s] = "begun"
        /\ \A t \in Streams \ {s} : began'[t] = began[t] /\ pc'[t] = pc[t]
    BY <1>9 DEF BeginScenario, engineVars, TypeOK
  <2>2. Own(s)'
    BY <1>1, <2>1 DEF Own
  <2> QED
    BY <1>2, <1>3, <1>6, <1>7, <2>1, <2>2
<1>10. ASSUME NEW s \in Streams, ScenarioStarting(s)
       PROVE  TimeInv'
  <2>1. /\ UNCHANGED <<began, artifact, live>> /\ pc'[s] = "ready"
        /\ \A t \in Streams \ {s} : pc'[t] = pc[t]
    BY <1>10 DEF ScenarioStarting, TypeOK
  <2>2. Stored'
    BY <1>4, <1>10 DEF ScenarioStarting
  <2> QED
    BY <1>2, <1>6, <1>7, <2>1, <2>2
<1>11. ASSUME NEW s \in Streams, MapLiveScenario(s)
       PROVE  TimeInv'
  <2>1. /\ UNCHANGED <<began, clock, startEvents, live>>
        /\ \A t \in Streams \ {s} : pc'[t] = pc[t]
    BY <1>11 DEF MapLiveScenario, engineVars, TypeOK
  <2>2. Mapped(artifact'[s]) /\ \A t \in Streams \ {s} : artifact'[t] = artifact[t]
    BY <1>11, MappedSound
  <2>3. Own(s)'
    BY <2>1, <2>2 DEF Own, Mapped, TimeInv
  <2> QED
    BY <1>2, <1>3, <1>6, <1>7, <2>1, <2>2, <2>3
<1>12. ASSUME NEW s \in Streams, NEW rejected \in BOOLEAN, Len(scopes[s]) = 3,
              NextAttempt(s, rejected)
       PROVE  \A t \in Streams : Own(t)'
  <2>1. /\ began' = [began EXCEPT ![s] = 0] /\ pc' = [pc EXCEPT ![s] = "ready"]
        /\ artifact' = [artifact EXCEPT ![s] = None]
    BY <1>12, NextEffect
  <2>2. /\ began'[s] = 0 /\ pc'[s] = "ready"
        /\ \A t \in Streams \ {s} : /\ began'[t] = began[t] /\ pc'[t] = pc[t]
                                    /\ artifact'[t] = artifact[t]
    BY <2>1 DEF TypeOK
  <2>3. Own(s)'
    BY <1>1, <2>2 DEF Own
  <2> QED
    BY <1>2, <2>2, <2>3
<1>13. ASSUME NEW s \in Streams, ScenarioRejected(s)
       PROVE  TimeInv'
  <2>1. /\ Len(scopes[s]) = 3 /\ NextAttempt(s, TRUE) /\ UNCHANGED <<startEvents, live>>
    BY <1>13, EndingPlace DEF ScenarioRejected, engineVars
  <2> QED
    BY <1>3, <1>6, <1>7, <1>12, <2>1
<1>14. ASSUME NEW s \in Streams, ScenarioEnding(s)
       PROVE  TimeInv'
  <2>1. pc[s] = "mapped" /\ NextAttempt(s, FALSE) /\ clock' = clock
    BY <1>14, EndingEffect
  <2>2. Len(scopes[s]) = 3
    BY <2>1, EndingPlace
  <2>3. Stored'
    BY <1>3, <1>14, EndingEffect
  <2>4. LiveRangeSound'
    <3>1. /\ DOMAIN live' = DOMAIN live \cup {EndKey(s)} /\ live'[EndKey(s)] = EndInfo(s)
          /\ \A k \in DOMAIN live : k # EndKey(s) => live'[k] = live[k]
      BY <1>14, EndingEffect
    <3>2. /\ EndRange(s).start <= EndRange(s).stop
          /\ artifact[s].stamped => EndRange(s).stop <= clock
      BY <2>1, EndRangeSound
    <3>3. ASSUME NEW k \in DOMAIN live'
          PROVE  /\ live'[k].range.start <= live'[k].range.stop
                 /\ live'[k].stamped => live'[k].range.stop <= clock
      <4>1. CASE k = EndKey(s)
        BY <3>1, <3>2, <4>1 DEF EndInfo
      <4>2. CASE k # EndKey(s)
        BY <3>1, <4>2 DEF TimeInv, LiveRangeSound
      <4> QED
        BY <4>1, <4>2
    <3> QED
      BY <2>1, <3>3 DEF LiveRangeSound
  <2> QED
    BY <1>7, <1>12, <2>1, <2>2, <2>3, <2>4
<1>15. CASE Finalize \/ Tick \/ UNCHANGED vars
  <2>1. UNCHANGED <<began, pc, artifact, live, startEvents>>
    BY <1>15 DEF Finalize, Tick, streamVars, engineVars, vars
  <2> QED
    BY <1>2, <1>3, <1>6, <1>7, <2>1
<1> QED
  BY <1>8, <1>9, <1>10, <1>11, <1>13, <1>14, <1>15, NextCases

-----------------------------------------------------------------------------
(* Start events.                                                           *)

\* A start is recorded, unless the notification was lost.
LEMMA RecordedStart ==
    ASSUME NEW s \in Streams, NEW scope, RecordedOrLost(RecordStart(s, scope))
    PROVE  \/ /\ DOMAIN startEvents' = DOMAIN startEvents \cup {Correlation(scope, s)}
              /\ startEvents'[Correlation(scope, s)].of = Within(s, scope)
              /\ \A k \in DOMAIN startEvents :
                    k # Correlation(scope, s) => startEvents'[k] = startEvents[k]
           \/ "lost" \in faults /\ startEvents' = startEvents
<1>1. CASE startEvents' = Assigned(startEvents,
              [k \in {Correlation(scope, s)} |-> [at |-> clock, of |-> Within(s, scope)]])
  BY <1>1 DEF Assigned
<1> QED
  BY <1>1 DEF RecordedOrLost, RecordStart, Meets

LEMMA RecordedEnd ==
    ASSUME NEW s \in Streams, NEW scope, RecordedOrLost(RecordEnd(s, scope))
    PROVE  \/ /\ DOMAIN startEvents' = DOMAIN startEvents \ {Correlation(scope, s)}
              /\ \A k \in DOMAIN startEvents' : startEvents'[k] = startEvents[k]
           \/ "lost" \in faults /\ startEvents' = startEvents
<1>1. CASE startEvents' = Restrict(startEvents, DOMAIN startEvents \ {Correlation(scope, s)})
  BY <1>1 DEF Restrict
<1> QED
  BY <1>1 DEF RecordedOrLost, RecordEnd, Meets

\* Inside a scenario nothing is opened and closed but concepts and steps.
LEMMA ToldAround ==
    ASSUME TypeOK, PlaceInv, NEW s \in Streams, NEW scope \in Around,
           Starting(s, scope) \/ Ending(s, scope)
    PROVE  /\ \A t \in Streams : Told(t)' <=> Told(t)
           /\ \A t \in Streams \ {s} : scopes'[t] = scopes[t]
           /\ UNCHANGED <<faults, position, retry, files, over>>
<1>1. UNCHANGED <<faults, position, retry, files, over, pc>>
  BY DEF Starting, Ending
<1>2. \A t \in Streams \ {s} : scopes'[t] = scopes[t]
  BY DEF Starting, Ending, Opened, Closed, TypeOK
<1>3. Len(scopes'[s]) >= 3 <=> Len(scopes[s]) >= 3
  <2>1. CASE Starting(s, scope)
    <3>1. scopes'[s] = Append(scopes[s], scope)
      BY <2>1 DEF Starting, Opened, TypeOK
    <3>2. /\ Len(Append(scopes[s], scope)) = Len(scopes[s]) + 1 /\ Len(scopes[s]) # 2
          /\ Len(scopes[s]) \in 0 .. 4
      BY <2>1, OpensFits DEF Starting
    <3>3. \A l \in 0 .. 4 : l # 2 => (l + 1 >= 3 <=> l >= 3)
      OBVIOUS
    <3>4. Len(scopes[s]) + 1 >= 3 <=> Len(scopes[s]) >= 3
      BY <3>2, <3>3
    <3> QED
      BY <3>1, <3>2, <3>4
  <2>2. CASE Ending(s, scope)
    <3>1. scopes'[s] = SubSeq(scopes[s], 1, Len(scopes[s]) - 1)
      BY <2>2 DEF Ending, Closed, TypeOK
    <3>2. scopes[s] # <<>> /\ Len(scopes[s]) \in 1 .. 5 /\ Len(scopes[s]) # 3
      BY <2>2, ClosesOpen DEF Ending
    <3>3. Len(SubSeq(scopes[s], 1, Len(scopes[s]) - 1)) = Len(scopes[s]) - 1
      BY <3>2, Unwound
    <3>4. \A l \in 1 .. 5 : l # 3 => (l - 1 >= 3 <=> l >= 3)
      OBVIOUS
    <3>5. Len(scopes[s]) - 1 >= 3 <=> Len(scopes[s]) >= 3
      BY <3>2, <3>4
    <3> QED
      BY <3>1, <3>3, <3>5
  <2> QED
    BY <2>1, <2>2
<1> QED
  BY <1>1, <1>2, <1>3 DEF Told

\* What may not change for a start event to stay the own one.
LEMMA FoundKept ==
    ASSUME FoundOwn,
           \A t \in Streams : Told(t)' /\ Correlation("scenario", t)' \in DOMAIN startEvents' =>
               /\ Told(t) /\ position'[t] = position[t] /\ retry'[t] = retry[t]
               /\ Correlation("scenario", t) \in DOMAIN startEvents
               /\ startEvents'[Correlation("scenario", t)] = startEvents[Correlation("scenario", t)]
    PROVE  FoundOwn'
<1>1. ASSUME NEW t \in Streams, Told(t)', Correlation("scenario", t)' \in DOMAIN startEvents'
      PROVE  startEvents'[Correlation("scenario", t)'].of = Attempt(t)'
  BY <1>1, SamePlace DEF FoundOwn
<1> QED
  BY <1>1 DEF FoundOwn

LEMMA FoundStep == ASSUME LifecycleInv, [Next]_vars, ~BothFaults PROVE FoundOwn' /\ OwnStart'
<1> USE DEF LifecycleInv
<1>1. FoundOwn /\ OwnStart
  BY DEF StartInv
<1>2. ASSUME files' = files
      PROVE  OwnStart'
  BY <1>1, <1>2 DEF OwnStart
<1>3. ASSUME NEW s \in Streams, NEW scope \in Around, Starting(s, scope) \/ Ending(s, scope)
      PROVE  FoundOwn' /\ OwnStart'
  <2>1. /\ \A t \in Streams : Told(t)' <=> Told(t)
        /\ UNCHANGED <<position, retry, files>>
    BY <1>3, ToldAround
  <2>2. \A t \in Streams : Correlation("scenario", t) # Correlation(scope, s)
    BY CorrelationParts DEF Around
  <2>3. \A t \in Streams : Correlation("scenario", t) \in DOMAIN startEvents' =>
           /\ Correlation("scenario", t) \in DOMAIN startEvents
           /\ startEvents'[Correlation("scenario", t)] = startEvents[Correlation("scenario", t)]
    BY <1>3, <2>2, RecordedStart, RecordedEnd DEF Starting, Ending
  <2>4. \A t \in Streams : Correlation("scenario", t)' = Correlation("scenario", t)
    BY <2>1, SamePlace
  <2> QED
    BY <1>1, <1>2, <2>1, <2>3, <2>4, FoundKept
<1>4. ASSUME NEW s \in Streams, BeginScenario(s) \/ MapLiveScenario(s)
      PROVE  FoundOwn' /\ OwnStart'
  <2>1. /\ UNCHANGED <<position, retry, files, startEvents>>
        /\ \A t \in Streams \ {s} : scopes'[t] = scopes[t] /\ pc'[t] = pc[t]
    BY <1>4 DEF BeginScenario, MapLiveScenario, Opened, engineVars, TypeOK
  <2>2. Told(s)' => Told(s)
    <3>1. CASE BeginScenario(s)
      BY <3>1 DEF BeginScenario, Told, TypeOK
    <3>2. CASE MapLiveScenario(s)
      BY <3>2 DEF MapLiveScenario, Ready, Told, TypeOK
    <3> QED
      BY <1>4, <3>1, <3>2
  <2>3. \A t \in Streams : Told(t)' => Told(t)
    BY <2>1, <2>2 DEF Told
  <2>4. \A t \in Streams : Correlation("scenario", t)' = Correlation("scenario", t)
    BY <2>1, SamePlace
  <2> QED
    BY <1>1, <1>2, <2>1, <2>3, <2>4, FoundKept
<1>5. ASSUME NEW s \in Streams, ScenarioStarting(s)
      PROVE  FoundOwn' /\ OwnStart'
  <2>1. /\ pc[s] = "begun" /\ RecordedOrLost(RecordStart(s, "scenario"))
        /\ UNCHANGED <<position, retry, files, scopes>>
        /\ \A t \in Streams \ {s} : pc'[t] = pc[t]
    BY <1>5 DEF ScenarioStarting, TypeOK
  <2>2. \A t \in Streams : /\ Correlation("scenario", t)' = Correlation("scenario", t)
                           /\ Attempt(t)' = Attempt(t)
    BY <2>1, SamePlace
  <2>3. ASSUME NEW t \in Streams, Told(t)', Correlation("scenario", t)' \in DOMAIN startEvents'
        PROVE  startEvents'[Correlation("scenario", t)'].of = Attempt(t)'
    <3>1. CASE t # s
      <4>1. Told(t) /\ Correlation("scenario", t) # Correlation("scenario", s)
        BY <2>1, <2>3, <3>1, CorrelationParts DEF Told
      <4>2. /\ Correlation("scenario", t) \in DOMAIN startEvents
            /\ startEvents'[Correlation("scenario", t)] = startEvents[Correlation("scenario", t)]
        BY <2>1, <2>2, <2>3, <4>1, RecordedStart
      <4> QED
        BY <1>1, <2>2, <4>1, <4>2 DEF FoundOwn
    <3>2. CASE t = s /\ startEvents'[Correlation("scenario", s)].of = Within(s, "scenario")
      BY <2>2, <3>2 DEF Within
    <3>3. CASE t = s /\ "lost" \in faults /\ startEvents' = startEvents
      <4>1. NoneLeft
        BY <3>3 DEF BothFaults, StartInv
      <4>2. Correlation("scenario", s) \in DOMAIN startEvents
        BY <2>2, <2>3, <3>3
      <4>3. PICK u \in Streams : Told(u) /\ Correlation("scenario", s) = Correlation("scenario", u)
        BY <4>1, <4>2, CorrelationParts DEF NoneLeft
      <4>4. u = s
        BY <4>3, CorrelationParts
      <4> QED
        BY <2>1, <4>3, <4>4 DEF Told
    <3> QED
      BY <2>1, <3>1, <3>2, <3>3, RecordedStart
  <2> QED
    BY <1>2, <2>1, <2>3 DEF FoundOwn
<1>6. ASSUME NEW s \in Streams, Len(scopes[s]) = 3, NEW rejected \in BOOLEAN,
             NextAttempt(s, rejected), DOMAIN startEvents' \subseteq DOMAIN startEvents,
             \A k \in DOMAIN startEvents' : startEvents'[k] = startEvents[k]
      PROVE  FoundOwn'
  <2>1. /\ Len(scopes'[s]) = 2
        /\ \A t \in Streams \ {s} : /\ position'[t] = position[t] /\ retry'[t] = retry[t]
                                    /\ scopes'[t] = scopes[t] /\ pc'[t] = pc[t]
    BY <1>6, NextEffect
  <2>2. ASSUME NEW t \in Streams, Told(t)'
        PROVE  /\ Told(t) /\ position'[t] = position[t] /\ retry'[t] = retry[t]
               /\ Correlation("scenario", t)' = Correlation("scenario", t)
    <3>1. t # s
      <4>1. Len(scopes'[t]) >= 3
        BY <2>2 DEF Told
      <4>2. ~(2 >= 3)
        OBVIOUS
      <4> QED
        BY <2>1, <4>1, <4>2
    <3>2. CASE t # s
      BY <2>1, <2>2, <3>2, SamePlace DEF Told
    <3> QED
      BY <3>1, <3>2
  <2> QED
    BY <1>1, <1>6, <2>2, FoundKept
<1>7. ASSUME NEW s \in Streams, ScenarioRejected(s)
      PROVE  FoundOwn' /\ OwnStart'
  <2>1. /\ Len(scopes[s]) = 3 /\ NextAttempt(s, TRUE) /\ UNCHANGED <<startEvents, files>>
    BY <1>7, EndingPlace DEF ScenarioRejected, engineVars
  <2> QED
    BY <1>2, <1>6, <2>1
<1>8. ASSUME NEW s \in Streams, ScenarioEnding(s)
      PROVE  FoundOwn' /\ OwnStart'
  <2>1. /\ pc[s] = "mapped" /\ NextAttempt(s, FALSE)
        /\ DOMAIN startEvents' = DOMAIN startEvents \ {EndStart(s)}
        /\ \A k \in DOMAIN startEvents' : startEvents'[k] = startEvents[k]
        /\ DOMAIN files' = DOMAIN files \cup {EndUUID(s)} /\ files'[EndUUID(s)] = EndFile(s)
        /\ \A u \in DOMAIN files : u # EndUUID(s) => files'[u] = files[u]
    BY <1>8, EndingEffect
  <2>2. Len(scopes[s]) = 3 /\ Told(s)
    BY <2>1, EndingPlace DEF Told
  <2>3. FoundOwn'
    BY <1>6, <2>1, <2>2
  <2>4. EndFile(s).startOf \in {None, EndFile(s).attempt}
    BY <1>1, <2>2 DEF EndFile, EndOf, EndStart, FoundOwn
  <2>5. OwnStart'
    BY <1>1, <2>1, <2>4 DEF OwnStart
  <2> QED
    BY <2>3, <2>5
<1>9. CASE Finalize
  <2>1. UNCHANGED <<position, retry, scopes, pc, startEvents>>
    BY <1>9 DEF Finalize, streamVars
  <2>2. FoundOwn'
    BY <1>1, <2>1, SamePlace, FoundKept DEF Told
  <2>3. ASSUME NEW u \in DOMAIN files'
        PROVE  files'[u].startOf \in {None, files'[u].attempt}
    <3>1. CASE \E i \in Items : u = SuiteUUID(i)
      <4>1. PICK i \in Items : u = SuiteUUID(i)
        BY <3>1
      <4>2. files'[u] = SuiteResult(i)
        BY <1>9, <4>1, FinalizeEffect
      <4>3. SuiteResult(i).startOf = None
        BY DEF SuiteResult
      <4> QED
        BY <4>2, <4>3
    <3>2. CASE \A i \in Items : u # SuiteUUID(i)
      <4>1. u \in DOMAIN files /\ files'[u] = files[u]
        BY <1>9, <3>2, FinalizeEffect
      <4> QED
        BY <1>1, <4>1 DEF OwnStart
    <3> QED
      BY <3>1, <3>2
  <2> QED
    BY <2>2, <2>3 DEF OwnStart
<1>10. CASE Tick \/ UNCHANGED vars
  <2>1. UNCHANGED <<position, retry, scopes, pc, startEvents, files>>
    BY <1>10 DEF Tick, vars, streamVars, engineVars
  <2>2. FoundOwn'
    BY <1>1, <2>1, SamePlace, FoundKept DEF Told
  <2> QED
    BY <1>2, <2>1, <2>2
<1> QED
  BY <1>3, <1>4, <1>5, <1>7, <1>8, <1>9, <1>10, NextCases

\* What a start event needs to stay that of an open scenario.
LEMMA LeftKept ==
    ASSUME NoneLeft,
           \A k \in DOMAIN startEvents' : k[1] = "scenario" =>
               /\ k \in DOMAIN startEvents
               /\ \A t \in Streams : Told(t) /\ k = Correlation("scenario", t) =>
                     Told(t)' /\ position'[t] = position[t] /\ retry'[t] = retry[t]
    PROVE  NoneLeft'
<1>1. ASSUME NEW k \in DOMAIN startEvents', k[1] = "scenario"
      PROVE  \E t \in Streams : Told(t)' /\ k = Correlation("scenario", t)'
  <2>1. PICK t \in Streams : Told(t) /\ k = Correlation("scenario", t)
    BY <1>1 DEF NoneLeft
  <2> QED
    BY <1>1, <2>1, SamePlace
<1> QED
  BY <1>1 DEF NoneLeft

LEMMA NoneLeftStep ==
    ASSUME LifecycleInv, [Next]_vars, "rejected" \notin faults
    PROVE  NoneLeft'
<1> USE DEF LifecycleInv
<1>1. NoneLeft
  BY DEF StartInv
<1>2. ASSUME NEW s \in Streams, NEW scope \in Around, Starting(s, scope) \/ Ending(s, scope)
      PROVE  NoneLeft'
  <2>1. /\ \A t \in Streams : Told(t)' <=> Told(t)
        /\ UNCHANGED <<position, retry>>
    BY <1>2, ToldAround
  <2>2. \A k \in DOMAIN startEvents' : k \in DOMAIN startEvents \/ k = Correlation(scope, s)
    <3>1. CASE Starting(s, scope)
      <4>1. RecordedOrLost(RecordStart(s, scope))
        BY <3>1 DEF Starting
      <4>2. \/ DOMAIN startEvents' = DOMAIN startEvents \cup {Correlation(scope, s)}
            \/ startEvents' = startEvents
        BY <4>1, RecordedStart
      <4> QED
        BY <4>2
    <3>2. CASE Ending(s, scope)
      <4>1. RecordedOrLost(RecordEnd(s, scope))
        BY <3>2 DEF Ending
      <4> QED
        BY <4>1, RecordedEnd
    <3> QED
      BY <1>2, <3>1, <3>2
  <2>3. Correlation(scope, s)[1] # "scenario"
    BY CorrelationParts DEF Around
  <2> QED
    BY <1>1, <2>1, <2>2, <2>3, LeftKept
<1>3. ASSUME NEW s \in Streams, BeginScenario(s) \/ MapLiveScenario(s)
      PROVE  NoneLeft'
  <2>1. /\ UNCHANGED <<position, retry, startEvents>>
        /\ \A t \in Streams \ {s} : scopes'[t] = scopes[t] /\ pc'[t] = pc[t]
    BY <1>3 DEF BeginScenario, MapLiveScenario, Opened, engineVars, TypeOK
  <2>2. Told(s) => Told(s)'
    <3>1. CASE BeginScenario(s)
      <4>1. Len(scopes[s]) = 2
        BY <3>1, InnermostLen DEF BeginScenario
      <4>2. ~(2 >= 3)
        OBVIOUS
      <4> QED
        BY <4>1, <4>2 DEF Told
    <3>2. CASE MapLiveScenario(s)
      BY <3>2 DEF MapLiveScenario, Ready, Told, TypeOK
    <3> QED
      BY <1>3, <3>1, <3>2
  <2>3. \A t \in Streams : Told(t) => Told(t)'
    BY <2>1, <2>2 DEF Told
  <2> QED
    BY <1>1, <2>1, <2>3, LeftKept
<1>4. ASSUME NEW s \in Streams, ScenarioStarting(s)
      PROVE  NoneLeft'
  <2>1. /\ pc[s] = "begun" /\ RecordedOrLost(RecordStart(s, "scenario")) /\ pc'[s] = "ready"
        /\ UNCHANGED <<position, retry, scopes>>
        /\ \A t \in Streams \ {s} : pc'[t] = pc[t]
    BY <1>4 DEF ScenarioStarting, TypeOK
  <2>2. Len(scopes[s]) = 3
    BY <2>1 DEF PlaceInv, Placed
  <2>3. Told(s)' /\ \A t \in Streams : Told(t) => Told(t)'
    BY <2>1, <2>2 DEF Told
  <2>4. \A t \in Streams : Correlation("scenario", t)' = Correlation("scenario", t)
    BY <2>1, SamePlace
  <2>5. ASSUME NEW k \in DOMAIN startEvents', k[1] = "scenario"
        PROVE  \E t \in Streams : Told(t)' /\ k = Correlation("scenario", t)'
    <3>1. k \in DOMAIN startEvents \/ k = Correlation("scenario", s)
      BY <2>1, <2>5, RecordedStart
    <3> QED
      BY <1>1, <2>3, <2>4, <2>5, <3>1 DEF NoneLeft
  <2> QED
    BY <2>5 DEF NoneLeft
<1>5. ASSUME NEW s \in Streams, ScenarioEnding(s)
      PROVE  NoneLeft'
  <2>1. /\ pc[s] = "mapped" /\ NextAttempt(s, FALSE)
        /\ DOMAIN startEvents' = DOMAIN startEvents \ {EndStart(s)}
    BY <1>5, EndingEffect
  <2>2. Len(scopes[s]) = 3
    BY <2>1, EndingPlace
  <2>3. \A t \in Streams \ {s} : /\ position'[t] = position[t] /\ retry'[t] = retry[t]
                                 /\ scopes'[t] = scopes[t] /\ pc'[t] = pc[t]
    BY <2>1, <2>2, NextEffect
  <2>4. \A t \in Streams \ {s} : Told(t) => Told(t)'
    BY <2>3 DEF Told
  <2> QED
    BY <1>1, <2>1, <2>3, <2>4, LeftKept DEF EndStart
<1>6. ASSUME NEW s \in Streams, ScenarioRejected(s)
      PROVE  NoneLeft'
  BY <1>6 DEF ScenarioRejected, Meets
<1>7. CASE Finalize \/ Tick \/ UNCHANGED vars
  <2>1. UNCHANGED <<position, retry, scopes, pc, startEvents>>
    BY <1>7 DEF Finalize, Tick, vars, streamVars, engineVars
  <2> QED
    BY <1>1, <2>1, LeftKept DEF Told
<1> QED
  BY <1>2, <1>3, <1>4, <1>5, <1>6, <1>7, NextCases

\* A start event is in use if its scope is open, or its callback was rejected.
InUse(k) ==
    \/ \E s \in Streams : \E n \in DOMAIN scopes[s] : k = Correlation(scopes[s][n], s)
    \/ k[1] = "scenario" /\ \E e \in over : e.rejected /\ e.attempt = startEvents[k].of

\* It stays in use if its scope stays open.
LEMMA UseKept ==
    ASSUME "lost" \notin faults, StartsInUse, over \subseteq over',
           NEW k \in DOMAIN startEvents, startEvents'[k] = startEvents[k],
           \A t \in Streams : \A n \in DOMAIN scopes[t] : k = Correlation(scopes[t][n], t) =>
               /\ n \in DOMAIN scopes'[t] /\ scopes'[t][n] = scopes[t][n]
               /\ \/ position'[t] = position[t] /\ retry'[t] = retry[t]
                  \/ scopes[t][n] \in {"suite", "spec"}
    PROVE  InUse(k)'
<1>1. CASE k[1] = "scenario" /\ \E e \in over : e.rejected /\ e.attempt = startEvents[k].of
  BY <1>1 DEF InUse
<1>2. CASE \E t \in Streams : \E n \in DOMAIN scopes[t] : k = Correlation(scopes[t][n], t)
  <2>0. PICK t \in Streams : \E n \in DOMAIN scopes[t] : k = Correlation(scopes[t][n], t)
    BY <1>2
  <2>1. PICK n \in DOMAIN scopes[t] : k = Correlation(scopes[t][n], t)
    BY <2>0
  <2>2. n \in DOMAIN scopes'[t] /\ scopes'[t][n] = scopes[t][n]
    BY <2>1
  <2>3. Correlation(scopes[t][n], t)' = Correlation(scopes[t][n], t)
    <3>1. CASE position'[t] = position[t] /\ retry'[t] = retry[t]
      BY <2>2, <3>1 DEF Correlation, Item
    <3>2. CASE scopes[t][n] \in {"suite", "spec"}
      BY <2>2, <3>2 DEF Correlation
    <3> QED
      BY <2>1, <3>1, <3>2
  <2> QED
    BY <2>1, <2>2, <2>3 DEF InUse
<1> QED
  BY <1>1, <1>2 DEF StartsInUse

LEMMA UseStep ==
    ASSUME LifecycleInv, [Next]_vars, "lost" \notin faults, NEW k \in DOMAIN startEvents'
    PROVE  InUse(k)'
<1> USE DEF LifecycleInv
<1>1. StartsInUse /\ FoundOwn
  BY DEF StartInv, BothFaults
\* Where no start event is recorded.
<1>2. ASSUME k \in DOMAIN startEvents, startEvents'[k] = startEvents[k], over \subseteq over',
             \A t \in Streams : \A n \in DOMAIN scopes[t] : k = Correlation(scopes[t][n], t) =>
               /\ n \in DOMAIN scopes'[t] /\ scopes'[t][n] = scopes[t][n]
               /\ \/ position'[t] = position[t] /\ retry'[t] = retry[t]
                  \/ scopes[t][n] \in {"suite", "spec"}
      PROVE  InUse(k)'
  BY <1>1, <1>2, UseKept
<1>3. ASSUME NEW s \in Streams, NEW scope \in Around, Starting(s, scope)
      PROVE  InUse(k)'
  <2>1. RecordedOrLost(RecordStart(s, scope)) /\ Opens(s, scope)
    BY <1>3 DEF Starting
  <2>2. /\ UNCHANGED <<position, retry, over>>
        /\ \A t \in Streams \ {s} : scopes'[t] = scopes[t]
        /\ scopes'[s] = Append(scopes[s], scope)
    BY <1>3 DEF Starting, Opened, TypeOK
  <2>3. scopes[s] \in Seq(Scopes) /\ scope \in Scopes
    BY AroundScopes DEF TypeOK
  <2>4. /\ DOMAIN scopes'[s] = 1 .. Len(scopes[s]) + 1 /\ DOMAIN scopes[s] = 1 .. Len(scopes[s])
        /\ Len(scopes[s]) \in Nat
        /\ scopes'[s][Len(scopes[s]) + 1] = scope
        /\ \A n \in DOMAIN scopes[s] : scopes'[s][n] = scopes[s][n]
    BY <2>2, <2>3
  <2>5. \/ k \in DOMAIN startEvents /\ startEvents'[k] = startEvents[k]
        \/ k = Correlation(scope, s)
    <3>1. \/ /\ DOMAIN startEvents' = DOMAIN startEvents \cup {Correlation(scope, s)}
             /\ \A j \in DOMAIN startEvents :
                   j # Correlation(scope, s) => startEvents'[j] = startEvents[j]
          \/ startEvents' = startEvents
      BY <2>1, RecordedStart
    <3> QED
      BY <3>1
  <2>6. CASE k \in DOMAIN startEvents /\ startEvents'[k] = startEvents[k]
    <3>1. ASSUME NEW t \in Streams, NEW n \in DOMAIN scopes[t]
          PROVE  n \in DOMAIN scopes'[t] /\ scopes'[t][n] = scopes[t][n]
      <4>1. CASE t = s
        BY <2>4, <4>1
      <4>2. CASE t # s
        BY <2>2, <4>2
      <4> QED
        BY <4>1, <4>2
    <3> QED
      BY <1>2, <2>2, <2>6, <3>1
  <2>7. CASE k = Correlation(scope, s)
    <3> DEFINE n == Len(scopes[s]) + 1
    <3>1. n \in DOMAIN scopes'[s] /\ scopes'[s][n] = scope
      BY <2>4
    <3> HIDE DEF n
    <3>2. k = Correlation(scope, s)'
      BY <2>2, <2>7, SamePlace
    <3> QED
      BY <3>1, <3>2 DEF InUse
  <2> QED
    BY <2>5, <2>6, <2>7
<1>4. ASSUME NEW s \in Streams, NEW scope \in Around, Ending(s, scope)
      PROVE  InUse(k)'
  <2>1. /\ RecordedOrLost(RecordEnd(s, scope)) /\ Closes(s, scope)
        /\ UNCHANGED <<position, retry, over>>
        /\ \A t \in Streams \ {s} : scopes'[t] = scopes[t]
        /\ scopes'[s] = SubSeq(scopes[s], 1, Len(scopes[s]) - 1)
    BY <1>4 DEF Ending, Closed, TypeOK
  <2>2. /\ scopes[s] # <<>> /\ Len(scopes[s]) \in 1 .. 5
        /\ scopes[s][Len(scopes[s])] = scope
    BY <2>1, ClosesOpen
  <2>3. /\ scopes'[s] \in Seq(Scopes) /\ Len(scopes'[s]) = Len(scopes[s]) - 1
        /\ \A n \in 1 .. Len(scopes[s]) - 1 : scopes'[s][n] = scopes[s][n]
    BY <2>1, <2>2, Unwound
  <2>4. /\ k \in DOMAIN startEvents /\ startEvents'[k] = startEvents[k]
        /\ k # Correlation(scope, s)
    <3>1. /\ DOMAIN startEvents' = DOMAIN startEvents \ {Correlation(scope, s)}
          /\ \A j \in DOMAIN startEvents' : startEvents'[j] = startEvents[j]
      BY <2>1, RecordedEnd
    <3> QED
      BY <3>1
  <2>5. ASSUME NEW t \in Streams, NEW n \in DOMAIN scopes[t], k = Correlation(scopes[t][n], t)
        PROVE  n \in DOMAIN scopes'[t] /\ scopes'[t][n] = scopes[t][n]
    <3>1. CASE t = s
      <4>1. n \in 1 .. Len(scopes[s])
        BY <3>1 DEF TypeOK
      <4>2. n # Len(scopes[s])
        BY <2>2, <2>4, <2>5, <3>1
      <4>3. n \in 1 .. Len(scopes[s]) - 1
        BY <2>2, <4>1, <4>2
      <4> QED
        BY <2>3, <3>1, <4>3
    <3>2. CASE t # s
      BY <2>1, <3>2
    <3> QED
      BY <3>1, <3>2
  <2> QED
    BY <1>2, <2>1, <2>4, <2>5
<1>5. ASSUME NEW s \in Streams, BeginScenario(s)
      PROVE  InUse(k)'
  <2>1. /\ UNCHANGED <<position, retry, over, startEvents>>
        /\ \A t \in Streams \ {s} : scopes'[t] = scopes[t]
        /\ scopes'[s] = Append(scopes[s], "scenario")
    BY <1>5 DEF BeginScenario, Opened, engineVars, TypeOK
  <2>2. scopes[s] \in Seq(Scopes) /\ "scenario" \in Scopes
    BY DEF TypeOK, Scopes
  <2>3. \A n \in DOMAIN scopes[s] : n \in DOMAIN scopes'[s] /\ scopes'[s][n] = scopes[s][n]
    BY <2>1, <2>2
  <2>4. \A t \in Streams : \A n \in DOMAIN scopes[t] :
           n \in DOMAIN scopes'[t] /\ scopes'[t][n] = scopes[t][n]
    BY <2>1, <2>3
  <2> QED
    BY <1>2, <2>1, <2>4
<1>6. ASSUME NEW s \in Streams, ScenarioStarting(s)
      PROVE  InUse(k)'
  <2>1. /\ pc[s] = "begun" /\ RecordedOrLost(RecordStart(s, "scenario"))
        /\ UNCHANGED <<position, retry, scopes, over>>
    BY <1>6 DEF ScenarioStarting
  <2>2. \/ k \in DOMAIN startEvents /\ startEvents'[k] = startEvents[k]
        \/ k = Correlation("scenario", s)
    <3>1. \/ /\ DOMAIN startEvents' = DOMAIN startEvents \cup {Correlation("scenario", s)}
             /\ \A j \in DOMAIN startEvents :
                   j # Correlation("scenario", s) => startEvents'[j] = startEvents[j]
          \/ startEvents' = startEvents
      BY <2>1, RecordedStart
    <3> QED
      BY <3>1
  <2>3. CASE k \in DOMAIN startEvents /\ startEvents'[k] = startEvents[k]
    BY <1>2, <2>1, <2>3
  <2>4. CASE k = Correlation("scenario", s)
    <3>1. Len(scopes[s]) = 3 /\ Shaped(scopes[s]) /\ scopes[s] \in Seq(Scopes)
      BY <2>1 DEF PlaceInv, Placed, TypeOK
    <3>2. 3 \in DOMAIN scopes'[s] /\ scopes'[s][3] = "scenario"
      BY <2>1, <3>1 DEF Shaped
    <3>3. k = Correlation("scenario", s)'
      BY <2>1, <2>4, SamePlace
    <3> QED
      BY <3>2, <3>3 DEF InUse
  <2> QED
    BY <2>2, <2>3, <2>4
<1>7. CASE \/ \E s \in Streams : MapLiveScenario(s)
           \/ Finalize \/ Tick \/ UNCHANGED vars
  <2>1. UNCHANGED <<position, retry, scopes, over, startEvents>>
    BY <1>7 DEF MapLiveScenario, Finalize, Tick, vars, streamVars, engineVars
  <2> QED
    BY <1>2, <2>1
\* The end of an attempt closes the scenario, and leaves the suite and the spec open.
<1>8. ASSUME NEW s \in Streams, NEW rejected \in BOOLEAN, Len(scopes[s]) = 3,
             NextAttempt(s, rejected), k \in DOMAIN startEvents, startEvents'[k] = startEvents[k],
             k # Correlation("scenario", s)
      PROVE  InUse(k)'
  <2>1. /\ over \subseteq over'
        /\ Len(scopes'[s]) = 2 /\ scopes'[s][1] = "suite" /\ scopes'[s][2] = "spec"
        /\ scopes' \in [Streams -> Seq(Scopes)]
        /\ \A t \in Streams \ {s} : /\ position'[t] = position[t] /\ retry'[t] = retry[t]
                                    /\ scopes'[t] = scopes[t]
    BY <1>8, NextEffect
  <2>2. ASSUME NEW t \in Streams, NEW n \in DOMAIN scopes[t], k = Correlation(scopes[t][n], t)
        PROVE  /\ n \in DOMAIN scopes'[t] /\ scopes'[t][n] = scopes[t][n]
               /\ \/ position'[t] = position[t] /\ retry'[t] = retry[t]
                  \/ scopes[t][n] \in {"suite", "spec"}
    <3>1. CASE t = s
      <4>1. /\ scopes[s][1] = "suite" /\ scopes[s][2] = "spec" /\ scopes[s][3] = "scenario"
        BY <1>8 DEF PlaceInv, Placed, Shaped
      <4>2. n \in 1 .. 3 /\ n # 3
        BY <1>8, <2>2, <3>1, <4>1 DEF TypeOK
      <4>3. DOMAIN scopes'[s] = 1 .. 2 /\ n \in 1 .. 2
        BY <2>1, <4>2
      <4>4. n = 1 \/ n = 2
        BY <4>3
      <4> QED
        BY <2>1, <3>1, <4>1, <4>3, <4>4
    <3>2. CASE t # s
      BY <2>1, <3>2
    <3> QED
      BY <3>1, <3>2
  <2> QED
    BY <1>2, <1>8, <2>1, <2>2
<1>9. ASSUME NEW s \in Streams, ScenarioRejected(s)
      PROVE  InUse(k)'
  <2>1. /\ Len(scopes[s]) = 3 /\ NextAttempt(s, TRUE) /\ UNCHANGED startEvents
        /\ pc[s] = "ready"
    BY <1>9, EndingPlace DEF ScenarioRejected, engineVars, Ready
  <2>2. CASE k = Correlation("scenario", s)
    <3>1. startEvents'[k].of = Attempt(s)
      BY <1>1, <2>1, <2>2 DEF FoundOwn, Told
    <3>2. [attempt |-> Attempt(s), stream |-> s, rejected |-> TRUE] \in over'
      BY <2>1, NextEffect
    <3>3. k[1] = "scenario"
      BY <2>2, CorrelationParts
    <3> DEFINE e == [attempt |-> Attempt(s), stream |-> s, rejected |-> TRUE]
    <3>4. e \in over' /\ e.rejected /\ e.attempt = Attempt(s)
      BY <3>2
    <3> HIDE DEF e
    <3> QED
      BY <3>1, <3>3, <3>4 DEF InUse
  <2> QED
    BY <1>8, <2>1, <2>2
<1>10. ASSUME NEW s \in Streams, ScenarioEnding(s)
       PROVE  InUse(k)'
  <2>1. /\ pc[s] = "mapped" /\ NextAttempt(s, FALSE)
        /\ DOMAIN startEvents' = DOMAIN startEvents \ {EndStart(s)}
        /\ \A j \in DOMAIN startEvents' : startEvents'[j] = startEvents[j]
    BY <1>10, EndingEffect
  <2>2. Len(scopes[s]) = 3
    BY <2>1, EndingPlace
  <2> QED
    BY <1>8, <2>1, <2>2 DEF EndStart
<1> QED
  BY <1>3, <1>4, <1>5, <1>6, <1>7, <1>9, <1>10, NextCases

LEMMA FaultsKept == ASSUME [Next]_vars PROVE faults' = faults
<1>1. ASSUME NEW s \in Streams, NEW scope \in Around, Starting(s, scope) \/ Ending(s, scope)
      PROVE  faults' = faults
  BY <1>1 DEF Starting, Ending
<1>2. ASSUME NEW s \in Streams, \/ BeginScenario(s) \/ ScenarioStarting(s) \/ MapLiveScenario(s)
                                \/ ScenarioRejected(s)
      PROVE  faults' = faults
  BY <1>2 DEF BeginScenario, ScenarioStarting, MapLiveScenario, ScenarioRejected
<1>3. ASSUME NEW s \in Streams, ScenarioEnding(s)
      PROVE  faults' = faults
  BY <1>3, EndingEffect
<1>4. CASE Finalize \/ Tick \/ UNCHANGED vars
  BY <1>4 DEF Finalize, Tick, vars
<1> QED
  BY <1>1, <1>2, <1>3, <1>4, NextCases

LEMMA StartStep == ASSUME LifecycleInv, [Next]_vars PROVE StartInv'
<1>1. faults' = faults
  BY FaultsKept
<1>2. ~BothFaults' => FoundOwn' /\ OwnStart'
  BY <1>1, FoundStep DEF BothFaults
<1>3. "rejected" \notin faults' => NoneLeft'
  BY <1>1, NoneLeftStep
<1>4. StartsInUse'
  <2>1. ASSUME "lost" \notin faults', NEW k \in DOMAIN startEvents'
        PROVE  InUse(k)'
    BY <1>1, <2>1, UseStep
  <2> QED
    BY <2>1 DEF StartsInUse, InUse
<1> QED
  BY <1>2, <1>3, <1>4 DEF StartInv

-----------------------------------------------------------------------------
(* Results.                                                                *)

LEMMA FilesKept ==
    ASSUME FileInv, UNCHANGED <<files, uuids, live>>
    PROVE  FileInv'
  BY DEF FileInv, FileOK

\* The callback's result is that of its key and its UUID; no other shares one of them.
LEMMA FileEnding ==
    ASSUME TypeOK, PlaceInv, FileInv, NEW s \in Streams, ScenarioEnding(s)
    PROVE  FileInv'
<1> DEFINE K == EndKey(s)
           U == EndUUID(s)
<1>1. /\ pc[s] = "mapped"
      /\ DOMAIN uuids' = DOMAIN uuids \cup {K} /\ uuids'[K] = U
      /\ \A k \in DOMAIN uuids : k # K => uuids'[k] = uuids[k]
      /\ DOMAIN live' = DOMAIN live \cup {K} /\ live'[K] = EndInfo(s)
      /\ \A k \in DOMAIN live : k # K => live'[k] = live[k]
      /\ DOMAIN files' = DOMAIN files \cup {U} /\ files'[U] = EndFile(s)
      /\ \A u \in DOMAIN files : u # U => files'[u] = files[u]
  BY EndingEffect
<1>2. ~QueueDone(s)
  BY <1>1, EndingPlace
<1>3. U.attempt = Attempt(s) /\ Attempt(s).item = Item(s) /\ Runs(s, Item(s))
  BY <1>2, EndUUIDSound, CurrentItem
<1>4. KeyOf(U.attempt) = K /\ (K \in DOMAIN uuids => uuids[K] = U)
  BY <1>3 DEF EndKey, EndUUID
<1>5. /\ EndInfo(s).range = EndRange(s) /\ EndInfo(s).stream = s
      /\ EndFile(s).attempt = Attempt(s) /\ EndFile(s).range = EndRange(s)
      /\ EndFile(s).stream = s /\ EndFile(s).history = HistoryID(Item(s), FALSE)
      /\ EndFile(s).final = FALSE
  BY DEF EndInfo, EndFile
<1> HIDE DEF K, U
<1>6. ASSUME NEW u \in DOMAIN files'
      PROVE  FileOK(u)'
  <2>1. CASE u = U
    BY <1>1, <1>3, <1>4, <1>5, <2>1 DEF FileOK
  <2>2. CASE u # U
    <3>1. u \in DOMAIN files /\ files'[u] = files[u] /\ FileOK(u)
      BY <1>1, <2>2 DEF FileInv
    <3> DEFINE j == KeyOf(u.attempt)
    <3>2. j \in DOMAIN uuids /\ uuids[j] = u
      BY <3>1 DEF FileOK
    <3>3. j # K
      BY <1>4, <2>2, <3>2
    <3>4. /\ j \in DOMAIN uuids' /\ uuids'[j] = u
          /\ j \in DOMAIN live' <=> j \in DOMAIN live
          /\ j \in DOMAIN live => live'[j] = live[j]
      BY <1>1, <3>2, <3>3
    <3> QED
      BY <3>1, <3>4 DEF FileOK
  <2> QED
    BY <2>1, <2>2
<1>7. ASSUME NEW k \in DOMAIN uuids'
      PROVE  KeyOf(uuids'[k].attempt) = k /\ uuids'[k] \in DOMAIN files'
  BY <1>1, <1>4 DEF FileInv
<1>8. ASSUME NEW k \in DOMAIN live'
      PROVE  k \in DOMAIN uuids' /\ Runs(live'[k].stream, uuids'[k].attempt.item)
  <2>1. CASE k = K
    BY <1>1, <1>3, <1>5, <2>1
  <2>2. CASE k # K
    BY <1>1, <2>2 DEF FileInv
  <2> QED
    BY <2>1, <2>2
<1> QED
  BY <1>6, <1>7, <1>8 DEF FileInv

\* The suite's results are those of the callbacks' keys and UUIDs, or of new ones.
LEMMA FileFinalize ==
    ASSUME TypeOK, PlaceInv, FileInv, Finalize
    PROVE  FileInv'
<1>1. /\ \A s \in Streams : QueueDone(s)
      /\ DOMAIN files' = DOMAIN files \cup {SuiteUUID(i) : i \in Items}
      /\ \A i \in Items : files'[SuiteUUID(i)] = SuiteResult(i)
      /\ \A u \in DOMAIN files : (\A i \in Items : u # SuiteUUID(i)) => files'[u] = files[u]
      /\ DOMAIN uuids' = DOMAIN uuids \cup {SuiteKey(i) : i \in Items}
      /\ \A i \in Items : uuids'[SuiteKey(i)] = SuiteUUID(i)
      /\ \A k \in DOMAIN uuids : (\A i \in Items : k # SuiteKey(i)) => uuids'[k] = uuids[k]
      /\ live' = live
  BY FinalizeEffect
<1>2. ASSUME NEW i \in Items
      PROVE  /\ SuiteUUID(i).attempt = LastAttempt(i) /\ LastAttempt(i).item = i
             /\ KeyOf(LastAttempt(i)) = SuiteKey(i)
             /\ SuiteKey(i) \in DOMAIN uuids => uuids[SuiteKey(i)] = SuiteUUID(i)
  BY <1>1, SuiteFacts DEF SuiteUUID
<1>3. ASSUME NEW i \in Items
      PROVE  /\ SuiteResult(i).attempt = LastAttempt(i)
             /\ SuiteResult(i).history = HistoryID(i, TRUE) /\ SuiteResult(i).final = TRUE
             /\ SuiteKey(i) \in DOMAIN live =>
                   SuiteResult(i).stream = live[SuiteKey(i)].stream
  BY DEF SuiteResult
<1>4. ASSUME NEW u \in DOMAIN files'
      PROVE  FileOK(u)'
  <2>1. CASE \E i \in Items : u = SuiteUUID(i)
    <3>1. PICK i \in Items : u = SuiteUUID(i)
      BY <2>1
    <3>2. KeyOf(u.attempt) = SuiteKey(i) /\ u.attempt = LastAttempt(i) /\ u.attempt.item = i
      BY <1>2, <3>1
    <3>3. SuiteKey(i) \in DOMAIN uuids' /\ uuids'[SuiteKey(i)] = u /\ files'[u] = SuiteResult(i)
      BY <1>1, <3>1
    <3>4. SuiteKey(i) \in DOMAIN live => Runs(live[SuiteKey(i)].stream, i)
      BY <1>2, <3>1, <3>2 DEF FileInv
    <3> QED
      BY <1>1, <1>3, <3>2, <3>3, <3>4 DEF FileOK
  <2>2. CASE \A i \in Items : u # SuiteUUID(i)
    <3>1. u \in DOMAIN files /\ files'[u] = files[u]
      BY <1>1, <2>2
    <3>2. FileOK(u)
      BY <3>1 DEF FileInv
    <3> DEFINE j == KeyOf(u.attempt)
    <3>3. j \in DOMAIN uuids /\ uuids[j] = u
      BY <3>2 DEF FileOK
    <3>4. \A i \in Items : j # SuiteKey(i)
      BY <1>2, <2>2, <3>3
    <3>5. j \in DOMAIN uuids' /\ uuids'[j] = u
      BY <1>1, <3>3, <3>4
    <3> QED
      BY <1>1, <3>1, <3>2, <3>5 DEF FileOK
  <2> QED
    BY <2>1, <2>2
<1>5. ASSUME NEW k \in DOMAIN uuids'
      PROVE  KeyOf(uuids'[k].attempt) = k /\ uuids'[k] \in DOMAIN files'
  <2>1. CASE \E i \in Items : k = SuiteKey(i)
    <3>1. PICK i \in Items : k = SuiteKey(i)
      BY <2>1
    <3> QED
      BY <1>1, <1>2, <3>1
  <2>2. CASE \A i \in Items : k # SuiteKey(i)
    BY <1>1, <2>2 DEF FileInv
  <2> QED
    BY <2>1, <2>2
<1>6. ASSUME NEW k \in DOMAIN live'
      PROVE  k \in DOMAIN uuids' /\ Runs(live'[k].stream, uuids'[k].attempt.item)
  <2>1. k \in DOMAIN uuids /\ Runs(live[k].stream, uuids[k].attempt.item)
    BY <1>1 DEF FileInv
  <2>2. uuids'[k] = uuids[k]
    <3>1. CASE \E i \in Items : k = SuiteKey(i)
      BY <1>1, <1>2, <2>1, <3>1
    <3>2. CASE \A i \in Items : k # SuiteKey(i)
      BY <1>1, <2>1, <3>2
    <3> QED
      BY <3>1, <3>2
  <2> QED
    BY <1>1, <2>1, <2>2
<1> QED
  BY <1>4, <1>5, <1>6 DEF FileInv

LEMMA FileStep == ASSUME LifecycleInv, [Next]_vars PROVE FileInv'
<1> USE DEF LifecycleInv
<1>1. ASSUME NEW s \in Streams, NEW scope \in Around, Starting(s, scope) \/ Ending(s, scope)
      PROVE  FileInv'
  BY <1>1, FilesKept DEF Starting, Ending
<1>2. ASSUME NEW s \in Streams, \/ BeginScenario(s) \/ ScenarioStarting(s) \/ MapLiveScenario(s)
                                \/ ScenarioRejected(s)
      PROVE  FileInv'
  BY <1>2, FilesKept
     DEF BeginScenario, ScenarioStarting, MapLiveScenario, ScenarioRejected, engineVars
<1>3. ASSUME NEW s \in Streams, ScenarioEnding(s)
      PROVE  FileInv'
  BY <1>3, FileEnding
<1>4. CASE Finalize
  BY <1>4, FileFinalize
<1>5. CASE Tick \/ UNCHANGED vars
  BY <1>5, FilesKept DEF Tick, vars, engineVars
<1> QED
  BY <1>1, <1>2, <1>3, <1>4, <1>5, NextCases

LEMMA OverStep == ASSUME LifecycleInv, [Next]_vars PROVE OverInv'
<1> USE DEF LifecycleInv
<1>1. ASSUME UNCHANGED <<over, live>>
      PROVE  OverInv'
  BY <1>1 DEF OverInv
<1>2. ASSUME NEW s \in Streams, NEW scope \in Around, Starting(s, scope) \/ Ending(s, scope)
      PROVE  OverInv'
  BY <1>1, <1>2 DEF Starting, Ending
<1>3. ASSUME NEW s \in Streams, BeginScenario(s) \/ ScenarioStarting(s) \/ MapLiveScenario(s)
      PROVE  OverInv'
  BY <1>1, <1>3 DEF BeginScenario, ScenarioStarting, MapLiveScenario, engineVars
<1>4. ASSUME NEW s \in Streams, NEW rejected \in BOOLEAN, Len(scopes[s]) = 3, ~QueueDone(s),
             NextAttempt(s, rejected), DOMAIN live \subseteq DOMAIN live',
             ~rejected => EndKey(s) \in DOMAIN live'
      PROVE  OverInv'
  <2>1. over' = over \cup {[attempt |-> Attempt(s), stream |-> s, rejected |-> rejected]}
    BY <1>4, NextEffect
  <2>2. Attempt(s).item = Item(s) /\ Runs(s, Item(s))
    BY <1>4, CurrentItem
  <2>3. ASSUME NEW e \in over'
        PROVE  Runs(e.stream, e.attempt.item) /\ (~e.rejected => KeyOf(e.attempt) \in DOMAIN live')
    <3>1. CASE e \in over
      BY <1>4, <3>1 DEF OverInv
    <3>2. CASE e = [attempt |-> Attempt(s), stream |-> s, rejected |-> rejected]
      BY <1>4, <2>2, <3>2 DEF EndKey
    <3> QED
      BY <2>1, <3>1, <3>2
  <2> QED
    BY <2>3 DEF OverInv
<1>5. ASSUME NEW s \in Streams, ScenarioRejected(s)
      PROVE  OverInv'
  <2>1. /\ Len(scopes[s]) = 3 /\ ~QueueDone(s) /\ NextAttempt(s, TRUE) /\ live' = live
    BY <1>5, EndingPlace DEF ScenarioRejected, engineVars
  <2> QED
    BY <1>4, <2>1
<1>6. ASSUME NEW s \in Streams, ScenarioEnding(s)
      PROVE  OverInv'
  <2>1. /\ pc[s] = "mapped" /\ NextAttempt(s, FALSE)
        /\ DOMAIN live' = DOMAIN live \cup {EndKey(s)}
    BY <1>6, EndingEffect
  <2>2. Len(scopes[s]) = 3 /\ ~QueueDone(s)
    BY <2>1, EndingPlace
  <2> QED
    BY <1>4, <2>1, <2>2
<1>7. CASE Finalize \/ Tick \/ UNCHANGED vars
  BY <1>1, <1>7 DEF Finalize, Tick, vars, engineVars
<1> QED
  BY <1>2, <1>3, <1>5, <1>6, <1>7, NextCases

-----------------------------------------------------------------------------
(* The theorems.                                                           *)

\* The invariant of the correlation: LifecycleInv holds in every state.
THEOREM LifecycleInvariant == Spec => []LifecycleInv
<1>1. Init => LifecycleInv
  BY InitHolds
<1>2. LifecycleInv /\ [Next]_vars => LifecycleInv'
  BY TypeStep, PlaceStep, TimeStep, StartStep, FileStep, OverStep DEF LifecycleInv
<1> QED
  BY <1>1, <1>2, PTL DEF Spec

\* The variables of Lifecycle keep their types.
THEOREM WellTyped == Spec => []TypeOK
<1>1. LifecycleInv => TypeOK
  BY DEF LifecycleInv
<1> QED
  BY <1>1, LifecycleInvariant, PTL

\* In runs that do not meet both faults, a start event that replaces the start of a
\* result is that of the attempt the result describes.
THEOREM StartsAreOwn ==
    ASSUME \A mode \in FaultModes : ~({"lost", "rejected"} \subseteq mode)
    PROVE  Spec => []OwnStart
<1>1. LifecycleInv => OwnStart
  BY DEF LifecycleInv, TypeOK, StartInv, BothFaults
<1> QED
  BY <1>1, LifecycleInvariant, PTL

\* The start events that are kept are of open scopes and of rejected callbacks.
THEOREM StartsOfOpenScopes == Spec => []StartsInUse
<1>1. LifecycleInv => StartsInUse
  BY DEF LifecycleInv, StartInv
<1> QED
  BY <1>1, LifecycleInvariant, PTL

\* The range kept of an attempt starts before it stops and, with a timestamp of Gauge,
\* is over.
THEOREM KeptRangeSound == Spec => []LiveRangeSound
<1>1. LifecycleInv => LiveRangeSound
  BY DEF LifecycleInv, TimeInv
<1> QED
  BY <1>1, LifecycleInvariant, PTL

\* Attempts do not share a result, and each whose callback was taken has one.
THEOREM OneResultPerAttempt == Spec => []AttemptsApart
<1>1. ASSUME LifecycleInv, NEW e \in over, ~e.rejected
      PROVE  Cardinality({u \in DOMAIN files : files[u].attempt = e.attempt}) = 1
  <2> USE <1>1 DEF LifecycleInv
  <2>1. e.attempt \in Attempts
    BY DEF TypeOK
  <2> DEFINE k == KeyOf(e.attempt)
             w == uuids[k]
  <2>2. k \in DOMAIN uuids /\ KeyOf(w.attempt) = k /\ w \in DOMAIN files
    BY <1>1 DEF OverInv, FileInv
  <2>3. w.attempt \in Attempts
    BY <2>2 DEF TypeOK, IsMap, UUIDs
  <2>4. w.attempt = e.attempt
    BY <2>1, <2>2, <2>3, KeyApart
  <2>5. ASSUME NEW u \in DOMAIN files
        PROVE  files[u].attempt = e.attempt <=> u = w
    <3>1. FileOK(u)
      BY DEF FileInv
    <3> QED
      BY <2>4, <3>1 DEF FileOK
  <2>6. {u \in DOMAIN files : files[u].attempt = e.attempt} = {w}
    BY <2>2, <2>5
  <2> QED
    BY <2>6, FS_Singleton
<1>2. LifecycleInv => AttemptsApart
  BY <1>1 DEF AttemptsApart
<1> QED
  BY <1>2, LifecycleInvariant, PTL

\* The final version of a result has the times of the snapshot that it replaces.
THEOREM SnapshotTimesKept == Spec => TimesKept
<1>1. ASSUME LifecycleInv, [Next]_vars, NEW u \in DOMAIN files, files'[u].final, ~files[u].final
      PROVE  files'[u].range = files[u].range
  <2> USE <1>1 DEF LifecycleInv
  <2>1. FileOK(u)
    BY DEF FileInv
  <2>2. CASE Finalize
    <3>1. files'[u] # files[u]
      BY <1>1
    <3>2. PICK i \in Items : u = SuiteUUID(i)
      BY <2>2, <3>1, FinalizeEffect
    <3>3. files'[u] = SuiteResult(i) /\ KeyOf(u.attempt) = SuiteKey(i)
      BY <2>2, <3>2, FinalizeEffect, SuiteFacts
    <3>4. SuiteKey(i) \in DOMAIN live /\ live[SuiteKey(i)].range = files[u].range
      BY <1>1, <2>1, <3>3 DEF FileOK
    <3> QED
      BY <3>3, <3>4 DEF SuiteResult
  <2>3. ASSUME NEW s \in Streams, ScenarioEnding(s)
        PROVE  FALSE
    <3>1. /\ files'[EndUUID(s)] = EndFile(s)
          /\ u # EndUUID(s) => files'[u] = files[u]
      BY <2>3, EndingEffect
    <3>2. EndFile(s).final = FALSE
      BY DEF EndFile
    <3> QED
      BY <1>1, <3>1, <3>2
  <2>4. CASE files' = files
    BY <1>1, <2>4
  <2>5. \/ Finalize \/ files' = files
        \/ \E s \in Streams : ScenarioEnding(s)
    <3>1. ASSUME NEW s \in Streams, NEW scope \in Around, Starting(s, scope) \/ Ending(s, scope)
          PROVE  files' = files
      BY <3>1 DEF Starting, Ending
    <3>2. ASSUME NEW s \in Streams, \/ BeginScenario(s) \/ ScenarioStarting(s)
                                    \/ MapLiveScenario(s) \/ ScenarioRejected(s)
          PROVE  files' = files
      BY <3>2 DEF BeginScenario, ScenarioStarting, MapLiveScenario, ScenarioRejected, engineVars
    <3>3. CASE Tick \/ UNCHANGED vars
      BY <3>3 DEF Tick, vars, engineVars
    <3> QED
      BY <1>1, <3>1, <3>2, <3>3, NextCases
  <2> QED
    BY <2>2, <2>3, <2>4, <2>5
<1>2. LifecycleInv /\ [Next]_vars =>
         [\A u \in DOMAIN files :
             files'[u].final /\ ~files[u].final => files'[u].range = files[u].range]_vars
  BY <1>1
<1> QED
  BY <1>2, LifecycleInvariant, PTL DEF Spec, TimesKept

\* A final result is labelled with the stream that ran its attempt.
THEOREM ThreadOfAttempt == Spec => []ThreadKept
<1>1. ASSUME LifecycleInv, NEW e \in over, ~e.rejected,
             NEW u \in DOMAIN files, files[u].attempt = e.attempt, finalized
      PROVE  files[u].stream = e.stream
  <2> USE <1>1 DEF LifecycleInv
  <2>1. Runs(e.stream, e.attempt.item) /\ KeyOf(e.attempt) \in DOMAIN live
    BY <1>1 DEF OverInv
  <2>2. Runs(files[u].stream, e.attempt.item)
    BY <1>1, <2>1 DEF FileInv, FileOK
  <2>3. e.stream \in Streams /\ files[u].stream \in Streams
    BY <2>1, <2>2 DEF Runs
  <2> QED
    BY <2>1, <2>2, <2>3, OneStream
<1>2. LifecycleInv => ThreadKept
  BY <1>1 DEF ThreadKept
<1> QED
  BY <1>2, LifecycleInvariant, PTL

\* Where no scenario has both a table of its own and one of its specification, history
\* identities are those of the rows.
THEOREM HistoryOfRow ==
    ASSUME \A i \in Items : ~(i.specTable /\ i.scenarioTable)
    PROVE  Spec => []HistoryIdentifiesRow
<1> DEFINE Shown(u) == files[u].final \/ ~files[u].attempt.item.specTable
\* A history names the scenario and, where it has one, the row of its table.
<1>1. ASSUME NEW i \in Items, NEW j \in Items, NEW f \in BOOLEAN, NEW g \in BOOLEAN,
             f \/ ~i.specTable, g \/ ~j.specTable
      PROVE  HistoryID(i, f) = HistoryID(j, g) <=> i = j
  <2>1. ASSUME i = j
        PROVE  HistoryID(i, f) = HistoryID(j, g)
    BY <1>1, <2>1 DEF HistoryID, Logical
  <2>2. ASSUME HistoryID(i, f) = HistoryID(j, g)
        PROVE  i = j
    <3>1. i.scenario = j.scenario /\ Logical(i, f) = Logical(j, g)
      BY <2>2 DEF HistoryID
    <3>2. i.specTable = j.specTable /\ i.scenarioTable = j.scenarioTable
      BY <3>1, ItemAssumption
    <3>3. i.specRow = j.specRow /\ i.scenarioRow = j.scenarioRow
      <4>1. CASE i.scenarioTable
        <5>1. i.scenarioRow = j.scenarioRow
          BY <3>1, <3>2, <4>1 DEF Logical
        <5>2. i.specRow = 0 /\ j.specRow = 0
          BY <3>2, <4>1, ItemAssumption
        <5> QED
          BY <5>1, <5>2
      <4>2. CASE ~i.scenarioTable /\ i.specTable
        <5>1. i.specRow = j.specRow
          BY <1>1, <3>1, <3>2, <4>2 DEF Logical
        <5>2. i.scenarioRow = 0 /\ j.scenarioRow = 0
          BY <3>2, <4>2, ItemAssumption
        <5> QED
          BY <5>1, <5>2
      <4>3. CASE ~i.scenarioTable /\ ~i.specTable
        BY <3>2, <4>3, ItemAssumption
      <4> QED
        BY <4>1, <4>2, <4>3
    <3> QED
      BY <3>1, <3>2, <3>3, ItemFields
  <2> QED
    BY <2>1, <2>2
<1>2. ASSUME LifecycleInv, NEW u \in DOMAIN files
      PROVE  /\ files[u].attempt.item \in Items /\ files[u].final \in BOOLEAN
             /\ files[u].history = HistoryID(files[u].attempt.item, files[u].final)
  <2>1. FileOK(u)
    BY <1>2 DEF LifecycleInv, FileInv
  <2>2. files[u].attempt \in Attempts /\ files[u].final \in BOOLEAN
    BY <1>2 DEF LifecycleInv, TypeOK, IsMap, Results
  <2> QED
    BY <2>1, <2>2 DEF FileOK, Attempts
<1>3. ASSUME LifecycleInv, NEW u \in DOMAIN files, NEW v \in DOMAIN files, Shown(u), Shown(v)
      PROVE  files[u].history = files[v].history
                <=> files[u].attempt.item = files[v].attempt.item
  BY <1>1, <1>2, <1>3
<1>4. LifecycleInv => HistoryIdentifiesRow
  BY <1>3 DEF HistoryIdentifiesRow
<1> QED
  BY <1>4, LifecycleInvariant, PTL

\* Where every scenario that the table of its specification drives has a table of its own,
\* all results of a row have one history identity: only the rows that the snapshot cannot
\* see, those of the run RetriesGrouped, tell retries apart.
THEOREM RetriesShareHistory ==
    ASSUME \A i \in Items : i.specTable => i.scenarioTable
    PROVE  Spec => []RetriesGrouped
<1>1. ASSUME NEW i \in Items, NEW f, NEW g
      PROVE  HistoryID(i, f) = HistoryID(i, g)
  BY DEF HistoryID, Logical
<1>2. ASSUME LifecycleInv, NEW u \in DOMAIN files, NEW v \in DOMAIN files,
             files[u].attempt.item = files[v].attempt.item
      PROVE  files[u].history = files[v].history
  <2>1. FileOK(u) /\ FileOK(v)
    BY <1>2 DEF LifecycleInv, FileInv
  <2>2. files[u].attempt \in Attempts
    BY <1>2 DEF LifecycleInv, TypeOK, IsMap, Results
  <2>3. files[u].attempt.item \in Items
    BY <2>2 DEF Attempts
  <2> QED
    BY <1>1, <1>2, <2>1, <2>3 DEF FileOK
<1>3. LifecycleInv => RetriesGrouped
  BY <1>2 DEF RetriesGrouped
<1> QED
  BY <1>3, LifecycleInvariant, PTL
=============================================================================
