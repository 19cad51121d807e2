---------------------------- MODULE MappingProofs ----------------------------
(***************************************************************************)
(* Theorems about Mapping, for every nesting depth, every number of items, *)
(* every width of the integers and all evidence, modes and times.  What is *)
(* nested in a step is known by its statuses, and an invocation of         *)
(* mapItems by its frame, so no proof is an induction over the tree.       *)
(***************************************************************************)
EXTENDS Mapping, SequenceTheorems, TLAPS

Sound(range) == range.start <= range.stop

\* The steps follow each other between two times.
Laid(steps, from, to) ==
    /\ from <= to
    /\ \A k \in DOMAIN steps :
          from <= steps[k].start /\ steps[k].start <= steps[k].stop /\ steps[k].stop <= to
    /\ \A k, l \in DOMAIN steps : k < l => steps[k].stop <= steps[l].start

\* Nothing but passed steps is nested in those that passed.
HonestStep(s) == s.status = "passed" => s.below \subseteq {"passed"}
Honest(steps) == \A k \in DOMAIN steps : HonestStep(steps[k])

\* Not all of the steps passed.
Odd(steps) == \E k \in DOMAIN steps : steps[k].status # "passed"

\* No step leaves a sound range.
Inside(steps, range) ==
    \A k \in DOMAIN steps :
        range.start <= steps[k].start /\ (Sound(range) => steps[k].stop <= range.stop)

\* What may follow at a cursor: a range that starts there or later and does not
\* leave the parent.
Fits(range, from, parent) ==
    from <= range.start /\ Sound(range) /\ (Sound(parent) => range.stop <= parent.stop)

\* A frame that lays its steps out in the range parent, from a time on.
FrameOK(frame, from, parent) ==
    /\ 1 <= parent.start /\ parent.start <= from
    /\ Sound(parent) => frame.cursor <= parent.stop
    /\ Laid(frame.steps, from, frame.cursor)
    /\ Honest(frame.steps)

\* Parent, of a frame of a scenario with that range.
ParentIn(frame, range) == IF frame.owner = None THEN range ELSE frame.owner.range

\* The invocations for a section that starts at from: each concept fits at the
\* cursor of the invocation that its step will join.
StackOK(frames, from, range) ==
    /\ \A i \in 1 .. Len(frames) : frames[i].owner = None <=> i = 1
    /\ Len(frames) > 0 => FrameOK(frames[1], from, range)
    /\ \A i \in 2 .. Len(frames) :
          /\ FrameOK(frames[i], frames[i].owner.range.start, frames[i].owner.range)
          /\ Fits(frames[i].owner.range, frames[i - 1].cursor, ParentIn(frames[i - 1], range))

\* Where the section in hand starts.
Base == IF Mode(Section) = "fixtures" THEN scenario.range.start ELSE at

RangeInv ==
    /\ 1 <= specRange.start /\ 1 <= cursor
    /\ scenario # None => /\ 1 <= scenario.range.start /\ scenario.range.start <= at
                          /\ Sound(scenario.range) => at <= scenario.range.stop

StackInv ==
    /\ left # <<>> => scenario # None
    /\ stack # <<>> => /\ left # <<>> /\ Section \in SectionNames
                       /\ StackOK(stack, Base, scenario.range)

DoneInv ==
    /\ scenario # None => /\ Laid(groups, scenario.range.start, at)
                          /\ Inside(fixtures, scenario.range)
    /\ scenario = None /\ returned = "no" => groups = <<>> /\ fixtures = <<>>
    /\ Honest(groups) /\ Honest(fixtures)

TimelineInv ==
    /\ scenario # None => scenario.range.stop <= cursor
    /\ \A i \in DOMAIN results : results[i].stop <= cursor
    /\ scenario # None /\ ~scenario.found =>
          \A i \in DOMAIN results : results[i].stop <= scenario.range.start
    /\ FallbackAfterEarlier

ExplainInv ==
    /\ ~config.strict =>
          ((\E s \in SectionNames : failures[s] # None) =>
              \/ Odd(groups) \/ Odd(fixtures)
              \/ \E i \in DOMAIN stack : Odd(stack[i].steps))
    /\ FailedExplained

MappingInv == TypeOK /\ RangeInv /\ StackInv /\ DoneInv /\ TimelineInv /\ ExplainInv

-----------------------------------------------------------------------------
(* Times.                                                                  *)

LEMMA LimitFact == Limit \in Nat
  BY NumberAssumption

\* Addition wraps around and stays in the width.
LEMMA PlusInTimes ==
    ASSUME Limit > 0, NEW a \in Times, NEW b \in Times
    PROVE  Plus(a, b) \in Times
<1> DEFINE r == (a + b + Limit) % (2 * Limit)
<1>1. Limit \in Nat /\ a + b + Limit \in Int /\ 2 * Limit \in Nat \ {0}
  BY LimitFact DEF Times
<1>2. r \in 0 .. 2 * Limit - 1
  <2> HIDE DEF r
  <2>1. \A x \in Int, y \in Nat \ {0} : x % y \in 0 .. y - 1
    OBVIOUS
  <2> QED
    BY <1>1, <2>1 DEF r
<1> HIDE DEF r
<1>3. Plus(a, b) = r - Limit
  BY DEF Plus, r
<1> QED
  BY <1>1, <1>2, <1>3 DEF Times

\* A range resolved from a timestamp does not end before it starts.
LEMMA LiveRangeFacts ==
    ASSUME NEW r \in LiveRanges
    PROVE  r \in Ranges /\ 1 <= r.start /\ Sound(r) /\ Limit > 0
<1>1. PICK s \in Starts, d \in Durations : r = Resolve(s, d)
  BY DEF LiveRanges
<1>2. s \in Times /\ 1 <= s /\ d \in Times /\ Limit > 0 /\ 0 \in Times
  BY NumberAssumption DEF Times
<1>3. Greater(d, 0) \in Times
  BY <1>2 DEF Greater
<1>4. Plus(s, Greater(d, 0)) \in Times
  BY <1>2, <1>3, PlusInTimes
<1>5. Greater(s, Plus(s, Greater(d, 0))) \in Times /\ s <= Greater(s, Plus(s, Greater(d, 0)))
  BY <1>2, <1>4 DEF Greater, Times
<1> QED
  BY <1>1, <1>2, <1>5 DEF Resolve, Ranges, Sound

\* The range of a step starts at the cursor it is given and fits in its parent.
LEMMA StepRangeFacts ==
    ASSUME NEW from \in Times, NEW duration \in Times, NEW parent \in Ranges,
           1 <= parent.start, parent.start <= from,
           Sound(parent) => from <= parent.stop
    PROVE  /\ StepRange(from, duration, parent) \in Ranges
           /\ StepRange(from, duration, parent).start = from
           /\ Fits(StepRange(from, duration, parent), from, parent)
<1> DEFINE end == Plus(from, Greater(duration, 0))
           child == Clamp([start |-> from, stop |-> end], parent)
<1>1. Limit > 0 /\ parent.start \in Times /\ parent.stop \in Times /\ 0 \in Times
  BY LimitFact DEF Times, Ranges
<1>2. end \in Times
  BY <1>1, PlusInTimes DEF Greater
<1> HIDE DEF end
<1>3. child.start = from /\ child.stop \in Times /\ from <= child.stop
      /\ child = [start |-> child.start, stop |-> child.stop]
  BY <1>1, <1>2 DEF Clamp, Greater, Smaller, Times
<1>4. Sound(parent) => child.stop <= parent.stop
  BY <1>1, <1>2 DEF Clamp, Greater, Smaller, Times, Sound
<1> HIDE DEF child
<1>5. StepRange(from, duration, parent) =
        IF child.stop = child.start /\ parent.stop > child.start
        THEN [child EXCEPT !.stop = Smaller(parent.stop, child.start + 1)]
        ELSE child
  BY DEF StepRange, child, end
<1>6. CASE child.stop = child.start /\ parent.stop > child.start
  <2>1. Smaller(parent.stop, from + 1) = from + 1 /\ from + 1 \in Times
    BY <1>1, <1>3, <1>6, LimitFact DEF Smaller, Times
  <2>2. StepRange(from, duration, parent) = [start |-> from, stop |-> from + 1]
    BY <1>3, <1>5, <1>6, <2>1
  <2> QED
    BY <1>1, <1>3, <1>6, <2>1, <2>2 DEF Fits, Sound, Ranges, Times
<1>7. CASE ~(child.stop = child.start /\ parent.stop > child.start)
  <2>1. StepRange(from, duration, parent) = child
    BY <1>5, <1>7
  <2> QED
    BY <1>3, <1>4, <2>1 DEF Fits, Sound, Ranges, Times
<1> QED
  BY <1>6, <1>7

\* The range of a scenario that no callback has reported starts at the cursor.
LEMMA FallbackFacts ==
    ASSUME Limit > 0, NEW from \in Times, NEW duration \in Times, specRange \in Ranges
    PROVE  FallbackRange(from, duration) \in Ranges /\ FallbackRange(from, duration).start = from
<1>1. Greater(duration, 0) \in Times
  BY LimitFact DEF Greater, Times
<1>2. Plus(from, Greater(duration, 0)) \in Times /\ specRange.stop \in Times
  BY <1>1, PlusInTimes DEF Ranges
<1> QED
  BY <1>2 DEF FallbackRange, Smaller, Ranges

-----------------------------------------------------------------------------
(* Statuses.                                                               *)

LEMMA StepStatusFacts ==
    ASSUME NEW e \in StepEvidence
    PROVE  /\ FromStep(e) \in Statuses
           /\ e.given /\ e.executed /\ e.failed => FromStep(e) # "passed" /\ e.kind \in ErrorKinds
<1> e.kind \in ErrorKinds
  BY EvidenceAssumption
<1> QED
  BY DEF FromStep, FromExecutionStatus, Statuses, ErrorKinds

LEMMA AggregateFacts ==
    ASSUME NEW children \in SUBSET Statuses
    PROVE  /\ AggregateStepStatus(children) \in Statuses
           /\ AggregateStepStatus(children) = "passed" => children \subseteq {"passed"}
  BY DEF AggregateStepStatus, Statuses

\* A concept that passed has no child that did not.
LEMMA ConceptStatusFacts ==
    ASSUME NEW status \in Statuses, NEW children \in SUBSET Statuses
    PROVE  /\ ConceptStatus(status, children) \in Statuses
           /\ ConceptStatus(status, children) = "passed" => children \subseteq {"passed"}
  BY AggregateFacts DEF ConceptStatus

-----------------------------------------------------------------------------
(* Sequences of steps.                                                     *)

\* A step that fits at the end is laid out after the others.
LEMMA LaidAppend ==
    ASSUME NEW steps \in Seq(Steps), NEW from \in Times, NEW to \in Times, NEW s \in Steps,
           Laid(steps, from, to), to <= s.start, s.start <= s.stop
    PROVE  Laid(Append(steps, s), from, s.stop)
<1> DEFINE all == Append(steps, s)
<1>1. /\ Len(steps) \in Nat
      /\ DOMAIN steps = 1 .. Len(steps) /\ DOMAIN all = 1 .. Len(steps) + 1
      /\ all[Len(steps) + 1] = s /\ \A k \in 1 .. Len(steps) : all[k] = steps[k] /\ steps[k] \in Steps
  OBVIOUS
<1>2. \A t \in Steps : t.start \in Int /\ t.stop \in Int
  BY LimitFact DEF Steps, Times
<1>3. from \in Int /\ to \in Int /\ s.start \in Int /\ s.stop \in Int
  BY <1>2, LimitFact DEF Times
<1> HIDE DEF all
<1>4. from <= s.stop
  BY <1>3 DEF Laid
<1>5. ASSUME NEW k \in DOMAIN all
      PROVE  from <= all[k].start /\ all[k].start <= all[k].stop /\ all[k].stop <= s.stop
  BY <1>1, <1>2, <1>3, <1>5 DEF Laid
<1>6. ASSUME NEW k \in DOMAIN all, NEW l \in DOMAIN all, k < l
      PROVE  all[k].stop <= all[l].start
  BY <1>1, <1>2, <1>3, <1>6 DEF Laid
<1> QED
  BY <1>4, <1>5, <1>6 DEF Laid, all

\* Two layouts of which the second starts where the first ends.
LEMMA LaidConcat ==
    ASSUME NEW s \in Seq(Steps), NEW t \in Seq(Steps),
           NEW from \in Times, NEW mid \in Times, NEW to \in Times,
           Laid(s, from, mid), Laid(t, mid, to)
    PROVE  Laid(s \o t, from, to)
<1> DEFINE all == s \o t
<1>1. /\ Len(s) \in Nat /\ Len(t) \in Nat
      /\ DOMAIN s = 1 .. Len(s) /\ DOMAIN t = 1 .. Len(t)
      /\ DOMAIN all = 1 .. Len(s) + Len(t)
      /\ \A k \in 1 .. Len(s) : s[k] \in Steps
      /\ \A k \in 1 .. Len(t) : t[k] \in Steps
      /\ \A k \in DOMAIN all : all[k] = IF k <= Len(s) THEN s[k] ELSE t[k - Len(s)]
  OBVIOUS
<1>2. \A u \in Steps : u.start \in Int /\ u.stop \in Int
  BY LimitFact DEF Steps, Times
<1>3. from \in Int /\ mid \in Int /\ to \in Int /\ from <= mid /\ mid <= to
  BY LimitFact DEF Times, Laid
<1> HIDE DEF all
<1>4. ASSUME NEW k \in DOMAIN all
      PROVE  from <= all[k].start /\ all[k].start <= all[k].stop /\ all[k].stop <= to
  <2>1. CASE k <= Len(s)
    <3>1. k \in DOMAIN s /\ all[k] = s[k] /\ s[k] \in Steps
      BY <1>1, <1>4, <2>1
    <3>2. from <= s[k].start /\ s[k].start <= s[k].stop /\ s[k].stop <= mid
      BY <3>1 DEF Laid
    <3> QED
      BY <1>2, <1>3, <3>1, <3>2
  <2>2. CASE ~(k <= Len(s))
    <3>1. k - Len(s) \in DOMAIN t /\ all[k] = t[k - Len(s)] /\ t[k - Len(s)] \in Steps
      BY <1>1, <1>4, <2>2
    <3>2. /\ mid <= t[k - Len(s)].start /\ t[k - Len(s)].stop <= to
          /\ t[k - Len(s)].start <= t[k - Len(s)].stop
      BY <3>1 DEF Laid
    <3> QED
      BY <1>2, <1>3, <3>1, <3>2
  <2> QED
    BY <2>1, <2>2
<1>5. ASSUME NEW k \in DOMAIN all, NEW l \in DOMAIN all, k < l
      PROVE  all[k].stop <= all[l].start
  <2>1. CASE l <= Len(s)
    <3>1. k \in DOMAIN s /\ l \in DOMAIN s /\ all[k] = s[k] /\ all[l] = s[l]
      BY <1>1, <1>5, <2>1
    <3> QED
      BY <1>5, <3>1 DEF Laid
  <2>2. CASE k <= Len(s) /\ ~(l <= Len(s))
    <3>1. /\ k \in DOMAIN s /\ all[k] = s[k] /\ s[k] \in Steps
          /\ l - Len(s) \in DOMAIN t /\ all[l] = t[l - Len(s)] /\ t[l - Len(s)] \in Steps
      BY <1>1, <1>5, <2>2
    <3>2. s[k].stop <= mid /\ mid <= t[l - Len(s)].start
      BY <3>1 DEF Laid
    <3> QED
      BY <1>2, <1>3, <3>1, <3>2
  <2>3. CASE ~(k <= Len(s))
    <3>1. /\ k - Len(s) \in DOMAIN t /\ all[k] = t[k - Len(s)]
          /\ l - Len(s) \in DOMAIN t /\ all[l] = t[l - Len(s)]
          /\ k - Len(s) < l - Len(s)
      BY <1>1, <1>5, <2>3
    <3> QED
      BY <3>1 DEF Laid
  <2> QED
    BY <1>1, <2>1, <2>2, <2>3
<1> QED
  BY <1>3, <1>4, <1>5 DEF Laid, all

\* A group stands for its steps: its range, whether it is honest, whether it is odd.
LEMMA GroupFacts ==
    ASSUME NEW steps \in Seq(Steps), steps # <<>>
    PROVE  /\ GroupOf(steps) \in Steps
           /\ \A from, to \in Times : Laid(steps, from, to) => Laid(<<GroupOf(steps)>>, from, to)
           /\ Honest(steps) => HonestStep(GroupOf(steps))
           /\ Odd(steps) => GroupOf(steps).status # "passed"
<1> DEFINE n == Len(steps)
           g == GroupOf(steps)
<1>1. n \in Nat /\ n >= 1 /\ DOMAIN steps = 1 .. n /\ \A k \in 1 .. n : steps[k] \in Steps
  OBVIOUS
<1>2. \A u \in Steps : /\ u.start \in Int /\ u.stop \in Int /\ u.start \in Times /\ u.stop \in Times
                       /\ u.status \in Statuses /\ u.below \subseteq Statuses
  BY LimitFact DEF Steps, Times
<1>3. TopStatuses(steps) \in SUBSET Statuses /\ AllStatuses(steps) \in SUBSET Statuses
  BY <1>1, <1>2 DEF TopStatuses, AllStatuses
<1>4. /\ g.start = steps[1].start /\ g.stop = steps[n].stop
      /\ g.status = AggregateStepStatus(TopStatuses(steps))
      /\ g.below = AllStatuses(steps)
      /\ g = [start |-> g.start, stop |-> g.stop, status |-> g.status, below |-> g.below]
  BY DEF GroupOf, StepOf
<1> HIDE DEF n, g
<1>5. g \in Steps
  <2>1. g.start \in Times /\ g.stop \in Times
    BY <1>1, <1>2, <1>4
  <2>2. g.status \in Statuses /\ g.below \in SUBSET Statuses
    BY <1>3, <1>4, AggregateFacts
  <2> QED
    BY <1>4, <2>1, <2>2 DEF Steps
<1>6. ASSUME NEW from \in Times, NEW to \in Times, Laid(steps, from, to)
      PROVE  Laid(<<g>>, from, to)
  <2>1. /\ 1 \in DOMAIN steps /\ n \in DOMAIN steps
        /\ from <= steps[1].start /\ steps[1].start <= steps[1].stop
        /\ steps[n].start <= steps[n].stop /\ steps[n].stop <= to
        /\ 1 < n => steps[1].stop <= steps[n].start
    BY <1>1, <1>6 DEF Laid
  <2>2. steps[1].start <= steps[n].stop
    BY <1>1, <1>2, <2>1
  <2>3. from <= g.start /\ g.start <= g.stop /\ g.stop <= to /\ from <= to
    BY <1>4, <1>6, <2>1, <2>2 DEF Laid
  <2>4. DOMAIN <<g>> = {1} /\ <<g>>[1] = g
    OBVIOUS
  <2> QED
    BY <2>3, <2>4 DEF Laid
<1>7. ASSUME Honest(steps)
      PROVE  HonestStep(g)
  <2> SUFFICES ASSUME g.status = "passed"
               PROVE  g.below \subseteq {"passed"}
    BY DEF HonestStep
  <2>1. TopStatuses(steps) \subseteq {"passed"}
    BY <1>3, <1>4, AggregateFacts
  <2>2. \A k \in DOMAIN steps : steps[k].status = "passed"
    BY <2>1 DEF TopStatuses
  <2>3. \A k \in DOMAIN steps : steps[k].below \subseteq {"passed"}
    BY <1>7, <2>2 DEF Honest, HonestStep
  <2> QED
    BY <1>4, <2>2, <2>3 DEF AllStatuses
<1>8. ASSUME Odd(steps)
      PROVE  g.status # "passed"
  <2>1. PICK k \in DOMAIN steps : steps[k].status # "passed"
    BY <1>8 DEF Odd
  <2>2. steps[k].status \in TopStatuses(steps)
    BY DEF TopStatuses
  <2> QED
    BY <1>3, <1>4, <2>1, <2>2, AggregateFacts
<1> QED
  BY <1>5, <1>6, <1>7, <1>8 DEF g

\* What holds of each step of two sequences holds of each of both.
LEMMA StepsConcat ==
    ASSUME NEW s \in Seq(Steps), NEW t \in Seq(Steps)
    PROVE  /\ Honest(s) /\ Honest(t) => Honest(s \o t)
           /\ Odd(s) \/ Odd(t) => Odd(s \o t)
           /\ \A range \in Ranges : Inside(s, range) /\ Inside(t, range) => Inside(s \o t, range)
<1> DEFINE all == s \o t
<1>1. /\ Len(s) \in Nat /\ Len(t) \in Nat
      /\ DOMAIN s = 1 .. Len(s) /\ DOMAIN t = 1 .. Len(t)
      /\ DOMAIN all = 1 .. Len(s) + Len(t)
      /\ \A k \in DOMAIN all : all[k] = IF k <= Len(s) THEN s[k] ELSE t[k - Len(s)]
  OBVIOUS
<1> HIDE DEF all
<1>2. \A k \in DOMAIN all : \/ k \in DOMAIN s /\ all[k] = s[k]
                            \/ k - Len(s) \in DOMAIN t /\ all[k] = t[k - Len(s)]
  BY <1>1
<1>3. /\ \A k \in DOMAIN s : k \in DOMAIN all /\ all[k] = s[k]
      /\ \A k \in DOMAIN t : k + Len(s) \in DOMAIN all /\ all[k + Len(s)] = t[k]
  BY <1>1
<1>4. Honest(s) /\ Honest(t) => Honest(all)
  BY <1>2 DEF Honest
<1>5. Odd(s) \/ Odd(t) => Odd(all)
  BY <1>3 DEF Odd
<1>6. \A range \in Ranges : Inside(s, range) /\ Inside(t, range) => Inside(all, range)
  BY <1>2 DEF Inside
<1> QED
  BY <1>4, <1>5, <1>6 DEF all

-----------------------------------------------------------------------------
(* Frames.                                                                 *)

LEMMA FrameTypes ==
    /\ \A f \in Frames : /\ f.owner \in Owners \cup {None} /\ f.cursor \in Times
                         /\ f.steps \in Seq(Steps) /\ f.warned \in SUBSET Nat /\ f.ended \in BOOLEAN
    /\ \A o \in Owners : o.range \in Ranges /\ o.status \in Statuses /\ o.item \in Nat
    /\ \A r \in Ranges : r.start \in Times /\ r.stop \in Times
    /\ \A t \in Times : t \in Int
    /\ \A u \in Steps : u.start \in Times /\ u.stop \in Times /\ u.status \in Statuses
  BY LimitFact DEF Frames, Owners, Ranges, Times, Steps

\* What Appended does to a frame.
LEMMA AppendedFacts ==
    ASSUME NEW f \in Frames, NEW s \in Steps, NEW warned \in SUBSET Nat,
           f.cursor <= s.start, s.start <= s.stop
    PROVE  /\ Appended(f, s, warned) \in Frames
           /\ Appended(f, s, warned).owner = f.owner
           /\ Appended(f, s, warned).cursor = s.stop
           /\ Appended(f, s, warned).steps = Append(f.steps, s)
<1>1. f.cursor <= s.stop
  BY FrameTypes
<1>2. Greater(f.cursor, s.stop) = s.stop
  BY <1>1, FrameTypes DEF Greater
<1>3. Append(f.steps, s) \in Seq(Steps)
  BY FrameTypes, AppendProperties
<1> DEFINE g == Appended(f, s, warned)
<1>4. g.owner = f.owner /\ g.ended = f.ended
  BY DEF Appended, Frames
<1>5. g.steps = Append(f.steps, s)
  BY DEF Appended, Frames
<1>6. g.cursor = s.stop
  BY <1>2 DEF Appended, Frames
<1>7. g.warned = warned
  BY DEF Appended, Frames
<1>8. [f EXCEPT !.steps = Append(@, s), !.cursor = s.stop, !.warned = warned] \in Frames
  BY <1>3, FrameTypes DEF Frames
<1>9. g \in Frames
  BY <1>2, <1>8 DEF Appended
<1> QED
  BY <1>4, <1>5, <1>6, <1>9 DEF g

\* A step that fits may join a frame.
LEMMA FrameAppend ==
    ASSUME NEW f \in Frames, NEW s \in Steps, NEW warned \in SUBSET Nat,
           NEW from \in Times, NEW parent \in Ranges,
           FrameOK(f, from, parent), Fits(s, f.cursor, parent), HonestStep(s)
    PROVE  FrameOK(Appended(f, s, warned), from, parent)
<1> DEFINE g == Appended(f, s, warned)
<1>1. f.cursor <= s.start /\ s.start <= s.stop
  BY DEF Fits, Sound
<1>2. g.cursor = s.stop /\ g.steps = Append(f.steps, s)
  BY <1>1, AppendedFacts
<1> HIDE DEF g
<1>3. Laid(g.steps, from, g.cursor)
  BY <1>1, <1>2, FrameTypes, LaidAppend DEF FrameOK
<1>4. Honest(g.steps)
  <2>1. /\ f.steps \in Seq(Steps) /\ DOMAIN g.steps = 1 .. Len(f.steps) + 1
        /\ \A k \in DOMAIN g.steps : g.steps[k] = s \/ (k \in DOMAIN f.steps /\ g.steps[k] = f.steps[k])
    BY <1>2, FrameTypes
  <2> QED
    BY <2>1 DEF FrameOK, Honest
<1> QED
  BY <1>2, <1>3, <1>4 DEF FrameOK, Fits, g

\* The innermost frame and what it lays its steps out in.
TopFrom(frames, from) ==
    IF Len(frames) = 1 THEN from ELSE frames[Len(frames)].owner.range.start

LEMMA TopFacts ==
    ASSUME NEW frames \in Seq(Frames), Len(frames) > 0, NEW from \in Times, NEW range \in Ranges,
           StackOK(frames, from, range)
    PROVE  LET f == frames[Len(frames)]
           IN  /\ f \in Frames /\ ParentIn(f, range) \in Ranges /\ TopFrom(frames, from) \in Times
               /\ FrameOK(f, TopFrom(frames, from), ParentIn(f, range))
               /\ f.owner = None <=> Len(frames) = 1
<1> DEFINE n == Len(frames)
           f == frames[n]
<1>1. n \in Nat /\ n >= 1 /\ f \in Frames
  OBVIOUS
<1> HIDE DEF n
<1>2. f.owner = None <=> n = 1
  <2>1. n \in 1 .. Len(frames)
    BY <1>1 DEF n
  <2> QED
    BY <2>1 DEF StackOK
<1>3. CASE n = 1
  BY <1>1, <1>2, <1>3 DEF StackOK, n, TopFrom, ParentIn
<1>4. CASE n # 1
  <2>1. n \in 2 .. Len(frames)
    <3>1. n = Len(frames) /\ n \in Nat /\ n >= 1 /\ n # 1
      BY <1>1, <1>4 DEF n
    <3> HIDE <1>4
    <3> QED
      BY <3>1
  <2>2. f.owner \in Owners
    BY <1>1, <1>2, <1>4, FrameTypes
  <2> QED
    BY <1>1, <1>2, <1>4, <2>1, <2>2, FrameTypes DEF StackOK, n, TopFrom, ParentIn
<1> QED
  BY <1>1, <1>2, <1>3, <1>4 DEF n

\* The innermost frame is replaced by one of the same owner.
LEMMA ReplaceTop ==
    ASSUME NEW frames \in Seq(Frames), Len(frames) > 0, NEW from \in Times, NEW range \in Ranges,
           StackOK(frames, from, range),
           NEW g \in Frames, g.owner = frames[Len(frames)].owner,
           FrameOK(g, TopFrom(frames, from), ParentIn(g, range))
    PROVE  /\ [frames EXCEPT ![Len(frames)] = g] \in Seq(Frames)
           /\ Len([frames EXCEPT ![Len(frames)] = g]) = Len(frames)
           /\ StackOK([frames EXCEPT ![Len(frames)] = g], from, range)
<1> DEFINE n == Len(frames)
           new == [frames EXCEPT ![n] = g]
<1>1. /\ n \in Nat /\ n >= 1
      /\ new \in Seq(Frames) /\ Len(new) = n /\ new[n] = g
      /\ \A i \in 1 .. n : i # n => new[i] = frames[i]
  BY ExceptSeq
<1> HIDE DEF n, new
<1>2. \A i \in 1 .. n : new[i].owner = frames[i].owner
  BY <1>1 DEF n
<1>3. \A i \in 1 .. n : new[i].owner = None <=> i = 1
  BY <1>2 DEF StackOK, n
<1>4. FrameOK(new[1], from, range)
  BY <1>1, <1>3 DEF StackOK, n, TopFrom, ParentIn
<1>5. ASSUME NEW i \in 2 .. n
      PROVE  /\ FrameOK(new[i], new[i].owner.range.start, new[i].owner.range)
             /\ Fits(new[i].owner.range, new[i - 1].cursor, ParentIn(new[i - 1], range))
  <2>1. /\ i \in 1 .. n /\ i - 1 \in 1 .. n /\ i - 1 # n /\ i # 1
        /\ new[i - 1] = frames[i - 1] /\ new[i].owner = frames[i].owner /\ new[i].owner # None
    BY <1>1, <1>2, <1>3, <1>5
  <2>2. FrameOK(new[i], new[i].owner.range.start, new[i].owner.range)
    BY <1>1, <2>1 DEF StackOK, n, TopFrom, ParentIn
  <2> QED
    BY <2>1, <2>2 DEF StackOK, n
<1> QED
  BY <1>1, <1>3, <1>4, <1>5 DEF StackOK, n, new

\* An invocation for the children of a concept that fits.
LEMMA PushFrame ==
    ASSUME NEW frames \in Seq(Frames), Len(frames) > 0, NEW from \in Times, NEW range \in Ranges,
           StackOK(frames, from, range),
           NEW owner \in Owners, 1 <= owner.range.start,
           Fits(owner.range, frames[Len(frames)].cursor, ParentIn(frames[Len(frames)], range))
    PROVE  /\ Append(frames, Frame(owner, owner.range.start)) \in Seq(Frames)
           /\ Len(Append(frames, Frame(owner, owner.range.start))) = Len(frames) + 1
           /\ StackOK(Append(frames, Frame(owner, owner.range.start)), from, range)
<1> DEFINE n == Len(frames)
           g == Frame(owner, owner.range.start)
           new == Append(frames, g)
<1>1. /\ g.owner = owner /\ g.cursor = owner.range.start /\ g.steps = <<>> /\ g \in Frames
  BY FrameTypes DEF Frame, Frames
<1>2. FrameOK(g, owner.range.start, owner.range)
  BY <1>1, FrameTypes DEF FrameOK, Laid, Honest, Fits, Sound
<1> HIDE DEF g
<1>3. /\ n \in Nat /\ n >= 1
      /\ new \in Seq(Frames) /\ Len(new) = n + 1 /\ new[n + 1] = g
      /\ \A i \in 1 .. n : new[i] = frames[i]
  BY <1>1
<1> HIDE DEF n, new
<1>4. \A i \in 1 .. n + 1 : new[i].owner = None <=> i = 1
  BY <1>1, <1>3, NoneAssumption DEF StackOK, n
<1>5. FrameOK(new[1], from, range)
  BY <1>3 DEF StackOK, n
<1>6. ASSUME NEW i \in 2 .. n + 1
      PROVE  /\ FrameOK(new[i], new[i].owner.range.start, new[i].owner.range)
             /\ Fits(new[i].owner.range, new[i - 1].cursor, ParentIn(new[i - 1], range))
  <2>1. CASE i = n + 1
    BY <1>1, <1>2, <1>3, <2>1 DEF n
  <2>2. CASE i # n + 1
    <3>1. i \in 2 .. n /\ new[i] = frames[i] /\ new[i - 1] = frames[i - 1]
      BY <1>3, <1>6, <2>2
    <3> QED
      BY <3>1 DEF StackOK, n
  <2> QED
    BY <2>1, <2>2
<1> QED
  BY <1>3, <1>4, <1>5, <1>6 DEF StackOK, n, g, new

\* The invocation for the children of a concept returns to its caller, in which
\* the step of the concept fits.
LEMMA PopFrame ==
    ASSUME NEW frames \in Seq(Frames), Len(frames) > 1, NEW from \in Times, NEW range \in Ranges,
           StackOK(frames, from, range)
    PROVE  LET below == SubSeq(frames, 1, Len(frames) - 1)
               caller == below[Len(below)]
               owner == frames[Len(frames)].owner
           IN  /\ below \in Seq(Frames) /\ Len(below) = Len(frames) - 1
               /\ \A i \in 1 .. Len(below) : below[i] = frames[i]
               /\ StackOK(below, from, range)
               /\ owner \in Owners
               /\ Fits(owner.range, caller.cursor, ParentIn(caller, range))
<1> DEFINE n == Len(frames)
           below == SubSeq(frames, 1, n - 1)
<1>1. n \in Nat /\ n >= 2 /\ \A i \in 1 .. n : frames[i] \in Frames
  OBVIOUS
<1>2. /\ below \in Seq(Frames) /\ Len(below) = n - 1
      /\ \A i \in 1 .. n - 1 : below[i] = frames[i]
  BY <1>1, SubSeqProperties
<1> HIDE DEF n, below
<1>3. StackOK(below, from, range)
  BY <1>1, <1>2 DEF StackOK, n
<1>4. frames[n].owner \in Owners
  BY <1>1, FrameTypes DEF StackOK, n
<1>5. Fits(frames[n].owner.range, frames[n - 1].cursor, ParentIn(frames[n - 1], range))
  BY <1>1 DEF StackOK, n
<1> QED
  BY <1>1, <1>2, <1>3, <1>4, <1>5 DEF n, below

-----------------------------------------------------------------------------
(* Steps.                                                                  *)

\* What is unchanged when an item is mapped.
ItemFrame == <<config, specRange, cursor, at, groups, fixtures, warnings, results>>

LEMMA BaseFacts ==
    ASSUME MappingInv, stack # <<>>
    PROVE  /\ scenario \in Scenarios /\ scenario.range \in Ranges /\ Base \in Times
           /\ left # <<>> /\ Section \in SectionNames
           /\ StackOK(stack, Base, scenario.range)
           /\ stack \in Seq(Frames) /\ Len(stack) > 0
  BY DEF MappingInv, TypeOK, StackInv, Scenarios, Ranges, Base

\* The stack after attachStep: the step has joined the innermost frame, that
\* frame has ended early, or the suite is given up.
LEMMA AttachStack ==
    ASSUME MappingInv, stack # <<>>, UNCHANGED <<config, at>>,
           NEW frames \in Seq(Frames), Len(frames) > 0,
           Len(frames) <= MaximumNestingDepth + 1,
           StackOK(frames, Base, scenario.range),
           NEW s \in Steps, HonestStep(s),
           Fits(s, frames[Len(frames)].cursor, ParentIn(frames[Len(frames)], scenario.range)),
           NEW item \in Nat, NEW warned \in SUBSET Nat, NEW fails \in BOOLEAN,
           Attach(frames, item, s, warned, fails)
    PROVE  \/ /\ config.strict /\ returned' = "error"
              /\ stack' = <<>> /\ scenario' = None /\ left' = <<>>
           \/ /\ UNCHANGED <<scenario, left, returned>>
              /\ stack' \in Seq(Frames) /\ Len(stack') = Len(frames)
              /\ StackOK(stack', Base, scenario.range)
              /\ ~config.strict =>
                    /\ \A i \in 1 .. Len(frames) : Odd(frames[i].steps) => Odd(stack'[i].steps)
                    /\ s.status # "passed" => Odd(stack'[Len(frames)].steps)
<1> DEFINE n == Len(frames)
           top == frames[n]
           parent == ParentIn(top, scenario.range)
           all == IF fails THEN warned \cup {item} ELSE warned
<1>1. scenario.range \in Ranges /\ Base \in Times
  BY BaseFacts
<1>2. /\ top \in Frames /\ parent \in Ranges /\ TopFrom(frames, Base) \in Times
      /\ FrameOK(top, TopFrom(frames, Base), parent)
  BY <1>1, TopFacts
<1>3. n \in Nat /\ n >= 1
  OBVIOUS
<1>4. CASE fails /\ config.strict
  <2>1. FailItems(frames)
    BY <1>4 DEF Attach
  <2>2. CASE n = 1
    BY <1>4, <2>1, <2>2 DEF FailItems
  <2>3. CASE n # 1
    <3> DEFINE g == [top EXCEPT !.ended = TRUE]
    <3>1. stack' = [frames EXCEPT ![n] = g] /\ UNCHANGED <<scenario, left, returned>>
      BY <2>1, <2>3 DEF FailItems
    <3>2. g \in Frames /\ g.owner = top.owner /\ g.cursor = top.cursor /\ g.steps = top.steps
      BY <1>2 DEF Frames
    <3> HIDE DEF g
    <3>3. FrameOK(g, TopFrom(frames, Base), ParentIn(g, scenario.range))
      BY <1>2, <3>2 DEF FrameOK, ParentIn
    <3>4. /\ [frames EXCEPT ![n] = g] \in Seq(Frames)
          /\ Len([frames EXCEPT ![n] = g]) = n
          /\ StackOK([frames EXCEPT ![n] = g], Base, scenario.range)
      BY <1>1, <3>2, <3>3, ReplaceTop
    <3> QED
      BY <1>4, <3>1, <3>4
  <2> QED
    BY <2>2, <2>3
<1>5. CASE ~(fails /\ config.strict)
  <2> DEFINE g == Appended(top, s, all)
  <2>1. stack' = [frames EXCEPT ![n] = g] /\ UNCHANGED <<scenario, left, returned>>
    BY <1>5 DEF Attach
  <2>2. all \in SUBSET Nat
    OBVIOUS
  <2> HIDE DEF all
  <2>3. /\ g \in Frames /\ g.owner = top.owner /\ g.steps = Append(top.steps, s)
        /\ FrameOK(g, TopFrom(frames, Base), parent)
    <3>1. top.cursor <= s.start /\ s.start <= s.stop
      BY DEF Fits, Sound
    <3> HIDE DEF top, parent
    <3>2. g \in Frames /\ g.owner = top.owner /\ g.steps = Append(top.steps, s)
      BY <1>2, <2>2, <3>1, AppendedFacts
    <3>3. Fits(s, top.cursor, parent)
      BY DEF top, parent
    <3> QED
      BY <1>2, <2>2, <3>2, <3>3, FrameAppend
  <2> HIDE DEF g
  <2>4. ParentIn(g, scenario.range) = parent
    BY <2>3 DEF ParentIn
  <2>5. /\ [frames EXCEPT ![n] = g] \in Seq(Frames)
        /\ Len([frames EXCEPT ![n] = g]) = n
        /\ StackOK([frames EXCEPT ![n] = g], Base, scenario.range)
    BY <1>1, <2>3, <2>4, ReplaceTop
  <2>6. /\ stack'[n] = g /\ \A i \in 1 .. n : i # n => stack'[i] = frames[i]
    BY <1>3, <2>1, <2>3, ExceptSeq
  <2>7. /\ Odd(top.steps) => Odd(g.steps)
        /\ s.status # "passed" => Odd(g.steps)
    <3>1. top.steps \in Seq(Steps)
      BY <1>2, FrameTypes
    <3> HIDE DEF top
    <3>2. /\ DOMAIN g.steps = 1 .. Len(top.steps) + 1 /\ g.steps[Len(top.steps) + 1] = s
          /\ Len(top.steps) \in Nat
          /\ \A k \in DOMAIN top.steps : k \in DOMAIN g.steps /\ g.steps[k] = top.steps[k]
      BY <2>3, <3>1
    <3> QED
      BY <3>2 DEF Odd
  <2>8. \A i \in 1 .. n : Odd(frames[i].steps) => Odd(stack'[i].steps)
    BY <2>6, <2>7
  <2>9. s.status # "passed" => Odd(stack'[n].steps)
    BY <2>6, <2>7
  <2> QED
    BY <2>1, <2>5, <2>8, <2>9
<1> QED
  BY <1>4, <1>5

\* Mapping an item keeps the invariant when its step fits, is honest, and
\* explains the failure that is recorded with it.
LEMMA ItemStep ==
    ASSUME MappingInv, stack # <<>>, UNCHANGED ItemFrame,
           NEW frames \in Seq(Frames), Len(frames) > 0,
           Len(frames) <= MaximumNestingDepth + 1,
           StackOK(frames, Base, scenario.range),
           NEW s \in Steps, HonestStep(s),
           Fits(s, frames[Len(frames)].cursor, ParentIn(frames[Len(frames)], scenario.range)),
           NEW item \in Nat, NEW warned \in SUBSET Nat, NEW fails \in BOOLEAN,
           Attach(frames, item, s, warned, fails),
           items' \in Nat, lost' \subseteq Nat,
           failures' \in [SectionNames -> ErrorKinds \cup {None}],
           ~config.strict /\ (\E x \in SectionNames : failures'[x] # None) =>
               \/ Odd(groups) \/ Odd(fixtures) \/ s.status # "passed"
               \/ \E i \in 1 .. Len(frames) : Odd(frames[i].steps)
    PROVE  MappingInv'
<1> USE DEF ItemFrame
<1>1. UNCHANGED <<config, at>>
  OBVIOUS
<1> DEFINE Same == /\ UNCHANGED <<scenario, left, returned>>
                   /\ stack' \in Seq(Frames) /\ Len(stack') = Len(frames)
                   /\ StackOK(stack', Base, scenario.range)
                   /\ ~config.strict =>
                         /\ \A i \in 1 .. Len(frames) :
                               Odd(frames[i].steps) => Odd(stack'[i].steps)
                         /\ s.status # "passed" => Odd(stack'[Len(frames)].steps)
           GivenUp == /\ config.strict /\ returned' = "error"
                      /\ stack' = <<>> /\ scenario' = None /\ left' = <<>>
<1>2. GivenUp \/ Same
  BY <1>1, AttachStack
<1>3. TypeOK'
  <2>1. 0 <= MaximumNestingDepth + 1 /\ <<>> \in Seq(Frames) /\ Len(<<>>) = 0
        /\ <<>> \in Seq(SectionNames \cup {"Hooks"})
    BY NumberAssumption
  <2>2. CASE GivenUp
    BY <2>1, <2>2 DEF MappingInv, TypeOK
  <2>3. CASE Same
    BY <2>3 DEF MappingInv, TypeOK
  <2> QED
    BY <1>2, <2>2, <2>3
<1>4. RangeInv'
  BY <1>2 DEF MappingInv, RangeInv
<1>5. StackInv'
  <2>1. CASE GivenUp
    BY <2>1 DEF StackInv
  <2>2. CASE Same
    <3>1. Base' = Base /\ Section' = Section
      BY <2>2 DEF Base, Section, Mode
    <3> QED
      BY <2>2, <3>1, BaseFacts DEF MappingInv, StackInv
  <2> QED
    BY <1>2, <2>1, <2>2
<1>6. DoneInv'
  BY <1>2 DEF MappingInv, DoneInv
<1>7. TimelineInv'
  BY <1>2 DEF MappingInv, TimelineInv, FallbackAfterEarlier
<1>8. ExplainInv'
  <2>1. FailedExplained'
    BY DEF MappingInv, ExplainInv, FailedExplained
  <2>2. CASE config.strict
    BY <2>1, <2>2 DEF ExplainInv
  <2>3. CASE ~config.strict
    <3>1. Same
      BY <1>2, <2>3
    <3>2. \A i \in 1 .. Len(frames) : Odd(frames[i].steps) => Odd(stack'[i].steps)
      BY <2>3, <3>1
    <3>3. s.status # "passed" => Odd(stack'[Len(frames)].steps)
      BY <2>3, <3>1
    <3>4. DOMAIN stack' = 1 .. Len(frames) /\ Len(frames) \in 1 .. Len(frames)
      BY <3>1
    <3> HIDE DEF Same
    <3>5. (\E x \in SectionNames : failures'[x] # None) =>
              \/ Odd(groups) \/ Odd(fixtures) \/ \E i \in DOMAIN stack' : Odd(stack'[i].steps)
      BY <2>3, <3>2, <3>3, <3>4
    <3> QED
      BY <2>1, <3>5 DEF ExplainInv
  <2> QED
    BY <2>2, <2>3
<1> QED
  BY <1>3, <1>4, <1>5, <1>6, <1>7, <1>8 DEF MappingInv

\* The range of an item starts at the cursor of the innermost invocation.
LEMMA ItemRange ==
    ASSUME MappingInv, stack # <<>>, NEW e \in StepEvidence, NEW duration \in Durations
    PROVE  LET r == StepRange(Top.cursor, DurationOf(e, duration), Parent(Top))
           IN  /\ r \in Ranges /\ r.start = Top.cursor /\ 1 <= r.start
               /\ Fits(r, Top.cursor, ParentIn(Top, scenario.range))
<1>1. /\ Top \in Frames /\ ParentIn(Top, scenario.range) \in Ranges
      /\ TopFrom(stack, Base) \in Times
      /\ FrameOK(Top, TopFrom(stack, Base), ParentIn(Top, scenario.range))
  BY BaseFacts, TopFacts DEF Top
<1>2. Parent(Top) = ParentIn(Top, scenario.range)
  BY DEF Parent, ParentIn
<1>3. 1 <= Top.cursor /\ Parent(Top).start <= Top.cursor /\ Top.cursor \in Times
  BY <1>1, <1>2, FrameTypes DEF FrameOK, Laid
<1>4. DurationOf(e, duration) \in Times
  <2>1. 0 \in Times
    BY <1>3, LimitFact DEF Times
  <2> QED
    BY <2>1, NumberAssumption DEF DurationOf
<1>5. /\ 1 <= Parent(Top).start
      /\ Sound(Parent(Top)) => Top.cursor <= Parent(Top).stop
  BY <1>1, <1>2 DEF FrameOK
<1> HIDE DEF Top
<1> QED
  BY <1>1, <1>2, <1>3, <1>4, <1>5, StepRangeFacts

\* NextItem numbers the item.
LEMMA NextItemFacts ==
    ASSUME MappingInv, NEW fails \in BOOLEAN, NextItem(fails)
    PROVE  items' \in Nat /\ lost' \subseteq Nat /\ items + 1 \in Nat
  BY DEF NextItem, MappingInv, TypeOK

LEMMA MapStepStep == ASSUME MappingInv, MapStep PROVE MappingInv'
<1>1. PICK e \in StepEvidence, duration \in Durations, fails \in BOOLEAN :
        /\ NextItem(fails)
        /\ LET range == StepRange(Top.cursor, DurationOf(e, duration), Parent(Top))
           IN  Attach(stack, items + 1, StepOf(range, FromStep(e), {}), Top.warned, fails)
        /\ failures' = IF e.given /\ e.executed /\ e.failed /\ failures[Section] = None
                       THEN [failures EXCEPT ![Section] = e.kind] ELSE failures
  BY DEF MapStep
<1> DEFINE r == StepRange(Top.cursor, DurationOf(e, duration), Parent(Top))
           s == StepOf(r, FromStep(e), {})
<1>2. stack # <<>> /\ UNCHANGED ItemFrame
  BY DEF MapStep, ItemFrame
<1>3. r \in Ranges /\ Fits(r, Top.cursor, ParentIn(Top, scenario.range))
  BY <1>2, ItemRange
<1>4. FromStep(e) \in Statuses
  BY StepStatusFacts
<1>5. Attach(stack, items + 1, s, Top.warned, fails)
  BY <1>1
<1> HIDE DEF r
<1>6. s \in Steps /\ HonestStep(s) /\ Fits(s, Top.cursor, ParentIn(Top, scenario.range))
      /\ s.status = FromStep(e)
  BY <1>3, <1>4 DEF StepOf, Steps, Ranges, HonestStep, Fits, Sound
<1> HIDE DEF s
<1>7. Top \in Frames /\ Top.warned \in SUBSET Nat
  BY <1>2, BaseFacts, FrameTypes DEF Top
<1>8. Len(stack) <= MaximumNestingDepth + 1 /\ failures \in [SectionNames -> ErrorKinds \cup {None}]
  BY DEF MappingInv, TypeOK
<1>9. failures' \in [SectionNames -> ErrorKinds \cup {None}]
  BY <1>1, <1>8, StepStatusFacts
<1>10. ASSUME ~config.strict, NEW x \in SectionNames, failures'[x] # None
       PROVE  \/ Odd(groups) \/ Odd(fixtures) \/ s.status # "passed"
              \/ \E i \in 1 .. Len(stack) : Odd(stack[i].steps)
  <2>1. CASE failures' = failures
    <3>1. DOMAIN stack = 1 .. Len(stack)
      BY <1>2, BaseFacts
    <3> QED
      BY <1>10, <2>1, <3>1 DEF MappingInv, ExplainInv
  <2>2. CASE failures' # failures
    BY <1>1, <1>6, <2>2, StepStatusFacts
  <2> QED
    BY <2>1, <2>2
<1>11. items' \in Nat /\ lost' \subseteq Nat /\ items + 1 \in Nat
  BY <1>1, NextItemFacts
<1> QED
  BY <1>2, <1>5, <1>6, <1>7, <1>8, <1>9, <1>10, <1>11, BaseFacts, ItemStep DEF Top

LEMMA CutConceptStep == ASSUME MappingInv, CutConcept PROVE MappingInv'
<1>1. PICK e \in StepEvidence, duration \in Durations, fails \in BOOLEAN,
           hidden \in ErrorKinds \cup {None} :
        /\ NextItem(fails)
        /\ LET range == StepRange(Top.cursor, DurationOf(e, duration), Parent(Top))
               status == ConceptStatus(FromStep(e), {"broken"})
           IN  Attach(stack, items + 1, StepOf(range, status, {"broken"}), {}, fails)
        /\ failures' = IF failures[Section] = None
                       THEN [failures EXCEPT ![Section] = hidden] ELSE failures
  BY DEF CutConcept
<1> DEFINE r == StepRange(Top.cursor, DurationOf(e, duration), Parent(Top))
           status == ConceptStatus(FromStep(e), {"broken"})
           s == StepOf(r, status, {"broken"})
<1>2. stack # <<>> /\ UNCHANGED ItemFrame
  BY DEF CutConcept, ItemFrame
<1>3. r \in Ranges /\ Fits(r, Top.cursor, ParentIn(Top, scenario.range))
  BY <1>2, ItemRange
<1>4. status \in Statuses /\ status # "passed" /\ {"broken"} \in SUBSET Statuses
  <2>1. FromStep(e) \in Statuses /\ {"broken"} \in SUBSET Statuses
    BY StepStatusFacts DEF Statuses
  <2> QED
    BY <2>1, ConceptStatusFacts
<1>5. Attach(stack, items + 1, s, {}, fails)
  BY <1>1
<1> HIDE DEF r, status
<1>6. s \in Steps /\ HonestStep(s) /\ Fits(s, Top.cursor, ParentIn(Top, scenario.range))
      /\ s.status # "passed"
  BY <1>3, <1>4 DEF StepOf, Steps, Ranges, HonestStep, Fits, Sound
<1> HIDE DEF s
<1>7. Len(stack) <= MaximumNestingDepth + 1 /\ failures \in [SectionNames -> ErrorKinds \cup {None}]
  BY DEF MappingInv, TypeOK
<1>8. failures' \in [SectionNames -> ErrorKinds \cup {None}]
  BY <1>1, <1>7
<1>9. items' \in Nat /\ lost' \subseteq Nat /\ items + 1 \in Nat
  BY <1>1, NextItemFacts
<1>10. {} \in SUBSET Nat
  OBVIOUS
<1> QED
  BY <1>2, <1>5, <1>6, <1>7, <1>8, <1>9, <1>10, BaseFacts, ItemStep DEF Top

LEMMA LeaveConceptStep == ASSUME MappingInv, LeaveConcept PROVE MappingInv'
<1> DEFINE owner == Top.owner
           status == ConceptStatus(owner.status, TopStatuses(Top.steps))
           s == StepOf(owner.range, status, AllStatuses(Top.steps))
           n == Len(stack)
<1>1. PICK fails \in BOOLEAN :
        /\ Attach(Below, owner.item, s, Top.warned, fails)
        /\ lost' = IF fails THEN lost \cup {owner.item} ELSE lost
  BY DEF LeaveConcept
<1>2. Len(stack) > 1 /\ UNCHANGED ItemFrame /\ items' = items /\ failures' = failures
  BY DEF LeaveConcept, ItemFrame
<1>3. stack # <<>> /\ stack \in Seq(Frames) /\ n \in Nat /\ n <= MaximumNestingDepth + 1
  BY <1>2 DEF MappingInv, TypeOK
<1>4. /\ Below \in Seq(Frames) /\ Len(Below) = n - 1
      /\ \A i \in 1 .. n - 1 : Below[i] = stack[i]
      /\ StackOK(Below, Base, scenario.range)
      /\ owner \in Owners
      /\ Fits(owner.range, Below[Len(Below)].cursor, ParentIn(Below[Len(Below)], scenario.range))
  BY <1>2, <1>3, BaseFacts, PopFrame DEF Below, Top
<1>5. /\ Top \in Frames /\ Top.warned \in SUBSET Nat /\ Top.steps \in Seq(Steps)
      /\ Honest(Top.steps)
  <2>1. Top \in Frames /\ FrameOK(Top, TopFrom(stack, Base), ParentIn(Top, scenario.range))
    BY <1>2, <1>3, BaseFacts, TopFacts DEF Top
  <2> QED
    BY <2>1, FrameTypes DEF FrameOK
<1>6. owner.range \in Ranges /\ owner.status \in Statuses /\ owner.item \in Nat
  BY <1>4, FrameTypes
<1> HIDE DEF owner
<1>7. TopStatuses(Top.steps) \in SUBSET Statuses /\ AllStatuses(Top.steps) \in SUBSET Statuses
  <2>1. \A k \in DOMAIN Top.steps : Top.steps[k] \in Steps
    BY <1>5
  <2> QED
    BY <2>1 DEF TopStatuses, AllStatuses, Steps
<1>8. status \in Statuses /\ (status = "passed" => TopStatuses(Top.steps) \subseteq {"passed"})
  BY <1>6, <1>7, ConceptStatusFacts
<1> HIDE DEF status
<1>9. /\ s.start = owner.range.start /\ s.stop = owner.range.stop
      /\ s.status = status /\ s.below = AllStatuses(Top.steps) /\ s \in Steps
  BY <1>6, <1>7, <1>8 DEF StepOf, Steps, Ranges
<1> HIDE DEF s
<1>10. status = "passed" => \A k \in DOMAIN Top.steps : Top.steps[k].status = "passed"
  BY <1>8 DEF TopStatuses
<1>11. HonestStep(s)
  BY <1>5, <1>9, <1>10 DEF HonestStep, Honest, AllStatuses
<1>12. Fits(s, Below[Len(Below)].cursor, ParentIn(Below[Len(Below)], scenario.range))
  BY <1>4, <1>9 DEF Fits, Sound
<1>13. Odd(Top.steps) => s.status # "passed"
  BY <1>9, <1>10 DEF Odd
<1>14. Len(Below) > 0 /\ Len(Below) <= MaximumNestingDepth + 1
  BY <1>2, <1>3, <1>4, NumberAssumption
<1>15. ASSUME ~config.strict, \E x \in SectionNames : failures'[x] # None
       PROVE  \/ Odd(groups) \/ Odd(fixtures) \/ s.status # "passed"
              \/ \E i \in 1 .. Len(Below) : Odd(Below[i].steps)
  <2>1. Odd(groups) \/ Odd(fixtures) \/ \E i \in 1 .. n : Odd(stack[i].steps)
    BY <1>2, <1>3, <1>15 DEF MappingInv, ExplainInv
  <2>2. ASSUME NEW i \in 1 .. n, Odd(stack[i].steps)
        PROVE  s.status # "passed" \/ \E j \in 1 .. Len(Below) : Odd(Below[j].steps)
    <3>1. CASE i = n
      BY <1>13, <2>2, <3>1 DEF Top
    <3>2. CASE i # n
      BY <1>3, <1>4, <2>2, <3>2
    <3> QED
      BY <3>1, <3>2
  <2> QED
    BY <2>1, <2>2
<1>16. /\ items' \in Nat /\ lost' \subseteq Nat
       /\ failures' \in [SectionNames -> ErrorKinds \cup {None}]
  BY <1>1, <1>2, <1>6 DEF MappingInv, TypeOK
<1> QED
  BY <1>1, <1>2, <1>3, <1>4, <1>5, <1>6, <1>9, <1>11, <1>12, <1>14, <1>15, <1>16, ItemStep

LEMMA EnterConceptStep == ASSUME MappingInv, EnterConcept PROVE MappingInv'
<1>1. PICK e \in StepEvidence, duration \in Durations :
        LET range == StepRange(Top.cursor, DurationOf(e, duration), Parent(Top))
            owner == [range |-> range, status |-> FromStep(e), item |-> items + 1]
        IN  stack' = Append(stack, Frame(owner, range.start))
  BY DEF EnterConcept
<1> DEFINE r == StepRange(Top.cursor, DurationOf(e, duration), Parent(Top))
           owner == [range |-> r, status |-> FromStep(e), item |-> items + 1]
<1>2. /\ stack # <<>> /\ Len(stack) <= MaximumNestingDepth /\ NextItem(FALSE)
      /\ UNCHANGED <<config, specRange, cursor, scenario, left, at, groups, fixtures, failures,
                     warnings, results, returned>>
  <2>1. /\ stack # <<>> /\ ~TooDeep /\ NextItem(FALSE)
        /\ UNCHANGED <<config, specRange, cursor, scenario, left, at, groups, fixtures, failures,
                       warnings, results, returned>>
    BY DEF EnterConcept
  <2>2. stack \in Seq(Frames) /\ MaximumNestingDepth \in Nat
    BY NumberAssumption DEF MappingInv, TypeOK
  <2>3. Len(stack) <= MaximumNestingDepth
    BY <2>1, <2>2 DEF TooDeep
  <2> QED
    BY <2>1, <2>3
<1>3. r \in Ranges /\ 1 <= r.start /\ Fits(r, Top.cursor, ParentIn(Top, scenario.range))
  BY <1>2, ItemRange
<1>4. items' \in Nat /\ lost' \subseteq Nat /\ items + 1 \in Nat
  BY <1>2, NextItemFacts
<1>5. stack' = Append(stack, Frame(owner, owner.range.start))
  BY <1>1
<1> HIDE DEF r
<1>6. owner \in Owners /\ owner.range = r
  BY <1>3, <1>4, StepStatusFacts DEF Owners
<1> HIDE DEF owner
<1>7. /\ stack' \in Seq(Frames) /\ Len(stack') = Len(stack) + 1
      /\ StackOK(stack', Base, scenario.range)
  BY <1>2, <1>3, <1>5, <1>6, BaseFacts, PushFrame DEF Top
<1>8. TypeOK'
  BY <1>2, <1>4, <1>7, NumberAssumption DEF MappingInv, TypeOK
<1>9. RangeInv' /\ DoneInv' /\ TimelineInv'
  BY <1>2 DEF MappingInv, RangeInv, DoneInv, TimelineInv, FallbackAfterEarlier
<1>10. StackInv'
  <2>1. Base' = Base /\ Section' = Section
    BY <1>2 DEF Base, Section, Mode
  <2> QED
    BY <1>2, <1>7, <2>1, BaseFacts DEF MappingInv, StackInv
<1>11. ExplainInv'
  <2>1. \A i \in DOMAIN stack : i \in DOMAIN stack' /\ stack'[i] = stack[i]
    BY <1>2, <1>5, BaseFacts
  <2>2. FailedExplained'
    BY <1>2 DEF MappingInv, ExplainInv, FailedExplained
  <2> QED
    BY <1>2, <2>1, <2>2 DEF MappingInv, ExplainInv
<1> QED
  BY <1>8, <1>9, <1>10, <1>11 DEF MappingInv

-----------------------------------------------------------------------------
(* Sections.                                                               *)

LEMMA OrderFacts == MappingOrder \in Seq(SectionNames \cup {"Hooks"})
<1> DEFINE S == SectionNames \cup {"Hooks"}
           AsSteps(section) == IF Mode(section) = "fixtures" THEN <<>> ELSE <<section>>
           AsFixture(section) == IF Mode(section) = "fixtures" THEN <<section>> ELSE <<>>
<1>1. ASSUME NEW section \in S
      PROVE  AsSteps(section) \in Seq(S) /\ AsFixture(section) \in Seq(S)
  <2>1. <<>> \in Seq(S) /\ <<section>> \in Seq(S)
    OBVIOUS
  <2> QED
    BY <2>1
<1>2. "Context" \in S /\ "Steps" \in S /\ "Teardown" \in S /\ "Hooks" \in S
  BY DEF SectionNames
<1>3. <<"Steps">> \in Seq(S) /\ <<"Hooks">> \in Seq(S)
  BY <1>2
<1>4. MappingOrder = AsSteps("Context") \o <<"Steps">> \o AsSteps("Teardown")
                     \o <<"Hooks">> \o AsFixture("Context") \o AsFixture("Teardown")
  BY DEF MappingOrder
<1> HIDE DEF S, AsSteps, AsFixture
<1>5. \A p, q \in Seq(S) : p \o q \in Seq(S)
  BY ConcatProperties
<1> QED
  BY <1>1, <1>2, <1>3, <1>4, <1>5 DEF S

LEMMA OpenSectionStep == ASSUME MappingInv, OpenSection PROVE MappingInv'
<1> DEFINE g == Frame(None, Base)
<1>1. /\ left # <<>> /\ Section \in SectionNames /\ stack = <<>> /\ stack' = <<g>>
      /\ UNCHANGED <<config, specRange, cursor, scenario, left, at, groups, fixtures, failures,
                     items, lost, warnings, results, returned>>
  BY DEF OpenSection, Base
<1>2. /\ scenario # None /\ scenario.range \in Ranges /\ at \in Times
      /\ 1 <= scenario.range.start /\ scenario.range.start <= at
      /\ Sound(scenario.range) => at <= scenario.range.stop
  BY <1>1 DEF MappingInv, StackInv, TypeOK, RangeInv, Scenarios
<1>3. /\ Base \in Times /\ scenario.range.start <= Base
      /\ Sound(scenario.range) => Base <= scenario.range.stop
  BY <1>2, FrameTypes DEF Base, Sound
<1> HIDE DEF Base
<1>4. g \in Frames /\ g.owner = None /\ g.cursor = Base /\ g.steps = <<>>
  BY <1>3 DEF Frame, Frames
<1> HIDE DEF g
<1>5. FrameOK(g, Base, scenario.range)
  BY <1>2, <1>3, <1>4, FrameTypes DEF FrameOK, Laid, Honest
<1>6. stack' \in Seq(Frames) /\ Len(stack') = 1 /\ stack'[1] = g
  BY <1>1, <1>4
<1>7. StackOK(stack', Base, scenario.range)
  BY <1>4, <1>5, <1>6 DEF StackOK
<1>8. TypeOK'
  BY <1>1, <1>6, NumberAssumption DEF MappingInv, TypeOK
<1>9. RangeInv' /\ DoneInv' /\ TimelineInv'
  BY <1>1 DEF MappingInv, RangeInv, DoneInv, TimelineInv, FallbackAfterEarlier
<1>10. StackInv'
  <2>1. Base' = Base /\ Section' = Section
    BY <1>1 DEF Base, Section, Mode
  <2> QED
    BY <1>1, <1>2, <1>7, <2>1 DEF MappingInv, StackInv
<1>11. ExplainInv'
  <2>1. FailedExplained'
    BY <1>1 DEF MappingInv, ExplainInv, FailedExplained
  <2> QED
    BY <1>1, <2>1 DEF MappingInv, ExplainInv
<1> QED
  BY <1>8, <1>9, <1>10, <1>11 DEF MappingInv

\* What CloseSection adds to the groups.
Grouped(steps) == IF Mode(Section) = "flat" \/ steps = <<>> THEN steps ELSE <<GroupOf(steps)>>

LEMMA GroupedFacts ==
    ASSUME NEW steps \in Seq(Steps), Honest(steps)
    PROVE  /\ Grouped(steps) \in Seq(Steps) /\ Honest(Grouped(steps))
           /\ \A from, to \in Times : Laid(steps, from, to) => Laid(Grouped(steps), from, to)
           /\ Odd(steps) => Odd(Grouped(steps))
<1>1. CASE Mode(Section) = "flat" \/ steps = <<>>
  BY <1>1 DEF Grouped
<1>2. CASE ~(Mode(Section) = "flat" \/ steps = <<>>)
  <2>1. Grouped(steps) = <<GroupOf(steps)>> /\ steps # <<>>
    BY <1>2 DEF Grouped
  <2>2. /\ GroupOf(steps) \in Steps /\ HonestStep(GroupOf(steps))
        /\ Odd(steps) => GroupOf(steps).status # "passed"
        /\ \A from, to \in Times : Laid(steps, from, to) => Laid(<<GroupOf(steps)>>, from, to)
    BY <2>1, GroupFacts
  <2> DEFINE g == GroupOf(steps)
  <2> HIDE DEF g
  <2>3. DOMAIN <<g>> = {1} /\ <<g>>[1] = g
    OBVIOUS
  <2>4. Honest(<<g>>)
    BY <2>2, <2>3 DEF Honest, g
  <2>5. Odd(steps) => Odd(<<g>>)
    BY <2>2, <2>3 DEF Odd, g
  <2> QED
    BY <2>1, <2>2, <2>4, <2>5 DEF g
<1> QED
  BY <1>1, <1>2

LEMMA CloseSectionStep == ASSUME MappingInv, CloseSection PROVE MappingInv'
<1> DEFINE steps == Top.steps
           range == scenario.range
<1>1. /\ Len(stack) = 1 /\ stack' = <<>> /\ left' = Tail(left)
      /\ warnings' = warnings \cup Top.warned
      /\ UNCHANGED <<config, specRange, cursor, scenario, failures, items, lost, results, returned>>
  BY DEF CloseSection
<1>2. stack # <<>> /\ Top = stack[1]
  BY <1>1 DEF Top
<1>3. /\ Top \in Frames /\ FrameOK(Top, Base, range) /\ range \in Ranges /\ Base \in Times
      /\ left # <<>> /\ scenario \in Scenarios /\ scenario # None
  <2>1. /\ Top \in Frames /\ Top.owner = None
        /\ FrameOK(Top, TopFrom(stack, Base), ParentIn(Top, range))
    BY <1>1, <1>2, BaseFacts, TopFacts
  <2> QED
    BY <1>1, <1>2, <2>1, BaseFacts, NoneAssumption DEF TopFrom, ParentIn
<1>4. Top.warned \in SUBSET Nat /\ steps \in Seq(Steps) /\ Top.cursor \in Times
  BY <1>3, FrameTypes
<1>5. /\ Sound(range) => Top.cursor <= range.stop
      /\ Laid(steps, Base, Top.cursor) /\ Honest(steps)
  BY <1>3 DEF FrameOK
<1>6. groups \in Seq(Steps) /\ fixtures \in Seq(Steps) /\ at \in Times /\ left \in Seq(SectionNames \cup {"Hooks"})
  BY DEF MappingInv, TypeOK
<1>7. /\ Laid(groups, range.start, at) /\ Inside(fixtures, range)
      /\ Honest(groups) /\ Honest(fixtures)
  BY <1>3 DEF MappingInv, DoneInv
<1>8. /\ 1 <= range.start /\ range.start <= at
      /\ Sound(range) => at <= range.stop
  BY <1>3 DEF MappingInv, RangeInv
<1> HIDE DEF range, Top
<1>9. \/ /\ Mode(Section) = "fixtures" /\ fixtures' = fixtures \o steps
         /\ UNCHANGED <<at, groups>>
      \/ /\ Mode(Section) # "fixtures" /\ groups' = groups \o Grouped(steps)
         /\ at' = Top.cursor /\ fixtures' = fixtures
  BY DEF CloseSection, NextCursor, Grouped
<1> HIDE DEF steps
<1>10. /\ groups' \in Seq(Steps) /\ fixtures' \in Seq(Steps) /\ at' \in Times
       /\ Honest(groups') /\ Honest(fixtures')
       /\ Laid(groups', range.start, at') /\ Inside(fixtures', range)
       /\ range.start <= at' /\ (Sound(range) => at' <= range.stop)
       /\ Odd(groups) \/ Odd(fixtures) \/ Odd(steps) => Odd(groups') \/ Odd(fixtures')
  <2>1. CASE /\ Mode(Section) = "fixtures" /\ fixtures' = fixtures \o steps
             /\ UNCHANGED <<at, groups>>
    <3>1. Base = range.start
      BY <2>1 DEF Base, range
    <3>2. Inside(steps, range)
      <4> SUFFICES ASSUME NEW k \in DOMAIN steps
                   PROVE  range.start <= steps[k].start /\ (Sound(range) => steps[k].stop <= range.stop)
        BY DEF Inside
      <4>1. range.start <= steps[k].start /\ steps[k].stop <= Top.cursor /\ steps[k] \in Steps
        BY <1>4, <1>5, <3>1 DEF Laid
      <4> QED
        BY <1>3, <1>4, <1>5, <4>1, FrameTypes
    <3>3. fixtures \o steps \in Seq(Steps)
      BY <1>4, <1>6
    <3> QED
      BY <1>3, <1>4, <1>5, <1>6, <1>7, <1>8, <2>1, <3>2, <3>3, StepsConcat
  <2>2. CASE /\ Mode(Section) # "fixtures" /\ groups' = groups \o Grouped(steps)
             /\ at' = Top.cursor /\ fixtures' = fixtures
    <3>1. Base = at
      BY <2>2 DEF Base
    <3>2. /\ Grouped(steps) \in Seq(Steps) /\ Honest(Grouped(steps))
          /\ Laid(Grouped(steps), at, Top.cursor)
          /\ Odd(steps) => Odd(Grouped(steps))
      BY <1>4, <1>5, <1>6, <3>1, GroupedFacts
    <3>3. groups' \in Seq(Steps)
      BY <1>6, <2>2, <3>2
    <3>4. Laid(groups', range.start, at')
      BY <1>3, <1>4, <1>6, <1>7, <2>2, <3>2, FrameTypes, LaidConcat
    <3>5. range.start <= at'
      BY <3>4 DEF Laid
    <3> QED
      BY <1>4, <1>5, <1>6, <1>7, <2>2, <3>2, <3>3, <3>4, <3>5, StepsConcat
  <2> QED
    BY <1>9, <2>1, <2>2
<1>11. TypeOK'
  <2>1. /\ Tail(left) \in Seq(SectionNames \cup {"Hooks"}) /\ <<>> \in Seq(Frames)
        /\ Len(<<>>) <= MaximumNestingDepth + 1
    BY <1>3, <1>6, HeadTailProperties, NumberAssumption
  <2> QED
    BY <1>1, <1>4, <1>10, <2>1 DEF MappingInv, TypeOK
<1>12. RangeInv'
  BY <1>1, <1>8, <1>10 DEF MappingInv, RangeInv, range
<1>13. StackInv'
  BY <1>1, <1>3 DEF StackInv
<1>14. DoneInv'
  BY <1>1, <1>3, <1>10 DEF DoneInv, range
<1>15. TimelineInv'
  BY <1>1 DEF MappingInv, TimelineInv, FallbackAfterEarlier
<1>16. ExplainInv'
  <2>1. FailedExplained'
    BY <1>1 DEF MappingInv, ExplainInv, FailedExplained
  <2>2. DOMAIN stack = {1}
    BY <1>1, <1>2, BaseFacts
  <2> QED
    BY <1>1, <1>2, <1>10, <2>1, <2>2 DEF MappingInv, ExplainInv, steps
<1> QED
  BY <1>11, <1>12, <1>13, <1>14, <1>15, <1>16 DEF MappingInv

-----------------------------------------------------------------------------
(* Scenarios.                                                              *)

LEMMA TakeScenarioStep == ASSUME MappingInv, TakeScenario PROVE MappingInv'
<1>1. PICK reported \in LiveRanges \cup {None}, duration \in Durations :
        LET range == IF reported # None THEN reported ELSE FallbackRange(cursor, duration)
        IN  /\ scenario' = [range |-> range, found |-> reported # None]
            /\ cursor' = Advance(range)
            /\ at' = range.start
  BY DEF TakeScenario
<1> DEFINE range == IF reported # None THEN reported ELSE FallbackRange(cursor, duration)
<1>2. /\ returned = "no" /\ scenario = None /\ left' = MappingOrder
      /\ UNCHANGED <<config, specRange, stack, groups, fixtures, failures, items, lost,
                     warnings, results, returned>>
  BY DEF TakeScenario
<1>3. specRange \in Ranges /\ cursor \in Times /\ 1 <= cursor /\ duration \in Times /\ Limit > 0
  BY NumberAssumption DEF MappingInv, TypeOK, RangeInv, Times
<1>4. /\ range \in Ranges /\ 1 <= range.start
      /\ reported = None => range.start = cursor
  BY <1>3, LiveRangeFacts, FallbackFacts
<1>5. scenario' = [range |-> range, found |-> reported # None] /\ cursor' = Advance(range)
      /\ at' = range.start
  BY <1>1
<1> HIDE DEF range
<1>6. /\ cursor' \in Times /\ cursor <= cursor' /\ range.stop <= cursor'
      /\ range.start \in Times /\ range.stop \in Times
  BY <1>3, <1>4, <1>5, FrameTypes DEF Advance, Greater
<1>7. scenario' \in Scenarios /\ scenario' # None
      /\ scenario'.range = range /\ (scenario'.found <=> reported # None)
  <2> DEFINE found == reported # None
  <2>1. found \in BOOLEAN
    OBVIOUS
  <2>2. scenario' = [range |-> range, found |-> found]
    BY <1>5
  <2> HIDE DEF found
  <2>3. scenario' \in Scenarios /\ scenario'.range = range /\ scenario'.found = found
    BY <1>4, <2>1, <2>2 DEF Scenarios
  <2> QED
    BY <2>3, NoneAssumption DEF found
<1>8. stack = <<>> /\ groups = <<>> /\ fixtures = <<>>
  BY <1>2 DEF MappingInv, StackInv, DoneInv
<1>9. TypeOK'
  BY <1>2, <1>5, <1>6, <1>7, OrderFacts DEF MappingInv, TypeOK
<1>10. RangeInv'
  BY <1>2, <1>3, <1>4, <1>5, <1>6, <1>7, FrameTypes DEF MappingInv, RangeInv, Sound
<1>11. StackInv'
  BY <1>2, <1>7, <1>8 DEF StackInv
<1>12. DoneInv'
  BY <1>2, <1>5, <1>6, <1>7, <1>8, FrameTypes DEF MappingInv, DoneInv, Laid, Inside
<1>13. \A i \in DOMAIN results : results[i].stop \in Times /\ results[i].stop <= cursor
  <2>1. \A i \in DOMAIN results : results[i] \in Results
    BY DEF MappingInv, TypeOK
  <2> QED
    BY <2>1 DEF MappingInv, TimelineInv, Results
<1>14. \A i \in DOMAIN results : results[i].stop <= cursor'
  BY <1>3, <1>6, <1>13, FrameTypes
<1>15. TimelineInv'
  BY <1>2, <1>4, <1>6, <1>7, <1>13, <1>14 DEF MappingInv, TimelineInv, FallbackAfterEarlier
<1>16. ExplainInv'
  BY <1>2 DEF MappingInv, ExplainInv, FailedExplained
<1> QED
  BY <1>9, <1>10, <1>11, <1>12, <1>15, <1>16 DEF MappingInv

\* A scenario is failed, and not broken or skipped, by a step's assertion.
LEMMA ScenarioStatusFacts ==
    ASSUME NEW e \in ScenarioEvidence, failures \in [SectionNames -> ErrorKinds \cup {None}]
    PROVE  /\ ScenarioStatus(e) \in Statuses
           /\ ScenarioStatus(e) = "failed" => \E s \in SectionNames : failures[s] # None
<1>1. ScenarioStatus(e) \in Statuses
  BY EvidenceAssumption DEF ScenarioStatus, FromExecutionStatus, Statuses
<1>2. ASSUME ScenarioStatus(e) = "failed"
      PROVE  \E s \in SectionNames : failures[s] # None
  <2>1. FindStepFailure \in {"assertion", "verification"}
    BY <1>2 DEF ScenarioStatus, FromExecutionStatus
  <2>2. FindStepFailure # None
    BY <2>1, NoneAssumption DEF ErrorKinds
  <2> QED
    BY <2>2 DEF FindStepFailure, SectionNames
<1> QED
  BY <1>1, <1>2

LEMMA EndScenarioStep == ASSUME MappingInv, EndScenario PROVE MappingInv'
<1>1. PICK e \in ScenarioEvidence :
        results' = Append(results,
          [start |-> scenario.range.start, stop |-> scenario.range.stop,
           found |-> scenario.found, status |-> ScenarioStatus(e),
           shown |-> TopStatuses(groups) \cup TopStatuses(fixtures)])
  BY DEF EndScenario
<1> DEFINE r == [start |-> scenario.range.start, stop |-> scenario.range.stop,
                 found |-> scenario.found, status |-> ScenarioStatus(e),
                 shown |-> TopStatuses(groups) \cup TopStatuses(fixtures)]
<1>2. /\ scenario # None /\ left = <<>> /\ scenario' = None
      /\ at' = specRange.start /\ groups' = <<>> /\ fixtures' = <<>>
      /\ failures' = [s \in SectionNames |-> None]
      /\ UNCHANGED <<config, specRange, cursor, left, stack, items, lost, warnings, returned>>
  BY DEF EndScenario, NoScenario
<1>3. /\ scenario \in Scenarios /\ groups \in Seq(Steps) /\ fixtures \in Seq(Steps)
      /\ failures \in [SectionNames -> ErrorKinds \cup {None}] /\ results \in Seq(Results)
      /\ specRange \in Ranges
  BY <1>2 DEF MappingInv, TypeOK
<1>4. stack = <<>>
  BY <1>2 DEF MappingInv, StackInv
<1>5. TopStatuses(groups) \cup TopStatuses(fixtures) \in SUBSET Statuses
  <2>1. /\ \A k \in DOMAIN groups : groups[k] \in Steps
        /\ \A k \in DOMAIN fixtures : fixtures[k] \in Steps
    BY <1>3
  <2> QED
    BY <2>1 DEF TopStatuses, Steps
<1>6. ScenarioStatus(e) \in Statuses
  BY <1>3, ScenarioStatusFacts
<1>7. r \in Results
  BY <1>3, <1>5, <1>6 DEF Results, Scenarios, Ranges
<1>8. /\ r.start = scenario.range.start /\ r.stop = scenario.range.stop
      /\ r.found = scenario.found /\ r.status = ScenarioStatus(e)
      /\ r.shown = TopStatuses(groups) \cup TopStatuses(fixtures)
  OBVIOUS
<1>9. results' = Append(results, r)
  BY <1>1
<1> HIDE DEF r
<1>10. /\ results' \in Seq(Results) /\ Len(results) \in Nat
       /\ DOMAIN results = 1 .. Len(results) /\ DOMAIN results' = 1 .. Len(results) + 1
       /\ results'[Len(results) + 1] = r
       /\ \A i \in 1 .. Len(results) : results'[i] = results[i]
  BY <1>3, <1>7, <1>9
<1>11. TypeOK'
  <2>1. /\ <<>> \in Seq(Steps)
        /\ [s \in SectionNames |-> None] \in [SectionNames -> ErrorKinds \cup {None}]
    OBVIOUS
  <2> QED
    BY <1>2, <1>3, <1>10, <2>1, FrameTypes DEF MappingInv, TypeOK
<1>12. RangeInv' /\ StackInv'
  BY <1>2, <1>4 DEF MappingInv, RangeInv, StackInv
<1>13. DoneInv'
  BY <1>2 DEF DoneInv, Honest
<1>14. TimelineInv'
  <2>1. /\ \A i \in 1 .. Len(results) : results[i].stop <= cursor
        /\ r.stop <= cursor
        /\ ~r.found => \A i \in 1 .. Len(results) : results[i].stop <= r.start
    BY <1>2, <1>8, <1>10 DEF MappingInv, TimelineInv
  <2>2. \A i, j \in 1 .. Len(results) :
           i < j /\ ~results[j].found => results[i].stop <= results[j].start
    BY <1>10 DEF MappingInv, TimelineInv, FallbackAfterEarlier
  <2>3. \A i \in DOMAIN results' : results'[i].stop <= cursor'
    BY <1>2, <1>10, <2>1
  <2>4. FallbackAfterEarlier'
    <3> SUFFICES ASSUME NEW i \in 1 .. Len(results) + 1, NEW j \in 1 .. Len(results) + 1,
                        i < j, ~results'[j].found
                 PROVE  results'[i].stop <= results'[j].start
      BY <1>10 DEF FallbackAfterEarlier
    <3>1. i \in 1 .. Len(results) /\ results'[i] = results[i]
      BY <1>10
    <3>2. CASE j = Len(results) + 1
      BY <1>10, <2>1, <3>1, <3>2
    <3>3. CASE j # Len(results) + 1
      <4>1. j \in 1 .. Len(results) /\ results'[j] = results[j]
        BY <1>10, <3>3
      <4> QED
        BY <2>2, <3>1, <4>1
    <3> QED
      BY <3>2, <3>3
  <2> QED
    BY <1>2, <2>3, <2>4 DEF TimelineInv
<1>15. ExplainInv'
  <2> SUFFICES ASSUME ~config.strict, NEW i \in 1 .. Len(results) + 1,
                      results'[i].status = "failed"
               PROVE  results'[i].shown \ {"passed"} # {}
    BY <1>2, <1>10 DEF ExplainInv, FailedExplained
  <2>1. CASE i = Len(results) + 1
    <3>1. ScenarioStatus(e) = "failed"
      BY <1>8, <1>10, <2>1
    <3>2. \E s \in SectionNames : failures[s] # None
      BY <1>3, <3>1, ScenarioStatusFacts
    <3>3. Odd(groups) \/ Odd(fixtures)
      BY <1>4, <3>2 DEF MappingInv, ExplainInv
    <3>4. \A steps : Odd(steps) => TopStatuses(steps) \ {"passed"} # {}
      BY DEF Odd, TopStatuses
    <3> QED
      BY <1>8, <1>10, <2>1, <3>3, <3>4
  <2>2. CASE i # Len(results) + 1
    <3>1. i \in DOMAIN results /\ results'[i] = results[i]
      BY <1>10, <2>2
    <3> QED
      BY <3>1 DEF MappingInv, ExplainInv, FailedExplained
  <2> QED
    BY <2>1, <2>2
<1> QED
  BY <1>11, <1>12, <1>13, <1>14, <1>15 DEF MappingInv

LEMMA ReturnOutputStep == ASSUME MappingInv, ReturnOutput PROVE MappingInv'
<1>1. /\ scenario = None /\ returned = "no" /\ returned' = "output"
      /\ UNCHANGED <<config, specRange, cursor, scenario, left, at, stack, groups, fixtures,
                     failures, items, lost, warnings, results>>
  BY DEF ReturnOutput, scenarioVars
<1>2. TypeOK'
  BY <1>1 DEF MappingInv, TypeOK
<1>3. RangeInv' /\ StackInv'
  BY <1>1 DEF MappingInv, RangeInv, StackInv
<1>4. DoneInv' /\ TimelineInv' /\ ExplainInv'
  BY <1>1 DEF MappingInv, DoneInv, TimelineInv, ExplainInv, FallbackAfterEarlier, FailedExplained
<1> QED
  BY <1>2, <1>3, <1>4 DEF MappingInv

LEMMA AttachHooksStep == ASSUME MappingInv, AttachHooks PROVE MappingInv'
<1>1. /\ left # <<>> /\ Section = "Hooks"
      /\ UNCHANGED <<config, specRange, cursor, at, stack, groups, fixtures, failures, results>>
      /\ \/ left' = Tail(left) /\ UNCHANGED <<scenario, returned>>
         \/ returned' = "error" /\ scenario' = None /\ left' = <<>>
  BY DEF AttachHooks
<1>2. items' \in Nat /\ lost' \subseteq Nat /\ warnings' \subseteq Nat
  <2>1. CASE UNCHANGED <<items, lost, warnings>>
    BY <2>1 DEF MappingInv, TypeOK
  <2>2. CASE NextItem(TRUE) /\ warnings' \in {warnings, warnings \cup {items + 1}}
    BY <2>2, NextItemFacts DEF MappingInv, TypeOK
  <2> QED
    BY <2>1, <2>2 DEF AttachHooks
<1>3. stack = <<>> /\ scenario # None
  BY <1>1 DEF MappingInv, StackInv, SectionNames
<1>4. TypeOK'
  <2>1. Tail(left) \in Seq(SectionNames \cup {"Hooks"}) /\ <<>> \in Seq(SectionNames \cup {"Hooks"})
    BY <1>1, HeadTailProperties DEF MappingInv, TypeOK
  <2> QED
    BY <1>1, <1>2, <2>1 DEF MappingInv, TypeOK
<1>5. RangeInv' /\ StackInv'
  BY <1>1, <1>3 DEF MappingInv, RangeInv, StackInv
<1>6. DoneInv' /\ TimelineInv' /\ ExplainInv'
  BY <1>1, <1>3 DEF MappingInv, DoneInv, TimelineInv, ExplainInv, FallbackAfterEarlier, FailedExplained
<1> QED
  BY <1>4, <1>5, <1>6 DEF MappingInv

-----------------------------------------------------------------------------
(* Theorems.                                                               *)

LEMMA MappingInit == ASSUME Init PROVE MappingInv
<1>1. /\ specRange \in Ranges /\ 1 <= specRange.start /\ cursor = specRange.start
      /\ at = specRange.start /\ specRange.start \in Times
  BY LiveRangeFacts, FrameTypes DEF Init
<1>2. TypeOK
  <2>1. config \in [strict : BOOLEAN, context : Modes, teardown : Modes]
    BY ModeAssumption DEF Init
  <2>2. /\ <<>> \in Seq(SectionNames \cup {"Hooks"}) /\ <<>> \in Seq(Frames) /\ Len(<<>>) = 0
        /\ <<>> \in Seq(Steps) /\ <<>> \in Seq(Results) /\ 0 <= MaximumNestingDepth + 1
    BY NumberAssumption
  <2> QED
    BY <1>1, <2>1, <2>2 DEF Init, TypeOK
<1>3. RangeInv /\ StackInv /\ DoneInv
  BY <1>1 DEF Init, RangeInv, StackInv, DoneInv, Honest
<1>4. TimelineInv /\ ExplainInv
  BY DEF Init, TimelineInv, ExplainInv, FallbackAfterEarlier, FailedExplained
<1> QED
  BY <1>2, <1>3, <1>4 DEF MappingInv

LEMMA MappingStep == ASSUME MappingInv, [Next]_vars PROVE MappingInv'
<1>1. ASSUME UNCHANGED vars
      PROVE  MappingInv'
  <2>1. UNCHANGED <<config, specRange, cursor, scenario, left, at, stack, groups, fixtures,
                    failures, items, lost, warnings, results, returned>>
    BY <1>1 DEF vars, scenarioVars
  <2>2. TypeOK' /\ RangeInv'
    BY <2>1 DEF MappingInv, TypeOK, RangeInv
  <2>3. StackInv'
    BY <2>1 DEF MappingInv, StackInv, Base, Section, Mode
  <2>4. DoneInv' /\ TimelineInv' /\ ExplainInv'
    BY <2>1 DEF MappingInv, DoneInv, TimelineInv, ExplainInv, FallbackAfterEarlier, FailedExplained
  <2> QED
    BY <2>2, <2>3, <2>4 DEF MappingInv
<1>2. CASE TakeScenario
  BY <1>2, TakeScenarioStep
<1>3. CASE EndScenario
  BY <1>3, EndScenarioStep
<1>4. CASE ReturnOutput
  BY <1>4, ReturnOutputStep
<1>5. CASE OpenSection
  BY <1>5, OpenSectionStep
<1>6. CASE MapStep
  BY <1>6, MapStepStep
<1>7. CASE EnterConcept
  BY <1>7, EnterConceptStep
<1>8. CASE CutConcept
  BY <1>8, CutConceptStep
<1>9. CASE LeaveConcept
  BY <1>9, LeaveConceptStep
<1>10. CASE CloseSection
  BY <1>10, CloseSectionStep
<1>11. CASE AttachHooks
  BY <1>11, AttachHooksStep
<1>12. CASE Returned
  BY <1>1, <1>12 DEF Returned
<1> QED
  BY <1>1, <1>2, <1>3, <1>4, <1>5, <1>6, <1>7, <1>8, <1>9, <1>10, <1>11, <1>12 DEF Next

LEMMA MappingInvariant == Spec => []MappingInv
<1>1. Init => MappingInv
  BY MappingInit
<1>2. MappingInv /\ [Next]_vars => MappingInv'
  BY MappingStep
<1> QED
  BY <1>1, <1>2, PTL DEF Spec

\* Every reachable state is well typed, and no invocation of mapItems is nested
\* deeper than the configured depth.
THEOREM WellTyped == Spec => []TypeOK
<1>1. MappingInv => TypeOK
  BY DEF MappingInv
<1> QED
  BY <1>1, MappingInvariant, PTL

\* What the stack says of one of its frames.
LEMMA FrameFacts ==
    ASSUME MappingInv, stack # <<>>, NEW i \in DOMAIN stack
    PROVE  /\ stack[i] \in Frames
           /\ \E from \in Times : FrameOK(stack[i], from, Parent(stack[i]))
<1>1. /\ StackOK(stack, Base, scenario.range) /\ Base \in Times
      /\ stack[i] \in Frames /\ i \in 1 .. Len(stack)
  BY BaseFacts
<1>2. CASE i = 1
  BY <1>1, <1>2 DEF StackOK, Parent
<1>3. CASE i # 1
  <2>1. i \in 2 .. Len(stack) /\ stack[i].owner # None /\ stack[i].owner \in Owners
    BY <1>1, <1>3, FrameTypes DEF StackOK
  <2> QED
    BY <1>1, <2>1, FrameTypes DEF StackOK, Parent
<1> QED
  BY <1>1, <1>2, <1>3

\* In a scenario with a sound range every invocation has one to lay its steps out in.
LEMMA ParentSound ==
    ASSUME MappingInv, stack # <<>>, NEW i \in DOMAIN stack, Sound(scenario.range)
    PROVE  Sound(Parent(stack[i]))
<1>1. /\ StackOK(stack, Base, scenario.range) /\ i \in 1 .. Len(stack)
  BY BaseFacts
<1>2. CASE i = 1
  BY <1>1, <1>2 DEF StackOK, Parent
<1>3. CASE i # 1
  BY <1>1, <1>3 DEF StackOK, Parent, Fits
<1> QED
  BY <1>2, <1>3

\* In every reachable state, a step lies in the range of its concept or of its
\* scenario, at any depth and for any reported durations, those included whose
\* sum overflows (mapItems, Clamp).
THEOREM StepsStayInParent == Spec => []StepsInParent
<1>1. ASSUME MappingInv
      PROVE  StepsInParent
  <2> SUFFICES ASSUME scenario # None, scenario.range.start <= scenario.range.stop
               PROVE  /\ Within(groups \o fixtures, scenario.range)
                      /\ \A i \in DOMAIN stack : Within(stack[i].steps, Parent(stack[i]))
    BY DEF StepsInParent
  <2>1. /\ groups \in Seq(Steps) /\ fixtures \in Seq(Steps) /\ scenario.range \in Ranges
        /\ at \in Times /\ stack \in Seq(Frames)
    BY <1>1 DEF MappingInv, TypeOK, Scenarios
  <2>2. Sound(scenario.range)
    BY DEF Sound
  <2>3. Inside(groups, scenario.range)
    <3> SUFFICES ASSUME NEW k \in DOMAIN groups
                 PROVE  /\ scenario.range.start <= groups[k].start
                        /\ groups[k].stop <= scenario.range.stop
      BY DEF Inside
    <3>1. /\ scenario.range.start <= groups[k].start /\ groups[k].stop <= at
          /\ at <= scenario.range.stop
      BY <1>1, <2>2 DEF MappingInv, DoneInv, RangeInv, Laid
    <3>2. groups[k].stop \in Int /\ at \in Int /\ scenario.range.stop \in Int
      BY <2>1, FrameTypes
    <3> QED
      BY <3>1, <3>2
  <2>4. Inside(groups \o fixtures, scenario.range)
    BY <1>1, <2>1, <2>3, StepsConcat DEF MappingInv, DoneInv
  <2>5. ASSUME NEW i \in DOMAIN stack
        PROVE  Within(stack[i].steps, Parent(stack[i]))
    <3>1. stack # <<>>
      BY <2>1
    <3>2. PICK from \in Times : FrameOK(stack[i], from, Parent(stack[i]))
      BY <1>1, <3>1, FrameFacts
    <3>3. stack[i] \in Frames /\ Sound(Parent(stack[i]))
      BY <1>1, <2>2, <3>1, FrameFacts, ParentSound
    <3>4. Parent(stack[i]) \in Ranges
      BY <2>1, <3>3, FrameTypes DEF Parent
    <3> SUFFICES ASSUME NEW k \in DOMAIN stack[i].steps
                 PROVE  /\ Parent(stack[i]).start <= stack[i].steps[k].start
                        /\ stack[i].steps[k].stop <= Parent(stack[i]).stop
      BY DEF Within
    <3>5. /\ Parent(stack[i]).start <= from /\ from <= stack[i].steps[k].start
          /\ stack[i].steps[k].stop <= stack[i].cursor
          /\ stack[i].cursor <= Parent(stack[i]).stop
      BY <3>2, <3>3 DEF FrameOK, Laid
    <3>6. stack[i].steps[k] \in Steps
      BY <3>3, FrameTypes
    <3> QED
      BY <3>3, <3>4, <3>5, <3>6, FrameTypes
  <2> QED
    BY <2>2, <2>4, <2>5 DEF Inside, Within
<1> QED
  BY <1>1, MappingInvariant, PTL

\* In every reachable state the steps of a concept or section follow each other
\* without overlap, and so do those of the sections (the cursors of mapItems and
\* scenarioSteps).
THEOREM StepsFollow == Spec => []StepsInOrder
<1>1. ASSUME NEW steps \in Seq(Steps), NEW from, NEW to, Laid(steps, from, to)
      PROVE  OneAfterAnother(steps)
  BY <1>1 DEF Laid, OneAfterAnother
<1>2. ASSUME MappingInv
      PROVE  StepsInOrder
  <2> SUFFICES ASSUME scenario # None
               PROVE  /\ OneAfterAnother(groups)
                      /\ \A i \in DOMAIN stack : OneAfterAnother(stack[i].steps)
    BY DEF StepsInOrder
  <2>1. groups \in Seq(Steps) /\ stack \in Seq(Frames)
    BY <1>2 DEF MappingInv, TypeOK
  <2>2. OneAfterAnother(groups)
    BY <1>1, <1>2, <2>1 DEF MappingInv, DoneInv
  <2>3. ASSUME NEW i \in DOMAIN stack
        PROVE  OneAfterAnother(stack[i].steps)
    <3>1. stack # <<>>
      BY <2>1
    <3>2. PICK from \in Times : FrameOK(stack[i], from, Parent(stack[i]))
      BY <1>2, <3>1, FrameFacts
    <3>3. stack[i].steps \in Seq(Steps)
      BY <1>2, <3>1, FrameFacts, FrameTypes
    <3> QED
      BY <1>1, <3>2, <3>3 DEF FrameOK
  <2> QED
    BY <2>2, <2>3
<1> QED
  BY <1>2, MappingInvariant, PTL

\* In every reachable state no step, concept or group that shows as passed has
\* anything but passed steps in it, at any depth (FromStep,
\* aggregateStepStatus).
THEOREM FailuresShow == Spec => []FailureVisible
<1>1. ASSUME MappingInv
      PROVE  FailureVisible
  <2>1. stack \in Seq(Frames)
    BY <1>1 DEF MappingInv, TypeOK
  <2>2. ASSUME NEW i \in DOMAIN stack
        PROVE  Honest(stack[i].steps)
    <3>1. stack # <<>>
      BY <2>1
    <3>2. PICK from \in Times : FrameOK(stack[i], from, Parent(stack[i]))
      BY <1>1, <3>1, FrameFacts
    <3> QED
      BY <3>2 DEF FrameOK
  <2> QED
    BY <1>1, <2>2 DEF MappingInv, DoneInv, FailureVisible, Honest, HonestStep
<1> QED
  BY <1>1, MappingInvariant, PTL

\* In best effort every scenario that is reported as failed shows a step or
\* fixture that did not pass (scenarioStatus and findStepFailure look at the
\* protocol, not at the steps).
THEOREM FailuresExplained == Spec => []FailedExplained
<1>1. MappingInv => FailedExplained
  BY DEF MappingInv, ExplainInv
<1> QED
  BY <1>1, MappingInvariant, PTL

\* A scenario without a range of its own starts when all before it have ended,
\* whatever ranges callbacks of other streams left (the cursor of MapSuite).
THEOREM FallbackFollows == Spec => []FallbackAfterEarlier
<1>1. MappingInv => FallbackAfterEarlier
  BY DEF MappingInv, TimelineInv
<1> QED
  BY <1>1, MappingInvariant, PTL
=============================================================================
