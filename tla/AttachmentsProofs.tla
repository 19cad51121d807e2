-------------------------- MODULE AttachmentsProofs --------------------------
(***************************************************************************)
(* Theorems about Attachments, for every number of processes, writes and   *)
(* changes of the source, and every limit.  The directory is that of       *)
(* ResultsDir, so what ResultsDirProofs has of it is cited.                *)
(***************************************************************************)
EXTENDS Attachments, ResultsDirProofs

Handles == [id : Nat, size : Nat]
Contents == [copied : Nat, of : Nat]

\* The types of what Attachments adds, as far as the properties depend on them.
CopyTypes ==
    /\ source = None \/ source \in [id : Nat, kind : {"regular", "link", "directory"},
                                    inside : BOOLEAN, size : Nat]
    /\ expected \in [Attaching -> Nat]
    /\ stage \in [Attaching -> {"lookup", "inspected", "opened"}]
    /\ handle \in [Attaching -> Handles \cup {None}]
    /\ content \in [Attaching -> Contents]
    /\ named \in [Artifacts -> SUBSET Artifacts]

\* A copy is made from an open file, what was copied exceeds the limit by a byte at
\* most, and what is published is all of its file and within the limit.
CopyOf(w) ==
    /\ step[w] = "copy" \/ (step[w] = "idle" /\ stage[w] = "opened") => handle[w] \in Handles
    /\ content[w].copied <= Limit + 1
    /\ step[w] \in {"publish", "published"} =>
          content[w].copied = content[w].of /\ content[w].copied <= Limit
CopyInv == \A w \in Attaching : CopyOf(w)

\* The attachments of this run in the directory are those that were published by it.
PublishedInv ==
    \A w \in Attaching : OfThisRun(NameOf[w]) <=> step[w] = "published"

\* What a result names is there, and no attachment names another.
NamedInv ==
    /\ \A w \in Attaching : named[NameOf[w]] = {}
    /\ \A n \in Artifacts : OfThisRun(n) => \A a \in named[n] : OfThisRun(a)

AttachInv == CopyTypes /\ CopyInv /\ PublishedInv /\ NamedInv

-----------------------------------------------------------------------------
(* Attachments runs on ResultsDir.                                         *)

\* Everything that happens is a step of ResultsDir or none of its concern.
LEMMA DirStep == ASSUME [AttachmentsNext]_allVars PROVE [Next]_vars
<1>1. CASE StartRun
  BY <1>1 DEF StartRun, Next
<1>2. CASE Replace \/ Resize
  BY <1>2 DEF Replace, Resize
<1>3. CASE \E w \in Attaching : Attach(w)
  <2>1. PICK w \in Attaching : Attach(w)
    BY <1>3
  <2>2. UNCHANGED vars \/ Write(w)
    BY <2>1 DEF Attach, Inspected, Opened, Buffered, NotCopied, CreateCopy, CopiedBytes,
                CopyFails, EndCopy, Write
  <2> QED
    BY <2>2, AttachingAssumption DEF Next
<1>4. CASE \E w \in Reporting : Report(w)
  <2>1. PICK w \in Reporting : Report(w)
    BY <1>4
  <2>2. Write(w)
    BY <2>1 DEF Report, CreateResult, CopiedResult, PublishResult, ResultFails, Write
  <2> QED
    BY <2>2 DEF Next, Reporting
<1>5. CASE Around
  BY <1>5 DEF Around, Next
<1>6. CASE UNCHANGED allVars
  BY <1>6 DEF allVars
<1> QED
  BY <1>1, <1>2, <1>3, <1>4, <1>5, <1>6 DEF AttachmentsNext

\* What holds of the directory holds of it here.
LEMMA RunsOnDir == AttachmentsSpec => Spec
<1>1. AttachmentsInit => Init
  BY DEF AttachmentsInit
<1>2. [AttachmentsNext]_allVars => [Next]_vars
  BY DirStep
<1> QED
  BY <1>1, <1>2, PTL DEF AttachmentsSpec, Spec

-----------------------------------------------------------------------------
(* Artifacts of this run.                                                  *)

\* A process that starts finds no artifact of its own.
LEMMA NoneOfThisRun ==
    ASSUME DirInv, Start, NEW n \in Artifacts
    PROVE  ~OfThisRun(n)'
<1>1. dir' = dir /\ run' = run + 1 /\ run \in Nat
  BY BoundAssumption DEF Start, DirInv, TypeOK
<1>2. dir[n] # None => dir[n].run \in Nat /\ dir[n].run <= run
  BY NameFacts, DirFacts DEF DirInv, RunInv
<1> QED
  BY <1>1, <1>2 DEF OfThisRun

\* A write moves on by itself.
LEMMA StepsElsewhere ==
    ASSUME TypeOK, NEW w \in Writers, Write(w), NEW v \in Writers, v # w
    PROVE  step'[v] = step[v]
  BY DEF Write, WriteRejected, CreateTemp, Copied, WriteFails, Publish, Discard, Advance, TypeOK

\* Where Publish goes, and that no other step of a write goes there.
LEMMA PublishSteps ==
    ASSUME TypeOK, NEW w \in Writers
    PROVE  /\ Publish(w) => step[w] = "publish" /\ step'[w] = "published"
           /\ Write(w) /\ ~Publish(w) => step[w] # "published" /\ step'[w] # "published"
           /\ UNCHANGED step => ~Publish(w)
  BY DEF Write, WriteRejected, CreateTemp, Copied, WriteFails, Publish, Discard, Advance, TypeOK

\* Of two writes one publishes at a time.
LEMMA PublishOnce ==
    ASSUME TypeOK, NEW w \in Writers, NEW v \in Writers, Write(w), Publish(v)
    PROVE  v = w
  BY StepsElsewhere, PublishSteps

\* Any other step keeps the artifacts of this run, and only Publish adds one.
LEMMA ArtifactStep ==
    ASSUME DirInv, [Next]_vars, ~Start, NEW n \in Artifacts
    PROVE  OfThisRun(n)' <=> OfThisRun(n) \/ \E w \in Writers : Publish(w) /\ NameOf[w] = n
<1> n \in Names /\ n # Marker /\ n \notin Temps
  BY NameFacts
<1>1. CASE Prepare
  <2>1. proc \in Preparing
    BY <1>1 DEF Prepare, Inspect, ReadMarker, ReadDirectory, Remove, TruncateMarker,
                WriteMarker, PrepareFails, Preparing
  <2>2. run' = run /\ dir'[n] \in {dir[n], None}
    BY <1>1 DEF Prepare, Inspect, ReadMarker, ReadDirectory, Remove, TruncateMarker,
                WriteMarker, PrepareFails, DirInv, TypeOK
  <2>3. ~OfThisRun(n)
    BY <2>1 DEF OfThisRun, DirInv, RunInv
  <2>4. \A w \in Writers : ~Publish(w)
    BY <2>1 DEF Publish, Preparing
  <2> QED
    BY <2>2, <2>3, <2>4 DEF OfThisRun
<1>2. CASE \E w \in Writers : Write(w)
  <2>1. PICK w \in Writers : Write(w)
    BY <1>2
  <2>2. proc = "serving" /\ run' = run
    BY <2>1 DEF Write, WriteRejected, CreateTemp, Copied, WriteFails, Publish, Discard
  <2>3. run \in Runs /\ run > 0
    BY <2>2, RunFacts, BoundAssumption DEF Runs
  <2>4. Temp(w) \in Temps /\ Temp(w) \in Names /\ NameOf[w] \in Names
    BY <2>3, TempFacts, NameFacts
  <2>5. CASE Publish(w)
    <3>1. dir[Temp(w)] # None /\ dir[Temp(w)].run = run
      BY <2>2, <2>4, <2>5 DEF Publish, DirInv, PublishInv, FreshReport, Serving
    <3>2. dir' = [dir EXCEPT ![NameOf[w]] = dir[Temp(w)], ![Temp(w)] = None]
      BY <2>5 DEF Publish
    <3>3. CASE NameOf[w] = n
      <4>1. dir'[n] = dir[Temp(w)]
        BY <2>4, <3>2, <3>3 DEF DirInv, TypeOK
      <4> QED
        BY <2>2, <2>3, <2>5, <3>1, <3>3, <4>1 DEF OfThisRun
    <3>4. CASE NameOf[w] # n
      <4>1. dir'[n] = dir[n]
        BY <2>4, <3>2, <3>4 DEF DirInv, TypeOK
      <4>2. \A v \in Writers : Publish(v) => v = w
        BY <2>1, PublishOnce DEF DirInv
      <4> QED
        BY <2>2, <3>4, <4>1, <4>2 DEF OfThisRun
    <3> QED
      BY <3>3, <3>4
  <2>6. CASE ~Publish(w)
    <3>1. dir'[n] = dir[n]
      BY <2>1, <2>4, <2>6 DEF Write, WriteRejected, CreateTemp, Copied, WriteFails, Discard,
            DirInv, TypeOK
    <3>2. \A v \in Writers : ~Publish(v)
      BY <2>1, <2>6, PublishOnce DEF DirInv
    <3> QED
      BY <2>2, <3>1, <3>2 DEF OfThisRun
  <2> QED
    BY <2>5, <2>6
<1>3. CASE \E m \in Names : UserWrites(m)
  <2>1. PICK m \in Names : UserWrites(m)
    BY <1>3
  <2>2. 0 \in 0..MaxRuns /\ TRUE \in BOOLEAN
    BY BoundAssumption
  <2>3. dir[m] = None /\ dir'[m] = File(0, TRUE) /\ run' = run /\ File(0, TRUE).run = 0
        /\ \A k \in Names : k # m => dir'[k] = dir[k]
    BY <2>1, <2>2, FileFacts DEF UserWrites, DirInv, TypeOK
  <2>4. \A w \in Writers : ~Publish(w)
    BY <2>1 DEF UserWrites, Publish
  <2>5. run \in Nat
    BY BoundAssumption DEF DirInv, TypeOK
  <2>6. CASE m = n
    <3>1. ~OfThisRun(n)
      BY <2>3, <2>6 DEF OfThisRun
    <3>2. dir'[n].run = 0 /\ run' = run
      BY <2>3, <2>6
    <3>3. ~OfThisRun(n)'
      BY <2>5, <3>2 DEF OfThisRun
    <3> QED
      BY <2>4, <3>1, <3>3
  <2>7. CASE m # n
    <3>1. dir'[n] = dir[n]
      BY <2>3, <2>7
    <3> QED
      BY <2>3, <2>4, <3>1 DEF OfThisRun
  <2> QED
    BY <2>6, <2>7
<1>4. CASE UNCHANGED <<dir, run, step>>
  <2>1. \A w \in Writers : ~Publish(w)
    BY <1>4, PublishSteps DEF DirInv
  <2> QED
    BY <1>4, <2>1 DEF OfThisRun
<1> QED
  BY <1>1, <1>2, <1>3, <1>4 DEF Next, Exit, Crash, RunsOver, vars

\* A write of this process is published when Publish has taken it there.
LEMMA PublishedStep ==
    ASSUME DirInv, [Next]_vars, ~Start, NEW w \in Writers
    PROVE  step'[w] = "published" <=> step[w] = "published" \/ Publish(w)
<1>1. CASE \E v \in Writers : Write(v)
  <2>1. PICK v \in Writers : Write(v)
    BY <1>1
  <2>2. CASE v = w
    BY <2>1, <2>2, PublishSteps DEF DirInv, Publish
  <2>3. CASE v # w
    BY <2>1, <2>3, StepsElsewhere, PublishOnce DEF DirInv
  <2> QED
    BY <2>2, <2>3
<1>2. CASE UNCHANGED step
  BY <1>2, PublishSteps DEF DirInv
<1> QED
  BY <1>1, <1>2 DEF Next, Prepare, Inspect, ReadMarker, ReadDirectory, Remove, TruncateMarker,
     WriteMarker, PrepareFails, Exit, Crash, UserWrites, RunsOver, vars

LEMMA PublishedKept ==
    ASSUME DirInv, [Next]_vars, PublishedInv
    PROVE  PublishedInv'
<1> SUFFICES ASSUME NEW w \in Attaching
             PROVE  OfThisRun(NameOf[w])' <=> step'[w] = "published"
  BY DEF PublishedInv
<1> w \in Writers /\ NameOf[w] \in Artifacts
  BY AttachingAssumption, NameFacts
<1>1. CASE Start
  <2>1. step'[w] = "idle"
    BY <1>1 DEF Start
  <2> QED
    BY <1>1, <2>1, NoneOfThisRun
<1>2. CASE ~Start
  <2>1. \A v \in Writers : NameOf[v] = NameOf[w] => v = w
    BY AttachingAssumption
  <2>2. OfThisRun(NameOf[w])' <=> OfThisRun(NameOf[w]) \/ Publish(w)
    BY <1>2, <2>1, ArtifactStep
  <2> QED
    BY <1>2, <2>2, PublishedStep DEF PublishedInv
<1> QED
  BY <1>1, <1>2

-----------------------------------------------------------------------------
(* The invariant.                                                          *)

\* The constants, as the proofs need them.
LEMMA AttachFacts ==
    /\ Limit \in Nat /\ Limit + 1 \in Nat /\ Sizes \subseteq Nat
    /\ Attaching \subseteq Writers /\ Reporting \subseteq Writers
    /\ Reporting \cap Attaching = {}
    /\ \A w \in Writers : NameOf[w] \in Artifacts
    /\ \A v \in Reporting, w \in Attaching : NameOf[v] # NameOf[w]
    /\ \A w \in Reporting : Shows[w] \subseteq Attaching
    /\ 1 .. MaxChanges \subseteq Nat
  BY LimitAssumption, AttachingAssumption, NameFacts DEF Sizes, Reporting

\* The names in a result are those of artifacts.
LEMMA ReferenceFacts ==
    ASSUME NEW w \in Reporting
    PROVE  References(w) \in SUBSET Artifacts
  BY AttachFacts DEF References

LEMMA CopyTypesKept ==
    ASSUME CopyTypes, CopyInv, DirInv, [AttachmentsNext]_allVars
    PROVE  CopyTypes'
<1> USE AttachFacts
<1>1. CASE StartRun
  BY <1>1 DEF StartRun, Fresh, CopyTypes, Contents
<1>2. CASE Replace
  BY <1>2 DEF Replace, CopyTypes, Sources, copyVars
<1>3. CASE Resize
  <2>1. PICK size \in Sizes :
           /\ source' = [source EXCEPT !.size = size]
           /\ handle' = [w \in Attaching |->
                            IF handle[w] # None /\ handle[w].id = source.id
                            THEN [handle[w] EXCEPT !.size = size] ELSE handle[w]]
    BY <1>3 DEF Resize
  <2>2. source' \in [id : Nat, kind : {"regular", "link", "directory"},
                     inside : BOOLEAN, size : Nat]
    BY <1>3, <2>1 DEF Resize, CopyTypes
  <2>3. handle' \in [Attaching -> Handles \cup {None}]
    BY <2>1 DEF CopyTypes, Handles
  <2> QED
    BY <1>3, <2>2, <2>3 DEF Resize, CopyTypes
<1>4. CASE \E w \in Attaching : Attach(w)
  <2>1. PICK w \in Attaching : Attach(w)
    BY <1>4
  <2>2. CASE Inspected(w)
    BY <2>2 DEF Inspected, Reach, Accepted, CopyTypes
  <2>3. CASE Opened(w)
    BY <2>3 DEF Opened, Reach, CopyTypes, Handles
  <2>4. CASE Buffered(w)
    BY <2>4 DEF Buffered, Reach, CopyTypes, Handles
  <2>5. CASE CopiedBytes(w)
    <3>1. handle[w].size \in Nat
      BY <2>5 DEF CopiedBytes, Copied, CopyInv, CopyOf, Handles
    <3>2. Bytes(w) \in Nat
      BY <3>1 DEF Bytes, Least
    <3>3. content' \in [Attaching -> Contents]
      BY <2>5, <3>1, <3>2 DEF CopiedBytes, CopyTypes, Contents
    <3> QED
      BY <2>5, <3>3 DEF CopiedBytes, CopyTypes, copyVars
  <2>6. CASE EndCopy(w)
    BY <2>6 DEF EndCopy, CopyTypes
  <2>7. CASE UNCHANGED attachmentVars
    BY <2>7 DEF attachmentVars, copyVars, CopyTypes
  <2> QED
    BY <2>1, <2>2, <2>3, <2>4, <2>5, <2>6, <2>7 DEF Attach, NotCopied, CreateCopy, CopyFails
<1>5. CASE \E w \in Reporting : PublishResult(w)
  <2>1. PICK w \in Reporting : PublishResult(w)
    BY <1>5
  <2>2. named' \in [Artifacts -> SUBSET Artifacts]
    BY <2>1, ReferenceFacts DEF PublishResult, CopyTypes
  <2> QED
    BY <2>1, <2>2 DEF PublishResult, CopyTypes, copyVars
<1>6. CASE UNCHANGED attachmentVars
  BY <1>6 DEF attachmentVars, copyVars, CopyTypes
<1> QED
  BY <1>1, <1>2, <1>3, <1>4, <1>5, <1>6 DEF AttachmentsNext, Report, CreateResult,
     CopiedResult, ResultFails, Around, allVars

\* An attachment is only affected by what is its own.
LEMMA SameCopy ==
    ASSUME NEW w \in Attaching, CopyOf(w), step'[w] = step[w], stage'[w] = stage[w],
           handle'[w] = handle[w], content'[w] = content[w]
    PROVE  CopyOf(w)'
  BY DEF CopyOf

\* The steps of an attachment keep it.
LEMMA AttachKeepsCopy ==
    ASSUME CopyTypes, DirInv, NEW w \in Attaching, CopyOf(w), Attach(w)
    PROVE  CopyOf(w)'
<1> USE AttachFacts
<1>0. w \in Writers /\ w \in DOMAIN step /\ TypeOK
  BY DEF DirInv, TypeOK
<1>1. CASE Inspected(w)
  BY <1>1 DEF Inspected, At, Reach, vars, CopyOf, CopyTypes
<1>2. CASE Opened(w)
  <2>1. handle'[w] \in Handles
    BY <1>2 DEF Opened, CopyTypes, Handles
  <2> QED
    BY <1>2, <2>1 DEF Opened, vars, CopyOf
<1>3. CASE Buffered(w)
  <2>1. handle'[w] \in Handles
    BY <1>3 DEF Buffered, CopyTypes, Handles
  <2> QED
    BY <1>3, <2>1 DEF Buffered, vars, CopyOf
<1>4. CASE NotCopied(w) \/ CopyFails(w)
  <2>1. step'[w] \in {"failed", "discard"} /\ UNCHANGED content
    BY <1>0, <1>4 DEF NotCopied, CopyFails, WriteRejected, WriteFails, Advance, attachmentVars
  <2> QED
    BY <2>1 DEF CopyOf
<1>5. CASE CreateCopy(w)
  <2>1. step'[w] = "copy" /\ step[w] = "idle" /\ stage[w] = "opened"
        /\ UNCHANGED <<handle, content>>
    BY <1>0, <1>5 DEF CreateCopy, CreateTemp, At, Advance, attachmentVars, copyVars
  <2> QED
    BY <2>1 DEF CopyOf
<1>6. CASE CopiedBytes(w)
  <2>1. step[w] = "copy" /\ handle[w].size \in Nat
    BY <1>6 DEF CopiedBytes, Copied, CopyOf, Handles
  <2>2. Bytes(w) \in Nat /\ Bytes(w) <= Limit + 1
        /\ (Bytes(w) <= Limit => Bytes(w) = handle[w].size)
    BY <2>1 DEF Bytes, Least
  <2>3. content'[w].copied = Bytes(w) /\ content'[w].of = handle[w].size
    BY <1>6 DEF CopiedBytes, CopyTypes
  <2>4. PICK whole \in BOOLEAN :
           /\ dir' = [dir EXCEPT ![Temp(w)] = File(run, whole)]
           /\ Advance(w, IF whole THEN "publish" ELSE "discard")
    BY <1>6 DEF CopiedBytes, Copied
  <2>5. dir'[Temp(w)].whole = whole
    <3>1. run \in Runs /\ run \in 0..MaxRuns
      BY <1>6, RunFacts DEF CopiedBytes, Copied
    <3>2. Temp(w) \in Names
      BY <1>0, <3>1, TempFacts, NameFacts
    <3> QED
      BY <1>0, <2>4, <3>1, <3>2, FileFacts DEF TypeOK
  <2>6. whole => Bytes(w) <= Limit
    BY <1>6, <2>5 DEF CopiedBytes
  <2>7. step'[w] = IF whole THEN "publish" ELSE "discard"
    BY <1>0, <2>4 DEF Advance
  <2> QED
    BY <2>2, <2>3, <2>6, <2>7 DEF CopyOf
<1>7. CASE EndCopy(w)
  <2>1. step'[w] \in {"published", "failed"} /\ UNCHANGED content
        /\ (step'[w] = "published" => step[w] = "publish")
    BY <1>0, <1>7 DEF EndCopy, Publish, Discard, Advance
  <2> QED
    BY <2>1 DEF CopyOf
<1> QED
  BY <1>1, <1>2, <1>3, <1>4, <1>5, <1>6, <1>7 DEF Attach

LEMMA CopyKept ==
    ASSUME CopyTypes, CopyInv, DirInv, [AttachmentsNext]_allVars
    PROVE  CopyInv'
<1> SUFFICES ASSUME NEW w \in Attaching
             PROVE  CopyOf(w)'
  BY DEF CopyInv
<1>0. CopyOf(w) /\ w \in Writers /\ TypeOK
  BY AttachFacts DEF CopyInv, DirInv
<1>1. CASE StartRun
  <2>1. step'[w] = "idle" /\ stage'[w] = "lookup" /\ content'[w].copied = 0
    BY <1>0, <1>1 DEF StartRun, Start, Fresh
  <2> QED
    BY <2>1, AttachFacts DEF CopyOf
<1>2. CASE Replace
  BY <1>0, <1>2, SameCopy DEF Replace, vars, copyVars
<1>3. CASE Resize
  <2>1. /\ handle'[w] = handle[w] \/ \E size \in Sizes :
              handle'[w] = [handle[w] EXCEPT !.size = size]
        /\ UNCHANGED <<step, stage, content>>
    BY <1>3 DEF Resize, vars
  <2>2. handle[w] \in Handles => handle'[w] \in Handles
    BY <2>1, AttachFacts DEF Handles
  <2> QED
    BY <1>0, <2>1, <2>2 DEF CopyOf
<1>4. CASE \E u \in Attaching : Attach(u)
  <2>1. PICK u \in Attaching : Attach(u)
    BY <1>4
  <2>2. CASE u = w
    BY <1>0, <2>1, <2>2, AttachKeepsCopy
  <2>3. CASE u # w
    <3>1. Write(u) \/ UNCHANGED vars
      BY <2>1 DEF Attach, Inspected, Opened, Buffered, NotCopied, CreateCopy, CopiedBytes,
                  CopyFails, EndCopy, Write
    <3>2. step'[w] = step[w]
      BY <1>0, <2>3, <3>1, AttachFacts, StepsElsewhere DEF vars
    <3>3. stage'[w] = stage[w] /\ handle'[w] = handle[w] /\ content'[w] = content[w]
      BY <2>1, <2>3 DEF Attach, Inspected, Opened, Buffered, NotCopied, CreateCopy,
         CopiedBytes, CopyFails, EndCopy, Reach, attachmentVars, copyVars, CopyTypes
    <3> QED
      BY <1>0, <3>2, <3>3, SameCopy
  <2> QED
    BY <2>2, <2>3
<1>5. CASE \E u \in Reporting : Report(u)
  <2>1. PICK u \in Reporting : Report(u)
    BY <1>5
  <2>2. Write(u) /\ UNCHANGED copyVars /\ UNCHANGED content
    BY <2>1 DEF Report, CreateResult, CopiedResult, PublishResult, ResultFails, Write,
                attachmentVars
  <2>3. step'[w] = step[w]
    BY <1>0, <2>1, <2>2, AttachFacts, StepsElsewhere
  <2> QED
    BY <1>0, <2>2, <2>3, SameCopy DEF copyVars
<1>6. CASE Around \/ UNCHANGED allVars
  <2>1. UNCHANGED <<step, stage, handle, content>>
    BY <1>6 DEF Around, allVars, vars, attachmentVars, copyVars, Prepare, Inspect, ReadMarker,
       ReadDirectory, Remove, TruncateMarker, WriteMarker, PrepareFails, Exit, Crash,
       UserWrites, RunsOver
  <2> QED
    BY <1>0, <2>1, SameCopy
<1> QED
  BY <1>1, <1>2, <1>3, <1>4, <1>5, <1>6 DEF AttachmentsNext

LEMMA NamedKept ==
    ASSUME AttachInv, DirInv, [AttachmentsNext]_allVars
    PROVE  NamedInv'
<1>0. TypeOK /\ CopyTypes /\ PublishedInv /\ NamedInv /\ [Next]_vars
  BY DirStep DEF AttachInv, DirInv
<1>1. CASE StartRun
  <2>1. \A n \in Artifacts : ~OfThisRun(n)'
    BY <1>1, NoneOfThisRun DEF StartRun
  <2>2. named' = named
    BY <1>1 DEF StartRun
  <2> QED
    BY <1>0, <2>1, <2>2 DEF NamedInv
<1>2. CASE \E w \in Reporting : PublishResult(w)
  <2>1. PICK w \in Reporting : PublishResult(w)
    BY <1>2
  <2>2. ~Start /\ Publish(w) /\ Write(w) /\ w \in Writers /\ NameOf[w] \in Artifacts
    BY <2>1, AttachFacts DEF PublishResult, Publish, Start, Write
  <2>3. /\ named'[NameOf[w]] = References(w)
        /\ \A n \in Artifacts : n # NameOf[w] => named'[n] = named[n]
    BY <1>0, <2>1, <2>2 DEF PublishResult, CopyTypes
  <2>4. \A v \in Attaching : named'[NameOf[v]] = {}
    BY <1>0, <2>3, AttachFacts DEF NamedInv
  <2>5. ASSUME NEW n \in Artifacts, OfThisRun(n)', NEW a \in named'[n]
        PROVE  OfThisRun(a)'
    <3>1. CASE n = NameOf[w]
      <4>1. PICK v \in Attaching : a = NameOf[v] /\ step[v] = "published"
        BY <2>3, <2>5, <3>1, AttachFacts DEF References
      <4>2. OfThisRun(a) /\ a \in Artifacts
        BY <1>0, <4>1, AttachFacts DEF PublishedInv
      <4> QED
        BY <1>0, <2>2, <4>2, ArtifactStep
    <3>2. CASE n # NameOf[w]
      <4>1. OfThisRun(n)
        BY <1>0, <2>2, <2>5, <3>2, ArtifactStep, PublishOnce
      <4>2. OfThisRun(a) /\ a \in Artifacts
        BY <1>0, <2>3, <2>5, <3>2, <4>1 DEF NamedInv, CopyTypes
      <4> QED
        BY <1>0, <2>2, <4>2, ArtifactStep
    <3> QED
      BY <3>1, <3>2
  <2> QED
    BY <2>4, <2>5 DEF NamedInv
<1>3. CASE UNCHANGED named /\ ~Start /\ \A v \in Reporting : ~Publish(v)
  <2>1. ASSUME NEW n \in Artifacts, OfThisRun(n)', NEW a \in named[n]
        PROVE  OfThisRun(a)'
    <3>1. OfThisRun(n) \/ \E v \in Attaching : NameOf[v] = n
      BY <1>0, <1>3, <2>1, ArtifactStep DEF Reporting
    <3>2. OfThisRun(a) /\ a \in Artifacts
      BY <1>0, <2>1, <3>1 DEF NamedInv, CopyTypes
    <3> QED
      BY <1>0, <1>3, <3>2, ArtifactStep
  <2> QED
    BY <1>0, <1>3, <2>1 DEF NamedInv
<1>4. CASE Replace \/ Resize \/ UNCHANGED allVars
  <2>1. UNCHANGED vars /\ UNCHANGED named
    BY <1>4 DEF Replace, Resize, allVars, attachmentVars
  <2>2. ~Start /\ \A v \in Reporting : ~Publish(v)
    BY <1>0, <2>1, PublishSteps, AttachFacts DEF vars, Start, TypeOK
  <2> QED
    BY <1>3, <2>1, <2>2
<1>5. CASE \E w \in Attaching : Attach(w)
  <2>1. PICK w \in Attaching : Attach(w)
    BY <1>5
  <2>2. (Write(w) \/ UNCHANGED vars) /\ UNCHANGED named /\ proc = "serving"
    BY <2>1 DEF Attach, Inspected, Opened, Buffered, NotCopied, CreateCopy, CopiedBytes,
       CopyFails, EndCopy, Write, attachmentVars, At, WriteRejected, CreateTemp, Copied,
       WriteFails, Publish, Discard
  <2>3. ~Start
    BY <2>2 DEF Start
  <2>4. \A v \in Reporting : ~Publish(v)
    BY <1>0, <2>2, PublishOnce, PublishSteps, AttachFacts DEF vars
  <2> QED
    BY <1>3, <2>2, <2>3, <2>4
<1>6. CASE \E w \in Reporting : CreateResult(w) \/ CopiedResult(w) \/ ResultFails(w)
  <2>1. PICK w \in Reporting : CreateResult(w) \/ CopiedResult(w) \/ ResultFails(w)
    BY <1>6
  <2>2. Write(w) /\ UNCHANGED named /\ proc = "serving" /\ w \in Writers
    BY <2>1, AttachFacts DEF CreateResult, CopiedResult, ResultFails, Write, attachmentVars,
       WriteRejected, CreateTemp, Copied, WriteFails, Discard
  <2>3. step'[w] # "published"
    BY <1>0, <2>1, <2>2 DEF CreateResult, CopiedResult, ResultFails, WriteRejected, CreateTemp,
       Copied, WriteFails, Discard, Advance, TypeOK
  <2>4. ~Start /\ \A v \in Reporting : ~Publish(v)
    BY <1>0, <2>2, <2>3, PublishOnce, PublishSteps, AttachFacts DEF Start
  <2> QED
    BY <1>3, <2>2, <2>4
<1>7. CASE Around
  <2>1. UNCHANGED <<step, named>> /\ ~Start
    BY <1>0, <1>7 DEF Around, attachmentVars, vars, Prepare, Inspect, ReadMarker, ReadDirectory,
       Remove, TruncateMarker, WriteMarker, PrepareFails, Exit, Crash, UserWrites, RunsOver,
       Start, TypeOK
  <2> QED
    BY <1>0, <1>3, <2>1, PublishSteps, AttachFacts
<1> QED
  BY <1>1, <1>2, <1>4, <1>5, <1>6, <1>7 DEF AttachmentsNext, Report

LEMMA AttachInit == AttachmentsInit => AttachInv
<1> SUFFICES ASSUME AttachmentsInit PROVE AttachInv
  OBVIOUS
<1> USE AttachFacts DEF AttachmentsInit, Fresh
<1>1. CopyTypes
  BY DEF CopyTypes, Contents
<1>2. CopyInv
  BY DEF CopyInv, CopyOf, Init
<1>3. PublishedInv /\ NamedInv
  BY DEF PublishedInv, NamedInv, OfThisRun, Init
<1> QED
  BY <1>1, <1>2, <1>3 DEF AttachInv

LEMMA AttachNext ==
    ASSUME AttachInv, DirInv, [AttachmentsNext]_allVars
    PROVE  AttachInv'
  BY DirStep, CopyTypesKept, CopyKept, PublishedKept, NamedKept DEF AttachInv

LEMMA AttachInvariance == AttachmentsSpec => [](AttachInv /\ DirInv)
<1>1. AttachmentsSpec => []DirInv
  BY RunsOnDir, Invariance, PTL
<1>2. AttachInv /\ DirInv /\ [AttachmentsNext]_allVars => AttachInv'
  BY AttachNext
<1> QED
  BY <1>1, <1>2, AttachInit, PTL DEF AttachmentsSpec

-----------------------------------------------------------------------------
(* Theorems.                                                               *)

\* What ResultsDirProofs has of the directory holds while attachments are copied:
\* a process serves on top of its own report only, leaves no temporary file of a
\* write that is over, keeps a user's files and shows a reader whole artifacts.
THEOREM DirectoryKept ==
    AttachmentsSpec => []FreshReport /\ []TempsInUse /\ UserFilesKept /\ ImplementsArtifactStore
  BY RunsOnDir, ReportFresh, NoStrayTemps, UsersKeepFiles, StoreImplemented

\* Manager.Copy: whatever the runner does to the source between its inspection, its
\* opening and the end of the copy, an attachment on disk is all of one file and
\* within the limit, and a temporary file is a byte above it at most.
THEOREM AttachmentsWhole == AttachmentsSpec => []AttachmentsComplete
<1>1. AttachInv /\ DirInv => AttachmentsComplete
  BY DEF AttachInv, CopyInv, CopyOf, PublishedInv, AttachmentsComplete
<1> QED
  BY <1>1, AttachInvariance, PTL

\* attachStep: a result names only attachments that are on disk, whole and of its
\* own run, whichever of them fail and wherever the process dies.
THEOREM ReferencesKept == AttachmentsSpec => []ReferencesOnDisk
<1>1. AttachInv /\ DirInv => ReferencesOnDisk
  BY DEF AttachInv, CopyTypes, NamedInv, ReferencesOnDisk, DirInv, WholeArtifacts, OfThisRun
<1> QED
  BY <1>1, AttachInvariance, PTL
=============================================================================
