-------------------------- MODULE ResultsDirProofs --------------------------
(***************************************************************************)
(* Theorems about ResultsDir, for every number of processes, of concurrent *)
(* writes and of names.                                                    *)
(***************************************************************************)
EXTENDS ResultsDir, TLAPS

Preparing == {"inspect", "owner", "list", "remove", "mark"}

\* A process that runs has a number, and nothing is written while it prepares.
ProcInv ==
    /\ proc # "down" => run \in Runs
    /\ proc \in Preparing => \A w \in Writers : step[w] = "idle"

\* A file is of a process that has started, of an earlier one while the current
\* process prepares (the marker apart), and a user leaves names of no other kind.
RunInv ==
    /\ \A n \in Names : dir[n] # None =>
          dir[n].run <= run /\ (dir[n].run = 0 => n \in Artifacts \cup UserNames)
    /\ proc \in Preparing =>
          \A n \in Names \ {Marker} : dir[n] # None => dir[n].run # run

\* Prepare has listed what there is, may remove it, and has removed what it knows
\* when it marks the directory.
CleanInv ==
    /\ proc = "remove" =>
          /\ Present \subseteq entries
          /\ owned \/ AllowNonOwned \/ entries \subseteq {Marker}
    /\ proc = "mark" => \A n \in Artifacts \cup Temps : dir[n] = None

\* A file that is about to be published is whole.
PublishInv ==
    proc = "serving" =>
        \A w \in Writers : step[w] = "publish" => dir[Temp(w)] # None /\ dir[Temp(w)].whole

DirInv ==
    /\ TypeOK
    /\ ProcInv
    /\ RunInv
    /\ CleanInv
    /\ PublishInv
    /\ WholeArtifacts
    /\ FreshReport
    /\ TempsInUse

-----------------------------------------------------------------------------
(* Facts about names and files.                                            *)

\* The kinds of names are disjoint, and every write publishes an artifact.
LEMMA NameFacts ==
    /\ Artifacts \subseteq Names /\ Temps \subseteq Names /\ Marker \in Names
    /\ Marker \notin Artifacts /\ Marker \notin Temps /\ Marker \notin UserNames
    /\ Artifacts \cap Temps = {} /\ UserNames \cap Temps = {}
    /\ Artifacts \cap UserNames = {} /\ UserNames \subseteq Names
    /\ \A w \in Writers : NameOf[w] \in Artifacts
  BY NameAssumption DEF Names

\* A file is a run and a flag, and a name without one is told apart from it.
LEMMA FileFacts ==
    ASSUME NEW r \in 0..MaxRuns, NEW whole \in BOOLEAN
    PROVE  /\ File(r, whole) \in Files /\ File(r, whole) # None
           /\ File(r, whole).run = r /\ File(r, whole).whole = whole
  BY AbsentAssumption DEF File, Files

\* What a name holds is a file or nothing.
LEMMA DirFacts ==
    ASSUME TypeOK, NEW n \in Names, dir[n] # None
    PROVE  /\ dir[n] \in Files
           /\ dir[n].run \in 0..MaxRuns /\ dir[n].whole \in BOOLEAN
  BY DEF TypeOK, Files

\* Writes of one process have temporary files of their own.
LEMMA TempFacts ==
    ASSUME run \in Runs, NEW w \in Writers
    PROVE  Temp(w) \in Temps /\ \A v \in Writers : Temp(v) = Temp(w) => v = w
  BY DEF Temp, Temps

-----------------------------------------------------------------------------
(* The invariant.                                                          *)

\* A process that runs has a number.
LEMMA RunFacts ==
    ASSUME DirInv, proc # "down"
    PROVE  run \in Runs /\ run # 0 /\ run <= run /\ run \in 0..MaxRuns
  BY BoundAssumption DEF DirInv, ProcInv, Runs

LEMMA InitInv == Init => DirInv
<1> SUFFICES ASSUME Init PROVE DirInv
  OBVIOUS
<1> USE BoundAssumption DEF Init
<1>1. File(0, TRUE) \in Files /\ File(0, TRUE).run = 0 /\ File(0, TRUE).whole = TRUE
  <2>1. 0 \in 0..MaxRuns /\ TRUE \in BOOLEAN
    OBVIOUS
  <2> QED
    BY <2>1, FileFacts
<1>2. \A n \in Names : dir[n] # None =>
         n \in Artifacts \cup UserNames /\ dir[n] = File(0, TRUE)
  BY DEF Present
<1>3. TypeOK
  <2>1. dir \in [Names -> Files \cup {None}]
    BY <1>1
  <2>2. step \in [Writers -> Steps]
    BY DEF Steps
  <2>3. /\ place \in {"absent", "directory", "refused"} /\ proc \in Places
        /\ outcome \in {"none", "ok", "refused", "failed"} /\ entries \subseteq Names
    BY DEF Places
  <2>4. run \in 0..MaxRuns
    OBVIOUS
  <2>5. owned \in BOOLEAN
    BY Zenon
  <2> QED
    BY <2>1, <2>2, <2>3, <2>4, <2>5 DEF TypeOK
<1>4. ProcInv /\ CleanInv /\ PublishInv
  BY DEF ProcInv, CleanInv, PublishInv, Preparing
<1>5. RunInv
  <2>1. ASSUME NEW n \in Names, dir[n] # None
        PROVE  dir[n].run <= run /\ n \in Artifacts \cup UserNames
    <3>1. dir[n].run = 0 /\ n \in Artifacts \cup UserNames
      BY <1>1, <1>2, <2>1
    <3> QED
      BY <3>1
  <2>2. proc \notin Preparing
    BY DEF Preparing
  <2> QED
    BY <2>1, <2>2 DEF RunInv
<1>6. WholeArtifacts
  BY <1>1, <1>2, NameFacts DEF WholeArtifacts
<1>7. FreshReport /\ TempsInUse
  BY DEF FreshReport, TempsInUse, Serving
<1> QED
  BY <1>3, <1>4, <1>5, <1>6, <1>7 DEF DirInv

\* Steps of Prepare and of the process that leave the directory alone.
LEMMA StartInv == ASSUME DirInv, Start PROVE DirInv'
<1> USE BoundAssumption DEF Start, local
<1>1. TypeOK'
  BY DEF DirInv, TypeOK, Runs, Places, Steps
<1>2. ProcInv'
  BY DEF DirInv, TypeOK, ProcInv, Preparing, Runs
<1>3. RunInv'
  <2>1. ASSUME NEW n \in Names, dir[n] # None
        PROVE  dir[n].run \in Nat /\ dir[n].run <= run
    BY <2>1, DirFacts DEF DirInv, RunInv
  <2>2. run \in Nat /\ run' = run + 1
    BY DEF DirInv, TypeOK
  <2> QED
    BY <2>1, <2>2 DEF DirInv, RunInv, Preparing
<1>4. CleanInv' /\ PublishInv'
  BY DEF CleanInv, PublishInv
<1>5. WholeArtifacts' /\ FreshReport' /\ TempsInUse'
  BY DEF DirInv, WholeArtifacts, FreshReport, TempsInUse, Serving
<1> QED
  BY <1>1, <1>2, <1>3, <1>4, <1>5 DEF DirInv

LEMMA InspectInv == ASSUME DirInv, Inspect PROVE DirInv'
<1> USE DEF Inspect, Stop, local
<1>1. TypeOK'
  BY DEF DirInv, TypeOK, Places
<1>2. ProcInv'
  BY DEF DirInv, ProcInv, Preparing
<1>3. RunInv'
  BY DEF DirInv, RunInv, Preparing
<1>4. CleanInv' /\ PublishInv'
  BY DEF CleanInv, PublishInv
<1>5. WholeArtifacts' /\ FreshReport' /\ TempsInUse'
  BY DEF DirInv, WholeArtifacts, FreshReport, TempsInUse, Serving
<1> QED
  BY <1>1, <1>2, <1>3, <1>4, <1>5 DEF DirInv

LEMMA ReadMarkerInv == ASSUME DirInv, ReadMarker PROVE DirInv'
<1> USE DEF ReadMarker
<1>1. TypeOK'
  BY DEF DirInv, TypeOK, Places
<1>2. ProcInv'
  BY DEF DirInv, ProcInv, Preparing
<1>3. RunInv'
  BY DEF DirInv, RunInv, Preparing
<1>4. CleanInv' /\ PublishInv'
  BY DEF CleanInv, PublishInv
<1>5. WholeArtifacts' /\ FreshReport' /\ TempsInUse'
  BY DEF DirInv, WholeArtifacts, FreshReport, TempsInUse, Serving
<1> QED
  BY <1>1, <1>2, <1>3, <1>4, <1>5 DEF DirInv

LEMMA ReadDirectoryInv == ASSUME DirInv, ReadDirectory PROVE DirInv'
<1> USE DEF ReadDirectory, Stop
<1>1. TypeOK'
  BY DEF DirInv, TypeOK, Places, Present
<1>2. ProcInv'
  BY DEF DirInv, ProcInv, Preparing
<1>3. RunInv'
  BY DEF DirInv, RunInv, Preparing
<1>4. CleanInv' /\ PublishInv'
  BY DEF CleanInv, PublishInv, Refuses, Present
<1>5. WholeArtifacts' /\ FreshReport' /\ TempsInUse'
  BY DEF DirInv, WholeArtifacts, FreshReport, TempsInUse, Serving
<1> QED
  BY <1>1, <1>2, <1>3, <1>4, <1>5 DEF DirInv

LEMMA DownInv ==
    ASSUME DirInv, proc' = "down", UNCHANGED <<place, dir, run, local, step>>,
           outcome' \in {"none", "ok", "refused", "failed"}
    PROVE  DirInv'
<1> USE DEF local
<1>1. TypeOK'
  BY DEF DirInv, TypeOK, Places
<1>2. ProcInv'
  BY DEF ProcInv, Preparing
<1>3. RunInv'
  BY DEF DirInv, RunInv, Preparing
<1>4. CleanInv' /\ PublishInv'
  BY DEF CleanInv, PublishInv
<1>5. WholeArtifacts' /\ FreshReport' /\ TempsInUse'
  BY DEF DirInv, WholeArtifacts, FreshReport, TempsInUse, Serving
<1> QED
  BY <1>1, <1>2, <1>3, <1>4, <1>5 DEF DirInv

\* A step that changes one file, to one of the current process.
LEMMA OneFile ==
    ASSUME TypeOK, NEW n \in Names, NEW f \in Files \cup {None},
           dir' = [dir EXCEPT ![n] = f]
    PROVE  /\ dir' \in [Names -> Files \cup {None}]
           /\ dir'[n] = f
           /\ \A m \in Names : m # n => dir'[m] = dir[m]
  BY DEF TypeOK

LEMMA RemoveInv == ASSUME DirInv, NEW n \in Names, Remove(n) PROVE DirInv'
<1> USE DEF Remove
<1>1. /\ dir' \in [Names -> Files \cup {None}] /\ dir'[n] = None
      /\ \A m \in Names : m # n => dir'[m] = dir[m]
  BY OneFile DEF DirInv
<1>2. TypeOK'
  BY <1>1 DEF DirInv, TypeOK
<1>3. ProcInv'
  BY DEF DirInv, ProcInv, Preparing
<1>4. RunInv'
  BY <1>1 DEF DirInv, RunInv, Preparing
<1>5. CleanInv' /\ PublishInv'
  BY <1>1 DEF DirInv, CleanInv, PublishInv, Present
<1>6. WholeArtifacts'
  BY <1>1, NameFacts DEF DirInv, WholeArtifacts
<1>7. FreshReport' /\ TempsInUse'
  BY DEF FreshReport, TempsInUse, Serving
<1> QED
  BY <1>2, <1>3, <1>4, <1>5, <1>6, <1>7 DEF DirInv

\* What both writes of the marker have in common.
LEMMA MarkerStep ==
    ASSUME DirInv, proc \in Preparing, NEW whole \in BOOLEAN,
           dir' = [dir EXCEPT ![Marker] = File(run, whole)],
           UNCHANGED <<place, run, local, step>>,
           proc' \in {"mark", "serving"}, outcome' \in {outcome, "ok"},
           \A n \in Artifacts \cup Temps : dir[n] = None
    PROVE  DirInv'
<1>1. run \in Runs /\ run \in 0..MaxRuns
  BY BoundAssumption DEF DirInv, ProcInv, TypeOK, Runs, Preparing
<1>2. /\ dir' \in [Names -> Files \cup {None}] /\ dir'[Marker] = File(run, whole)
      /\ \A m \in Names : m # Marker => dir'[m] = dir[m]
      /\ File(run, whole).run = run
  BY <1>1, OneFile, FileFacts, NameFacts DEF DirInv
<1>3. \A n \in Artifacts \cup Temps : dir'[n] = None
  BY <1>2, NameFacts
<1>4. TypeOK'
  BY <1>2 DEF DirInv, TypeOK, Places, local
<1>5. ProcInv'
  BY <1>1 DEF DirInv, ProcInv, Preparing, local
<1>6. RunInv'
  <2>1. run # 0 /\ run <= run
    BY <1>1, BoundAssumption DEF Runs
  <2> QED
    BY <1>2, <2>1 DEF DirInv, RunInv, Preparing, local
<1>7. CleanInv'
  BY <1>3 DEF CleanInv
<1>8. PublishInv'
  BY DEF DirInv, ProcInv, PublishInv, local
<1>9. WholeArtifacts' /\ FreshReport'
  BY <1>3 DEF WholeArtifacts, FreshReport
<1>10. TempsInUse'
  BY <1>1, <1>3, TempFacts DEF TempsInUse, Temp, local
<1> QED
  BY <1>4, <1>5, <1>6, <1>7, <1>8, <1>9, <1>10 DEF DirInv

LEMMA TruncateMarkerInv == ASSUME DirInv, TruncateMarker PROVE DirInv'
<1>1. \A n \in Artifacts \cup Temps : dir[n] = None
  BY NameFacts DEF TruncateMarker, DirInv, CleanInv, Present, Known
<1> QED
  BY <1>1, MarkerStep DEF TruncateMarker, Preparing

LEMMA WriteMarkerInv == ASSUME DirInv, WriteMarker PROVE DirInv'
<1>1. \A n \in Artifacts \cup Temps : dir[n] = None
  BY DEF WriteMarker, DirInv, CleanInv
<1> QED
  BY <1>1, MarkerStep DEF WriteMarker, Preparing

\* A write that changes nothing but where it is.
LEMMA LabelStep ==
    ASSUME DirInv, proc = "serving", NEW w \in Writers, NEW label \in Steps \ {"publish"},
           label # "discard" => ~Writing(w), Advance(w, label),
           UNCHANGED <<place, dir, proc, run, local, outcome>>
    PROVE  DirInv'
<1> USE DEF Advance, local
<1>1. step' \in [Writers -> Steps] /\ step'[w] = label
      /\ \A v \in Writers : v # w => step'[v] = step[v]
  BY DEF DirInv, TypeOK
<1>2. TypeOK'
  BY <1>1 DEF DirInv, TypeOK
<1>3. ProcInv'
  BY DEF DirInv, ProcInv, Preparing
<1>4. RunInv' /\ CleanInv'
  BY DEF DirInv, RunInv, CleanInv
<1>5. PublishInv'
  BY <1>1 DEF DirInv, PublishInv, Temp
<1>6. WholeArtifacts' /\ FreshReport'
  BY DEF DirInv, WholeArtifacts, FreshReport, Serving
<1>7. TempsInUse'
  BY <1>1 DEF DirInv, TempsInUse, Serving, Writing, Temp
<1> QED
  BY <1>2, <1>3, <1>4, <1>5, <1>6, <1>7 DEF DirInv

\* A write that sets its temporary file.
LEMMA TempStep ==
    ASSUME DirInv, proc = "serving", NEW w \in Writers,
           NEW f \in Files \cup {None}, f # None => f.run = run,
           NEW label \in Steps, Advance(w, label),
           f # None => label \in {"copy", "publish", "discard"},
           label = "publish" => f # None /\ f.whole,
           dir' = [dir EXCEPT ![Temp(w)] = f],
           UNCHANGED <<place, proc, run, local, outcome>>
    PROVE  DirInv'
<1> USE DEF local
<1>1. step' \in [Writers -> Steps] /\ step'[w] = label
      /\ \A v \in Writers : v # w => step'[v] = step[v]
  BY DEF DirInv, TypeOK, Advance
<1>2. run \in Runs /\ run # 0 /\ run <= run
  BY RunFacts
<1>3. Temp(w) \in Temps /\ Temp(w) \in Names /\ Temp(w) \notin Artifacts \cup {Marker}
      /\ \A v \in Writers : v # w => Temp(v) # Temp(w) /\ Temp(v) \in Names
  BY <1>2, TempFacts, NameFacts
<1>4. /\ dir' \in [Names -> Files \cup {None}] /\ dir'[Temp(w)] = f
      /\ \A m \in Names : m # Temp(w) => dir'[m] = dir[m]
  BY <1>3, OneFile DEF DirInv
<1>5. \A n \in Artifacts : dir'[n] = dir[n]
  BY <1>3, <1>4, NameFacts
<1>6. \A v \in Writers : Temp(v)' = Temp(v)
  BY DEF Temp
<1>7. TypeOK'
  BY <1>1, <1>4 DEF DirInv, TypeOK
<1>8. ProcInv'
  BY DEF DirInv, ProcInv, Preparing
<1>9. RunInv'
  BY <1>2, <1>4 DEF DirInv, RunInv, Preparing
<1>10. CleanInv'
  BY DEF CleanInv
<1>11. PublishInv'
  BY <1>1, <1>3, <1>4, <1>6 DEF DirInv, PublishInv
<1>12. WholeArtifacts'
  BY <1>5 DEF DirInv, WholeArtifacts
<1>13. FreshReport'
  BY <1>4, <1>5, NameFacts DEF DirInv, FreshReport, Serving
<1>14. TempsInUse'
  BY <1>1, <1>3, <1>4, <1>6 DEF DirInv, TempsInUse, Serving, Writing
<1> QED
  BY <1>7, <1>8, <1>9, <1>10, <1>11, <1>12, <1>13, <1>14 DEF DirInv

LEMMA PublishStep == ASSUME DirInv, NEW w \in Writers, Publish(w) PROVE DirInv'
<1> USE DEF Publish, local
<1> DEFINE t == Temp(w)
           n == NameOf[w]
<1>1. step' \in [Writers -> Steps] /\ step'[w] = "published"
      /\ \A v \in Writers : v # w => step'[v] = step[v]
  BY DEF DirInv, TypeOK, Advance, Steps
<1>2. run \in Runs /\ run # 0 /\ run <= run
  BY RunFacts
<1>3. /\ t \in Temps /\ t \in Names /\ t \notin Artifacts \cup {Marker}
      /\ n \in Artifacts /\ n \in Names /\ n # t
      /\ \A v \in Writers : v # w => Temp(v) # t /\ Temp(v) \in Names
      /\ \A v \in Writers : Temp(v) # n
  BY <1>2, TempFacts, NameFacts
<1>4. dir[t] # None /\ dir[t].whole /\ dir[t] \in Files /\ dir[t].run = run
  BY <1>3, DirFacts DEF DirInv, PublishInv, FreshReport, Serving
<1>5. /\ dir' \in [Names -> Files \cup {None}]
      /\ dir'[t] = None /\ dir'[n] = dir[t]
      /\ \A m \in Names : m # t /\ m # n => dir'[m] = dir[m]
  BY <1>3, <1>4 DEF DirInv, TypeOK
<1>6. \A v \in Writers : Temp(v)' = Temp(v)
  BY DEF Temp
<1> HIDE DEF t, n
<1>7. TypeOK'
  BY <1>1, <1>5 DEF DirInv, TypeOK
<1>8. ProcInv'
  BY DEF DirInv, ProcInv, Preparing
<1>9. RunInv'
  BY <1>2, <1>4, <1>5 DEF DirInv, RunInv, Preparing
<1>10. CleanInv'
  BY DEF CleanInv
<1>11. PublishInv'
  <2>1. ASSUME NEW v \in Writers, step'[v] = "publish"
        PROVE  dir'[Temp(v)] # None /\ dir'[Temp(v)].whole
    <3>1. v # w /\ step[v] = "publish"
      BY <1>1, <2>1
    <3>2. dir'[Temp(v)] = dir[Temp(v)]
      BY <1>3, <1>5, <3>1 DEF t
    <3> QED
      BY <3>1, <3>2 DEF DirInv, PublishInv
  <2> QED
    BY <1>6, <2>1 DEF PublishInv
<1>12. WholeArtifacts'
  BY <1>3, <1>4, <1>5, NameFacts DEF DirInv, WholeArtifacts
<1>13. FreshReport'
  BY <1>4, <1>5, NameFacts DEF DirInv, FreshReport, Serving
<1>14. TempsInUse'
  <2>1. ASSUME NEW v \in Writers, dir'[Temp(v)] # None
        PROVE  step'[v] \in {"copy", "publish", "discard"}
    <3>1. v # w
      BY <1>5, <2>1 DEF t
    <3>2. dir'[Temp(v)] = dir[Temp(v)]
      BY <1>3, <1>5, <3>1 DEF t
    <3> QED
      BY <1>1, <2>1, <3>1, <3>2 DEF DirInv, TempsInUse, Serving, Writing
  <2> QED
    BY <1>6, <2>1 DEF TempsInUse, Writing
<1> QED
  BY <1>7, <1>8, <1>9, <1>10, <1>11, <1>12, <1>13, <1>14 DEF DirInv

LEMMA WriteInv == ASSUME DirInv, NEW w \in Writers, Write(w) PROVE DirInv'
<1>1. run \in 0..MaxRuns /\ None \notin Files
  BY AbsentAssumption DEF DirInv, TypeOK
<1>2. CASE WriteRejected(w)
  BY <1>2, LabelStep DEF WriteRejected, Steps, Writing
<1>3. CASE CreateTemp(w)
  <2>1. File(run, FALSE) \in Files /\ File(run, FALSE).run = run
    BY <1>1, FileFacts
  <2> QED
    BY <1>3, <2>1, TempStep DEF CreateTemp, Steps
<1>4. CASE Copied(w)
  <2>1. PICK whole \in BOOLEAN :
           /\ dir' = [dir EXCEPT ![Temp(w)] = File(run, whole)]
           /\ Advance(w, IF whole THEN "publish" ELSE "discard")
    BY <1>4 DEF Copied
  <2>2. /\ File(run, whole) \in Files /\ File(run, whole) # None
        /\ File(run, whole).run = run /\ File(run, whole).whole = whole
    BY <1>1, FileFacts
  <2>3. PICK label \in Steps :
           /\ Advance(w, label) /\ label \in {"publish", "discard"}
           /\ label = "publish" => whole
    BY <2>1 DEF Steps
  <2>4. label = "publish" => File(run, whole) # None /\ File(run, whole).whole
    BY <2>2, <2>3
  <2>5. proc = "serving" /\ UNCHANGED <<place, proc, run, local, outcome>>
    BY <1>4 DEF Copied
  <2> QED
    BY <2>1, <2>2, <2>3, <2>4, <2>5, TempStep
<1>5. CASE WriteFails(w)
  BY <1>5, LabelStep DEF WriteFails, Steps
<1>6. CASE Publish(w)
  BY <1>6, PublishStep
<1>7. CASE Discard(w)
  BY <1>7, TempStep DEF Discard, Steps
<1> QED
  BY <1>2, <1>3, <1>4, <1>5, <1>6, <1>7 DEF Write

LEMMA UserWritesInv == ASSUME DirInv, NEW n \in Names, UserWrites(n) PROVE DirInv'
<1> USE DEF UserWrites, local
<1>1. 0 \in 0..MaxRuns /\ TRUE \in BOOLEAN
  BY BoundAssumption
<1>2. /\ File(0, TRUE) \in Files /\ File(0, TRUE) # None
      /\ File(0, TRUE).run = 0 /\ File(0, TRUE).whole = TRUE
  BY <1>1, FileFacts
<1>3. /\ dir' \in [Names -> Files \cup {None}] /\ dir'[n] = File(0, TRUE)
      /\ \A m \in Names : m # n => dir'[m] = dir[m]
  BY <1>2, OneFile DEF DirInv
<1>4. TypeOK'
  BY <1>3 DEF DirInv, TypeOK
<1>5. ProcInv' /\ CleanInv' /\ PublishInv' /\ FreshReport' /\ TempsInUse'
  BY DEF DirInv, ProcInv, CleanInv, PublishInv, FreshReport, TempsInUse, Serving, Preparing
<1>6. RunInv'
  <2>1. 0 <= run
    BY BoundAssumption DEF DirInv, TypeOK
  <2> QED
    BY <1>2, <1>3, <2>1 DEF DirInv, RunInv, Preparing
<1>7. WholeArtifacts'
  BY <1>2, <1>3, NameFacts DEF DirInv, WholeArtifacts
<1> QED
  BY <1>4, <1>5, <1>6, <1>7 DEF DirInv

LEMMA NextInv == ASSUME DirInv, [Next]_vars PROVE DirInv'
<1>1. CASE Start
  BY <1>1, StartInv
<1>2. CASE Prepare
  <2>1. CASE Inspect
    BY <2>1, InspectInv
  <2>2. CASE ReadMarker
    BY <2>2, ReadMarkerInv
  <2>3. CASE ReadDirectory
    BY <2>3, ReadDirectoryInv
  <2>4. CASE \E n \in Names : Remove(n)
    BY <2>4, RemoveInv
  <2>5. CASE TruncateMarker
    BY <2>5, TruncateMarkerInv
  <2>6. CASE WriteMarker
    BY <2>6, WriteMarkerInv
  <2>7. CASE PrepareFails
    BY <2>7, DownInv DEF PrepareFails, Stop
  <2> QED
    BY <1>2, <2>1, <2>2, <2>3, <2>4, <2>5, <2>6, <2>7 DEF Prepare
<1>3. CASE \E w \in Writers : Write(w)
  BY <1>3, WriteInv
<1>4. CASE Exit \/ Crash
  BY <1>4, DownInv DEF Exit, Crash, DirInv, TypeOK
<1>5. CASE \E n \in Names : UserWrites(n)
  BY <1>5, UserWritesInv
<1>6. CASE RunsOver \/ UNCHANGED vars
  <2>1. UNCHANGED <<place, dir, proc, run, owned, entries, step, outcome>>
    BY <1>6 DEF RunsOver, vars, local
  <2> QED
    BY <2>1 DEF DirInv, TypeOK, ProcInv, RunInv, CleanInv, PublishInv, WholeArtifacts,
                FreshReport, TempsInUse, Present, Serving, Writing, Temp
<1> QED
  BY <1>1, <1>2, <1>3, <1>4, <1>5, <1>6 DEF Next

LEMMA Invariance == Spec => []DirInv
  BY InitInv, NextInv, PTL DEF Spec

-----------------------------------------------------------------------------
(* Theorems.                                                               *)

\* The types of the variables, for every number of processes, writes and names.
THEOREM DirTypeCorrect == Spec => []TypeOK
  BY Invariance, PTL DEF DirInv

\* No artifact is ever there in part: not while concurrent writes copy, fail and
\* publish (SafeWriter.write), and not after a process died in any of them.
THEOREM ArtifactsWhole == Spec => []WholeArtifacts
  BY Invariance, PTL DEF DirInv

\* A process that serves has in the directory what it wrote itself, however the
\* processes before it ended: Prepare has removed all that they left.
THEOREM ReportFresh == Spec => []FreshReport
  BY Invariance, PTL DEF DirInv

\* While a process serves, a temporary file is one that a write still works on.
THEOREM NoStrayTemps == Spec => []TempsInUse
  BY Invariance, PTL DEF DirInv

\* Prepare and write never delete or replace a user's file, unless it is named like
\* an artifact and the directory was marked or the configuration allows it.
THEOREM UsersKeepFiles == Spec => UserFilesKept
<1>1. ASSUME DirInv, [Next]_vars, NEW n \in Names,
             dir[n] # None, dir[n].run = 0, dir'[n] # dir[n]
      PROVE  n \in Artifacts /\ (owned \/ AllowNonOwned)
  <2>1. n \in Artifacts \cup UserNames /\ n # Marker /\ n \notin Temps
    BY <1>1, NameFacts DEF DirInv, RunInv
  <2>2. proc = "serving" => n \notin Artifacts
    <3>1. ASSUME proc = "serving" PROVE run # 0
      BY <1>1, <3>1, RunFacts
    <3> QED
      BY <1>1, <3>1 DEF DirInv, FreshReport, Serving
  <2>3. CASE \E m \in Names : Remove(m)
    BY <1>1, <2>1, <2>3 DEF Remove, DirInv, TypeOK, CleanInv, Known
  <2>4. CASE TruncateMarker \/ WriteMarker
    BY <1>1, <2>1, <2>4 DEF TruncateMarker, WriteMarker, DirInv, TypeOK
  <2>5. CASE \E w \in Writers : Write(w)
    <3>1. PICK w \in Writers : Write(w)
      BY <2>5
    <3>2. run \in Runs
      <4>1. proc = "serving"
        BY <3>1 DEF Write, WriteRejected, CreateTemp, Copied, WriteFails, Publish, Discard
      <4> QED
        BY <1>1, <4>1, RunFacts
    <3>3. Temp(w) # n /\ NameOf[w] \in Artifacts
      BY <2>1, <3>2, TempFacts, NameFacts
    <3> QED
      BY <1>1, <2>2, <3>1, <3>3 DEF DirInv, TypeOK, Write, WriteRejected, CreateTemp,
            Copied, WriteFails, Publish, Discard
  <2>6. CASE \E m \in Names : UserWrites(m)
    BY <1>1, <2>6 DEF UserWrites, DirInv, TypeOK
  <2>7. CASE UNCHANGED dir
    BY <1>1, <2>7
  <2> QED
    BY <1>1, <2>3, <2>4, <2>5, <2>6, <2>7 DEF Next, Start, Prepare, Inspect, ReadMarker,
          ReadDirectory, PrepareFails, Exit, Crash, RunsOver, vars
<1>2. DirInv /\ [Next]_vars =>
        [\A n \in Names : dir[n] # None /\ dir[n].run = 0 /\ dir'[n] # dir[n]
             => n \in Artifacts /\ (owned \/ AllowNonOwned)]_vars
  BY <1>1
<1> QED
  BY <1>2, Invariance, PTL DEF Spec, UserFilesKept

\* What a reader finds under a name that holds a whole file, or none.
LEMMA StoreAt ==
    ASSUME NEW n \in Artifacts
    PROVE  /\ dir[n] = None => Store[n] = None
           /\ dir[n] # None /\ dir[n].whole => Store[n] = dir[n].run
  BY DEF Store

\* A step that leaves the artifacts alone is no step for a reader.
LEMMA SameStore ==
    ASSUME \A n \in Artifacts : dir'[n] = dir[n]
    PROVE  Store' = Store
  BY DEF Store, Torn

\* A step that changes one artifact changes one entry of the store.
LEMMA OneEntry ==
    ASSUME NEW n \in Artifacts, NEW v, \A m \in Artifacts : m # n => dir'[m] = dir[m],
           Store'[n] = v
    PROVE  Store' = [Store EXCEPT ![n] = v]
  BY DEF Store, Torn

LEMMA StoreInit == Init => Abstract!Init
<1> SUFFICES ASSUME Init PROVE Abstract!Init
  OBVIOUS
<1>1. 0 \in 0..MaxRuns /\ TRUE \in BOOLEAN
  BY BoundAssumption
<1>2. \A n \in Artifacts : dir[n] \in {None, File(0, TRUE)}
  BY NameFacts DEF Init
<1>3. \A n \in Artifacts : Store[n] \in {0, None}
  BY <1>1, <1>2, FileFacts, StoreAt
<1>4. Store \in [Artifacts -> {0, None}]
  BY <1>3 DEF Store
<1> QED
  BY <1>4 DEF Abstract!Init, Init

LEMMA StoreStep == ASSUME DirInv, DirInv', [Next]_vars PROVE [Abstract!Next]_(Abstract!vars)
<1> USE DEF Abstract!Next, Abstract!vars
<1>1. CASE Start
  <2>1. Store' = Store
    BY <1>1, SameStore DEF Start
  <2> QED
    BY <1>1, <2>1 DEF Start, Abstract!Begin
<1>2. CASE \E n \in Names : Remove(n)
  <2>1. PICK n \in Names : Remove(n)
    BY <1>2
  <2>2. /\ \A m \in Names : m # n => dir'[m] = dir[m]
        /\ dir'[n] = None /\ run' = run
    BY <2>1 DEF Remove, DirInv, TypeOK
  <2>3. CASE n \in Artifacts /\ dir[n] # None
    <3>1. Store[n] = dir[n].run /\ dir[n].run # run
      BY <2>1, <2>3, StoreAt, NameFacts DEF Remove, DirInv, WholeArtifacts, RunInv, Preparing
    <3>2. Store'[n] = None
      BY <2>2, <2>3 DEF Store
    <3>3. Store' = [Store EXCEPT ![n] = None]
      BY <2>2, <2>3, <3>2, OneEntry, NameFacts
    <3> QED
      BY <2>2, <2>3, <3>1, <3>3 DEF Abstract!Drop
  <2>4. CASE n \notin Artifacts \/ dir[n] = None
    BY <2>2, <2>4, SameStore, NameFacts
  <2> QED
    BY <2>3, <2>4
<1>3. CASE \E n \in Names : UserWrites(n)
  <2>1. PICK n \in Names : UserWrites(n)
    BY <1>3
  <2>2. /\ \A m \in Names : m # n => dir'[m] = dir[m]
        /\ dir[n] = None /\ dir'[n] = File(0, TRUE) /\ run' = run
    BY <2>1 DEF UserWrites, DirInv, TypeOK
  <2>3. CASE n \in Artifacts
    <3>1. /\ File(0, TRUE) # None /\ File(0, TRUE).run = 0 /\ File(0, TRUE).whole = TRUE
      <4>1. 0 \in 0..MaxRuns /\ TRUE \in BOOLEAN
        BY BoundAssumption
      <4> QED
        BY <4>1, FileFacts
    <3>2. Store[n] = None /\ Store'[n] = 0
      BY <2>2, <2>3, <3>1 DEF Store
    <3>3. Store' = [Store EXCEPT ![n] = 0]
      BY <2>2, <2>3, <3>2, OneEntry, NameFacts
    <3> QED
      BY <2>2, <2>3, <3>2, <3>3 DEF Abstract!Leave
  <2>4. CASE n \notin Artifacts
    BY <2>2, <2>4, SameStore, NameFacts
  <2> QED
    BY <2>3, <2>4
<1>4. CASE \E w \in Writers : Write(w)
  <2>1. PICK w \in Writers : Write(w)
    BY <1>4
  <2>2. proc = "serving" /\ run' = run
    BY <2>1 DEF Write, WriteRejected, CreateTemp, Copied, WriteFails, Publish, Discard
  <2>3. run \in Runs /\ run > 0
    BY <2>2, RunFacts, BoundAssumption DEF Runs
  <2>4. Temp(w) \in Temps /\ Temp(w) \in Names /\ Temp(w) \notin Artifacts
        /\ NameOf[w] \in Artifacts /\ NameOf[w] \in Names
    BY <2>3, TempFacts, NameFacts
  <2>5. CASE Publish(w)
    <3> DEFINE n == NameOf[w]
    <3>1. dir[Temp(w)] # None /\ dir[Temp(w)].whole /\ dir[Temp(w)].run = run
      BY <2>2, <2>4, <2>5 DEF Publish, DirInv, PublishInv, FreshReport, Serving
    <3>2. /\ dir'[n] = dir[Temp(w)]
          /\ \A m \in Artifacts : m # n => dir'[m] = dir[m]
      BY <2>4, <2>5, NameFacts DEF Publish, DirInv, TypeOK
    <3>3. Store'[n] = run
      BY <2>4, <3>1, <3>2 DEF Store
    <3>4. Store' = [Store EXCEPT ![n] = run]
      BY <2>4, <3>2, <3>3, OneEntry
    <3> QED
      BY <2>2, <2>3, <2>4, <3>4 DEF Abstract!Put
  <2>6. CASE ~Publish(w)
    <3>1. \A n \in Artifacts : dir'[n] = dir[n]
      BY <2>1, <2>4, <2>6, NameFacts DEF Write, WriteRejected, CreateTemp, Copied,
            WriteFails, Discard, DirInv, TypeOK
    <3> QED
      BY <2>2, <3>1, SameStore
  <2> QED
    BY <2>5, <2>6
<1>5. CASE TruncateMarker \/ WriteMarker
  <2>1. \A n \in Artifacts : dir'[n] = dir[n]
    BY <1>5, NameFacts DEF TruncateMarker, WriteMarker, DirInv, TypeOK
  <2>2. run' = run
    BY <1>5 DEF TruncateMarker, WriteMarker
  <2> QED
    BY <2>1, <2>2, SameStore
<1>6. CASE UNCHANGED <<dir, run>>
  <2>1. Store' = Store
    BY <1>6, SameStore
  <2> QED
    BY <1>6, <2>1
<1> QED
  BY <1>1, <1>2, <1>3, <1>4, <1>5, <1>6 DEF Next, Prepare, Inspect, ReadMarker,
     ReadDirectory, PrepareFails, Exit, Crash, RunsOver, vars

\* To a reader the directory is the abstract store: every artifact appears, is
\* replaced and disappears whole, in one step, whatever write and Prepare do around
\* it and wherever a process dies.
THEOREM StoreImplemented == Spec => ImplementsArtifactStore
  BY StoreInit, StoreStep, Invariance, PTL DEF Spec, ImplementsArtifactStore, Abstract!Spec
=============================================================================
