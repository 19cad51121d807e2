----------------------------- MODULE ResultsDir ------------------------------
(***************************************************************************)
(* internal/output/writer.go with clean_results: one reporter process      *)
(* after another uses the same results directory.  Prepare cleans it, then *)
(* concurrent writes publish artifacts through temporary files.  A process *)
(* may die between any two calls of the operating system.                  *)
(*                                                                         *)
(* A file is the run that wrote it, 0 being the user, and whether it is    *)
(* whole.  Names that Prepare deletes are either names this program writes *)
(* or, in Artifacts, a user's file that looks like one of them.            *)
(***************************************************************************)
EXTENDS Naturals, FiniteSets

CONSTANTS
    Artifacts,       \* names knownArtifact recognises: results, containers, ...
    UserNames,       \* names it does not
    Marker,          \* .gauge-allure-report-owned
    Writers,         \* calls of SafeWriter.write in one run
    NameOf,          \* the artifact each of them publishes
    AllowNonOwned,   \* cfg.AllowCleanNonOwned
    MaxRuns,         \* bound on the number of processes
    None

Runs == 1..MaxRuns
Temps == Runs \X Writers      \* one temporary file for each write
Names == Artifacts \cup UserNames \cup Temps \cup {Marker}
File(r, whole) == [run |-> r, whole |-> whole]
Files == [run : 0..MaxRuns, whole : BOOLEAN]

ASSUME NameAssumption ==
    /\ Artifacts \cap UserNames = {}
    /\ Marker \notin Artifacts \cup UserNames \cup Temps
    /\ (Artifacts \cup UserNames) \cap Temps = {}
    /\ NameOf \in [Writers -> Artifacts]
ASSUME BoundAssumption == MaxRuns \in Nat /\ AllowNonOwned \in BOOLEAN
ASSUME AbsentAssumption == None \notin Files

VARIABLES
    place,     \* the path: absent, directory, or refused (a file, a link, a root)
    dir,       \* name -> file, or None
    proc,      \* where the process is, "down" between two processes
    run,       \* the number of the process
    owned,     \* Prepare: the marker was there
    entries,   \* Prepare: what os.ReadDir returned and is not handled yet
    step,      \* where each write is
    outcome    \* how the latest start ended: none yet, ok, refused or failed

local == <<owned, entries>>
vars == <<place, dir, proc, run, local, step, outcome>>

Present == {n \in Names : dir[n] # None}
Temp(w) == <<run, w>>

\* The files a user may have left before the first process starts.
Init ==
    /\ place \in {"absent", "directory", "refused"}
    /\ dir \in [Names -> {None, File(0, TRUE)}]
    /\ Present \subseteq Artifacts \cup UserNames
    /\ place # "directory" => Present = {}
    /\ proc = "down"
    /\ run = 0
    /\ owned = FALSE
    /\ entries = {}
    /\ step = [w \in Writers |-> "idle"]
    /\ outcome = "none"

-----------------------------------------------------------------------------
(* The process.                                                            *)

Start ==
    /\ proc = "down" /\ run < MaxRuns
    /\ run' = run + 1
    /\ proc' = "inspect"
    /\ outcome' = "none"
    /\ step' = [w \in Writers |-> "idle"]
    /\ UNCHANGED <<place, dir, local>>

\* Every call of the operating system Prepare makes may fail, which ends it.
Stop(how) == proc' = "down" /\ outcome' = how

\* refuseDangerous, os.Lstat and os.MkdirAll.
Inspect ==
    /\ proc = "inspect"
    /\ IF place = "refused" THEN Stop("refused") /\ UNCHANGED place
       ELSE proc' = "owner" /\ place' = "directory" /\ UNCHANGED outcome
    /\ UNCHANGED <<dir, run, local, step>>

ReadMarker ==
    /\ proc = "owner"
    /\ owned' = (dir[Marker] # None /\ dir[Marker] \in [run : Runs, whole : {TRUE}])
    /\ proc' = "list"
    /\ UNCHANGED <<place, dir, run, entries, step, outcome>>

\* Mutated: the ownership is not asked for.
RefusesNothing == FALSE

\* Material entries in a directory without the marker.
Refuses == ~owned /\ ~AllowNonOwned /\ Present \ {Marker} # {}

ReadDirectory ==
    /\ proc = "list"
    /\ entries' = Present
    /\ IF Refuses THEN Stop("refused") ELSE proc' = "remove" /\ UNCHANGED outcome
    /\ UNCHANGED <<place, dir, run, owned, step>>

\* Mutated: temporary files are not recognised.
KnownWithoutTemps == Artifacts \cup {Marker}

\* Mutated: everything in the directory is recognised.
KnownAll == Names

\* knownArtifact.
Known == Artifacts \cup {Marker} \cup Temps

\* The position in the order of os.ReadDir, which sorts by name: names that start
\* with a dot first, of those a temporary file's before the marker's.
Rank(n) == IF n \in Temps THEN 0 ELSE IF n = Marker THEN 1 ELSE 2

Remove(n) ==
    /\ proc = "remove"
    /\ n \in entries \cap Known
    /\ \A m \in entries \cap Known : Rank(n) <= Rank(m)
    /\ dir' = [dir EXCEPT ![n] = None]
    /\ entries' = entries \ {n}
    /\ UNCHANGED <<place, proc, run, owned, step, outcome>>

\* os.WriteFile of the marker truncates the file, then writes it.
TruncateMarker ==
    /\ proc = "remove"
    /\ entries \cap Known = {}
    /\ dir' = [dir EXCEPT ![Marker] = File(run, FALSE)]
    /\ proc' = "mark"
    /\ UNCHANGED <<place, run, local, step, outcome>>

WriteMarker ==
    /\ proc = "mark"
    /\ dir' = [dir EXCEPT ![Marker] = File(run, TRUE)]
    /\ proc' = "serving"
    /\ outcome' = "ok"
    /\ UNCHANGED <<place, run, local, step>>

PrepareFails ==
    /\ proc \in {"inspect", "owner", "list", "remove", "mark"}
    /\ Stop("failed")
    /\ UNCHANGED <<place, dir, run, local, step>>

-----------------------------------------------------------------------------
(* SafeWriter.write.                                                       *)

Writing(w) == step[w] \in {"copy", "publish", "discard"}
Advance(w, label) == step' = [step EXCEPT ![w] = label]

\* A cancelled context, an attachment above the limit or an unsafe name.
WriteRejected(w) ==
    /\ proc = "serving" /\ step[w] = "idle"
    /\ Advance(w, "failed")
    /\ UNCHANGED <<place, dir, proc, run, local, outcome>>

\* Mutated: the artifact is created under its own name.
CreateInPlace(w) ==
    /\ proc = "serving" /\ step[w] = "idle"
    /\ dir' = [dir EXCEPT ![Temp(w)] = File(run, FALSE), ![NameOf[w]] = File(run, FALSE)]
    /\ Advance(w, "copy")
    /\ UNCHANGED <<place, proc, run, local, outcome>>

CreateTemp(w) ==
    /\ proc = "serving" /\ step[w] = "idle"
    /\ dir' = [dir EXCEPT ![Temp(w)] = File(run, FALSE)]
    /\ Advance(w, "copy")
    /\ UNCHANGED <<place, proc, run, local, outcome>>

\* Mutated: the number of bytes copied is not compared with the size expected.
CopiedUnchecked(w) ==
    /\ proc = "serving" /\ step[w] = "copy"
    /\ \E whole \in BOOLEAN : dir' = [dir EXCEPT ![Temp(w)] = File(run, whole)]
    /\ Advance(w, "publish")
    /\ UNCHANGED <<place, proc, run, local, outcome>>

\* io.Copy and the check of the size; a source may have shrunk or grown.
Copied(w) ==
    /\ proc = "serving" /\ step[w] = "copy"
    /\ \E whole \in BOOLEAN :
          /\ dir' = [dir EXCEPT ![Temp(w)] = File(run, whole)]
          /\ Advance(w, IF whole THEN "publish" ELSE "discard")
    /\ UNCHANGED <<place, proc, run, local, outcome>>

\* An error of io.Copy, Chmod, Sync, Close, the context or the rename.
WriteFails(w) ==
    /\ proc = "serving" /\ step[w] \in {"copy", "publish"}
    /\ Advance(w, "discard")
    /\ UNCHANGED <<place, dir, proc, run, local, outcome>>

Publish(w) ==
    /\ proc = "serving" /\ step[w] = "publish"
    /\ dir' = [dir EXCEPT ![NameOf[w]] = dir[Temp(w)], ![Temp(w)] = None]
    /\ Advance(w, "published")
    /\ UNCHANGED <<place, proc, run, local, outcome>>

\* Mutated: the temporary file is kept.
DiscardNothing(w) ==
    /\ proc = "serving" /\ step[w] = "discard"
    /\ Advance(w, "failed")
    /\ UNCHANGED <<place, dir, proc, run, local, outcome>>

\* The deferred close and removal.
Discard(w) ==
    /\ proc = "serving" /\ step[w] = "discard"
    /\ dir' = [dir EXCEPT ![Temp(w)] = None]
    /\ Advance(w, "failed")
    /\ UNCHANGED <<place, proc, run, local, outcome>>

-----------------------------------------------------------------------------
\* The server has stopped gracefully: no write is under way.
Exit ==
    /\ proc = "serving"
    /\ \A w \in Writers : ~Writing(w)
    /\ proc' = "down"
    /\ UNCHANGED <<place, dir, run, local, step, outcome>>

Crash ==
    /\ proc # "down"
    /\ proc' = "down"
    /\ UNCHANGED <<place, dir, run, local, step, outcome>>

\* Between two processes a user may leave a file.
UserWrites(n) ==
    /\ proc = "down" /\ place = "directory"
    /\ n \in Artifacts \cup UserNames
    /\ dir[n] = None
    /\ dir' = [dir EXCEPT ![n] = File(0, TRUE)]
    /\ UNCHANGED <<place, proc, run, local, step, outcome>>

RunsOver == proc = "down" /\ run = MaxRuns /\ UNCHANGED vars

Prepare ==
    \/ Inspect
    \/ ReadMarker
    \/ ReadDirectory
    \/ \E n \in Names : Remove(n)
    \/ TruncateMarker
    \/ WriteMarker
    \/ PrepareFails

Write(w) ==
    \/ WriteRejected(w)
    \/ CreateTemp(w)
    \/ Copied(w)
    \/ WriteFails(w)
    \/ Publish(w)
    \/ Discard(w)

Next ==
    \/ Start
    \/ Prepare
    \/ \E w \in Writers : Write(w)
    \/ Exit
    \/ Crash
    \/ \E n \in Names : UserWrites(n)
    \/ RunsOver

Spec == Init /\ [][Next]_vars

-----------------------------------------------------------------------------
(* Properties.                                                             *)

Steps == {"idle", "copy", "publish", "discard", "published", "failed"}
Places == {"down", "inspect", "owner", "list", "remove", "mark", "serving"}

\* The types of the variables.
TypeOK ==
    /\ place \in {"absent", "directory", "refused"}
    /\ dir \in [Names -> Files \cup {None}]
    /\ proc \in Places
    /\ run \in 0..MaxRuns
    /\ owned \in BOOLEAN
    /\ entries \subseteq Names
    /\ step \in [Writers -> Steps]
    /\ outcome \in {"none", "ok", "refused", "failed"}

Serving == proc = "serving"

\* No reader ever sees part of an artifact, while it is written, when a write
\* fails or after a process died in the middle of one.
WholeArtifacts == \A n \in Artifacts : dir[n] # None => dir[n].whole

\* Once a process serves, the directory holds the report of its own run only:
\* nothing of an earlier run, whole or partial, however that run ended.
FreshReport ==
    Serving => \A n \in Artifacts \cup Temps : dir[n] # None => dir[n].run = run

\* A user's file is deleted or replaced only if it has the name of an artifact and
\* the directory was marked as owned (or cleaning others was allowed).
UserFilesKept ==
    [][\A n \in Names :
          dir[n] # None /\ dir[n].run = 0 /\ dir'[n] # dir[n]
              => n \in Artifacts /\ (owned \/ AllowNonOwned)]_vars

\* A write that has returned leaves no temporary file, however it ended.
TempsInUse ==
    Serving => \A w \in Writers : dir[Temp(w)] # None => Writing(w)

\* A start is not refused because of what an earlier process of this program left:
\* a directory that is refused holds no artifact that an earlier run published.
PreparedNotRefused ==
    proc = "list" /\ Refuses => \A n \in Artifacts : dir[n] # None => dir[n].run = 0

\* ResultsDir implements ArtifactStore: to a reader of artifacts every write is
\* one step, although temporary files, failures and crashes come between.
Torn == MaxRuns + 1
Store ==
    [n \in Artifacts |-> IF dir[n] = None THEN None
                         ELSE IF dir[n].whole THEN dir[n].run ELSE Torn]
Abstract == INSTANCE ArtifactStore WITH store <- Store
ImplementsArtifactStore == Abstract!Spec
=============================================================================
