---------------------------- MODULE ArtifactStore ----------------------------
(***************************************************************************)
(* What a reader of the results directory is promised: each artifact is    *)
(* there as one run (or, as run 0, a user) wrote it or is not there, it    *)
(* appears and is replaced in one step, by the latest run only, and only   *)
(* what that run did not write disappears.                                 *)
(***************************************************************************)
EXTENDS Naturals

CONSTANTS Artifacts, None

VARIABLES store,  \* artifact -> the run that wrote it, or None
          run     \* the latest run

vars == <<store, run>>

Init ==
    /\ store \in [Artifacts -> {0, None}]
    /\ run = 0

Begin ==
    /\ run' = run + 1
    /\ UNCHANGED store

\* A user leaves a file of that name.
Leave(n) ==
    /\ store[n] = None
    /\ store' = [store EXCEPT ![n] = 0]
    /\ UNCHANGED run

Put(n) ==
    /\ run > 0
    /\ store' = [store EXCEPT ![n] = run]
    /\ UNCHANGED run

Drop(n) ==
    /\ store[n] # run
    /\ store' = [store EXCEPT ![n] = None]
    /\ UNCHANGED run

Next == Begin \/ \E n \in Artifacts : Leave(n) \/ Put(n) \/ Drop(n)

Spec == Init /\ [][Next]_vars
=============================================================================
