---------------------------- MODULE AttemptReport ----------------------------
(***************************************************************************)
(* What docs/architecture.md promises of the results directory: an attempt *)
(* is reported at most once, under a UUID it keeps; a live snapshot may be *)
(* replaced by the final result but not the other way round; and after the *)
(* suite result is settled the report does not change.                     *)
(***************************************************************************)
CONSTANTS Attempts, UUIDs

VARIABLES report,  \* attempt -> the results a reader finds for it
          settled  \* the suite result has been processed

vars == <<report, settled>>
Versions == {"live", "final"}

Init ==
    /\ report = [k \in Attempts |-> {}]
    /\ settled = FALSE

Publish(k) ==
    /\ ~settled
    /\ report[k] = {}
    /\ \E u \in UUIDs, v \in Versions : report' = [report EXCEPT ![k] = {<<u, v>>}]
    /\ UNCHANGED settled

Promote(k) ==
    /\ ~settled
    /\ \E entry \in report[k] :
          /\ report[k] = {entry}
          /\ entry[2] = "live"
          /\ report' = [report EXCEPT ![k] = {<<entry[1], "final">>}]
    /\ UNCHANGED settled

Settle ==
    /\ settled' = TRUE
    /\ UNCHANGED report

Next ==
    \/ \E k \in Attempts : Publish(k) \/ Promote(k)
    \/ Settle

Spec == Init /\ [][Next]_vars
=============================================================================
