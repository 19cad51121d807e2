--------------------------- MODULE MCAttachments ----------------------------
(***************************************************************************)
(* Values for model checking Attachments: the live and the final version   *)
(* of a result, of which the final one has an attachment, and the copy of  *)
(* it.  MapLiveScenario copies none.                                       *)
(***************************************************************************)
EXTENDS Attachments

CONSTANTS w1, w2, w3, result, attachment

SharedName == [w \in Writers |-> IF w = w3 THEN attachment ELSE result]
FinalShows == [w \in Reporting |-> IF w = w2 THEN {w3} ELSE {}]
=============================================================================
