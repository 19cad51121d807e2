---------------------------- MODULE MCResultsDir -----------------------------
(***************************************************************************)
(* Values for model checking ResultsDir: two writes publish the same       *)
(* artifact, the live and the final version of a result, and a third write *)
(* publishes another one.                                                  *)
(***************************************************************************)
EXTENDS ResultsDir

CONSTANTS w1, w2, w3, result, attachment

SharedName == [w \in Writers |-> IF w = w3 THEN attachment ELSE result]
=============================================================================
