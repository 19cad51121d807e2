----------------------------- MODULE MCReporter ------------------------------
(***************************************************************************)
(* Values for model checking Reporter: two ScenarioEnding callbacks of one *)
(* attempt; the suite result may name another one.                         *)
(***************************************************************************)
EXTENDS Reporter

CONSTANTS c1, c2, a1, a2

RepeatedAttempt == [c \in ScenarioCalls |-> a1]
=============================================================================
