----------------------------- MODULE MCCollector -----------------------------
(***************************************************************************)
(* Values for model checking Collector: two ScenarioEnding callbacks and   *)
(* the attempts they report.                                               *)
(***************************************************************************)
EXTENDS Collector

CONSTANTS c1, c2, a1, a2

\* Both callbacks report a1; the suite result may name a2 as well.
RepeatedAttempt == [c \in ScenarioCalls |-> a1]

\* Each callback reports an attempt of its own.
OwnAttempt == [c \in ScenarioCalls |-> IF c = c1 THEN a1 ELSE a2]
=============================================================================
