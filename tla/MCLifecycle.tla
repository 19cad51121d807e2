----------------------------- MODULE MCLifecycle -----------------------------
(***************************************************************************)
(* Values for model checking Lifecycle: rows of one scenario on one stream *)
(* and on another.                                                         *)
(***************************************************************************)
EXTENDS Lifecycle

CONSTANT login

ScenarioRow(n) ==
    [scenario |-> login, specTable |-> FALSE, specRow |-> 0,
     scenarioTable |-> TRUE, scenarioRow |-> n]
SpecRow(n) ==
    [scenario |-> login, specTable |-> TRUE, specRow |-> n,
     scenarioTable |-> FALSE, scenarioRow |-> 0]

\* Two rows of a scenario's table one after the other, a third beside them.
ScenarioRows == {ScenarioRow(n) : n \in 0 .. 2}
ScenarioRowQueue ==
    [s \in Streams |-> IF s = 1 THEN <<ScenarioRow(0), ScenarioRow(1)>> ELSE <<ScenarioRow(2)>>]

\* A row of the specification's table on each stream.
SpecRows == {SpecRow(0), SpecRow(1)}
SpecRowQueue == [s \in Streams |-> IF s = 1 THEN <<SpecRow(0)>> ELSE <<SpecRow(1)>>]

OneFault == {{}, {"lost"}, {"rejected"}}
NoFault == {{}}
=============================================================================
