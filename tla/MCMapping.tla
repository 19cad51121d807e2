------------------------------ MODULE MCMapping ------------------------------
(***************************************************************************)
(* Values for model checking Mapping: evidence that takes each branch of   *)
(* FromStep and scenarioStatus a failure can hide behind.                  *)
(***************************************************************************)
EXTENDS Mapping

Evidence(given, skipped, hook, executed, skips, failed, kind) ==
    [given |-> given, skipped |-> skipped, hook |-> hook, executed |-> executed,
     skips |-> skips, failed |-> failed, kind |-> kind]

Passed == Evidence(TRUE, FALSE, FALSE, TRUE, FALSE, FALSE, "unexpected")
Recovered == Evidence(TRUE, FALSE, FALSE, TRUE, FALSE, TRUE, "verification")
Skipped == Evidence(TRUE, TRUE, FALSE, FALSE, FALSE, FALSE, "unexpected")

SomeSteps == {Passed, Recovered, Skipped}
PassedSteps == {Passed}

SomeScenarios == [status : {"PASSED", "FAILED"}, skips : {FALSE}, hook : BOOLEAN]
PassedScenarios == [status : {"PASSED"}, skips : {FALSE}, hook : {FALSE}]
=============================================================================
