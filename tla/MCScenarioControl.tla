------------------------- MODULE MCScenarioControl -------------------------
(***************************************************************************)
(* Two requests are a stopped scenario and its successor, or two that race *)
(* with each other; each may be of any kind.                               *)
(***************************************************************************)
EXTENDS ScenarioControl

CONSTANTS r1, r2
MCRequests == {r1, r2}

=============================================================================
