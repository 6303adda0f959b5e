----------------------------- MODULE MCFleetUe -----------------------------
(***************************************************************************)
(* Two launches race for an id; whether the counter wraps between them     *)
(* depends on where it starts.                                             *)
(***************************************************************************)
EXTENDS FleetUe

CONSTANTS l1, l2
MCLaunches == {l1, l2}

=============================================================================
