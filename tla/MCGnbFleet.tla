----------------------------- MODULE MCGnbFleet -----------------------------
(***************************************************************************)
(* Two profiles, one of them with a link type the launch does not know and *)
(* serves on a unix socket, which two launches compete for; the two        *)
(* profiles may have the same GnbId or different ones.                     *)
(***************************************************************************)
EXTENDS GnbFleet

CONSTANTS p1, p2, g1, g2, i1, i2
MCProfiles == {p1, p2}
MCGnbs     == {g1, g2}
MCGnbIds   == {i1, i2}
MCLink     == [p \in MCProfiles |-> IF p = p1 THEN "unix" ELSE "other"]

=============================================================================
