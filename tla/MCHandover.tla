----------------------------- MODULE MCHandover -----------------------------
(***************************************************************************)
(* Handovers of one UE, one after the other or overlapping, between two    *)
(* gNBs or among three.                                                    *)
(***************************************************************************)
EXTENDS Handover

CONSTANTS a, b, c
MCTwoGnbs   == {a, b}
MCThreeGnbs == {a, b, c}

=============================================================================
