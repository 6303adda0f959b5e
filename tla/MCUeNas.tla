------------------------------ MODULE MCUeNas ------------------------------
(***************************************************************************)
(* Instances of UeNas for TLC: one UE with two PDU sessions.  Four         *)
(* downlink messages are a complete registration and one more command or   *)
(* answer; every further operator action or message multiplies the         *)
(* interleavings without a new kind of conflict.                           *)
(***************************************************************************)
EXTENDS UeNas

MCSessions == {1, 2}
MCDefault  == 1

=============================================================================
