------------------------------ MODULE GnbSlots ------------------------------
(***************************************************************************)
(* What the fleet promises about the gNBs of its profiles: a profile has   *)
(* one gNB at a time, and its entry in the list of running gNBs goes only  *)
(* when the gNB it names has ended, whichever way that happened.           *)
(***************************************************************************)
CONSTANTS Profiles, Gnbs, NoGnb

VARIABLES
  alive,   \* the gNBs of each profile that run
  listed   \* the gNB each profile's entry names

slotVars == <<alive, listed>>

Idle == alive = [p \in Profiles |-> {}] /\ listed = [p \in Profiles |-> NoGnb]

(* Only a profile without a gNB and without an entry is started.           *)
Start(p, g) ==
  /\ alive[p] = {} /\ listed[p] = NoGnb
  /\ alive' = [alive EXCEPT ![p] = {g}]
  /\ UNCHANGED listed

(* The gNB that was started is entered, though it may have ended since.    *)
Enter(p, g) ==
  /\ listed[p] = NoGnb /\ alive[p] \subseteq {g}
  /\ listed' = [listed EXCEPT ![p] = g]
  /\ UNCHANGED alive

End(p, g) ==
  /\ g \in alive[p]
  /\ alive' = [alive EXCEPT ![p] = @ \ {g}]
  /\ UNCHANGED listed

Remove(p) ==
  /\ listed[p] \in Gnbs /\ alive[p] = {}
  /\ listed' = [listed EXCEPT ![p] = NoGnb]
  /\ UNCHANGED alive

(* The process ends and takes its gNBs along.                              *)
Shutdown == Idle'

SlotNext ==
  \/ \E p \in Profiles : Remove(p) \/ \E g \in Gnbs : Start(p, g) \/ Enter(p, g) \/ End(p, g)
  \/ Shutdown

SlotSpec == Idle /\ [][SlotNext]_slotVars

=============================================================================
