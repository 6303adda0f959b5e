--------------------------- MODULE FleetUe_proofs ---------------------------
(***************************************************************************)
(* Proofs about FleetUe, for any number of launches and stop requests and  *)
(* any size of the id space: type correctness, that a failed launch        *)
(* leaves nothing behind, and that a launched UE is listed.                *)
(***************************************************************************)
EXTENDS FleetUe, TLAPS

(* The id of a counter value is an id of the registry (nextFleetUEID).     *)
LEMMA IdOfType == \A c \in 0 .. IdMod - 1 : IdOf(c) \in Ids
  BY IdModAssumption DEF IdOf, Ids

(* Stepping the counter keeps it below IdMod (nextFleetUEID).              *)
LEMMA CounterType == ASSUME counter \in 0 .. IdMod - 1
                     PROVE  (counter + 1) % IdMod \in 0 .. IdMod - 1
  BY IdModAssumption

LEMMA TypeInit == Init => TypeOK
  BY IdModAssumption, TriesAssumption DEF Init, TypeOK, Ids, Pcs, Outcomes, MMStates, PduStates

LEMMA TypeNext == TypeOK /\ [Next]_vars => TypeOK'
<1> SUFFICES ASSUME TypeOK, [Next]_vars PROVE TypeOK'
    OBVIOUS
<1> USE DEF TypeOK, Pcs, Outcomes, MMStates, PduStates
<1>1. ASSUME NEW l \in Launches, LaunchUEFromProfile(l) PROVE TypeOK'
    BY <1>1 DEF LaunchUEFromProfile, Goto, Returns, ueVars
<1>2. ASSUME NEW l \in Launches, Launch(l) PROVE TypeOK'
  <2>1. CASE nextFleetUEID(l)
    <3> DEFINE c == (counter + 1) % IdMod
    <3>1. c \in 0 .. IdMod - 1 /\ IdOf(c) \in Ids
        BY CounterType, IdOfType
    <3>2. counter' = c /\ tries' = [tries EXCEPT ![l] = @ + 1] /\ tries[l] < Tries
        BY <2>1 DEF nextFleetUEID
    <3>3. id' \in [Launches -> Ids] /\ pc' \in [Launches -> Pcs]
        BY <2>1, <3>1 DEF nextFleetUEID, Goto
    <3>4. tries' \in [Launches -> 0 .. Tries]
        BY <3>2, TriesAssumption
    <3>5. UNCHANGED <<registry, outcome, conn, ueVars, opens, closes, stops, gone>>
        BY <2>1 DEF nextFleetUEID
    <3> QED BY <3>1, <3>2, <3>3, <3>4, <3>5 DEF ueVars
  <2>2. CASE nextFleetUEIDExhausted(l)
      BY <2>2 DEF nextFleetUEIDExhausted, Goto, Returns, ueVars
  <2>3. CASE NoTargetGnb(l)
      BY <2>3 DEF NoTargetGnb, Goto, Returns, ueVars
  <2>4. CASE NewRanUeContext(l)
      BY <2>4 DEF NewRanUeContext, Goto, ueVars
  <2>5. CASE InitConn(l)
      BY <2>5 DEF InitConn, Goto, ueVars
  <2>6. CASE InitConnFails(l)
      BY <2>6 DEF InitConnFails, Goto, Returns, UnregisterUE, ueVars
  <2>7. CASE InitRegistration(l)
      BY <2>7 DEF InitRegistration, Goto, ueVars
  <2>8. CASE InitRegistrationState(l)
      BY <2>8 DEF InitRegistrationState, Goto
  <2>9. CASE LaunchSucceeds(l)
    <3>1. /\ pdu' = [pdu EXCEPT ![l] = IF pdu[l] = "PENDING" THEN "INACTIVE" ELSE @]
          /\ pduErr' = [pduErr EXCEPT ![l] = @ \/ pdu[l] = "PENDING"]
          /\ err' = [err EXCEPT ![l] = @ \/ pdu[l] = "PENDING"]
        BY <2>9 DEF LaunchSucceeds
    <3>2. pdu' \in [Launches -> PduStates]
        BY <3>1
    <3>3. pduErr' \in [Launches -> BOOLEAN] /\ err' \in [Launches -> BOOLEAN]
        BY <3>1, Zenon
    <3> QED BY <2>9, <3>2, <3>3 DEF LaunchSucceeds, Goto, Returns
  <2>10. CASE LaunchFails(l)
      BY <2>10 DEF LaunchFails, Goto, UnregisterUE, ueVars
  <2>11. CASE LaunchFailsClose(l)
      BY <2>11 DEF LaunchFailsClose, Goto, ueVars
  <2>12. CASE LaunchFailsReturn(l)
      BY <2>12 DEF LaunchFailsReturn, Goto, Returns, UnregisterUE, ueVars
  <2> QED BY <1>2, <2>1, <2>2, <2>3, <2>4, <2>5, <2>6, <2>7, <2>8, <2>9, <2>10, <2>11,
             <2>12 DEF Launch
<1>3. ASSUME NEW l \in Launches, Nas(l) PROVE TypeOK'
  <2>1. CASE HandlerAuthenticationRequest(l)
      BY <2>1 DEF HandlerAuthenticationRequest
  <2>2. CASE HandlerRegistrationAccept(l)
      BY <2>2 DEF HandlerRegistrationAccept
  <2>3. CASE HandlerReject(l)
      BY <2>3 DEF HandlerReject
  <2>4. CASE HandlerDlNasTransport(l)
      BY <2>4 DEF HandlerDlNasTransport
  <2> QED BY <1>3, <2>1, <2>2, <2>3, <2>4 DEF Nas
<1>4. ASSUME NEW l \in Launches, Terminate(l) PROVE TypeOK'
    BY <1>4 DEF Terminate, UnregisterUE, ueVars
<1>5. ASSUME NEW l \in Launches, TerminateClose(l) PROVE TypeOK'
    BY <1>5 DEF TerminateClose, ueVars
<1>6. ASSUME NEW i \in Ids, handleFleetStopUE(i) PROVE TypeOK'
    BY <1>6, NoUeAssumption DEF handleFleetStopUE, ueVars
<1>7. CASE UNCHANGED vars
    BY <1>7 DEF vars
<1> QED BY <1>1, <1>2, <1>3, <1>4, <1>5, <1>6, <1>7 DEF Next

(* TypeOK holds for every number of launches, ids and stop requests; in    *)
(* particular nextFleetUEID never returns id 0.                            *)
THEOREM TypeCorrect == Spec => []TypeOK
  BY TypeInit, TypeNext, PTL DEF Spec

-----------------------------------------------------------------------------
(***************************************************************************)
(* A failed launch leaves nothing behind.  FailedLaunchClean by itself is  *)
(* not inductive: a launch fails at five places, and at each of them one   *)
(* has to know where its UE can be.  Home: a UE is registered only under   *)
(* its own id, so that UnregisterUE(id) removes it if it is there.  Absent *)
(* and Unconnected: at which points of the launch it is not registered and *)
(* not connected at all.                                                   *)
(***************************************************************************)
Home        == \A l \in Launches, i \in Ids : registry[i] = l => id[l] = i
Absent      == \A l \in Launches :
                 pc[l] \in {"new", "alloc", "register", "close", "unregister"}
                   => \A i \in Ids : registry[i] # l
Unconnected == \A l \in Launches :
                 pc[l] \in {"new", "alloc", "register", "dial", "unregister"} => ~conn[l]
FailedDone  == \A l \in Launches : outcome[l] = "failed" => pc[l] = "done"

CleanInv == TypeOK /\ Home /\ Absent /\ Unconnected /\ FailedDone /\ FailedLaunchClean

LEMMA CleanInit == Init => CleanInv
<1> SUFFICES ASSUME Init PROVE CleanInv
    OBVIOUS
<1>1. TypeOK
    BY TypeInit
<1>2. \A l \in Launches : l # NoUe
    BY NoUeAssumption
<1> QED BY <1>1, <1>2 DEF CleanInv, Init, Home, Absent, Unconnected, FailedDone,
                          FailedLaunchClean

LEMMA CleanNext == CleanInv /\ [Next]_vars => CleanInv'
<1> SUFFICES ASSUME CleanInv, [Next]_vars PROVE CleanInv'
    OBVIOUS
<1> DEFINE Parts == Home /\ Absent /\ Unconnected /\ FailedDone /\ FailedLaunchClean
<1>0. TypeOK'
    BY TypeNext DEF CleanInv
<1>n. \A l \in Launches : l # NoUe
    BY NoUeAssumption
<1> SUFFICES Parts'
    BY <1>0 DEF CleanInv
<1> USE <1>n DEF CleanInv, Home, Absent, Unconnected, FailedDone, FailedLaunchClean, TypeOK
<1>1. ASSUME NEW l \in Launches, LaunchUEFromProfile(l) PROVE Parts'
    BY <1>1 DEF LaunchUEFromProfile, Goto, Returns
<1>2. ASSUME NEW l \in Launches, Launch(l) PROVE Parts'
  <2>1. CASE nextFleetUEID(l)
      BY <2>1 DEF nextFleetUEID, Goto
  <2>2. CASE nextFleetUEIDExhausted(l)
      BY <2>2 DEF nextFleetUEIDExhausted, Goto, Returns
  <2>3. CASE NoTargetGnb(l)
      BY <2>3 DEF NoTargetGnb, Goto, Returns
  <2>4. CASE NewRanUeContext(l)
      BY <2>4 DEF NewRanUeContext, Goto
  <2>5. CASE InitConn(l)
      BY <2>5 DEF InitConn, Goto
  <2>6. CASE InitConnFails(l)
      BY <2>6 DEF InitConnFails, Goto, Returns, UnregisterUE
  <2>7. CASE InitRegistration(l)
      BY <2>7 DEF InitRegistration, Goto
  <2>8. CASE InitRegistrationState(l)
      BY <2>8 DEF InitRegistrationState, Goto
  <2>9. CASE LaunchSucceeds(l)
      BY <2>9 DEF LaunchSucceeds, Goto, Returns
  <2>10. CASE LaunchFails(l)
      BY <2>10 DEF LaunchFails, Goto, UnregisterUE
  <2>11. CASE LaunchFailsClose(l)
      BY <2>11 DEF LaunchFailsClose, Goto
  <2>12. CASE LaunchFailsReturn(l)
      BY <2>12 DEF LaunchFailsReturn, Goto, Returns, UnregisterUE
  <2> QED BY <1>2, <2>1, <2>2, <2>3, <2>4, <2>5, <2>6, <2>7, <2>8, <2>9, <2>10, <2>11,
             <2>12 DEF Launch
<1>3. ASSUME NEW l \in Launches, Nas(l) PROVE Parts'
  <2>1. UNCHANGED <<registry, pc, id, outcome, conn>>
      BY <1>3 DEF Nas, HandlerAuthenticationRequest, HandlerRegistrationAccept,
                  HandlerReject, HandlerDlNasTransport
  <2> QED BY <2>1
<1>4. ASSUME NEW l \in Launches, Terminate(l) PROVE Parts'
    BY <1>4 DEF Terminate, UnregisterUE
<1>5. ASSUME NEW l \in Launches, TerminateClose(l) PROVE Parts'
    BY <1>5 DEF TerminateClose
<1>6. ASSUME NEW i \in Ids, handleFleetStopUE(i) PROVE Parts'
    BY <1>6 DEF handleFleetStopUE
<1>7. CASE UNCHANGED vars
    BY <1>7 DEF vars
<1> QED BY <1>1, <1>2, <1>3, <1>4, <1>5, <1>6, <1>7 DEF Next

(* A launch that reports an error leaves no registered and no connected UE *)
(* behind (FailedLaunchClean), for every number of launches racing for ids *)
(* and of stop requests, on either kind of link.                           *)
THEOREM FailedLaunch == Spec => []FailedLaunchClean
<1>1. CleanInv => FailedLaunchClean
    BY DEF CleanInv
<1> QED BY CleanInit, CleanNext, <1>1, PTL DEF Spec

-----------------------------------------------------------------------------
(***************************************************************************)
(* A launched UE is listed.  Untouched(l): nobody has asked for l to stop  *)
(* and no other launch has its id.  It can only become false, and from the *)
(* step that registers l on it keeps every other goroutine away from l's   *)
(* entry: they delete or overwrite the entry of their own id only.         *)
(***************************************************************************)
Untouched(l) ==
  /\ opens[l] = 0 /\ closes[l] = 0 /\ l \notin gone
  /\ \A k \in Launches \ {l} : pc[k] \in {"new", "alloc"} \/ id[k] # id[l]

Up(l) == pc[l] \in {"dial", "send", "state", "wait"} \/ outcome[l] = "ok"

OkDone   == \A l \in Launches : outcome[l] = "ok" => pc[l] = "done"
StopSeen == \A l \in Launches : opens[l] > 0 => pc[l] \notin {"new", "alloc"}
Listed   == \A l \in Launches : Up(l) /\ Untouched(l) => registry[id[l]] = l

ListedInv == CleanInv /\ OkDone /\ StopSeen /\ Listed

LEMMA ListedInit == Init => ListedInv
<1> SUFFICES ASSUME Init PROVE ListedInv
    OBVIOUS
<1>1. CleanInv
    BY CleanInit
<1> QED BY <1>1 DEF ListedInv, Init, OkDone, StopSeen, Listed, Up

LEMMA ListedNext == ListedInv /\ [Next]_vars => ListedInv'
<1> SUFFICES ASSUME ListedInv, [Next]_vars PROVE ListedInv'
    OBVIOUS
<1> DEFINE Parts == OkDone /\ StopSeen /\ Listed
<1>0. CleanInv'
    BY CleanNext DEF ListedInv
<1>n. \A l \in Launches : l # NoUe
    BY NoUeAssumption
<1> SUFFICES Parts'
    BY <1>0 DEF ListedInv
<1> USE <1>n DEF ListedInv, CleanInv, FailedDone, OkDone, StopSeen, Listed, Up, Untouched, TypeOK
<1>1. ASSUME NEW l \in Launches, LaunchUEFromProfile(l) PROVE Parts'
    BY <1>1 DEF LaunchUEFromProfile, Goto, Returns
<1>2. ASSUME NEW l \in Launches, Launch(l) PROVE Parts'
  <2>1. CASE nextFleetUEID(l)
      BY <2>1 DEF nextFleetUEID, Goto
  <2>2. CASE nextFleetUEIDExhausted(l)
      BY <2>2 DEF nextFleetUEIDExhausted, Goto, Returns
  <2>3. CASE NoTargetGnb(l)
      BY <2>3 DEF NoTargetGnb, Goto, Returns
  <2>4. CASE NewRanUeContext(l)
      BY <2>4 DEF NewRanUeContext, Goto
  <2>5. CASE InitConn(l)
      BY <2>5 DEF InitConn, Goto
  <2>6. CASE InitConnFails(l)
      BY <2>6 DEF InitConnFails, Goto, Returns, UnregisterUE
  <2>7. CASE InitRegistration(l)
      BY <2>7 DEF InitRegistration, Goto
  <2>8. CASE InitRegistrationState(l)
      BY <2>8 DEF InitRegistrationState, Goto
  <2>9. CASE LaunchSucceeds(l)
      BY <2>9 DEF LaunchSucceeds, Goto, Returns
  <2>10. CASE LaunchFails(l)
      BY <2>10 DEF LaunchFails, Goto, UnregisterUE
  <2>11. CASE LaunchFailsClose(l)
      BY <2>11 DEF LaunchFailsClose, Goto
  <2>12. CASE LaunchFailsReturn(l)
      BY <2>12 DEF LaunchFailsReturn, Goto, Returns, UnregisterUE
  <2> QED BY <1>2, <2>1, <2>2, <2>3, <2>4, <2>5, <2>6, <2>7, <2>8, <2>9, <2>10, <2>11,
             <2>12 DEF Launch
<1>3. ASSUME NEW l \in Launches, Nas(l) PROVE Parts'
  <2>1. UNCHANGED <<registry, pc, id, outcome, opens, closes, gone>>
      BY <1>3 DEF Nas, HandlerAuthenticationRequest, HandlerRegistrationAccept,
                  HandlerReject, HandlerDlNasTransport
  <2> QED BY <2>1
<1>4. ASSUME NEW l \in Launches, Terminate(l) PROVE Parts'
    BY <1>4 DEF Terminate, UnregisterUE
<1>5. ASSUME NEW l \in Launches, TerminateClose(l) PROVE Parts'
    BY <1>5 DEF TerminateClose
<1>6. ASSUME NEW i \in Ids, handleFleetStopUE(i) PROVE Parts'
    BY <1>6 DEF handleFleetStopUE, Absent
<1>7. CASE UNCHANGED vars
    BY <1>7 DEF vars
<1> QED BY <1>1, <1>2, <1>3, <1>4, <1>5, <1>6, <1>7 DEF Next

(* A launched UE that nobody has stopped is found under its id             *)
(* (LaunchedListed), whatever the other launches do to ActiveUEs, as long  *)
(* as none of them has the same id.                                        *)
THEOREM LaunchListed == Spec => []LaunchedListed
<1>1. ListedInv => LaunchedListed
    BY DEF ListedInv, Listed, Up, Untouched, LaunchedListed
<1> QED BY ListedInit, ListedNext, <1>1, PTL DEF Spec

=============================================================================
