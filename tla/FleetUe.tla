------------------------------ MODULE FleetUe ------------------------------
(***************************************************************************)
(* Launching and stopping fleet UEs (webserver/fleet_runner.go) over the   *)
(* ActiveUEs registry (ue/context/context.go), which is keyed by UE id.    *)
(*                                                                         *)
(* Every launch request is served by a goroutine of its own and creates    *)
(* one UE, named by the request.  The UE's own NAS handlers, in detail in  *)
(* UeNas, are cut down here to what the launch waits for.  Terminate runs  *)
(* in other goroutines: it removes the registry entry of its id first and  *)
(* closes the connection later.                                            *)
(***************************************************************************)
EXTENDS Naturals

CONSTANTS
  Launches,    \* launch requests
  NoUe,        \* no entry
  IdMod,       \* 256 in the code
  Tries,       \* attempts of nextFleetUEID, 155 in the code
  Unix,        \* TRUE: unix link, where the local address holds the UE id
  MaxStops     \* bound: stop requests

ASSUME NoUeAssumption   == NoUe \notin Launches
ASSUME IdModAssumption  == IdMod \in Nat /\ IdMod > 1
ASSUME TriesAssumption  == Tries \in Nat \ {0}
ASSUME LinkAssumption   == Unix \in BOOLEAN
ASSUME StopsAssumption  == MaxStops \in Nat

VARIABLES
  counter,   \* fleetUEIDCounter % IdMod
  registry,  \* ActiveUEs
  pc,        \* where each launch is
  tries,     \* attempts it has made for an id
  id,        \* the id it got
  outcome,   \* what it returned
  conn,      \* its UE's connection is open
  mm,        \* its UE's StateMM
  pdu,       \* state of its UE's PDU session 1
  err,       \* mmErr or smErr of its UE is set
  pduErr,    \* Error of PDU session 1 is set
  opens,     \* Terminate goroutines of its UE that still have to unregister
  closes,    \* ... that still have to close the connection
  stops,
  gone       \* UEs for which some Terminate has run to its end

ueVars == <<mm, pdu, err, pduErr>>
vars   == <<counter, registry, pc, tries, id, outcome, conn, mm, pdu, err, pduErr,
            opens, closes, stops, gone>>

Ids  == 1 .. IdMod - 1
Pcs  == {"new", "alloc", "register", "dial", "send", "state", "wait", "close",
         "unregister", "done"}
MMStates  == {"NULL", "DEREGISTERED", "REGISTERED_INITIATED", "REGISTERED"}
PduStates == {"INACTIVE", "PENDING", "ACTIVE"}
Outcomes  == {"none", "ok", "failed"}

(* The counter starts at 100 and is where earlier launches left it.        *)
Init ==
  /\ counter \in 0 .. IdMod - 1
  /\ registry = [i \in Ids |-> NoUe]
  /\ pc = [l \in Launches |-> "new"] /\ tries = [l \in Launches |-> 0]
  /\ id = [l \in Launches |-> 1] /\ outcome = [l \in Launches |-> "none"]
  /\ conn = [l \in Launches |-> FALSE]
  /\ mm = [l \in Launches |-> "NULL"] /\ pdu = [l \in Launches |-> "INACTIVE"]
  /\ err = [l \in Launches |-> FALSE] /\ pduErr = [l \in Launches |-> FALSE]
  /\ opens = [l \in Launches |-> 0] /\ closes = [l \in Launches |-> 0]
  /\ stops = 0 /\ gone = {}

-----------------------------------------------------------------------------
(* The launch                                                              *)

Goto(l, p)    == pc' = [pc EXCEPT ![l] = p]
Returns(l, o) == Goto(l, "done") /\ outcome' = [outcome EXCEPT ![l] = o]

(* Mutant: the entry of the id given out last is deleted.                  *)
UnregisterUE_Last(i) ==
  registry' = [registry EXCEPT ![IF counter = 0 THEN 1 ELSE counter] = NoUe]

(* UnregisterUE deletes the entry of an id, whoever is in it.              *)
UnregisterUE(i) == registry' = [registry EXCEPT ![i] = NoUe]

(* The id of a counter value: 0 is replaced by 1.                          *)
IdOf(c) == IF c = 0 THEN 1 ELSE c

(* The profile may be unknown.                                             *)
LaunchUEFromProfile(l) ==
  /\ pc[l] = "new"
  /\ \/ Goto(l, "alloc") /\ UNCHANGED outcome
     \/ Returns(l, "failed")
  /\ UNCHANGED <<counter, registry, tries, id, conn, ueVars, opens, closes, stops, gone>>

(* Mutant: one attempt too many.                                           *)
nextFleetUEID_OneMore(l) ==
  LET i == IdOf((counter + 1) % IdMod) IN
  /\ pc[l] = "alloc" /\ tries[l] <= Tries
  /\ counter' = (counter + 1) % IdMod
  /\ tries' = [tries EXCEPT ![l] = @ + 1]
  /\ IF registry[i] = NoUe THEN id' = [id EXCEPT ![l] = i] /\ Goto(l, "register")
                           ELSE UNCHANGED <<id, pc>>
  /\ UNCHANGED <<registry, outcome, conn, ueVars, opens, closes, stops, gone>>

(* One attempt: step the counter, and take the id if nobody is registered  *)
(* under it.  Nothing reserves it until RegisterUE.                        *)
nextFleetUEID(l) ==
  LET c == (counter + 1) % IdMod
      i == IdOf(c)
  IN
  /\ pc[l] = "alloc" /\ tries[l] < Tries
  /\ counter' = c
  /\ tries' = [tries EXCEPT ![l] = @ + 1]
  /\ IF registry[i] = NoUe THEN id' = [id EXCEPT ![l] = i] /\ Goto(l, "register")
                           ELSE UNCHANGED <<id, pc>>
  /\ UNCHANGED <<registry, outcome, conn, ueVars, opens, closes, stops, gone>>

nextFleetUEIDExhausted(l) ==
  /\ pc[l] = "alloc" /\ tries[l] = Tries
  /\ Returns(l, "failed")
  /\ UNCHANGED <<counter, registry, tries, id, conn, ueVars, opens, closes, stops, gone>>

(* The target gNB may not be running.                                      *)
NoTargetGnb(l) ==
  /\ pc[l] = "register"
  /\ Returns(l, "failed")
  /\ UNCHANGED <<counter, registry, tries, id, conn, ueVars, opens, closes, stops, gone>>

(* NewRanUeContext ends with RegisterUE.                                   *)
NewRanUeContext(l) ==
  /\ pc[l] = "register"
  /\ registry' = [registry EXCEPT ![id[l]] = l]
  /\ Goto(l, "dial")
  /\ UNCHANGED <<counter, tries, id, outcome, conn, ueVars, opens, closes, stops, gone>>

(* The local address "@ue_<id>" of a unix connection must be free.         *)
InitConn(l) ==
  /\ pc[l] = "dial"
  /\ Unix => \A k \in Launches : conn[k] => id[k] # id[l]
  /\ conn' = [conn EXCEPT ![l] = TRUE]
  /\ Goto(l, "send")
  /\ UNCHANGED <<counter, registry, tries, id, outcome, ueVars, opens, closes, stops, gone>>

(* Mutant: the entry of a UE that could not connect stays.                 *)
InitConnFails_Registered(l) ==
  /\ pc[l] = "dial"
  /\ Returns(l, "failed")
  /\ UNCHANGED <<counter, registry, tries, id, conn, ueVars, opens, closes, stops, gone>>

InitConnFails(l) ==
  /\ pc[l] = "dial"
  /\ UnregisterUE(id[l])
  /\ Returns(l, "failed")
  /\ UNCHANGED <<counter, tries, id, conn, ueVars, opens, closes, stops, gone>>

(* InitRegistration sends the request (the handlers of the answers may run *)
(* from here on) and then sets the state.                                  *)
InitRegistration(l) ==
  /\ pc[l] = "send"
  /\ Goto(l, "state")
  /\ UNCHANGED <<counter, registry, tries, id, outcome, conn, ueVars, opens,
                 closes, stops, gone>>

InitRegistrationState(l) ==
  /\ pc[l] = "state"
  /\ mm' = [mm EXCEPT ![l] = "DEREGISTERED"]
  /\ Goto(l, "wait")
  /\ UNCHANGED <<counter, registry, tries, id, outcome, conn, pdu, err, pduErr, opens,
                 closes, stops, gone>>

(* The wait loop ends when its conditions say so, or after 3.5 seconds:    *)
(* seen from outside, at any time.  The launch then compares StateMM with  *)
(* 0x01, which is MM5G_DEREGISTERED.                                       *)
Registered0x01(l) == mm[l] = "DEREGISTERED"

(* Mutant: without a timeout.                                              *)
LaunchSucceeds_NoTimeout(l) ==
  /\ pc[l] = "wait" /\ Registered0x01(l) /\ (pduErr[l] \/ err[l])
  /\ Returns(l, "ok")
  /\ UNCHANGED <<counter, registry, tries, id, conn, ueVars, opens, closes, stops, gone>>

LaunchSucceeds(l) ==
  /\ pc[l] = "wait" /\ Registered0x01(l)
  /\ LET late == pdu[l] = "PENDING" IN
       /\ pdu'    = [pdu EXCEPT ![l] = IF late THEN "INACTIVE" ELSE @]
       /\ pduErr' = [pduErr EXCEPT ![l] = @ \/ late]
       /\ err'    = [err EXCEPT ![l] = @ \/ late]
  /\ Returns(l, "ok")
  /\ UNCHANGED <<counter, registry, tries, id, conn, mm, opens, closes, stops, gone>>

(* "Registration Failed": Terminate, and UnregisterUE once more.           *)
LaunchFails(l) ==
  /\ pc[l] = "wait" /\ ~Registered0x01(l)
  /\ UnregisterUE(id[l])
  /\ Goto(l, "close")
  /\ UNCHANGED <<counter, tries, id, outcome, conn, ueVars, opens, closes, stops, gone>>

LaunchFailsClose(l) ==
  /\ pc[l] = "close"
  /\ conn' = [conn EXCEPT ![l] = FALSE]
  /\ Goto(l, "unregister")
  /\ UNCHANGED <<counter, registry, tries, id, outcome, ueVars, opens, closes, stops, gone>>

LaunchFailsReturn(l) ==
  /\ pc[l] = "unregister"
  /\ UnregisterUE(id[l])
  /\ Returns(l, "failed")
  /\ UNCHANGED <<counter, tries, id, conn, ueVars, opens, closes, stops, gone>>

-----------------------------------------------------------------------------
(* The UE's handlers, as far as the launch sees them (see UeNas)           *)

Answered(l) == conn[l] /\ pc[l] \in {"state", "wait", "close", "unregister", "done"}

HandlerAuthenticationRequest(l) ==
  /\ Answered(l) /\ mm[l] \in {"NULL", "DEREGISTERED"}
  /\ mm' = [mm EXCEPT ![l] = "REGISTERED_INITIATED"]
  /\ UNCHANGED <<counter, registry, pc, tries, id, outcome, conn, pdu, err, pduErr, opens,
                 closes, stops, gone>>

HandlerRegistrationAccept(l) ==
  /\ Answered(l) /\ mm[l] = "REGISTERED_INITIATED"
  /\ mm' = [mm EXCEPT ![l] = "REGISTERED"]
  /\ pdu' = [pdu EXCEPT ![l] = "PENDING"]
  /\ UNCHANGED <<counter, registry, pc, tries, id, outcome, conn, err, pduErr, opens,
                 closes, stops, gone>>

HandlerReject(l) ==
  /\ Answered(l) /\ mm[l] # "REGISTERED"
  /\ mm' = [mm EXCEPT ![l] = "DEREGISTERED"] /\ err' = [err EXCEPT ![l] = TRUE]
  /\ UNCHANGED <<counter, registry, pc, tries, id, outcome, conn, pdu, pduErr, opens,
                 closes, stops, gone>>

HandlerDlNasTransport(l) ==
  /\ Answered(l) /\ pdu[l] = "PENDING"
  /\ \/ /\ pdu' = [pdu EXCEPT ![l] = "ACTIVE"] /\ pduErr' = [pduErr EXCEPT ![l] = FALSE]
        /\ UNCHANGED err
     \/ /\ pdu' = [pdu EXCEPT ![l] = "INACTIVE"] /\ pduErr' = [pduErr EXCEPT ![l] = TRUE]
        /\ err' = [err EXCEPT ![l] = TRUE]
  /\ UNCHANGED <<counter, registry, pc, tries, id, outcome, conn, mm, opens,
                 closes, stops, gone>>

-----------------------------------------------------------------------------
(* Stopping                                                                *)

(* handleFleetStopUE: the UE is looked up, "go u.Terminate()".             *)
handleFleetStopUE(i) ==
  /\ stops < MaxStops /\ stops' = stops + 1
  /\ registry[i] # NoUe
  /\ opens' = [opens EXCEPT ![registry[i]] = @ + 1]
  /\ UNCHANGED <<counter, registry, pc, tries, id, outcome, conn, ueVars, closes, gone>>

Terminate(l) ==
  /\ opens[l] > 0
  /\ UnregisterUE(id[l])
  /\ opens' = [opens EXCEPT ![l] = @ - 1] /\ closes' = [closes EXCEPT ![l] = @ + 1]
  /\ UNCHANGED <<counter, pc, tries, id, outcome, conn, ueVars, stops, gone>>

TerminateClose(l) ==
  /\ closes[l] > 0
  /\ closes' = [closes EXCEPT ![l] = @ - 1]
  /\ conn' = [conn EXCEPT ![l] = FALSE] /\ gone' = gone \cup {l}
  /\ UNCHANGED <<counter, registry, pc, tries, id, outcome, ueVars, opens, stops>>

-----------------------------------------------------------------------------
Launch(l) ==
  \/ nextFleetUEID(l) \/ nextFleetUEIDExhausted(l) \/ NoTargetGnb(l)
  \/ NewRanUeContext(l) \/ InitConn(l) \/ InitConnFails(l)
  \/ InitRegistration(l) \/ InitRegistrationState(l)
  \/ LaunchSucceeds(l) \/ LaunchFails(l) \/ LaunchFailsClose(l) \/ LaunchFailsReturn(l)

Nas(l) ==
  \/ HandlerAuthenticationRequest(l) \/ HandlerRegistrationAccept(l)
  \/ HandlerReject(l) \/ HandlerDlNasTransport(l)

Next ==
  \/ \E l \in Launches : \/ LaunchUEFromProfile(l) \/ Launch(l) \/ Nas(l)
                         \/ Terminate(l) \/ TerminateClose(l)
  \/ \E i \in Ids : handleFleetStopUE(i)

Spec == Init /\ [][Next]_vars

(* The Go scheduler runs the goroutines, and the 3.5 seconds pass.         *)
Fairness == \A l \in Launches : /\ WF_vars(Launch(l))
                                /\ WF_vars(Terminate(l) \/ TerminateClose(l))

FairSpec == Spec /\ Fairness

-----------------------------------------------------------------------------
(* Properties                                                              *)

(* Every variable keeps its type; a UE id is never 0, and no launch makes  *)
(* more than Tries attempts to get one (nextFleetUEID).                    *)
TypeOK ==
  /\ counter \in 0 .. IdMod - 1 /\ registry \in [Ids -> Launches \cup {NoUe}]
  /\ pc \in [Launches -> Pcs] /\ tries \in [Launches -> 0 .. Tries]
  /\ id \in [Launches -> Ids] /\ outcome \in [Launches -> Outcomes]
  /\ conn \in [Launches -> BOOLEAN] /\ mm \in [Launches -> MMStates]
  /\ pdu \in [Launches -> PduStates]
  /\ err \in [Launches -> BOOLEAN] /\ pduErr \in [Launches -> BOOLEAN]
  /\ opens \in [Launches -> Nat] /\ closes \in [Launches -> Nat] /\ stops \in Nat
  /\ gone \subseteq Launches

(* A launch that reports an error leaves nothing behind: its UE is neither *)
(* registered nor connected, however the launch raced with other launches  *)
(* and stop requests, also when two of them got the same id.               *)
FailedLaunchClean ==
  \A l \in Launches : outcome[l] = "failed" => ~conn[l] /\ \A i \in Ids : registry[i] # l

(* A launched UE can be found and stopped: unless a stop request has been  *)
(* made for it, it is registered under its id, whatever other launches and *)
(* their failures do to the registry, as long as no other launch got the   *)
(* same id.                                                                *)
LaunchedListed ==
  \A l \in Launches :
    /\ conn[l] /\ outcome[l] = "ok" /\ opens[l] = 0 /\ closes[l] = 0 /\ l \notin gone
    /\ \A k \in Launches \ {l} : pc[k] \in {"new", "alloc"} \/ id[k] # id[l]
    => registry[id[l]] = l

(* Every launch returns, whatever the network and other launches do.       *)
LaunchReturns == \A l \in Launches : pc[l] # "new" ~> pc[l] = "done"

(* The rest state what comments of the code say of it; the code differs.   *)

(* "generates the next available UE ID (1-254) not currently in use": no   *)
(* two UEs that are being launched or are connected have the same id.      *)
InUse(l) == pc[l] \in {"register", "dial"} \/ conn[l]

IdNotInUse ==
  \A l, k \in Launches : InUse(l) /\ InUse(k) /\ id[l] = id[k] => l = k

(* "[FLEET] Terminated UE": a UE that has been terminated does not connect *)
(* any more.                                                               *)
TerminatedStaysDown == \A l \in gone : ~conn[l]

(* "5GMM-REGISTERED": a launch succeeds exactly for a UE that is           *)
(* REGISTERED when the wait ends.                                          *)
LaunchReportsRegistration ==
  [][\A l \in Launches : pc[l] = "wait" /\ pc'[l] # "wait" =>
       (outcome'[l] = "ok" <=> mm[l] = "REGISTERED")]_vars

=============================================================================
