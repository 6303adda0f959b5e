------------------------------- MODULE UeNas -------------------------------
(***************************************************************************)
(* One emulated UE: its 5GMM and 5GSM state (ue/context/context.go), the   *)
(* downlink NAS and gNB control messages it handles (ue/nas, ue/state) and *)
(* the callers outside the NAS stack that change the same context: the     *)
(* registration trigger, the web actions and the status poll.              *)
(*                                                                         *)
(* UeListen starts one goroutine per downlink message and nothing locks    *)
(* the context, so the handlers interleave and run in any order.  A        *)
(* handler is one step, except where it sleeps or where its caller still   *)
(* has to write the context after a send: then the rest of it is a task of *)
(* its own (a "...Wait" task).                                             *)
(***************************************************************************)
EXTENDS Naturals

CONSTANTS
  Sessions,     \* ids of the PDU sessions the UE is configured with
  Default,      \* the session that Registration Accept establishes
  ChaosDrop,    \* TRUE: the chaos rules may drop an uplink message
  MaxDown,      \* bound: downlink messages the network sends
  MaxActions    \* bound: operator actions

ASSUME SessionsAssumption == Default \in Sessions
ASSUME ChaosAssumption    == ChaosDrop \in BOOLEAN
ASSUME BoundsAssumption   == MaxDown \in Nat /\ MaxActions \in Nat

VARIABLES
  mm,        \* StateMM
  sm,        \* StateSM
  ksi,       \* a NAS security context has been taken into use (ngKSI # 7)
  conn,      \* UnixConn is open (FALSE: closed, or closed and set to nil)
  raced,     \* history: a redial was under way when Terminate last closed conn
  live,      \* the UE is in the ActiveUEs registry
  sess,      \* PduSessions: state, Error set, RequestedAt, age of the request
  mmErr,     \* mmErr is not empty
  smErr,     \* smErr is not empty
  tasks,     \* bag of running goroutines, by what they still have to do
  up,        \* bag of uplink NAS messages on their way to the AMF
  amf,       \* the AMF's state for this UE
  sent,      \* downlink messages sent so far (bounded by MaxDown)
  acts       \* operator actions so far (bounded by MaxActions)

ueVars  == <<mm, sm, ksi, conn, raced, live, sess, mmErr, smErr>>
netVars == <<amf, sent>>
vars    == <<mm, sm, ksi, conn, raced, live, sess, mmErr, smErr, tasks, up, amf,
             sent, acts>>

MMStates == {"NULL", "DEREGISTERED", "REGISTERED_INITIATED", "REGISTERED",
             "SERVICE_REQ_INIT"}
SMStates == {"INACTIVE", "PENDING", "ACTIVE"}

(* RequestedAt: never stamped, stamped within the last 2.5s, or older.     *)
Stamps == {"zero", "recent", "old"}

SessionRec == [state : SMStates, err : BOOLEAN, reqAt : Stamps, age : Stamps]

(***************************************************************************)
(* Messages are pairs of a kind and a PDU session.  The uplink messages    *)
(* are the ones the AMF acts on, the two deregistration messages, and the  *)
(* handover messages to the gNB: a trigger to the source, and the access   *)
(* or path switch trigger on the new connection to the target.             *)
(***************************************************************************)
NoSession == 0

UlKinds  == {"RegistrationRequest", "AuthenticationResponse",
             "AuthenticationFailure", "SecurityModeComplete",
             "RegistrationComplete", "ServiceRequest",
             "DeregistrationRequest", "DeregistrationAccept", "Response",
             "HandoverTrigger", "TargetAccess"}
PduKinds == {"PduRequest", "PduReleaseRequest", "PduModifyRequest"}
UlMsgs   == (UlKinds \X {NoSession}) \cup (PduKinds \X Sessions)

(* Downlink messages without a session: 5GMM messages and gNB triggers.    *)
DlPlain   == {"AuthenticationRequest", "AuthenticationRequestBad",
              "AuthenticationReject", "RegistrationReject"}
DlSecured == {"SecurityModeCommand", "RegistrationAccept", "ServiceAccept",
              "ServiceReject", "Status5GMM", "IdentityRequest",
              "ConfigurationUpdateCommand", "Deregistration"}
(* The id update (0x03) changes nothing this module holds: see Handover.   *)
DlControl == {"Paging", "ConnectionRelease", "HandoverCommand"}
(* DL NAS Transport by its 5GSM payload, all secured, and the gNB's IP     *)
(* plane message that follows an accept.                                   *)
DlPdu     == {"PduAccept", "PduReject", "PduRelease", "PduModification",
              "PduUnparseable"}
Waits     == {"InitRegistrationWait", "RegistrationAcceptWait", "DeregisterWait",
              "TerminateClose", "DeregistrationClose",
              "XnClose", "XnCloseOld", "Redial", "Reconnect"}

Tasks == ((DlPlain \cup DlSecured \cup DlControl \cup Waits) \X {NoSession})
         \cup ((DlPdu \cup {"IpPlane"}) \X Sessions)

-----------------------------------------------------------------------------
(* Goroutines: a task that is running, one that ends, one that goes on.    *)
Running(k, s) == tasks[<<k, s>>] > 0
Ends(k, s)    == tasks' = [tasks EXCEPT ![<<k, s>>] = @ - 1]
Starts(t)     == tasks' = [tasks EXCEPT ![t] = @ + 1]
GoesOn(t, u)  == tasks' = [tasks EXCEPT ![t] = @ - 1, ![u] = @ + 1]

(* SendToGnb: nothing is sent on a nil connection or when chaos drops the  *)
(* message.                                                                *)
SendToGnb(m) ==
  \/ /\ conn
     /\ up' = [up EXCEPT ![m] = @ + 1]
  \/ /\ ~conn \/ ChaosDrop
     /\ UNCHANGED up

(* SetPduSessionPending: the only place that stamps RequestedAt.           *)
SetPduSessionPending(s) ==
  /\ sm'   = "PENDING"
  /\ sess' = [sess EXCEPT ![s] = [state |-> "PENDING", err |-> FALSE,
                                  reqAt |-> "recent", age |-> "recent"]]

(* A request that only sets the session state: RequestedAt and Error stay  *)
(* as they were.                                                           *)
MarkPending(s) ==
  sess' = [sess EXCEPT ![s].state = "PENDING", ![s].age = "recent"]

(* Mutant: the error text is not stored with the session.                  *)
FailPending_NoError(x) ==
  IF x.state = "PENDING" THEN [x EXCEPT !.state = "INACTIVE"] ELSE x

(* What a failure does to a session that is waiting for the network.       *)
FailPending(x) ==
  IF x.state = "PENDING" THEN [x EXCEPT !.state = "INACTIVE", !.err = TRUE] ELSE x

(* Terminate removes the UE from the registry first; the connection is     *)
(* closed and set to nil after the interfaces have been torn down.         *)
UnregisterUE == live' = FALSE

(* Mutant: the connection stays open.                                      *)
CloseConn_LeftOpen == UNCHANGED <<conn, raced>>

(* Goroutines that will put a new connection in the context, whatever      *)
(* Terminate does in between.                                              *)
Redialing ==
  \E k \in {"HandoverCommand", "XnClose", "XnCloseOld", "Redial", "Reconnect"} :
    Running(k, NoSession)

CloseConn == conn' = FALSE /\ raced' = Redialing

(* SetUnixConn: a goroutine that read the connection before now holds an   *)
(* old one.                                                                *)
SetUnixConn(k) ==
  /\ conn'  = TRUE
  /\ tasks' = [tasks EXCEPT ![<<k, NoSession>>] = @ - 1,
                            ![<<"XnClose", NoSession>>] = 0,
                            ![<<"XnCloseOld", NoSession>>] =
                              @ + tasks[<<"XnClose", NoSession>>]]

Init ==
  /\ mm = "NULL" /\ sm = "INACTIVE" /\ ksi = FALSE
  /\ conn = TRUE /\ raced = FALSE /\ live = TRUE
  /\ sess = [s \in Sessions |-> [state |-> "INACTIVE", err |-> FALSE,
                                 reqAt |-> "zero", age |-> "old"]]
  /\ mmErr = FALSE /\ smErr = FALSE
  /\ tasks = [t \in Tasks |-> 0]
  /\ up = [m \in UlMsgs |-> 0]
  /\ amf = "idle" /\ sent = 0 /\ acts = 0

-----------------------------------------------------------------------------
(* 5GMM handlers                                                           *)

HandlerAuthenticationRequest ==
  /\ Running("AuthenticationRequest", NoSession)
  /\ Ends("AuthenticationRequest", NoSession)
  /\ mm' = "REGISTERED_INITIATED"
  /\ SendToGnb(<<"AuthenticationResponse", NoSession>>)
  /\ UNCHANGED <<sm, ksi, conn, raced, live, sess, mmErr, smErr, netVars, acts>>

(* MAC or SQN failure: the UE's state does not change.                     *)
HandlerAuthenticationFailure ==
  /\ Running("AuthenticationRequestBad", NoSession)
  /\ Ends("AuthenticationRequestBad", NoSession)
  /\ SendToGnb(<<"AuthenticationFailure", NoSession>>)
  /\ UNCHANGED <<ueVars, netVars, acts>>

(* Authentication, Registration and Service Reject: the three handlers do  *)
(* the same.  An ACTIVE session stays ACTIVE.                              *)
HandlerReject(k) ==
  /\ k \in {"AuthenticationReject", "RegistrationReject", "ServiceReject"}
  /\ Running(k, NoSession)
  /\ Ends(k, NoSession)
  /\ mm' = "DEREGISTERED" /\ sm' = "INACTIVE"
  /\ mmErr' = TRUE /\ smErr' = TRUE
  /\ sess' = [s \in Sessions |-> FailPending(sess[s])]
  /\ UNCHANGED <<ksi, conn, raced, live, up, netVars, acts>>

(* Mutant: ngKSI is not stored.                                            *)
HandlerSecurityModeCommand_NoKsi ==
  /\ Running("SecurityModeCommand", NoSession)
  /\ Ends("SecurityModeCommand", NoSession)
  /\ SendToGnb(<<"SecurityModeComplete", NoSession>>)
  /\ UNCHANGED <<ueVars, netVars, acts>>

HandlerSecurityModeCommand ==
  /\ Running("SecurityModeCommand", NoSession)
  /\ Ends("SecurityModeCommand", NoSession)
  /\ ksi' = TRUE
  /\ SendToGnb(<<"SecurityModeComplete", NoSession>>)
  /\ UNCHANGED <<mm, sm, conn, raced, live, sess, mmErr, smErr, netVars, acts>>

(* Mutant: a 5GSM constant is written to StateMM.                          *)
HandlerRegistrationAccept_WrongState ==
  /\ Running("RegistrationAccept", NoSession)
  /\ GoesOn(<<"RegistrationAccept", NoSession>>, <<"RegistrationAcceptWait", NoSession>>)
  /\ mm' = "ACTIVE"
  /\ SendToGnb(<<"RegistrationComplete", NoSession>>)
  /\ UNCHANGED <<sm, ksi, conn, raced, live, sess, mmErr, smErr, netVars, acts>>

(* The accept sends Registration Complete and then sleeps 20ms ...         *)
HandlerRegistrationAccept ==
  /\ Running("RegistrationAccept", NoSession)
  /\ GoesOn(<<"RegistrationAccept", NoSession>>, <<"RegistrationAcceptWait", NoSession>>)
  /\ mm' = "REGISTERED"
  /\ SendToGnb(<<"RegistrationComplete", NoSession>>)
  /\ UNCHANGED <<sm, ksi, conn, raced, live, sess, mmErr, smErr, netVars, acts>>

(* ... and requests the default session, whatever happened meanwhile.      *)
HandlerRegistrationAcceptPdu ==
  /\ Running("RegistrationAcceptWait", NoSession)
  /\ Ends("RegistrationAcceptWait", NoSession)
  /\ SetPduSessionPending(Default)
  /\ SendToGnb(<<"PduRequest", Default>>)
  /\ UNCHANGED <<mm, ksi, conn, raced, live, mmErr, smErr, netVars, acts>>

HandlerServiceAccept ==
  /\ Running("ServiceAccept", NoSession)
  /\ Ends("ServiceAccept", NoSession)
  /\ mm' = "REGISTERED"
  /\ UNCHANGED <<sm, ksi, conn, raced, live, sess, mmErr, smErr, up, netVars, acts>>

HandlerStatus5GMM ==
  /\ Running("Status5GMM", NoSession)
  /\ Ends("Status5GMM", NoSession)
  /\ mmErr' = TRUE /\ smErr' = TRUE
  /\ sess' = [s \in Sessions |-> FailPending(sess[s])]
  /\ UNCHANGED <<mm, sm, ksi, conn, raced, live, up, netVars, acts>>

(* The handler calls Terminate before it sends the accept: the connection  *)
(* is nil by then and SendToGnb returns without sending anything.          *)
HandlerDeregistrationRequestUETerminatedDeregistration ==
  /\ Running("Deregistration", NoSession)
  /\ GoesOn(<<"Deregistration", NoSession>>, <<"DeregistrationClose", NoSession>>)
  /\ UnregisterUE
  /\ UNCHANGED <<mm, sm, ksi, conn, raced, sess, mmErr, smErr, up, netVars, acts>>

HandlerDeregistrationClose ==
  /\ Running("DeregistrationClose", NoSession)
  /\ Ends("DeregistrationClose", NoSession)
  /\ CloseConn
  /\ mm' = "DEREGISTERED" /\ sm' = "INACTIVE"
  /\ UNCHANGED <<ksi, live, sess, mmErr, smErr, up, netVars, acts>>

(* Identity Request and Configuration Update Command only reply.           *)
HandlerReplyOnly(k) ==
  /\ k \in {"IdentityRequest", "ConfigurationUpdateCommand"}
  /\ Running(k, NoSession)
  /\ Ends(k, NoSession)
  /\ SendToGnb(<<"Response", NoSession>>)
  /\ UNCHANGED <<ueVars, netVars, acts>>

(* DispatchNas drops a secured message whose MAC does not verify.          *)
DispatchNasMacFailure(t) ==
  /\ t \in (DlSecured \X {NoSession}) \cup (DlPdu \X Sessions)
  /\ tasks[t] > 0
  /\ tasks' = [tasks EXCEPT ![t] = @ - 1]
  /\ UNCHANGED <<ueVars, up, netVars, acts>>

-----------------------------------------------------------------------------
(* 5GSM: DL NAS Transport by payload                                       *)

DlPduAccept(s) ==
  /\ Running("PduAccept", s)
  /\ Ends("PduAccept", s)
  /\ sess' = [sess EXCEPT ![s].state = "ACTIVE", ![s].err = FALSE]
  /\ UNCHANGED <<mm, sm, ksi, conn, raced, live, mmErr, smErr, up, netVars, acts>>

(* Establishment Reject, 5GSM Status, and the raw-byte fallback.           *)
DlPduReject(s) ==
  /\ Running("PduReject", s)
  /\ Ends("PduReject", s)
  /\ smErr' = TRUE
  /\ sess' = [r \in Sessions |->
                IF r = s THEN [sess[r] EXCEPT !.state = "INACTIVE", !.err = TRUE]
                         ELSE FailPending(sess[r])]
  /\ UNCHANGED <<mm, sm, ksi, conn, raced, live, mmErr, up, netVars, acts>>

DlPduRelease(s) ==
  /\ Running("PduRelease", s)
  /\ Ends("PduRelease", s)
  /\ sess' = [sess EXCEPT ![s].state = "INACTIVE"]
  /\ SendToGnb(<<"Response", NoSession>>)
  /\ UNCHANGED <<mm, sm, ksi, conn, raced, live, mmErr, smErr, netVars, acts>>

(* The modification branch does not return: it falls through to the        *)
(* unparseable-payload fallback, which fails every waiting session.        *)
DlPduModification(s) ==
  /\ Running("PduModification", s)
  /\ Ends("PduModification", s)
  /\ SendToGnb(<<"Response", NoSession>>)
  /\ sess' = [r \in Sessions |-> FailPending(sess[r])]
  /\ UNCHANGED <<mm, sm, ksi, conn, raced, live, mmErr, smErr, netVars, acts>>

DlPduUnparseable(s) ==
  /\ Running("PduUnparseable", s)
  /\ Ends("PduUnparseable", s)
  /\ sess' = [r \in Sessions |-> FailPending(sess[r])]
  /\ UNCHANGED <<mm, sm, ksi, conn, raced, live, mmErr, smErr, up, netVars, acts>>

-----------------------------------------------------------------------------
(* gNB control messages (DispatchState)                                    *)

DispatchPaging ==
  /\ Running("Paging", NoSession)
  /\ Ends("Paging", NoSession)
  /\ SendToGnb(<<"ServiceRequest", NoSession>>)
  /\ UNCHANGED <<ueVars, netVars, acts>>

(* Handover Command (0x05): the connection is closed at once, not set to   *)
(* nil, and the goroutine dials the target ...                             *)
DispatchHandoverCommand ==
  /\ Running("HandoverCommand", NoSession)
  /\ GoesOn(<<"HandoverCommand", NoSession>>, <<"Redial", NoSession>>)
  /\ conn' = FALSE
  /\ UNCHANGED <<mm, sm, ksi, raced, live, sess, mmErr, smErr, up, netVars, acts>>

(* ... up to ten times, 100ms apart.  If that succeeds it stores the new   *)
(* connection and writes to the target; it does not look whether the UE    *)
(* has been terminated meanwhile.  The write may fail.                     *)
Redial ==
  /\ Running("Redial", NoSession)
  /\ \/ Ends("Redial", NoSession) /\ UNCHANGED <<conn, up>>
     \/ /\ SetUnixConn("Redial")
        /\ \/ up' = [up EXCEPT ![<<"TargetAccess", NoSession>>] = @ + 1]
           \/ UNCHANGED up
  /\ UNCHANGED <<mm, sm, ksi, raced, live, sess, mmErr, smErr, netVars, acts>>

(* ReleaseConnection: CM-IDLE, every session INACTIVE.                     *)
DispatchConnectionRelease ==
  /\ Running("ConnectionRelease", NoSession)
  /\ Ends("ConnectionRelease", NoSession)
  /\ sess' = [s \in Sessions |-> [sess[s] EXCEPT !.state = "INACTIVE"]]
  /\ UNCHANGED <<mm, sm, ksi, conn, raced, live, mmErr, smErr, up, netVars, acts>>

(* triggerNextPduSession: the first INACTIVE session in map order.         *)
DispatchIpPlane(s) ==
  /\ Running("IpPlane", s)
  /\ Ends("IpPlane", s)
  /\ LET idle == {r \in Sessions : sess[r].state = "INACTIVE"} IN
       \/ /\ idle = {}
          /\ UNCHANGED <<sess, up>>
       \/ \E r \in idle : MarkPending(r) /\ SendToGnb(<<"PduRequest", r>>)
  /\ UNCHANGED <<mm, sm, ksi, conn, raced, live, mmErr, smErr, netVars, acts>>

-----------------------------------------------------------------------------
(* Operator actions: registration trigger, web actions, status poll        *)

Act == live /\ acts < MaxActions /\ acts' = acts + 1

(* InitRegistration sends first ...                                        *)
InitRegistration ==
  /\ Act
  /\ mm = "NULL"
  /\ ~Running("InitRegistrationWait", NoSession)
  /\ SendToGnb(<<"RegistrationRequest", NoSession>>)
  /\ Starts(<<"InitRegistrationWait", NoSession>>)
  /\ UNCHANGED <<ueVars, netVars>>

(* ... and sets the state afterwards.                                      *)
InitRegistrationState ==
  /\ Running("InitRegistrationWait", NoSession)
  /\ Ends("InitRegistrationWait", NoSession)
  /\ mm' = "DEREGISTERED"
  /\ UNCHANGED <<sm, ksi, conn, raced, live, sess, mmErr, smErr, up, netVars, acts>>

(* "registration_request" of a custom scenario: state first, then send.    *)
(* The scenario's start_ue step has run InitRegistration to its end.       *)
TriggerRegistrationRequest ==
  /\ Act
  /\ mm # "NULL" /\ ~Running("InitRegistrationWait", NoSession)
  /\ mm' = "DEREGISTERED"
  /\ SendToGnb(<<"RegistrationRequest", NoSession>>)
  /\ UNCHANGED <<sm, ksi, conn, raced, live, sess, mmErr, smErr, tasks, netVars>>

ActionServiceRequest ==
  /\ Act
  /\ mm' = "SERVICE_REQ_INIT"
  /\ SendToGnb(<<"ServiceRequest", NoSession>>)
  /\ UNCHANGED <<sm, ksi, conn, raced, live, sess, mmErr, smErr, tasks, netVars>>

(* deregister-normal and -poweroff: send, sleep one second, Terminate.     *)
ActionDeregister ==
  /\ Act
  /\ SendToGnb(<<"DeregistrationRequest", NoSession>>)
  /\ Starts(<<"DeregisterWait", NoSession>>)
  /\ UNCHANGED <<ueVars, netVars>>

ActionDeregisterTerminate ==
  /\ Running("DeregisterWait", NoSession)
  /\ GoesOn(<<"DeregisterWait", NoSession>>, <<"TerminateClose", NoSession>>)
  /\ UnregisterUE
  /\ UNCHANGED <<mm, sm, ksi, conn, raced, sess, mmErr, smErr, up, netVars, acts>>

(* pdu-establish leaves RequestedAt and Error of the session alone.        *)
ActionPduEstablish(s) ==
  /\ Act
  /\ MarkPending(s)
  /\ SendToGnb(<<"PduRequest", s>>)
  /\ UNCHANGED <<mm, sm, ksi, conn, raced, live, mmErr, smErr, tasks, netVars>>

ActionPduModifyRelease(k, s) ==
  /\ Act
  /\ k \in {"PduReleaseRequest", "PduModifyRequest"}
  /\ SendToGnb(<<k, s>>)
  /\ UNCHANGED <<ueVars, tasks, netVars>>

(* TriggerHandover, N2: a trigger to the source on the open connection.    *)
ActionHandover ==
  /\ Act
  /\ conn
  /\ up' = [up EXCEPT ![<<"HandoverTrigger", NoSession>>] = @ + 1]
  /\ UNCHANGED <<ueVars, tasks, netVars>>

(* Xn: a trigger to the source, 100ms of sleep ...                         *)
ActionXnHandover ==
  /\ Act
  /\ Starts(<<"XnClose", NoSession>>)
  /\ up' = IF conn THEN [up EXCEPT ![<<"HandoverTrigger", NoSession>>] = @ + 1] ELSE up
  /\ UNCHANGED <<ueVars, netVars>>

(* ... the connection it read before is closed (if another redial has      *)
(* replaced it, the new one stays open) and the target is dialled.         *)
XnHandoverClose(k) ==
  /\ k \in {"XnClose", "XnCloseOld"}
  /\ Running(k, NoSession)
  /\ GoesOn(<<k, NoSession>>, <<"Redial", NoSession>>)
  /\ conn' = (conn /\ k = "XnCloseOld")
  /\ UNCHANGED <<mm, sm, ksi, raced, live, sess, mmErr, smErr, up, netVars, acts>>

(* "switchGnbSocket" of a custom scenario: close, then InitConn.           *)
SwitchGnb ==
  /\ Act
  /\ Starts(<<"Reconnect", NoSession>>)
  /\ conn' = FALSE
  /\ UNCHANGED <<mm, sm, ksi, raced, live, sess, mmErr, smErr, up, netVars>>

Reconnect ==
  /\ Running("Reconnect", NoSession)
  /\ \/ Ends("Reconnect", NoSession) /\ UNCHANGED conn
     \/ SetUnixConn("Reconnect")
  /\ UNCHANGED <<mm, sm, ksi, raced, live, sess, mmErr, smErr, up, netVars, acts>>

(* Fleet stop and clean-up.                                                *)
ActionStop ==
  /\ Act
  /\ UnregisterUE
  /\ Starts(<<"TerminateClose", NoSession>>)
  /\ UNCHANGED <<mm, sm, ksi, conn, raced, sess, mmErr, smErr, up, netVars>>

TerminateClose ==
  /\ Running("TerminateClose", NoSession)
  /\ Ends("TerminateClose", NoSession)
  /\ CloseConn
  /\ UNCHANGED <<mm, sm, ksi, live, sess, mmErr, smErr, up, netVars, acts>>

(* The status poll walks the sessions in map order.  Late: the sessions it *)
(* times out.  The first of them sets smErr, so the sessions visited after *)
(* it (any subset) see a global error; with a global error at the start    *)
(* all of them do.  Swept: the sessions as the poll leaves them.           *)
(* Mutant (Late_OnlyStamped): a request never stamped does not time out.   *)
Late_OnlyStamped ==
  {s \in Sessions : sess[s].state = "PENDING" /\ ~sess[s].err /\ sess[s].reqAt = "old"}

Late ==
  {s \in Sessions : sess[s].state = "PENDING" /\ ~sess[s].err /\ sess[s].reqAt # "recent"}

ErrorVisible ==
  IF mmErr \/ smErr THEN {Sessions}
  ELSE IF Late = {} THEN {{}} ELSE {after \in SUBSET Sessions : Late \subseteq after}

Swept(after) ==
  [s \in Sessions |->
     LET x == sess[s] IN
     [x EXCEPT !.err   = @ \/ s \in after,
               !.state = IF \/ @ = "PENDING" /\ (x.err \/ s \in after)
                            \/ s \in after /\ mm = "DEREGISTERED"
                         THEN "INACTIVE" ELSE @]]

GetFleetRunningSummary ==
  /\ live
  /\ \E after \in ErrorVisible : sess' = Swept(after)
  /\ smErr' = (smErr \/ (~mmErr /\ Late # {}))
  /\ UNCHANGED <<mm, sm, ksi, conn, raced, live, mmErr, tasks, up, netVars, acts>>

(* 2.5 seconds pass.                                                       *)
Elapse(s) ==
  /\ "recent" \in {sess[s].reqAt, sess[s].age}
  /\ sess' = [sess EXCEPT ![s].reqAt = IF @ = "zero" THEN @ ELSE "old", ![s].age = "old"]
  /\ UNCHANGED <<mm, sm, ksi, conn, raced, live, mmErr, smErr, tasks, up, netVars, acts>>

-----------------------------------------------------------------------------
(* The AMF and the gNB, external: what they answer and what they start.    *)

Down(t) == conn /\ sent < MaxDown /\ sent' = sent + 1 /\ Starts(t)

Consumes(k, s) ==
  /\ up[<<k, s>>] > 0
  /\ up' = [up EXCEPT ![<<k, s>>] = @ - 1]

(* An uplink message is lost, or the network does not answer it.           *)
AmfIgnores(m) ==
  /\ up[m] > 0
  /\ up' = [up EXCEPT ![m] = @ - 1]
  /\ UNCHANGED <<ueVars, tasks, netVars, acts>>

AmfRegistrationRequest ==
  /\ Consumes("RegistrationRequest", NoSession)
  /\ \/ /\ amf' = "challenge"
        /\ \E k \in {"AuthenticationRequest", "AuthenticationRequestBad"} : Down(<<k, NoSession>>)
     \/ amf' = "idle" /\ Down(<<"RegistrationReject", NoSession>>)
     \/ amf = "registered" /\ amf' = amf /\ Down(<<"RegistrationAccept", NoSession>>)
  /\ UNCHANGED <<ueVars, acts>>

AmfAuthenticationResponse ==
  /\ Consumes("AuthenticationResponse", NoSession)
  /\ amf = "challenge"
  /\ \/ amf' = "security" /\ Down(<<"SecurityModeCommand", NoSession>>)
     \/ amf' = "idle" /\ Down(<<"AuthenticationReject", NoSession>>)
  /\ UNCHANGED <<ueVars, acts>>

AmfAuthenticationFailure ==
  /\ Consumes("AuthenticationFailure", NoSession)
  /\ amf = "challenge"
  /\ \/ amf' = amf /\ Down(<<"AuthenticationRequest", NoSession>>)
     \/ amf' = "idle" /\ Down(<<"AuthenticationReject", NoSession>>)
  /\ UNCHANGED <<ueVars, acts>>

AmfSecurityModeComplete ==
  /\ Consumes("SecurityModeComplete", NoSession)
  /\ amf = "security"
  /\ \/ amf' = "registered" /\ Down(<<"RegistrationAccept", NoSession>>)
     \/ amf' = "idle" /\ Down(<<"RegistrationReject", NoSession>>)
  /\ UNCHANGED <<ueVars, acts>>

AmfServiceRequest ==
  /\ Consumes("ServiceRequest", NoSession)
  /\ \/ amf = "registered" /\ amf' = amf /\ Down(<<"ServiceAccept", NoSession>>)
     \/ amf' = "idle" /\ Down(<<"ServiceReject", NoSession>>)
  /\ UNCHANGED <<ueVars, acts>>

(* The UE's dispatcher has no case for the accept that comes back.         *)
AmfDeregistrationRequest ==
  /\ Consumes("DeregistrationRequest", NoSession)
  /\ amf' = "idle"
  /\ UNCHANGED <<ueVars, tasks, sent, acts>>

AmfPduRequest(s) ==
  /\ Consumes("PduRequest", s)
  /\ amf = "registered"
  /\ \/ \E k \in {"PduReject", "PduUnparseable"} : Down(<<k, s>>)
     \/ /\ conn /\ sent < MaxDown /\ sent' = sent + 1
        /\ tasks' = [tasks EXCEPT ![<<"PduAccept", s>>] = @ + 1, ![<<"IpPlane", s>>] = @ + 1]
  /\ UNCHANGED <<ueVars, amf, acts>>

(* The source gNB asks the AMF, which lets it command the handover.        *)
AmfHandoverTrigger ==
  /\ Consumes("HandoverTrigger", NoSession)
  /\ amf = "registered"
  /\ Down(<<"HandoverCommand", NoSession>>)
  /\ UNCHANGED <<ueVars, amf, acts>>

(* Commands the network starts by itself for a registered UE.              *)
NetworkCommand(t) ==
  /\ amf = "registered"
  /\ t \in ({"Status5GMM", "IdentityRequest", "ConfigurationUpdateCommand",
             "Deregistration", "Paging", "ConnectionRelease"} \X {NoSession})
           \cup ({"PduRelease", "PduModification"} \X Sessions)
  /\ Down(t)
  /\ amf' = IF t[1] = "Deregistration" THEN "idle" ELSE amf
  /\ UNCHANGED <<ueVars, up, acts>>

-----------------------------------------------------------------------------
Handlers ==
  \/ HandlerAuthenticationRequest
  \/ HandlerAuthenticationFailure
  \/ \E k \in DlPlain \cup DlSecured : HandlerReject(k) \/ HandlerReplyOnly(k)
  \/ HandlerSecurityModeCommand
  \/ HandlerRegistrationAccept
  \/ HandlerRegistrationAcceptPdu
  \/ HandlerServiceAccept
  \/ HandlerStatus5GMM
  \/ HandlerDeregistrationRequestUETerminatedDeregistration
  \/ HandlerDeregistrationClose
  \/ \E t \in Tasks : DispatchNasMacFailure(t)
  \/ \E s \in Sessions : \/ DlPduAccept(s) \/ DlPduReject(s) \/ DlPduRelease(s)
                         \/ DlPduModification(s) \/ DlPduUnparseable(s)
                         \/ DispatchIpPlane(s)
  \/ DispatchPaging
  \/ DispatchHandoverCommand
  \/ Redial
  \/ DispatchConnectionRelease

Operator ==
  \/ InitRegistration
  \/ InitRegistrationState
  \/ TriggerRegistrationRequest
  \/ ActionServiceRequest
  \/ ActionDeregister
  \/ ActionDeregisterTerminate
  \/ \E s \in Sessions : \/ ActionPduEstablish(s)
                         \/ \E k \in PduKinds : ActionPduModifyRelease(k, s)
  \/ ActionHandover
  \/ ActionXnHandover
  \/ \E k \in Waits : XnHandoverClose(k)
  \/ SwitchGnb
  \/ Reconnect
  \/ ActionStop
  \/ TerminateClose

Network ==
  \/ \E m \in UlMsgs : AmfIgnores(m)
  \/ AmfRegistrationRequest
  \/ AmfAuthenticationResponse
  \/ AmfAuthenticationFailure
  \/ AmfSecurityModeComplete
  \/ AmfServiceRequest
  \/ AmfDeregistrationRequest
  \/ AmfHandoverTrigger
  \/ \E s \in Sessions : AmfPduRequest(s)
  \/ \E t \in Tasks : NetworkCommand(t)

Next ==
  \/ Handlers
  \/ Operator
  \/ Network
  \/ GetFleetRunningSummary
  \/ \E s \in Sessions : Elapse(s)

(* The status page polls the summary, and time passes.  Nothing else is    *)
(* fair: the network may stay silent and the operator may do nothing.      *)
Fairness ==
  /\ WF_vars(GetFleetRunningSummary)
  /\ \A s \in Sessions : WF_vars(Elapse(s))

Spec == Init /\ [][Next]_vars

FairSpec == Spec /\ Fairness

-----------------------------------------------------------------------------
(* Properties                                                              *)

(* Every variable stays in its type; in particular no goroutine ends and   *)
(* no message is taken off the link more often than it was put there.      *)
TypeOK ==
  /\ mm \in MMStates /\ sm \in SMStates
  /\ ksi \in BOOLEAN /\ conn \in BOOLEAN /\ raced \in BOOLEAN /\ live \in BOOLEAN
  /\ sess \in [Sessions -> SessionRec]
  /\ mmErr \in BOOLEAN /\ smErr \in BOOLEAN
  /\ tasks \in [Tasks -> Nat]
  /\ up \in [UlMsgs -> Nat]
  /\ amf \in {"idle", "challenge", "security", "registered"}
  /\ sent \in Nat /\ acts \in Nat

(* StateMM is REGISTERED only after a Security Mode Command has been       *)
(* handled (SetNgKsi), whatever the order in which the goroutines of       *)
(* UeListen run and whichever of the writers of StateMM comes last.        *)
RegisteredHasContext == mm = "REGISTERED" => ksi

(* Terminate has run to its end in some goroutine, and in all of those     *)
(* that started it.                                                        *)
Terminated ==
  /\ ~live
  /\ tasks[<<"TerminateClose", NoSession>>] = 0
  /\ tasks[<<"DeregistrationClose", NoSession>>] = 0

(* A UE that has left the ActiveUEs registry and has been torn down never  *)
(* sends anything again, although handlers and sleeping goroutines started *)
(* before Terminate still run on the same context (SendToGnb's nil check). *)
(* The one way back is a redial that was already under way when Terminate  *)
(* closed the connection (raced): a Handover Command being handled, an Xn  *)
(* handover or a gNB switch, which store a new connection without a look   *)
(* at Terminate.  No redial can start after it.                            *)
SilentAfterTerminate ==
  [][Terminated /\ ~raced => \A m \in UlMsgs : up'[m] <= up[m]]_vars

(* The steps that take a session down on the network's order.              *)
Released(s) ==
  \/ tasks'[<<"PduRelease", s>>] < tasks[<<"PduRelease", s>>]
  \/ tasks'[<<"ConnectionRelease", NoSession>>] < tasks[<<"ConnectionRelease", NoSession>>]

(* A request that was waiting for the network never disappears silently:   *)
(* when a session goes from PENDING to INACTIVE and the network did not    *)
(* release it, its Error is set (reject handlers and status poll).         *)
RejectReported ==
  [][\A s \in Sessions :
       (sess[s].state = "PENDING" /\ sess'[s].state = "INACTIVE")
         => (sess'[s].err \/ Released(s))]_vars

(* A session does not stay PENDING for ever while its UE is in the         *)
(* registry: whoever set it PENDING, the poll times it out if the network  *)
(* stays silent (GetFleetRunningSummary).                                  *)
PendingResolves ==
  \A s \in Sessions :
    (sess[s].state = "PENDING" /\ live) ~> (sess[s].state # "PENDING" \/ ~live)

(* What a comment of the code says of it; the code differs.                *)
(* "Evaluate PDU session establishment timeout at 2.5s": a session that    *)
(* the poll times out was requested more than 2.5 seconds ago.             *)
TimeoutNotEarly == \A s \in Late : sess[s].age = "old"

=============================================================================
