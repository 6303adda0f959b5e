--------------------------- MODULE UeNas_proofs ---------------------------
(***************************************************************************)
(* Proofs about UeNas, for any set of PDU sessions, any bounds and with or *)
(* without chaos rules: type correctness, REGISTERED only with a security  *)
(* context, silence after Terminate, and no pending request that           *)
(* disappears without an error.                                            *)
(***************************************************************************)
EXTENDS UeNas, TLAPS

LEMMA TaskMembers ==
  /\ \A k \in DlPlain \cup DlSecured \cup DlControl \cup Waits : <<k, NoSession>> \in Tasks
  /\ \A k \in DlPdu \cup {"IpPlane"}, s \in Sessions : <<k, s>> \in Tasks
BY DEF Tasks

LEMMA UplinkMembers ==
  /\ \A k \in UlKinds : <<k, NoSession>> \in UlMsgs
  /\ \A k \in PduKinds, s \in Sessions : <<k, s>> \in UlMsgs
BY DEF UlMsgs

LEMMA BagMinus ==
  ASSUME NEW S, NEW b \in [S -> Nat], NEW e \in S, b[e] > 0
  PROVE  [b EXCEPT ![e] = @ - 1] \in [S -> Nat]
OBVIOUS

LEMMA BagPlus ==
  ASSUME NEW S, NEW b \in [S -> Nat], NEW e \in S
  PROVE  [b EXCEPT ![e] = @ + 1] \in [S -> Nat]
OBVIOUS

LEMMA BagMove ==
  ASSUME NEW S, NEW b \in [S -> Nat], NEW e \in S, NEW f \in S, b[e] > 0, e # f
  PROVE  [b EXCEPT ![e] = @ - 1, ![f] = @ + 1] \in [S -> Nat]
OBVIOUS

LEMMA SetConnType ==
  ASSUME tasks \in [Tasks -> Nat], NEW k \in {"Redial", "Reconnect"},
         Running(k, NoSession), SetUnixConn(k)
  PROVE  tasks' \in [Tasks -> Nat] /\ conn' \in BOOLEAN
<1> DEFINE a == <<k, NoSession>>
           b == <<"XnClose", NoSession>>
           c == <<"XnCloseOld", NoSession>>
<1>1. /\ a \in Tasks /\ b \in Tasks /\ c \in Tasks
      /\ a # b /\ a # c /\ b # c /\ tasks[a] > 0
  BY TaskMembers DEF Waits, Running
<1>2. tasks' = [tasks EXCEPT ![a] = @ - 1, ![b] = 0, ![c] = @ + tasks[b]]
  BY DEF SetUnixConn
<1> HIDE DEF a, b, c
<1>3. tasks' \in [Tasks -> Nat]
  BY <1>1, <1>2
<1> QED
  BY <1>3 DEF SetUnixConn

LEMMA SendType ==
  ASSUME up \in [UlMsgs -> Nat], NEW m \in UlMsgs, SendToGnb(m)
  PROVE  up' \in [UlMsgs -> Nat]
BY BagPlus DEF SendToGnb

LEMMA ConsumesType ==
  ASSUME up \in [UlMsgs -> Nat], NEW k, NEW s, <<k, s>> \in UlMsgs, Consumes(k, s)
  PROVE  up' \in [UlMsgs -> Nat]
BY BagMinus DEF Consumes

LEMMA DownType ==
  ASSUME tasks \in [Tasks -> Nat], sent \in Nat, NEW t \in Tasks, Down(t)
  PROVE  /\ tasks' \in [Tasks -> Nat]
         /\ sent' \in Nat
BY BagPlus DEF Down, Starts

LEMMA MarkType ==
  ASSUME TypeOK, NEW s \in Sessions, MarkPending(s)
  PROVE  sess' \in [Sessions -> SessionRec]
<1>1. sess[s] \in SessionRec
  BY DEF TypeOK
<1>2. sess' = [sess EXCEPT ![s] = [sess[s] EXCEPT !.state = "PENDING", !.age = "recent"]]
  BY <1>1 DEF MarkPending, TypeOK, SessionRec
<1>3. [sess[s] EXCEPT !.state = "PENDING", !.age = "recent"] \in SessionRec
  BY <1>1 DEF SessionRec, SMStates, Stamps
<1> QED
  BY <1>2, <1>3 DEF TypeOK

LEMMA SweptType ==
  ASSUME TypeOK, NEW after
  PROVE  Swept(after) \in [Sessions -> SessionRec]
<1> SUFFICES ASSUME NEW s \in Sessions PROVE Swept(after)[s] \in SessionRec
  BY DEF Swept
<1>1. sess[s] \in SessionRec
  BY DEF TypeOK
<1> DEFINE e  == sess[s].err \/ s \in after
           st == IF \/ sess[s].state = "PENDING" /\ (sess[s].err \/ s \in after)
                    \/ s \in after /\ mm = "DEREGISTERED"
                 THEN "INACTIVE" ELSE sess[s].state
<1>2. e \in BOOLEAN
  OBVIOUS
<1>3. st \in SMStates
  BY <1>1 DEF SessionRec, SMStates
<1>4. Swept(after)[s] = [sess[s] EXCEPT !.err = e, !.state = st]
  BY <1>1 DEF Swept, SessionRec
<1> HIDE DEF e, st
<1> QED
  BY <1>1, <1>2, <1>3, <1>4 DEF SessionRec

LEMMA FailType ==
  ASSUME NEW x \in SessionRec
  PROVE  FailPending(x) \in SessionRec
BY DEF FailPending, SessionRec, SMStates

LEMMA TypeNext == TypeOK /\ [Next]_vars => TypeOK'
<1> SUFFICES ASSUME TypeOK, [Next]_vars PROVE TypeOK'
  OBVIOUS
<1>1. CASE HandlerAuthenticationRequest
  <2>1. tasks' \in [Tasks -> Nat]
    BY <1>1, TaskMembers, BagMinus DEF HandlerAuthenticationRequest, Running,
       Ends, DlPlain, DlSecured, DlControl, DlPdu, Waits, TypeOK
  <2>2. up' \in [UlMsgs -> Nat]
    BY <1>1, SessionsAssumption, UplinkMembers, SendType DEF
       HandlerAuthenticationRequest, TypeOK, UlKinds, PduKinds
  <2> QED
    BY <1>1, <2>1, <2>2 DEF TypeOK, HandlerAuthenticationRequest, netVars,
       ueVars, MMStates, SMStates
<1>2. CASE HandlerAuthenticationFailure
  <2>1. tasks' \in [Tasks -> Nat]
    BY <1>2, TaskMembers, BagMinus DEF HandlerAuthenticationFailure, Running,
       Ends, DlPlain, DlSecured, DlControl, DlPdu, Waits, TypeOK
  <2>2. up' \in [UlMsgs -> Nat]
    BY <1>2, SessionsAssumption, UplinkMembers, SendType DEF
       HandlerAuthenticationFailure, TypeOK, UlKinds, PduKinds
  <2> QED
    BY <1>2, <2>1, <2>2 DEF TypeOK, HandlerAuthenticationFailure, netVars,
       ueVars, MMStates, SMStates
<1>3. CASE HandlerSecurityModeCommand
  <2>1. tasks' \in [Tasks -> Nat]
    BY <1>3, TaskMembers, BagMinus DEF HandlerSecurityModeCommand, Running,
       Ends, DlPlain, DlSecured, DlControl, DlPdu, Waits, TypeOK
  <2>2. up' \in [UlMsgs -> Nat]
    BY <1>3, SessionsAssumption, UplinkMembers, SendType DEF
       HandlerSecurityModeCommand, TypeOK, UlKinds, PduKinds
  <2> QED
    BY <1>3, <2>1, <2>2 DEF TypeOK, HandlerSecurityModeCommand, netVars,
       ueVars, MMStates, SMStates
<1>4. CASE HandlerRegistrationAccept
  <2>1. tasks' \in [Tasks -> Nat]
    BY <1>4, TaskMembers, BagMove DEF HandlerRegistrationAccept, Running,
       GoesOn, DlPlain, DlSecured, DlControl, DlPdu, Waits, TypeOK
  <2>2. up' \in [UlMsgs -> Nat]
    BY <1>4, SessionsAssumption, UplinkMembers, SendType DEF
       HandlerRegistrationAccept, TypeOK, UlKinds, PduKinds
  <2> QED
    BY <1>4, <2>1, <2>2 DEF TypeOK, HandlerRegistrationAccept, netVars,
       ueVars, MMStates, SMStates
<1>5. CASE HandlerRegistrationAcceptPdu
  <2>1. tasks' \in [Tasks -> Nat]
    BY <1>5, TaskMembers, BagMinus DEF HandlerRegistrationAcceptPdu, Running,
       Ends, DlPlain, DlSecured, DlControl, DlPdu, Waits, TypeOK
  <2>2. up' \in [UlMsgs -> Nat]
    BY <1>5, SessionsAssumption, UplinkMembers, SendType DEF
       HandlerRegistrationAcceptPdu, TypeOK, UlKinds, PduKinds
  <2>3. sess' \in [Sessions -> SessionRec]
    BY <1>5, SessionsAssumption DEF HandlerRegistrationAcceptPdu,
       SetPduSessionPending, TypeOK, SessionRec, SMStates, Stamps
  <2> QED
    BY <1>5, <2>1, <2>2, <2>3 DEF TypeOK, HandlerRegistrationAcceptPdu,
       SetPduSessionPending, netVars, ueVars, MMStates, SMStates
<1>6. CASE HandlerServiceAccept
  <2>1. tasks' \in [Tasks -> Nat]
    BY <1>6, TaskMembers, BagMinus DEF HandlerServiceAccept, Running, Ends,
       DlPlain, DlSecured, DlControl, DlPdu, Waits, TypeOK
  <2> QED
    BY <1>6, <2>1 DEF TypeOK, HandlerServiceAccept, netVars, ueVars, MMStates,
       SMStates
<1>7. CASE HandlerStatus5GMM
  <2>1. tasks' \in [Tasks -> Nat]
    BY <1>7, TaskMembers, BagMinus DEF HandlerStatus5GMM, Running, Ends,
       DlPlain, DlSecured, DlControl, DlPdu, Waits, TypeOK
  <2>2. sess' \in [Sessions -> SessionRec]
    BY <1>7, FailType DEF HandlerStatus5GMM, TypeOK, SessionRec, SMStates,
       Stamps
  <2> QED
    BY <1>7, <2>1, <2>2 DEF TypeOK, HandlerStatus5GMM, netVars, ueVars,
       MMStates, SMStates
<1>8. CASE HandlerDeregistrationRequestUETerminatedDeregistration
  <2>1. tasks' \in [Tasks -> Nat]
    BY <1>8, TaskMembers, BagMove DEF
       HandlerDeregistrationRequestUETerminatedDeregistration, Running,
       GoesOn, DlPlain, DlSecured, DlControl, DlPdu, Waits, TypeOK
  <2>2. live' \in BOOLEAN
    BY <1>8 DEF HandlerDeregistrationRequestUETerminatedDeregistration,
       UnregisterUE
  <2> QED
    BY <1>8, <2>1, <2>2 DEF TypeOK,
       HandlerDeregistrationRequestUETerminatedDeregistration, netVars,
       ueVars, MMStates, SMStates
<1>9. CASE HandlerDeregistrationClose
  <2>1. tasks' \in [Tasks -> Nat]
    BY <1>9, TaskMembers, BagMinus DEF HandlerDeregistrationClose, Running,
       Ends, DlPlain, DlSecured, DlControl, DlPdu, Waits, TypeOK
  <2>2. conn' \in BOOLEAN /\ raced' \in BOOLEAN
    BY <1>9 DEF HandlerDeregistrationClose, CloseConn, Redialing
  <2> QED
    BY <1>9, <2>1, <2>2 DEF TypeOK, HandlerDeregistrationClose, netVars,
       ueVars, MMStates, SMStates
<1>10. CASE DispatchPaging
  <2>1. tasks' \in [Tasks -> Nat]
    BY <1>10, TaskMembers, BagMinus DEF DispatchPaging, Running, Ends,
       DlPlain, DlSecured, DlControl, DlPdu, Waits, TypeOK
  <2>2. up' \in [UlMsgs -> Nat]
    BY <1>10, SessionsAssumption, UplinkMembers, SendType DEF DispatchPaging,
       TypeOK, UlKinds, PduKinds
  <2> QED
    BY <1>10, <2>1, <2>2 DEF TypeOK, DispatchPaging, netVars, ueVars,
       MMStates, SMStates
<1>11. CASE DispatchConnectionRelease
  <2>1. tasks' \in [Tasks -> Nat]
    BY <1>11, TaskMembers, BagMinus DEF DispatchConnectionRelease, Running,
       Ends, DlPlain, DlSecured, DlControl, DlPdu, Waits, TypeOK
  <2>2. sess' \in [Sessions -> SessionRec]
    BY <1>11 DEF DispatchConnectionRelease, TypeOK, SessionRec, SMStates,
       Stamps
  <2> QED
    BY <1>11, <2>1, <2>2 DEF TypeOK, DispatchConnectionRelease, netVars,
       ueVars, MMStates, SMStates
<1>12. CASE InitRegistration
  <2>1. tasks' \in [Tasks -> Nat]
    BY <1>12, TaskMembers, BagPlus DEF InitRegistration, Running, Starts,
       DlPlain, DlSecured, DlControl, DlPdu, Waits, TypeOK
  <2>2. up' \in [UlMsgs -> Nat]
    BY <1>12, SessionsAssumption, UplinkMembers, SendType DEF
       InitRegistration, TypeOK, UlKinds, PduKinds
  <2>3. acts' \in Nat
    BY <1>12 DEF InitRegistration, Act, TypeOK
  <2> QED
    BY <1>12, <2>1, <2>2, <2>3 DEF TypeOK, InitRegistration, netVars, ueVars,
       MMStates, SMStates
<1>13. CASE InitRegistrationState
  <2>1. tasks' \in [Tasks -> Nat]
    BY <1>13, TaskMembers, BagMinus DEF InitRegistrationState, Running, Ends,
       DlPlain, DlSecured, DlControl, DlPdu, Waits, TypeOK
  <2> QED
    BY <1>13, <2>1 DEF TypeOK, InitRegistrationState, netVars, ueVars,
       MMStates, SMStates
<1>14. CASE TriggerRegistrationRequest
  <2>1. up' \in [UlMsgs -> Nat]
    BY <1>14, SessionsAssumption, UplinkMembers, SendType DEF
       TriggerRegistrationRequest, TypeOK, UlKinds, PduKinds
  <2>2. acts' \in Nat
    BY <1>14 DEF TriggerRegistrationRequest, Act, TypeOK
  <2> QED
    BY <1>14, <2>1, <2>2 DEF TypeOK, TriggerRegistrationRequest, netVars,
       ueVars, MMStates, SMStates
<1>15. CASE ActionServiceRequest
  <2>1. up' \in [UlMsgs -> Nat]
    BY <1>15, SessionsAssumption, UplinkMembers, SendType DEF
       ActionServiceRequest, TypeOK, UlKinds, PduKinds
  <2>2. acts' \in Nat
    BY <1>15 DEF ActionServiceRequest, Act, TypeOK
  <2> QED
    BY <1>15, <2>1, <2>2 DEF TypeOK, ActionServiceRequest, netVars, ueVars,
       MMStates, SMStates
<1>16. CASE ActionDeregister
  <2>1. tasks' \in [Tasks -> Nat]
    BY <1>16, TaskMembers, BagPlus DEF ActionDeregister, Starts, DlPlain,
       DlSecured, DlControl, DlPdu, Waits, TypeOK
  <2>2. up' \in [UlMsgs -> Nat]
    BY <1>16, SessionsAssumption, UplinkMembers, SendType DEF
       ActionDeregister, TypeOK, UlKinds, PduKinds
  <2>3. acts' \in Nat
    BY <1>16 DEF ActionDeregister, Act, TypeOK
  <2> QED
    BY <1>16, <2>1, <2>2, <2>3 DEF TypeOK, ActionDeregister, netVars, ueVars,
       MMStates, SMStates
<1>17. CASE ActionDeregisterTerminate
  <2>1. tasks' \in [Tasks -> Nat]
    BY <1>17, TaskMembers, BagMove DEF ActionDeregisterTerminate, Running,
       GoesOn, DlPlain, DlSecured, DlControl, DlPdu, Waits, TypeOK
  <2>2. live' \in BOOLEAN
    BY <1>17 DEF ActionDeregisterTerminate, UnregisterUE
  <2> QED
    BY <1>17, <2>1, <2>2 DEF TypeOK, ActionDeregisterTerminate, netVars,
       ueVars, MMStates, SMStates
<1>18. CASE ActionStop
  <2>1. tasks' \in [Tasks -> Nat]
    BY <1>18, TaskMembers, BagPlus DEF ActionStop, Starts, DlPlain, DlSecured,
       DlControl, DlPdu, Waits, TypeOK
  <2>2. acts' \in Nat
    BY <1>18 DEF ActionStop, Act, TypeOK
  <2>3. live' \in BOOLEAN
    BY <1>18 DEF ActionStop, UnregisterUE
  <2> QED
    BY <1>18, <2>1, <2>2, <2>3 DEF TypeOK, ActionStop, netVars, ueVars,
       MMStates, SMStates
<1>19. CASE TerminateClose
  <2>1. tasks' \in [Tasks -> Nat]
    BY <1>19, TaskMembers, BagMinus DEF TerminateClose, Running, Ends,
       DlPlain, DlSecured, DlControl, DlPdu, Waits, TypeOK
  <2>2. conn' \in BOOLEAN /\ raced' \in BOOLEAN
    BY <1>19 DEF TerminateClose, CloseConn, Redialing
  <2> QED
    BY <1>19, <2>1, <2>2 DEF TypeOK, TerminateClose, netVars, ueVars,
       MMStates, SMStates
<1>20. CASE AmfRegistrationRequest
  <2>1. tasks' \in [Tasks -> Nat] /\ sent' \in Nat
    BY <1>20, TaskMembers, DownType DEF AmfRegistrationRequest, DlPlain,
       DlSecured, DlControl, DlPdu, Waits, TypeOK
  <2>2. up' \in [UlMsgs -> Nat]
    BY <1>20, UplinkMembers, ConsumesType DEF AmfRegistrationRequest, TypeOK,
       UlKinds, PduKinds
  <2> QED
    BY <1>20, <2>1, <2>2 DEF TypeOK, AmfRegistrationRequest, netVars, ueVars,
       MMStates, SMStates
<1>21. CASE AmfAuthenticationResponse
  <2>1. tasks' \in [Tasks -> Nat] /\ sent' \in Nat
    BY <1>21, TaskMembers, DownType DEF AmfAuthenticationResponse, DlPlain,
       DlSecured, DlControl, DlPdu, Waits, TypeOK
  <2>2. up' \in [UlMsgs -> Nat]
    BY <1>21, UplinkMembers, ConsumesType DEF AmfAuthenticationResponse,
       TypeOK, UlKinds, PduKinds
  <2> QED
    BY <1>21, <2>1, <2>2 DEF TypeOK, AmfAuthenticationResponse, netVars,
       ueVars, MMStates, SMStates
<1>22. CASE AmfAuthenticationFailure
  <2>1. tasks' \in [Tasks -> Nat] /\ sent' \in Nat
    BY <1>22, TaskMembers, DownType DEF AmfAuthenticationFailure, DlPlain,
       DlSecured, DlControl, DlPdu, Waits, TypeOK
  <2>2. up' \in [UlMsgs -> Nat]
    BY <1>22, UplinkMembers, ConsumesType DEF AmfAuthenticationFailure,
       TypeOK, UlKinds, PduKinds
  <2> QED
    BY <1>22, <2>1, <2>2 DEF TypeOK, AmfAuthenticationFailure, netVars,
       ueVars, MMStates, SMStates
<1>23. CASE AmfSecurityModeComplete
  <2>1. tasks' \in [Tasks -> Nat] /\ sent' \in Nat
    BY <1>23, TaskMembers, DownType DEF AmfSecurityModeComplete, DlPlain,
       DlSecured, DlControl, DlPdu, Waits, TypeOK
  <2>2. up' \in [UlMsgs -> Nat]
    BY <1>23, UplinkMembers, ConsumesType DEF AmfSecurityModeComplete, TypeOK,
       UlKinds, PduKinds
  <2> QED
    BY <1>23, <2>1, <2>2 DEF TypeOK, AmfSecurityModeComplete, netVars, ueVars,
       MMStates, SMStates
<1>24. CASE AmfServiceRequest
  <2>1. tasks' \in [Tasks -> Nat] /\ sent' \in Nat
    BY <1>24, TaskMembers, DownType DEF AmfServiceRequest, DlPlain, DlSecured,
       DlControl, DlPdu, Waits, TypeOK
  <2>2. up' \in [UlMsgs -> Nat]
    BY <1>24, UplinkMembers, ConsumesType DEF AmfServiceRequest, TypeOK,
       UlKinds, PduKinds
  <2> QED
    BY <1>24, <2>1, <2>2 DEF TypeOK, AmfServiceRequest, netVars, ueVars,
       MMStates, SMStates
<1>25. CASE AmfDeregistrationRequest
  <2>1. up' \in [UlMsgs -> Nat]
    BY <1>25, UplinkMembers, ConsumesType DEF AmfDeregistrationRequest,
       TypeOK, UlKinds, PduKinds
  <2> QED
    BY <1>25, <2>1 DEF TypeOK, AmfDeregistrationRequest, netVars, ueVars,
       MMStates, SMStates
<1>26. CASE GetFleetRunningSummary
  <2>1. sess' \in [Sessions -> SessionRec]
    BY <1>26, SweptType DEF GetFleetRunningSummary
  <2>2. smErr' \in BOOLEAN
    BY <1>26 DEF GetFleetRunningSummary, TypeOK
  <2> QED
    BY <1>26, <2>1, <2>2 DEF TypeOK, GetFleetRunningSummary, netVars, ueVars,
       MMStates, SMStates
<1>27. ASSUME NEW k \in DlPlain \cup DlSecured, HandlerReject(k)
      PROVE  TypeOK'
  <2>1. tasks' \in [Tasks -> Nat]
    BY <1>27, TaskMembers, BagMinus DEF HandlerReject, Running, Ends, DlPlain,
       DlSecured, DlControl, DlPdu, Waits, TypeOK
  <2>2. sess' \in [Sessions -> SessionRec]
    BY <1>27, FailType DEF HandlerReject, TypeOK, SessionRec, SMStates, Stamps
  <2> QED
    BY <1>27, <2>1, <2>2 DEF TypeOK, HandlerReject, netVars, ueVars, MMStates,
       SMStates
<1>28. ASSUME NEW k \in DlPlain \cup DlSecured, HandlerReplyOnly(k)
      PROVE  TypeOK'
  <2>1. tasks' \in [Tasks -> Nat]
    BY <1>28, TaskMembers, BagMinus DEF HandlerReplyOnly, Running, Ends,
       DlPlain, DlSecured, DlControl, DlPdu, Waits, TypeOK
  <2>2. up' \in [UlMsgs -> Nat]
    BY <1>28, SessionsAssumption, UplinkMembers, SendType DEF
       HandlerReplyOnly, TypeOK, UlKinds, PduKinds
  <2> QED
    BY <1>28, <2>1, <2>2 DEF TypeOK, HandlerReplyOnly, netVars, ueVars,
       MMStates, SMStates
<1>29. ASSUME NEW t \in Tasks, DispatchNasMacFailure(t)
      PROVE  TypeOK'
  <2>1. tasks' \in [Tasks -> Nat]
    BY <1>29, TaskMembers, BagMinus DEF DispatchNasMacFailure, DlPlain,
       DlSecured, DlControl, DlPdu, Waits, TypeOK
  <2> QED
    BY <1>29, <2>1 DEF TypeOK, DispatchNasMacFailure, netVars, ueVars,
       MMStates, SMStates
<1>30. ASSUME NEW s \in Sessions, DlPduAccept(s)
      PROVE  TypeOK'
  <2>1. tasks' \in [Tasks -> Nat]
    BY <1>30, TaskMembers, BagMinus DEF DlPduAccept, Running, Ends, DlPlain,
       DlSecured, DlControl, DlPdu, Waits, TypeOK
  <2>2. sess' \in [Sessions -> SessionRec]
    <3>1. sess[s] \in SessionRec
      BY DEF TypeOK
    <3>2. sess' = [sess EXCEPT ![s] = [sess[s] EXCEPT !.state = "ACTIVE", !.err = FALSE]]
      BY <1>30, <3>1 DEF DlPduAccept, TypeOK, SessionRec
    <3>3. [sess[s] EXCEPT !.state = "ACTIVE", !.err = FALSE] \in SessionRec
      BY <3>1 DEF SessionRec, SMStates
    <3> QED
      BY <3>2, <3>3 DEF TypeOK
  <2> QED
    BY <1>30, <2>1, <2>2 DEF TypeOK, DlPduAccept, netVars, ueVars, MMStates,
       SMStates
<1>31. ASSUME NEW s \in Sessions, DlPduReject(s)
      PROVE  TypeOK'
  <2>1. tasks' \in [Tasks -> Nat]
    BY <1>31, TaskMembers, BagMinus DEF DlPduReject, Running, Ends, DlPlain,
       DlSecured, DlControl, DlPdu, Waits, TypeOK
  <2>2. sess' \in [Sessions -> SessionRec]
    <3>1. \A r \in Sessions : /\ sess[r] \in SessionRec
                              /\ FailPending(sess[r]) \in SessionRec
      BY FailType DEF TypeOK
    <3>2. \A x \in SessionRec : [x EXCEPT !.state = "INACTIVE", !.err = TRUE] \in SessionRec
      BY DEF SessionRec, SMStates
    <3> QED
      BY <1>31, <3>1, <3>2 DEF DlPduReject
  <2> QED
    BY <1>31, <2>1, <2>2 DEF TypeOK, DlPduReject, netVars, ueVars, MMStates,
       SMStates
<1>32. ASSUME NEW s \in Sessions, DlPduRelease(s)
      PROVE  TypeOK'
  <2>1. tasks' \in [Tasks -> Nat]
    BY <1>32, TaskMembers, BagMinus DEF DlPduRelease, Running, Ends, DlPlain,
       DlSecured, DlControl, DlPdu, Waits, TypeOK
  <2>2. up' \in [UlMsgs -> Nat]
    BY <1>32, SessionsAssumption, UplinkMembers, SendType DEF DlPduRelease,
       TypeOK, UlKinds, PduKinds
  <2>3. sess' \in [Sessions -> SessionRec]
    BY <1>32 DEF DlPduRelease, TypeOK, SessionRec, SMStates, Stamps
  <2> QED
    BY <1>32, <2>1, <2>2, <2>3 DEF TypeOK, DlPduRelease, netVars, ueVars,
       MMStates, SMStates
<1>33. ASSUME NEW s \in Sessions, DlPduModification(s)
      PROVE  TypeOK'
  <2>1. tasks' \in [Tasks -> Nat]
    BY <1>33, TaskMembers, BagMinus DEF DlPduModification, Running, Ends,
       DlPlain, DlSecured, DlControl, DlPdu, Waits, TypeOK
  <2>2. up' \in [UlMsgs -> Nat]
    BY <1>33, SessionsAssumption, UplinkMembers, SendType DEF
       DlPduModification, TypeOK, UlKinds, PduKinds
  <2>3. sess' \in [Sessions -> SessionRec]
    BY <1>33, FailType DEF DlPduModification, TypeOK, SessionRec, SMStates,
       Stamps
  <2> QED
    BY <1>33, <2>1, <2>2, <2>3 DEF TypeOK, DlPduModification, netVars, ueVars,
       MMStates, SMStates
<1>34. ASSUME NEW s \in Sessions, DlPduUnparseable(s)
      PROVE  TypeOK'
  <2>1. tasks' \in [Tasks -> Nat]
    BY <1>34, TaskMembers, BagMinus DEF DlPduUnparseable, Running, Ends,
       DlPlain, DlSecured, DlControl, DlPdu, Waits, TypeOK
  <2>2. sess' \in [Sessions -> SessionRec]
    BY <1>34, FailType DEF DlPduUnparseable, TypeOK, SessionRec, SMStates,
       Stamps
  <2> QED
    BY <1>34, <2>1, <2>2 DEF TypeOK, DlPduUnparseable, netVars, ueVars,
       MMStates, SMStates
<1>35. ASSUME NEW s \in Sessions, DispatchIpPlane(s)
      PROVE  TypeOK'
  <2>1. tasks' \in [Tasks -> Nat]
    BY <1>35, TaskMembers, BagMinus DEF DispatchIpPlane, Running, Ends,
       DlPlain, DlSecured, DlControl, DlPdu, Waits, TypeOK
  <2>2. up' \in [UlMsgs -> Nat]
    BY <1>35, SessionsAssumption, UplinkMembers, SendType DEF DispatchIpPlane,
       TypeOK, UlKinds, PduKinds
  <2>3. sess' \in [Sessions -> SessionRec]
    BY <1>35, MarkType DEF DispatchIpPlane, TypeOK, SessionRec, SMStates,
       Stamps
  <2> QED
    BY <1>35, <2>1, <2>2, <2>3 DEF TypeOK, DispatchIpPlane, netVars, ueVars,
       MMStates, SMStates
<1>36. ASSUME NEW s \in Sessions, ActionPduEstablish(s)
      PROVE  TypeOK'
  <2>1. up' \in [UlMsgs -> Nat]
    BY <1>36, SessionsAssumption, UplinkMembers, SendType DEF
       ActionPduEstablish, TypeOK, UlKinds, PduKinds
  <2>2. sess' \in [Sessions -> SessionRec]
    BY <1>36, MarkType DEF ActionPduEstablish, TypeOK, SessionRec, SMStates,
       Stamps
  <2>3. acts' \in Nat
    BY <1>36 DEF ActionPduEstablish, Act, TypeOK
  <2> QED
    BY <1>36, <2>1, <2>2, <2>3 DEF TypeOK, ActionPduEstablish, netVars,
       ueVars, MMStates, SMStates
<1>37. ASSUME NEW s \in Sessions, NEW k \in PduKinds, ActionPduModifyRelease(k, s)
      PROVE  TypeOK'
  <2>1. up' \in [UlMsgs -> Nat]
    BY <1>37, SessionsAssumption, UplinkMembers, SendType DEF
       ActionPduModifyRelease, TypeOK, UlKinds, PduKinds
  <2>2. acts' \in Nat
    BY <1>37 DEF ActionPduModifyRelease, Act, TypeOK
  <2> QED
    BY <1>37, <2>1, <2>2 DEF TypeOK, ActionPduModifyRelease, netVars, ueVars,
       MMStates, SMStates
<1>38. ASSUME NEW m \in UlMsgs, AmfIgnores(m)
      PROVE  TypeOK'
  <2>1. up' \in [UlMsgs -> Nat]
    BY <1>38, BagMinus DEF AmfIgnores, TypeOK, UlKinds, PduKinds
  <2> QED
    BY <1>38, <2>1 DEF TypeOK, AmfIgnores, netVars, ueVars, MMStates, SMStates
<1>39. ASSUME NEW s \in Sessions, AmfPduRequest(s)
      PROVE  TypeOK'
  <2>1. tasks' \in [Tasks -> Nat] /\ sent' \in Nat
    <3> DEFINE a == <<"PduAccept", s>>
               b == <<"IpPlane", s>>
    <3>1. /\ tasks \in [Tasks -> Nat] /\ sent \in Nat
          /\ a \in Tasks /\ b \in Tasks /\ a # b
      BY TaskMembers DEF TypeOK, DlPdu
    <3>2. ASSUME NEW k \in {"PduReject", "PduUnparseable"}, Down(<<k, s>>)
          PROVE  tasks' \in [Tasks -> Nat] /\ sent' \in Nat
      <4>1. <<k, s>> \in Tasks
        BY TaskMembers DEF DlPdu
      <4> QED
        BY <3>1, <3>2, <4>1, DownType
    <3>3. ASSUME sent' = sent + 1,
                 tasks' = [tasks EXCEPT ![<<"PduAccept", s>>] = @ + 1,
                                        ![<<"IpPlane", s>>] = @ + 1]
          PROVE  tasks' \in [Tasks -> Nat] /\ sent' \in Nat
      <4> HIDE DEF a, b
      <4>1. tasks' = [tasks EXCEPT ![a] = @ + 1, ![b] = @ + 1]
        BY <3>3 DEF a, b
      <4> QED
        BY <3>1, <3>3, <4>1
    <3> QED
      BY <1>39, <3>2, <3>3 DEF AmfPduRequest
  <2>2. up' \in [UlMsgs -> Nat]
    BY <1>39, UplinkMembers, ConsumesType DEF AmfPduRequest, TypeOK, UlKinds,
       PduKinds
  <2> QED
    BY <1>39, <2>1, <2>2 DEF TypeOK, AmfPduRequest, netVars, ueVars, MMStates,
       SMStates
<1>40. ASSUME NEW t \in Tasks, NetworkCommand(t)
      PROVE  TypeOK'
  <2>1. tasks' \in [Tasks -> Nat] /\ sent' \in Nat
    BY <1>40, TaskMembers, DownType DEF NetworkCommand, DlPlain, DlSecured,
       DlControl, DlPdu, Waits, TypeOK
  <2> QED
    BY <1>40, <2>1 DEF TypeOK, NetworkCommand, netVars, ueVars, MMStates,
       SMStates
<1>41. ASSUME NEW s \in Sessions, Elapse(s)
      PROVE  TypeOK'
  <2> DEFINE r == IF sess[s].reqAt = "zero" THEN "zero" ELSE "old"
  <2>1. sess[s] \in SessionRec /\ r \in Stamps /\ "old" \in Stamps
    BY DEF TypeOK, Stamps
  <2>2. sess' = [sess EXCEPT ![s] = [sess[s] EXCEPT !.reqAt = r, !.age = "old"]]
    BY <1>41, <2>1 DEF Elapse, TypeOK, SessionRec
  <2>3. [sess[s] EXCEPT !.reqAt = r, !.age = "old"] \in SessionRec
    BY <2>1 DEF SessionRec
  <2>4. sess' \in [Sessions -> SessionRec]
    BY <2>2, <2>3 DEF TypeOK
  <2> QED
    BY <1>41, <2>4 DEF TypeOK, Elapse, netVars
<1>42. CASE UNCHANGED vars
  BY <1>42 DEF vars, TypeOK
<1>43. CASE DispatchHandoverCommand
  <2>1. tasks' \in [Tasks -> Nat]
    BY <1>43, TaskMembers, BagMove DEF DispatchHandoverCommand, Running, GoesOn,
       DlPlain, DlSecured, DlControl, DlPdu, Waits, TypeOK
  <2> QED
    BY <1>43, <2>1 DEF TypeOK, DispatchHandoverCommand, netVars, ueVars
<1>44. CASE Redial
  <2>1. tasks' \in [Tasks -> Nat] /\ conn' \in BOOLEAN
    BY <1>44, TaskMembers, BagMinus, SetConnType DEF Redial, Running, Ends, Waits,
       TypeOK
  <2>2. up' \in [UlMsgs -> Nat]
    <3>1. <<"TargetAccess", NoSession>> \in UlMsgs
      BY UplinkMembers DEF UlKinds
    <3>2. up' = up \/ up' = [up EXCEPT ![<<"TargetAccess", NoSession>>] = @ + 1]
      BY <1>44 DEF Redial
    <3> QED
      BY <3>1, <3>2, BagPlus DEF TypeOK
  <2> QED
    BY <1>44, <2>1, <2>2 DEF TypeOK, Redial, netVars, ueVars
<1>45. CASE ActionHandover
  <2>1. up' \in [UlMsgs -> Nat]
    BY <1>45, UplinkMembers, BagPlus DEF ActionHandover, TypeOK, UlKinds
  <2> QED
    BY <1>45, <2>1 DEF TypeOK, ActionHandover, Act, netVars, ueVars
<1>46. CASE ActionXnHandover
  <2>1. tasks' \in [Tasks -> Nat]
    BY <1>46, TaskMembers, BagPlus DEF ActionXnHandover, Starts, Waits, TypeOK
  <2>2. up' \in [UlMsgs -> Nat]
    BY <1>46, UplinkMembers, BagPlus DEF ActionXnHandover, TypeOK, UlKinds
  <2> QED
    BY <1>46, <2>1, <2>2 DEF TypeOK, ActionXnHandover, Act, netVars, ueVars
<1>47. ASSUME NEW k \in Waits, XnHandoverClose(k)
      PROVE  TypeOK'
  <2>1. tasks' \in [Tasks -> Nat]
    BY <1>47, TaskMembers, BagMove DEF XnHandoverClose, Running, GoesOn, Waits,
       TypeOK
  <2> QED
    BY <1>47, <2>1 DEF TypeOK, XnHandoverClose, netVars, ueVars
<1>48. CASE SwitchGnb
  <2>1. tasks' \in [Tasks -> Nat]
    BY <1>48, TaskMembers, BagPlus DEF SwitchGnb, Starts, Waits, TypeOK
  <2>2. acts' \in Nat
    BY <1>48 DEF SwitchGnb, Act, TypeOK
  <2>3. conn' \in BOOLEAN
    BY <1>48 DEF SwitchGnb
  <2> QED
    BY <1>48, <2>1, <2>2, <2>3 DEF TypeOK, SwitchGnb, netVars, ueVars
<1>49. CASE Reconnect
  <2>1. tasks' \in [Tasks -> Nat] /\ conn' \in BOOLEAN
    BY <1>49, TaskMembers, BagMinus, SetConnType DEF Reconnect, Running, Ends, Waits,
       TypeOK
  <2> QED
    BY <1>49, <2>1 DEF TypeOK, Reconnect, netVars, ueVars
<1>50. CASE AmfHandoverTrigger
  <2>1. tasks' \in [Tasks -> Nat] /\ sent' \in Nat
    BY <1>50, TaskMembers, DownType DEF AmfHandoverTrigger, DlControl, TypeOK
  <2>2. up' \in [UlMsgs -> Nat]
    BY <1>50, UplinkMembers, ConsumesType DEF AmfHandoverTrigger, TypeOK, UlKinds
  <2> QED
    BY <1>50, <2>1, <2>2 DEF TypeOK, AmfHandoverTrigger, netVars, ueVars
<1> QED
  BY <1>1, <1>2, <1>3, <1>4, <1>5, <1>6, <1>7, <1>8, <1>9, <1>10, <1>11,
     <1>12, <1>13, <1>14, <1>15, <1>16, <1>17, <1>18, <1>19, <1>20, <1>21,
     <1>22, <1>23, <1>24, <1>25, <1>26, <1>27, <1>28, <1>29, <1>30, <1>31,
     <1>32, <1>33, <1>34, <1>35, <1>36, <1>37, <1>38, <1>39, <1>40, <1>41,
     <1>42, <1>43, <1>44, <1>45, <1>46, <1>47, <1>48, <1>49, <1>50
     DEF Next, Handlers, Operator, Network

(* ContextInv, the strengthening of RegisteredHasContext: as long as no    *)
(* Security Mode Command was handled, nothing on its way can lead to       *)
(* REGISTERED either: no accept runs, no Security Mode Complete is on the  *)
(* link and the AMF does not hold the UE as registered.                    *)
ContextInv ==
  ~ksi => /\ mm # "REGISTERED"
          /\ tasks[<<"RegistrationAccept", NoSession>>] = 0
          /\ tasks[<<"ServiceAccept", NoSession>>] = 0
          /\ up[<<"SecurityModeComplete", NoSession>>] = 0
          /\ amf # "registered"

LEMMA ContextNext == TypeOK /\ ContextInv /\ [Next]_vars => ContextInv'
<1> SUFFICES ASSUME TypeOK, ContextInv, [Next]_vars PROVE ContextInv'
  OBVIOUS
<1>a. /\ tasks \in [Tasks -> Nat] /\ up \in [UlMsgs -> Nat]
      /\ <<"RegistrationAccept", NoSession>> \in Tasks
      /\ <<"ServiceAccept", NoSession>> \in Tasks
      /\ <<"SecurityModeComplete", NoSession>> \in UlMsgs
  BY TaskMembers, UplinkMembers DEF TypeOK, DlSecured, UlKinds
<1> USE <1>a DEF ContextInv
<1>1. CASE HandlerAuthenticationRequest
  BY <1>1 DEF HandlerAuthenticationRequest, Running, Ends, SendToGnb, netVars,
     ueVars
<1>2. CASE HandlerAuthenticationFailure
  BY <1>2 DEF HandlerAuthenticationFailure, Running, Ends, SendToGnb, netVars,
     ueVars
<1>3. CASE HandlerSecurityModeCommand
  BY <1>3 DEF HandlerSecurityModeCommand, Running, Ends, SendToGnb, netVars,
     ueVars
<1>4. CASE HandlerRegistrationAccept
  BY <1>4 DEF HandlerRegistrationAccept, Running, GoesOn, SendToGnb, netVars,
     ueVars
<1>5. CASE HandlerRegistrationAcceptPdu
  BY <1>5 DEF HandlerRegistrationAcceptPdu, Running, Ends, SendToGnb, netVars,
     ueVars
<1>6. CASE HandlerServiceAccept
  BY <1>6 DEF HandlerServiceAccept, Running, Ends, netVars, ueVars
<1>7. CASE HandlerStatus5GMM
  BY <1>7 DEF HandlerStatus5GMM, Running, Ends, netVars, ueVars
<1>8. CASE HandlerDeregistrationRequestUETerminatedDeregistration
  BY <1>8 DEF HandlerDeregistrationRequestUETerminatedDeregistration, Running,
     GoesOn, netVars, ueVars
<1>9. CASE HandlerDeregistrationClose
  BY <1>9 DEF HandlerDeregistrationClose, Running, Ends, netVars, ueVars
<1>10. CASE DispatchPaging
  BY <1>10 DEF DispatchPaging, Running, Ends, SendToGnb, netVars, ueVars
<1>11. CASE DispatchConnectionRelease
  BY <1>11 DEF DispatchConnectionRelease, Running, Ends, netVars, ueVars
<1>12. CASE InitRegistration
  BY <1>12 DEF InitRegistration, Running, Starts, SendToGnb, netVars, ueVars
<1>13. CASE InitRegistrationState
  BY <1>13 DEF InitRegistrationState, Running, Ends, netVars, ueVars
<1>14. CASE TriggerRegistrationRequest
  BY <1>14 DEF TriggerRegistrationRequest, SendToGnb, netVars, ueVars
<1>15. CASE ActionServiceRequest
  BY <1>15 DEF ActionServiceRequest, SendToGnb, netVars, ueVars
<1>16. CASE ActionDeregister
  BY <1>16 DEF ActionDeregister, Starts, SendToGnb, netVars, ueVars
<1>17. CASE ActionDeregisterTerminate
  BY <1>17 DEF ActionDeregisterTerminate, Running, GoesOn, netVars, ueVars
<1>18. CASE ActionStop
  BY <1>18 DEF ActionStop, Starts, netVars, ueVars
<1>19. CASE TerminateClose
  BY <1>19 DEF TerminateClose, Running, Ends, netVars, ueVars
<1>20. CASE AmfRegistrationRequest
  BY <1>20 DEF AmfRegistrationRequest, Consumes, Down, Starts, netVars, ueVars
<1>21. CASE AmfAuthenticationResponse
  BY <1>21 DEF AmfAuthenticationResponse, Consumes, Down, Starts, netVars,
     ueVars
<1>22. CASE AmfAuthenticationFailure
  BY <1>22 DEF AmfAuthenticationFailure, Consumes, Down, Starts, netVars,
     ueVars
<1>23. CASE AmfSecurityModeComplete
  BY <1>23 DEF AmfSecurityModeComplete, Consumes, Down, Starts, netVars, ueVars
<1>24. CASE AmfServiceRequest
  BY <1>24 DEF AmfServiceRequest, Consumes, Down, Starts, netVars, ueVars
<1>25. CASE AmfDeregistrationRequest
  BY <1>25 DEF AmfDeregistrationRequest, Consumes, netVars, ueVars
<1>26. CASE GetFleetRunningSummary
  BY <1>26 DEF GetFleetRunningSummary, netVars, ueVars
<1>27. ASSUME NEW k \in DlPlain \cup DlSecured, HandlerReject(k)
      PROVE  ContextInv'
  BY <1>27 DEF HandlerReject, Running, Ends, netVars, ueVars
<1>28. ASSUME NEW k \in DlPlain \cup DlSecured, HandlerReplyOnly(k)
      PROVE  ContextInv'
  BY <1>28 DEF HandlerReplyOnly, Running, Ends, SendToGnb, netVars, ueVars
<1>29. ASSUME NEW t \in Tasks, DispatchNasMacFailure(t)
      PROVE  ContextInv'
  BY <1>29 DEF DispatchNasMacFailure, netVars, ueVars
<1>30. ASSUME NEW s \in Sessions, DlPduAccept(s)
      PROVE  ContextInv'
  BY <1>30 DEF DlPduAccept, Running, Ends, netVars, ueVars
<1>31. ASSUME NEW s \in Sessions, DlPduReject(s)
      PROVE  ContextInv'
  BY <1>31 DEF DlPduReject, Running, Ends, netVars, ueVars
<1>32. ASSUME NEW s \in Sessions, DlPduRelease(s)
      PROVE  ContextInv'
  BY <1>32 DEF DlPduRelease, Running, Ends, SendToGnb, netVars, ueVars
<1>33. ASSUME NEW s \in Sessions, DlPduModification(s)
      PROVE  ContextInv'
  BY <1>33 DEF DlPduModification, Running, Ends, SendToGnb, netVars, ueVars
<1>34. ASSUME NEW s \in Sessions, DlPduUnparseable(s)
      PROVE  ContextInv'
  BY <1>34 DEF DlPduUnparseable, Running, Ends, netVars, ueVars
<1>35. ASSUME NEW s \in Sessions, DispatchIpPlane(s)
      PROVE  ContextInv'
  BY <1>35 DEF DispatchIpPlane, Running, Ends, SendToGnb, netVars, ueVars
<1>36. ASSUME NEW s \in Sessions, ActionPduEstablish(s)
      PROVE  ContextInv'
  BY <1>36 DEF ActionPduEstablish, SendToGnb, netVars, ueVars
<1>37. ASSUME NEW s \in Sessions, NEW k \in PduKinds, ActionPduModifyRelease(k, s)
      PROVE  ContextInv'
  BY <1>37 DEF ActionPduModifyRelease, SendToGnb, netVars, ueVars
<1>38. ASSUME NEW m \in UlMsgs, AmfIgnores(m)
      PROVE  ContextInv'
  BY <1>38 DEF AmfIgnores, netVars, ueVars
<1>39. ASSUME NEW s \in Sessions, AmfPduRequest(s)
      PROVE  ContextInv'
  BY <1>39 DEF AmfPduRequest, Consumes, Down, Starts, netVars, ueVars
<1>40. ASSUME NEW t \in Tasks, NetworkCommand(t)
      PROVE  ContextInv'
  BY <1>40 DEF NetworkCommand, Down, Starts, netVars, ueVars
<1>41. ASSUME NEW s \in Sessions, Elapse(s)
      PROVE  ContextInv'
  BY <1>41 DEF Elapse, netVars, ueVars
<1>42. CASE UNCHANGED vars
  BY <1>42 DEF vars
<1>43. CASE DispatchHandoverCommand
  BY <1>43 DEF DispatchHandoverCommand, Running, GoesOn, netVars, ueVars
<1>44. CASE Redial
  BY <1>44 DEF Redial, Running, Ends, SetUnixConn, netVars, ueVars
<1>45. CASE ActionHandover
  BY <1>45 DEF ActionHandover, Act, netVars, ueVars
<1>46. CASE ActionXnHandover
  BY <1>46 DEF ActionXnHandover, Act, Starts, netVars, ueVars
<1>47. ASSUME NEW k \in Waits, XnHandoverClose(k)
      PROVE  ContextInv'
  BY <1>47 DEF XnHandoverClose, Running, GoesOn, netVars, ueVars
<1>48. CASE SwitchGnb
  BY <1>48 DEF SwitchGnb, Act, Starts, netVars, ueVars
<1>49. CASE Reconnect
  BY <1>49 DEF Reconnect, Running, Ends, SetUnixConn, netVars, ueVars
<1>50. CASE AmfHandoverTrigger
  BY <1>50 DEF AmfHandoverTrigger, Consumes, Down, Starts, netVars, ueVars
<1> QED
  BY <1>1, <1>2, <1>3, <1>4, <1>5, <1>6, <1>7, <1>8, <1>9, <1>10, <1>11,
     <1>12, <1>13, <1>14, <1>15, <1>16, <1>17, <1>18, <1>19, <1>20, <1>21,
     <1>22, <1>23, <1>24, <1>25, <1>26, <1>27, <1>28, <1>29, <1>30, <1>31,
     <1>32, <1>33, <1>34, <1>35, <1>36, <1>37, <1>38, <1>39, <1>40, <1>41,
     <1>42, <1>43, <1>44, <1>45, <1>46, <1>47, <1>48, <1>49, <1>50
     DEF Next, Handlers, Operator, Network

(* A UE out of the registry whose connection is still open is about to     *)
(* close it: some goroutine is inside Terminate.  When the last of them    *)
(* closed it with no redial under way, none can start any more: operator   *)
(* actions need the UE in the registry, a Handover Command needs the link. *)
TerminatedInv == Terminated /\ ~raced => ~conn /\ ~Redialing

LEMMA TerminatedNext == TypeOK /\ TerminatedInv /\ [Next]_vars => TerminatedInv'
<1> SUFFICES ASSUME TypeOK, TerminatedInv, [Next]_vars PROVE TerminatedInv'
  OBVIOUS
<1>a. /\ tasks \in [Tasks -> Nat]
      /\ <<"TerminateClose", NoSession>> \in Tasks
      /\ <<"DeregistrationClose", NoSession>> \in Tasks
      /\ \A k \in {"HandoverCommand", "XnClose", "XnCloseOld", "Redial", "Reconnect"} :
           <<k, NoSession>> \in Tasks
  BY TaskMembers DEF TypeOK, Waits, DlControl
<1> USE <1>a DEF TerminatedInv, Terminated, Redialing, Running
<1>1. CASE HandlerAuthenticationRequest
  BY <1>1 DEF HandlerAuthenticationRequest, Running, Ends, netVars, ueVars
<1>2. CASE HandlerAuthenticationFailure
  BY <1>2 DEF HandlerAuthenticationFailure, Running, Ends, netVars, ueVars
<1>3. CASE HandlerSecurityModeCommand
  BY <1>3 DEF HandlerSecurityModeCommand, Running, Ends, netVars, ueVars
<1>4. CASE HandlerRegistrationAccept
  BY <1>4 DEF HandlerRegistrationAccept, Running, GoesOn, netVars, ueVars
<1>5. CASE HandlerRegistrationAcceptPdu
  BY <1>5 DEF HandlerRegistrationAcceptPdu, Running, Ends, netVars, ueVars
<1>6. CASE HandlerServiceAccept
  BY <1>6 DEF HandlerServiceAccept, Running, Ends, netVars, ueVars
<1>7. CASE HandlerStatus5GMM
  BY <1>7 DEF HandlerStatus5GMM, Running, Ends, netVars, ueVars
<1>8. CASE HandlerDeregistrationRequestUETerminatedDeregistration
  BY <1>8 DEF HandlerDeregistrationRequestUETerminatedDeregistration, Running,
     GoesOn, UnregisterUE, netVars, ueVars
<1>9. CASE HandlerDeregistrationClose
  BY <1>9 DEF HandlerDeregistrationClose, Running, Ends, CloseConn, netVars,
     ueVars
<1>10. CASE DispatchPaging
  BY <1>10 DEF DispatchPaging, Running, Ends, netVars, ueVars
<1>11. CASE DispatchConnectionRelease
  BY <1>11 DEF DispatchConnectionRelease, Running, Ends, netVars, ueVars
<1>12. CASE InitRegistration
  BY <1>12 DEF InitRegistration, Act, Running, Starts, netVars, ueVars
<1>13. CASE InitRegistrationState
  BY <1>13 DEF InitRegistrationState, Running, Ends, netVars, ueVars
<1>14. CASE TriggerRegistrationRequest
  BY <1>14 DEF TriggerRegistrationRequest, Act, netVars, ueVars
<1>15. CASE ActionServiceRequest
  BY <1>15 DEF ActionServiceRequest, Act, netVars, ueVars
<1>16. CASE ActionDeregister
  BY <1>16 DEF ActionDeregister, Act, Starts, netVars, ueVars
<1>17. CASE ActionDeregisterTerminate
  BY <1>17 DEF ActionDeregisterTerminate, Running, GoesOn, UnregisterUE,
     netVars, ueVars
<1>18. CASE ActionStop
  BY <1>18 DEF ActionStop, Act, Starts, UnregisterUE, netVars, ueVars
<1>19. CASE TerminateClose
  BY <1>19 DEF TerminateClose, Running, Ends, CloseConn, netVars, ueVars
<1>20. CASE AmfRegistrationRequest
  BY <1>20 DEF AmfRegistrationRequest, Down, Starts, netVars, ueVars
<1>21. CASE AmfAuthenticationResponse
  BY <1>21 DEF AmfAuthenticationResponse, Down, Starts, netVars, ueVars
<1>22. CASE AmfAuthenticationFailure
  BY <1>22 DEF AmfAuthenticationFailure, Down, Starts, netVars, ueVars
<1>23. CASE AmfSecurityModeComplete
  BY <1>23 DEF AmfSecurityModeComplete, Down, Starts, netVars, ueVars
<1>24. CASE AmfServiceRequest
  BY <1>24 DEF AmfServiceRequest, Down, Starts, netVars, ueVars
<1>25. CASE AmfDeregistrationRequest
  BY <1>25 DEF AmfDeregistrationRequest, netVars, ueVars
<1>26. CASE GetFleetRunningSummary
  BY <1>26 DEF GetFleetRunningSummary, netVars, ueVars
<1>27. ASSUME NEW k \in DlPlain \cup DlSecured, HandlerReject(k)
      PROVE  TerminatedInv'
  BY <1>27 DEF HandlerReject, Running, Ends, netVars, ueVars
<1>28. ASSUME NEW k \in DlPlain \cup DlSecured, HandlerReplyOnly(k)
      PROVE  TerminatedInv'
  BY <1>28 DEF HandlerReplyOnly, Running, Ends, netVars, ueVars
<1>29. ASSUME NEW t \in Tasks, DispatchNasMacFailure(t)
      PROVE  TerminatedInv'
  BY <1>29 DEF DispatchNasMacFailure, DlSecured, DlPdu, netVars, ueVars
<1>30. ASSUME NEW s \in Sessions, DlPduAccept(s)
      PROVE  TerminatedInv'
  BY <1>30 DEF DlPduAccept, Running, Ends, netVars, ueVars
<1>31. ASSUME NEW s \in Sessions, DlPduReject(s)
      PROVE  TerminatedInv'
  BY <1>31 DEF DlPduReject, Running, Ends, netVars, ueVars
<1>32. ASSUME NEW s \in Sessions, DlPduRelease(s)
      PROVE  TerminatedInv'
  BY <1>32 DEF DlPduRelease, Running, Ends, netVars, ueVars
<1>33. ASSUME NEW s \in Sessions, DlPduModification(s)
      PROVE  TerminatedInv'
  BY <1>33 DEF DlPduModification, Running, Ends, netVars, ueVars
<1>34. ASSUME NEW s \in Sessions, DlPduUnparseable(s)
      PROVE  TerminatedInv'
  BY <1>34 DEF DlPduUnparseable, Running, Ends, netVars, ueVars
<1>35. ASSUME NEW s \in Sessions, DispatchIpPlane(s)
      PROVE  TerminatedInv'
  BY <1>35 DEF DispatchIpPlane, Running, Ends, netVars, ueVars
<1>36. ASSUME NEW s \in Sessions, ActionPduEstablish(s)
      PROVE  TerminatedInv'
  BY <1>36 DEF ActionPduEstablish, Act, netVars, ueVars
<1>37. ASSUME NEW s \in Sessions, NEW k \in PduKinds, ActionPduModifyRelease(k, s)
      PROVE  TerminatedInv'
  BY <1>37 DEF ActionPduModifyRelease, Act, netVars, ueVars
<1>38. ASSUME NEW m \in UlMsgs, AmfIgnores(m)
      PROVE  TerminatedInv'
  BY <1>38 DEF AmfIgnores, netVars, ueVars
<1>39. ASSUME NEW s \in Sessions, AmfPduRequest(s)
      PROVE  TerminatedInv'
  BY <1>39 DEF AmfPduRequest, Down, Starts, netVars, ueVars
<1>40. ASSUME NEW t \in Tasks, NetworkCommand(t)
      PROVE  TerminatedInv'
  BY <1>40 DEF NetworkCommand, Down, Starts, netVars, ueVars
<1>41. ASSUME NEW s \in Sessions, Elapse(s)
      PROVE  TerminatedInv'
  BY <1>41 DEF Elapse, netVars, ueVars
<1>42. CASE UNCHANGED vars
  BY <1>42 DEF vars
<1>43. CASE DispatchHandoverCommand
  BY <1>43 DEF DispatchHandoverCommand, Running, GoesOn, netVars, ueVars
<1>44. CASE Redial
  BY <1>44 DEF Redial, Running, Ends, SetUnixConn, netVars, ueVars
<1>45. CASE ActionHandover
  BY <1>45 DEF ActionHandover, Act, netVars, ueVars
<1>46. CASE ActionXnHandover
  BY <1>46 DEF ActionXnHandover, Act, Starts, netVars, ueVars
<1>47. ASSUME NEW k \in Waits, XnHandoverClose(k)
      PROVE  TerminatedInv'
  BY <1>47 DEF XnHandoverClose, Running, GoesOn, netVars, ueVars
<1>48. CASE SwitchGnb
  BY <1>48 DEF SwitchGnb, Act, Starts, netVars, ueVars
<1>49. CASE Reconnect
  BY <1>49 DEF Reconnect, Running, Ends, SetUnixConn, netVars, ueVars
<1>50. CASE AmfHandoverTrigger
  BY <1>50 DEF AmfHandoverTrigger, Consumes, Down, Starts, netVars, ueVars
<1> QED
  BY <1>1, <1>2, <1>3, <1>4, <1>5, <1>6, <1>7, <1>8, <1>9, <1>10, <1>11,
     <1>12, <1>13, <1>14, <1>15, <1>16, <1>17, <1>18, <1>19, <1>20, <1>21,
     <1>22, <1>23, <1>24, <1>25, <1>26, <1>27, <1>28, <1>29, <1>30, <1>31,
     <1>32, <1>33, <1>34, <1>35, <1>36, <1>37, <1>38, <1>39, <1>40, <1>41,
     <1>42, <1>43, <1>44, <1>45, <1>46, <1>47, <1>48, <1>49, <1>50
     DEF Next, Handlers, Operator, Network

LEMMA SilentStep ==
  ASSUME TypeOK, TerminatedInv, [Next]_vars, Terminated, ~raced
  PROVE  \A m \in UlMsgs : up'[m] <= up[m]
<1> SUFFICES ASSUME NEW u \in UlMsgs PROVE up'[u] <= up[u]
  OBVIOUS
<1>a. /\ ~conn /\ ~Redialing
      /\ up \in [UlMsgs -> Nat] /\ up[u] \in Nat
  BY DEF TypeOK, TerminatedInv
<1> USE <1>a
<1>1. CASE HandlerAuthenticationRequest
  BY <1>1 DEF HandlerAuthenticationRequest, SendToGnb, netVars, ueVars
<1>2. CASE HandlerAuthenticationFailure
  BY <1>2 DEF HandlerAuthenticationFailure, SendToGnb, netVars, ueVars
<1>3. CASE HandlerSecurityModeCommand
  BY <1>3 DEF HandlerSecurityModeCommand, SendToGnb, netVars, ueVars
<1>4. CASE HandlerRegistrationAccept
  BY <1>4 DEF HandlerRegistrationAccept, SendToGnb, netVars, ueVars
<1>5. CASE HandlerRegistrationAcceptPdu
  BY <1>5 DEF HandlerRegistrationAcceptPdu, SendToGnb, netVars, ueVars
<1>6. CASE HandlerServiceAccept
  BY <1>6 DEF HandlerServiceAccept, netVars, ueVars
<1>7. CASE HandlerStatus5GMM
  BY <1>7 DEF HandlerStatus5GMM, netVars, ueVars
<1>8. CASE HandlerDeregistrationRequestUETerminatedDeregistration
  BY <1>8 DEF HandlerDeregistrationRequestUETerminatedDeregistration, netVars,
     ueVars
<1>9. CASE HandlerDeregistrationClose
  BY <1>9 DEF HandlerDeregistrationClose, netVars, ueVars
<1>10. CASE DispatchPaging
  BY <1>10 DEF DispatchPaging, SendToGnb, netVars, ueVars
<1>11. CASE DispatchConnectionRelease
  BY <1>11 DEF DispatchConnectionRelease, netVars, ueVars
<1>12. CASE InitRegistration
  BY <1>12 DEF InitRegistration, SendToGnb, netVars, ueVars
<1>13. CASE InitRegistrationState
  BY <1>13 DEF InitRegistrationState, netVars, ueVars
<1>14. CASE TriggerRegistrationRequest
  BY <1>14 DEF TriggerRegistrationRequest, SendToGnb, netVars, ueVars
<1>15. CASE ActionServiceRequest
  BY <1>15 DEF ActionServiceRequest, SendToGnb, netVars, ueVars
<1>16. CASE ActionDeregister
  BY <1>16 DEF ActionDeregister, SendToGnb, netVars, ueVars
<1>17. CASE ActionDeregisterTerminate
  BY <1>17 DEF ActionDeregisterTerminate, netVars, ueVars
<1>18. CASE ActionStop
  BY <1>18 DEF ActionStop, netVars, ueVars
<1>19. CASE TerminateClose
  BY <1>19 DEF TerminateClose, netVars, ueVars
<1>20. CASE AmfRegistrationRequest
  BY <1>20 DEF AmfRegistrationRequest, Consumes, netVars, ueVars
<1>21. CASE AmfAuthenticationResponse
  BY <1>21 DEF AmfAuthenticationResponse, Consumes, netVars, ueVars
<1>22. CASE AmfAuthenticationFailure
  BY <1>22 DEF AmfAuthenticationFailure, Consumes, netVars, ueVars
<1>23. CASE AmfSecurityModeComplete
  BY <1>23 DEF AmfSecurityModeComplete, Consumes, netVars, ueVars
<1>24. CASE AmfServiceRequest
  BY <1>24 DEF AmfServiceRequest, Consumes, netVars, ueVars
<1>25. CASE AmfDeregistrationRequest
  BY <1>25 DEF AmfDeregistrationRequest, Consumes, netVars, ueVars
<1>26. CASE GetFleetRunningSummary
  BY <1>26 DEF GetFleetRunningSummary, netVars, ueVars
<1>27. ASSUME NEW k \in DlPlain \cup DlSecured, HandlerReject(k)
      PROVE  up'[u] <= up[u]
  BY <1>27 DEF HandlerReject, netVars, ueVars
<1>28. ASSUME NEW k \in DlPlain \cup DlSecured, HandlerReplyOnly(k)
      PROVE  up'[u] <= up[u]
  BY <1>28 DEF HandlerReplyOnly, SendToGnb, netVars, ueVars
<1>29. ASSUME NEW t \in Tasks, DispatchNasMacFailure(t)
      PROVE  up'[u] <= up[u]
  BY <1>29 DEF DispatchNasMacFailure, netVars, ueVars
<1>30. ASSUME NEW s \in Sessions, DlPduAccept(s)
      PROVE  up'[u] <= up[u]
  BY <1>30 DEF DlPduAccept, netVars, ueVars
<1>31. ASSUME NEW s \in Sessions, DlPduReject(s)
      PROVE  up'[u] <= up[u]
  <2>1. up' = up
    BY <1>31 DEF DlPduReject
  <2> QED
    BY <2>1
<1>32. ASSUME NEW s \in Sessions, DlPduRelease(s)
      PROVE  up'[u] <= up[u]
  BY <1>32 DEF DlPduRelease, SendToGnb, netVars, ueVars
<1>33. ASSUME NEW s \in Sessions, DlPduModification(s)
      PROVE  up'[u] <= up[u]
  BY <1>33 DEF DlPduModification, SendToGnb, netVars, ueVars
<1>34. ASSUME NEW s \in Sessions, DlPduUnparseable(s)
      PROVE  up'[u] <= up[u]
  BY <1>34 DEF DlPduUnparseable, netVars, ueVars
<1>35. ASSUME NEW s \in Sessions, DispatchIpPlane(s)
      PROVE  up'[u] <= up[u]
  <2>1. up' = up
    BY <1>35 DEF DispatchIpPlane, SendToGnb
  <2> QED
    BY <2>1
<1>36. ASSUME NEW s \in Sessions, ActionPduEstablish(s)
      PROVE  up'[u] <= up[u]
  BY <1>36 DEF ActionPduEstablish, SendToGnb, netVars, ueVars
<1>37. ASSUME NEW s \in Sessions, NEW k \in PduKinds, ActionPduModifyRelease(k, s)
      PROVE  up'[u] <= up[u]
  BY <1>37 DEF ActionPduModifyRelease, SendToGnb, netVars, ueVars
<1>38. ASSUME NEW m \in UlMsgs, AmfIgnores(m)
      PROVE  up'[u] <= up[u]
  BY <1>38 DEF AmfIgnores, netVars, ueVars
<1>39. ASSUME NEW s \in Sessions, AmfPduRequest(s)
      PROVE  up'[u] <= up[u]
  BY <1>39 DEF AmfPduRequest, Consumes, netVars, ueVars
<1>40. ASSUME NEW t \in Tasks, NetworkCommand(t)
      PROVE  up'[u] <= up[u]
  BY <1>40 DEF NetworkCommand, netVars, ueVars
<1>41. ASSUME NEW s \in Sessions, Elapse(s)
      PROVE  up'[u] <= up[u]
  BY <1>41 DEF Elapse, netVars, ueVars
<1>42. CASE UNCHANGED vars
  BY <1>42 DEF vars
<1>43. CASE DispatchHandoverCommand
  BY <1>43 DEF DispatchHandoverCommand, Running, GoesOn, netVars, ueVars
<1>44. CASE Redial
  BY <1>44 DEF Redial, Redialing, Running, Ends, SetUnixConn, netVars, ueVars
<1>45. CASE ActionHandover
  BY <1>45 DEF ActionHandover, Act, netVars, ueVars
<1>46. CASE ActionXnHandover
  BY <1>46 DEF ActionXnHandover, Act, Starts, netVars, ueVars
<1>47. ASSUME NEW k \in Waits, XnHandoverClose(k)
      PROVE  up'[u] <= up[u]
  BY <1>47 DEF XnHandoverClose, Running, GoesOn, netVars, ueVars
<1>48. CASE SwitchGnb
  BY <1>48 DEF SwitchGnb, Act, Starts, netVars, ueVars
<1>49. CASE Reconnect
  BY <1>49 DEF Reconnect, Redialing, Running, Ends, SetUnixConn, netVars, ueVars
<1>50. CASE AmfHandoverTrigger
  BY <1>50 DEF AmfHandoverTrigger, Consumes, Down, Starts, netVars, ueVars
<1> QED
  BY <1>1, <1>2, <1>3, <1>4, <1>5, <1>6, <1>7, <1>8, <1>9, <1>10, <1>11,
     <1>12, <1>13, <1>14, <1>15, <1>16, <1>17, <1>18, <1>19, <1>20, <1>21,
     <1>22, <1>23, <1>24, <1>25, <1>26, <1>27, <1>28, <1>29, <1>30, <1>31,
     <1>32, <1>33, <1>34, <1>35, <1>36, <1>37, <1>38, <1>39, <1>40, <1>41,
     <1>42, <1>43, <1>44, <1>45, <1>46, <1>47, <1>48, <1>49, <1>50
     DEF Next, Handlers, Operator, Network

Reported(s) ==
  (sess[s].state = "PENDING" /\ sess'[s].state = "INACTIVE")
    => (sess'[s].err \/ Released(s))

LEMMA ReportedStep ==
  ASSUME TypeOK, [Next]_vars, NEW p \in Sessions
  PROVE  Reported(p)
<1>a. /\ sess \in [Sessions -> SessionRec] /\ sess[p] \in SessionRec
      /\ tasks \in [Tasks -> Nat]
      /\ <<"PduRelease", p>> \in Tasks
      /\ <<"ConnectionRelease", NoSession>> \in Tasks
  BY TaskMembers DEF TypeOK, DlPdu, DlControl
<1> USE <1>a DEF Reported, Released, SessionRec
<1>1. CASE HandlerAuthenticationRequest
  BY <1>1 DEF HandlerAuthenticationRequest, netVars, ueVars
<1>2. CASE HandlerAuthenticationFailure
  BY <1>2 DEF HandlerAuthenticationFailure, netVars, ueVars
<1>3. CASE HandlerSecurityModeCommand
  BY <1>3 DEF HandlerSecurityModeCommand, netVars, ueVars
<1>4. CASE HandlerRegistrationAccept
  BY <1>4 DEF HandlerRegistrationAccept, netVars, ueVars
<1>5. CASE HandlerRegistrationAcceptPdu
  BY <1>5 DEF HandlerRegistrationAcceptPdu, SetPduSessionPending, netVars,
     ueVars
<1>6. CASE HandlerServiceAccept
  BY <1>6 DEF HandlerServiceAccept, netVars, ueVars
<1>7. CASE HandlerStatus5GMM
  BY <1>7 DEF HandlerStatus5GMM, FailPending, netVars, ueVars
<1>8. CASE HandlerDeregistrationRequestUETerminatedDeregistration
  BY <1>8 DEF HandlerDeregistrationRequestUETerminatedDeregistration, netVars,
     ueVars
<1>9. CASE HandlerDeregistrationClose
  BY <1>9 DEF HandlerDeregistrationClose, netVars, ueVars
<1>10. CASE DispatchPaging
  BY <1>10 DEF DispatchPaging, netVars, ueVars
<1>11. CASE DispatchConnectionRelease
  BY <1>11 DEF DispatchConnectionRelease, Running, Ends, netVars, ueVars
<1>12. CASE InitRegistration
  BY <1>12 DEF InitRegistration, netVars, ueVars
<1>13. CASE InitRegistrationState
  BY <1>13 DEF InitRegistrationState, netVars, ueVars
<1>14. CASE TriggerRegistrationRequest
  BY <1>14 DEF TriggerRegistrationRequest, netVars, ueVars
<1>15. CASE ActionServiceRequest
  BY <1>15 DEF ActionServiceRequest, netVars, ueVars
<1>16. CASE ActionDeregister
  BY <1>16 DEF ActionDeregister, netVars, ueVars
<1>17. CASE ActionDeregisterTerminate
  BY <1>17 DEF ActionDeregisterTerminate, netVars, ueVars
<1>18. CASE ActionStop
  BY <1>18 DEF ActionStop, netVars, ueVars
<1>19. CASE TerminateClose
  BY <1>19 DEF TerminateClose, netVars, ueVars
<1>20. CASE AmfRegistrationRequest
  BY <1>20 DEF AmfRegistrationRequest, netVars, ueVars
<1>21. CASE AmfAuthenticationResponse
  BY <1>21 DEF AmfAuthenticationResponse, netVars, ueVars
<1>22. CASE AmfAuthenticationFailure
  BY <1>22 DEF AmfAuthenticationFailure, netVars, ueVars
<1>23. CASE AmfSecurityModeComplete
  BY <1>23 DEF AmfSecurityModeComplete, netVars, ueVars
<1>24. CASE AmfServiceRequest
  BY <1>24 DEF AmfServiceRequest, netVars, ueVars
<1>25. CASE AmfDeregistrationRequest
  BY <1>25 DEF AmfDeregistrationRequest, netVars, ueVars
<1>26. CASE GetFleetRunningSummary
  <2>1. PICK after \in ErrorVisible : sess' = Swept(after)
    BY <1>26 DEF GetFleetRunningSummary
  <2>2. Swept(after)[p].err = (sess[p].err \/ p \in after)
    BY DEF Swept
  <2>3. (sess[p].state = "PENDING" /\ Swept(after)[p].state = "INACTIVE")
          => (sess[p].err \/ p \in after)
    BY DEF Swept
  <2> QED
    BY <2>1, <2>2, <2>3
<1>27. ASSUME NEW k \in DlPlain \cup DlSecured, HandlerReject(k)
      PROVE  Reported(p)
  <2>1. sess'[p] = FailPending(sess[p])
    BY <1>27 DEF HandlerReject
  <2>2. FailPending(sess[p]).err \/ sess[p].state # "PENDING"
    BY DEF FailPending
  <2> QED
    BY <2>1, <2>2
<1>28. ASSUME NEW k \in DlPlain \cup DlSecured, HandlerReplyOnly(k)
      PROVE  Reported(p)
  BY <1>28 DEF HandlerReplyOnly, netVars, ueVars
<1>29. ASSUME NEW t \in Tasks, DispatchNasMacFailure(t)
      PROVE  Reported(p)
  BY <1>29 DEF DispatchNasMacFailure, netVars, ueVars
<1>30. ASSUME NEW s \in Sessions, DlPduAccept(s)
      PROVE  Reported(p)
  BY <1>30 DEF DlPduAccept, netVars, ueVars
<1>31. ASSUME NEW s \in Sessions, DlPduReject(s)
      PROVE  Reported(p)
  BY <1>31 DEF DlPduReject, FailPending, netVars, ueVars
<1>32. ASSUME NEW s \in Sessions, DlPduRelease(s)
      PROVE  Reported(p)
  BY <1>32 DEF DlPduRelease, Running, Ends, netVars, ueVars
<1>33. ASSUME NEW s \in Sessions, DlPduModification(s)
      PROVE  Reported(p)
  BY <1>33 DEF DlPduModification, FailPending, netVars, ueVars
<1>34. ASSUME NEW s \in Sessions, DlPduUnparseable(s)
      PROVE  Reported(p)
  BY <1>34 DEF DlPduUnparseable, FailPending, netVars, ueVars
<1>35. ASSUME NEW s \in Sessions, DispatchIpPlane(s)
      PROVE  Reported(p)
  BY <1>35 DEF DispatchIpPlane, MarkPending, netVars, ueVars
<1>36. ASSUME NEW s \in Sessions, ActionPduEstablish(s)
      PROVE  Reported(p)
  BY <1>36 DEF ActionPduEstablish, MarkPending, netVars, ueVars
<1>37. ASSUME NEW s \in Sessions, NEW k \in PduKinds, ActionPduModifyRelease(k, s)
      PROVE  Reported(p)
  BY <1>37 DEF ActionPduModifyRelease, netVars, ueVars
<1>38. ASSUME NEW m \in UlMsgs, AmfIgnores(m)
      PROVE  Reported(p)
  BY <1>38 DEF AmfIgnores, netVars, ueVars
<1>39. ASSUME NEW s \in Sessions, AmfPduRequest(s)
      PROVE  Reported(p)
  BY <1>39 DEF AmfPduRequest, netVars, ueVars
<1>40. ASSUME NEW t \in Tasks, NetworkCommand(t)
      PROVE  Reported(p)
  BY <1>40 DEF NetworkCommand, netVars, ueVars
<1>41. ASSUME NEW s \in Sessions, Elapse(s)
      PROVE  Reported(p)
  BY <1>41 DEF Elapse, netVars, ueVars
<1>42. CASE UNCHANGED vars
  BY <1>42 DEF vars
<1>43. CASE DispatchHandoverCommand
  BY <1>43 DEF DispatchHandoverCommand, netVars, ueVars
<1>44. CASE Redial
  BY <1>44 DEF Redial, netVars, ueVars
<1>45. CASE ActionHandover
  BY <1>45 DEF ActionHandover, netVars, ueVars
<1>46. CASE ActionXnHandover
  BY <1>46 DEF ActionXnHandover, netVars, ueVars
<1>47. ASSUME NEW k \in Waits, XnHandoverClose(k)
      PROVE  Reported(p)
  BY <1>47 DEF XnHandoverClose, netVars, ueVars
<1>48. CASE SwitchGnb
  BY <1>48 DEF SwitchGnb, netVars, ueVars
<1>49. CASE Reconnect
  BY <1>49 DEF Reconnect, netVars, ueVars
<1>50. CASE AmfHandoverTrigger
  BY <1>50 DEF AmfHandoverTrigger, netVars, ueVars
<1> QED
  BY <1>1, <1>2, <1>3, <1>4, <1>5, <1>6, <1>7, <1>8, <1>9, <1>10, <1>11,
     <1>12, <1>13, <1>14, <1>15, <1>16, <1>17, <1>18, <1>19, <1>20, <1>21,
     <1>22, <1>23, <1>24, <1>25, <1>26, <1>27, <1>28, <1>29, <1>30, <1>31,
     <1>32, <1>33, <1>34, <1>35, <1>36, <1>37, <1>38, <1>39, <1>40, <1>41,
     <1>42, <1>43, <1>44, <1>45, <1>46, <1>47, <1>48, <1>49, <1>50
     DEF Next, Handlers, Operator, Network

-----------------------------------------------------------------------------
LEMMA TypeInit == Init => TypeOK
<1> SUFFICES ASSUME Init PROVE TypeOK
  OBVIOUS
<1>1. sess \in [Sessions -> SessionRec]
  BY DEF Init, SessionRec, SMStates, Stamps
<1>2. tasks \in [Tasks -> Nat] /\ up \in [UlMsgs -> Nat]
  BY DEF Init
<1> QED
  BY <1>1, <1>2 DEF Init, TypeOK, MMStates, SMStates

(* Every reachable state of the UE is well typed, for any set of sessions: *)
(* no handler goroutine ends twice, no message is consumed twice.          *)
THEOREM TypeCorrect == Spec => []TypeOK
BY TypeInit, TypeNext, PTL DEF Spec

(* A UE is never REGISTERED without a NAS security context, in any         *)
(* interleaving of its handler goroutines, the registration trigger and    *)
(* the web actions.                                                        *)
THEOREM RegisteredContext == Spec => []RegisteredHasContext
<1>1. Init => ContextInv
  BY TaskMembers, UplinkMembers DEF Init, ContextInv, DlSecured, UlKinds
<1>2. ContextInv => RegisteredHasContext
  BY DEF ContextInv, RegisteredHasContext
<1> QED
  BY <1>1, <1>2, TypeCorrect, ContextNext, PTL DEF Spec

(* After Terminate has run to its end the UE never puts anything on the    *)
(* link again although its goroutines still run, unless a redial was under *)
(* way when Terminate closed the connection.                               *)
THEOREM Silence == Spec => SilentAfterTerminate
<1>1. Init => TerminatedInv
  BY DEF Init, TerminatedInv, Terminated
<1>2. Spec => []TerminatedInv
  BY <1>1, TypeCorrect, TerminatedNext, PTL DEF Spec
<1>3. TypeOK /\ TerminatedInv /\ [Next]_vars
        => [Terminated /\ ~raced => \A m \in UlMsgs : up'[m] <= up[m]]_vars
  BY SilentStep
<1> QED
  BY <1>2, <1>3, TypeCorrect, PTL DEF Spec, SilentAfterTerminate

(* No session goes from PENDING to INACTIVE without an error unless the    *)
(* network released it.                                                    *)
THEOREM Reporting == Spec => RejectReported
<1>1. TypeOK /\ [Next]_vars
        => [\A s \in Sessions :
              (sess[s].state = "PENDING" /\ sess'[s].state = "INACTIVE")
                => (sess'[s].err \/ Released(s))]_vars
  BY ReportedStep DEF Reported
<1> QED
  BY <1>1, TypeCorrect, PTL DEF Spec, RejectReported

=============================================================================
