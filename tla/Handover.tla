------------------------------ MODULE Handover ------------------------------
(***************************************************************************)
(* Handovers of one registered UE between gNBs: TriggerHandover (ue/ue.go) *)
(* and the UE's control messages (ue/state/dispatch.go), the triggers at   *)
(* the gNBs (gnb/nas), their NGAP handlers and the XN UE CONTEXT RELEASE   *)
(* between them (gnb/ngap).  The AMF is external.                          *)
(*                                                                         *)
(* A message is a record [k, at, x, id, g]: its kind, where it is, the     *)
(* connection or UE context there, an AMF UE NGAP id and a gNB.  Every     *)
(* message is handled by a goroutine of its own, so that none is ordered   *)
(* with another.  The XN HANDOVER REQUEST, its acknowledgement and the SN  *)
(* STATUS TRANSFER change no state of either gNB and are left out.         *)
(***************************************************************************)
EXTENDS Naturals

CONSTANTS
  Gnbs,          \* the gNBs, all of them in ActiveGNBs
  Home,          \* where the UE is registered at first
  NoGnb,
  Unix,          \* the links are unix sockets, else TCP
  MaxHandovers,  \* bound on calls of TriggerHandover
  MaxHurried     \* only the first MaxHurried calls may overlap, and no more follow then

ASSUME HomeAssumption == Home \in Gnbs /\ NoGnb \notin Gnbs
ASSUME UnixAssumption == Unix \in BOOLEAN
ASSUME MaxAssumption  == MaxHandovers \in Nat /\ MaxHurried \in Nat

(* A handover makes one connection and at most two UE contexts, and the    *)
(* AMF gives one new id to it, so that these bounds stop nothing; 0 is no  *)
(* connection, no context and no id.                                       *)
MaxConns == MaxHandovers + 1
MaxCtxs  == 2 * MaxHandovers + 1
Conns == 1 .. MaxConns
Ctxs  == 1 .. MaxCtxs
Ids   == 1 .. MaxConns

VARIABLES
  uConn, uId, uGnb,   \* the UE: its connection, AMF UE NGAP id and gNB parameters
  tun,                \* its sessions have their tunnels
  nConn, link,        \* how many connections it has made, the gNB of each
  open,               \* the connections the UE has not closed
  reading,            \* the connections a UeListen reads
  nCtx, ctx,          \* the UE contexts of the gNBs
  owner,              \* the context each accepted connection was given
  msgs,               \* the messages on their way and the goroutines at work
  call,               \* the caller of TriggerHandover
  calls,              \* how often it has called
  serving, amfId,     \* AMF: the UE's context and id
  ho,                 \* AMF: the handover in preparation
  lastId,             \* AMF: the last id it gave
  released,           \* a connection release was asked for
  hurried,            \* TriggerHandover was called before the last handover was over
  misnamed,           \* an N2 handover was asked for with an id that is not the AMF's
  faulty              \* a dial or a write failed, or something was refused or lost

ueVars  == <<uConn, uId, uGnb, tun, nConn, link, open, reading>>
gnbVars == <<nCtx, ctx, owner>>
amfVars == <<serving, amfId, ho, lastId>>
opVars  == <<call, calls, released, hurried, misnamed>>
vars    == <<ueVars, gnbVars, amfVars, opVars, msgs, faulty>>

Msg(k, at, x, id, g) == [k |-> k, at |-> at, x |-> x, id |-> id, g |-> g]
Send(ms)        == msgs' = msgs \cup ms
Replace(m, ms)  == m \in msgs /\ msgs' = (msgs \ {m}) \cup ms

Idle   == [pc |-> "idle", old |-> 0, g |-> NoGnb]
NoHo   == [src |-> 0, ctx |-> 0, id |-> 0]
NoCtx  == [gnb |-> NoGnb, amf |-> 0, src |-> 0, sock |-> 0, st |-> "none", pool |-> FALSE]
(* NewGnBUe: every context starts in the pool, Initialized.                *)
NewGnBUe(g, c) == [NoCtx EXCEPT !.gnb = g, !.sock = c, !.st = "initialized", !.pool = TRUE]

NewCtx  == nCtx + 1
NewConn == nConn + 1

(* RangeUePool of gNB g, stopped at the first match: any of the contexts.  *)
Pool(g) == {k \in Ctxs : ctx[k].pool /\ ctx[k].gnb = g}

(* A registered UE on its home gNB, whose id a status poll has resolved.   *)
Init ==
  /\ uConn = 1 /\ uId = 1 /\ uGnb = Home /\ tun = TRUE
  /\ nConn = 1 /\ nCtx = 1
  /\ link = [c \in Conns |-> IF c = 1 THEN Home ELSE NoGnb]
  /\ open = {1} /\ reading = {1}
  /\ ctx = [k \in Ctxs |-> IF k = 1 THEN [NewGnBUe(Home, 1) EXCEPT !.amf = 1, !.st = "ready"]
                                    ELSE NoCtx]
  /\ owner = [c \in Conns |-> IF c = 1 THEN 1 ELSE 0]
  /\ msgs = {} /\ call = Idle /\ calls = 0
  /\ serving = 1 /\ amfId = 1 /\ ho = NoHo /\ lastId = 1
  /\ released = FALSE /\ hurried = FALSE /\ misnamed = FALSE /\ faulty = FALSE

Quiet == msgs = {} /\ call = Idle

-----------------------------------------------------------------------------
(* The UE                                                                  *)

(* A write fails when the UE has closed its end.                           *)
Write(k, c, id, g) == IF c \in open THEN {Msg(k, "conn", c, id, g)} ELSE {}

(* What is on its way to the UE is lost with a connection it closes.       *)
Close(c) ==
  /\ open' = open \ {c}
  /\ reading' = reading \ {c}
Unread(c) == {m \in msgs : m.at = "conn" /\ m.x = c /\ m.k \in {"cmd", "upd", "rel"}}

(* A new connection to g, which a new UeListen will read.                  *)
Connect(g) ==
  /\ nConn < MaxConns /\ nConn' = NewConn
  /\ link' = [link EXCEPT ![NewConn] = g]
  /\ open' = open \cup {NewConn}
  /\ uConn' = NewConn
  /\ UNCHANGED reading
Listen == Msg("listen", "ue", NewConn, 0, NoGnb)

(* One goroutine calls TriggerHandover, as a scenario does; an N2 call     *)
(* returns long before its handover is over.  The target is not the gNB    *)
(* where the UE is and means to be.                                        *)
CanCall(t) ==
  /\ call = Idle /\ calls < MaxHandovers
  /\ calls < MaxHurried \/ (Quiet /\ ~hurried)
  /\ t # uGnb \/ t # link[uConn]

(* TriggerHandover, N2: the parameters of the target replace the source's  *)
(* before the trigger is written, and stay when the write fails.           *)
TriggerN2(t) ==
  /\ CanCall(t)
  /\ calls' = calls + 1
  /\ uGnb' = t
  /\ Send(Write("n2", uConn, uId, t))
  /\ faulty' = (faulty \/ uConn \notin open)
  /\ hurried' = (hurried \/ ~Quiet)
  /\ misnamed' = (misnamed \/ uId # amfId)
  /\ UNCHANGED <<uConn, uId, tun, nConn, link, open, reading, gnbVars, amfVars, call, released>>

(* TriggerHandover, Xn: after its trigger the caller sleeps, closes the    *)
(* connection it found, and dials the target.                              *)
TriggerXn(t) ==
  /\ CanCall(t)
  /\ calls' = calls + 1
  /\ call' = [pc |-> "sleep", old |-> uConn, g |-> t]
  /\ hurried' = (hurried \/ ~Quiet)
  /\ UNCHANGED <<ueVars, gnbVars, amfVars, msgs, released, misnamed, faulty>>

XnClose ==
  /\ call.pc = "sleep"
  /\ call' = [call EXCEPT !.pc = "dial"]
  /\ Close(call.old)
  /\ msgs' = msgs \ Unread(call.old)
  /\ UNCHANGED <<uConn, uId, uGnb, tun, nConn, link, gnbVars, amfVars, calls, released, hurried, misnamed, faulty>>

XnDial ==
  /\ call.pc = "dial"
  /\ call' = Idle
  /\ Connect(call.g)
  /\ uGnb' = call.g
  /\ Send({Listen, Msg("ps", "conn", NewConn, uId, NoGnb)})
  /\ UNCHANGED <<uId, tun, gnbVars, amfVars, calls, released, hurried, misnamed, faulty>>

XnDialFails ==
  /\ call.pc = "dial"
  /\ call' = Idle
  /\ faulty' = TRUE
  /\ UNCHANGED <<ueVars, gnbVars, amfVars, msgs, calls, released, hurried, misnamed>>

(* Mutant: a closed connection can be read.                                *)
UeListen_Closed(m) ==
  /\ m.k = "listen" /\ Replace(m, {})
  /\ reading' = reading \cup {uConn}
  /\ UNCHANGED <<uConn, uId, uGnb, tun, nConn, link, open, gnbVars, amfVars, opVars, faulty>>

(* UeListen reads the connection the UE has when the goroutine starts.     *)
UeListen(m) ==
  /\ m.k = "listen" /\ Replace(m, {})
  /\ reading' = reading \cup (open \cap {uConn})
  /\ UNCHANGED <<uConn, uId, uGnb, tun, nConn, link, open, gnbVars, amfVars, opVars, faulty>>

UeReads(m) ==
  /\ m.at = "conn" /\ m.k \in {"cmd", "upd", "rel"} /\ m.x \in reading
  /\ Replace(m, {[m EXCEPT !.at = "ue"]})
  /\ UNCHANGED <<ueVars, gnbVars, amfVars, opVars, faulty>>

(* DispatchState: the new AMF UE NGAP id, the release of the connection.   *)
DispatchUpdate(m) ==
  /\ m.at = "ue" /\ m.k = "upd" /\ Replace(m, {})
  /\ uId' = m.id
  /\ UNCHANGED <<uConn, uGnb, tun, nConn, link, open, reading, gnbVars, amfVars, opVars, faulty>>

DispatchRelease(m) ==
  /\ m.at = "ue" /\ m.k = "rel" /\ Replace(m, {})
  /\ tun' = FALSE
  /\ UNCHANGED <<uConn, uId, uGnb, nConn, link, open, reading, gnbVars, amfVars, opVars, faulty>>

(* Mutant: the old connection stays open.                                  *)
DispatchCommand_KeepsConn(m) ==
  /\ m.at = "ue" /\ m.k = "cmd"
  /\ Replace(m, {Msg("dial", "ue", m.x, m.id, uGnb)})
  /\ UNCHANGED <<ueVars, gnbVars, amfVars, opVars, faulty>>

(* DispatchState, Handover Command: the connection is closed before the    *)
(* target, which the UE's parameters name, is dialled.                     *)
DispatchCommand(m) ==
  /\ m.at = "ue" /\ m.k = "cmd" /\ m \in msgs
  /\ Close(uConn)
  /\ msgs' = ((msgs \ {m}) \ Unread(uConn)) \cup {Msg("dial", "ue", m.x, m.id, uGnb)}
  /\ UNCHANGED <<uConn, uId, uGnb, tun, nConn, link, gnbVars, amfVars, opVars, faulty>>

(* Mutant: nobody reads the new connection.                                *)
CommandDial_NoListener(m) ==
  /\ m.k = "dial"
  /\ Connect(m.g)
  /\ Replace(m, {Msg("access", "conn", NewConn, uId, NoGnb)})
  /\ UNCHANGED <<uId, uGnb, tun, gnbVars, amfVars, opVars, faulty>>

CommandDial(m) ==
  /\ m.k = "dial"
  /\ Connect(m.g)
  /\ Replace(m, {Listen, Msg("access", "conn", NewConn, uId, NoGnb)})
  /\ UNCHANGED <<uId, uGnb, tun, gnbVars, amfVars, opVars, faulty>>

CommandDialFails(m) ==
  /\ m.k = "dial" /\ Replace(m, {})
  /\ faulty' = TRUE
  /\ UNCHANGED <<ueVars, gnbVars, amfVars, opVars>>

(* resolveUeConnectionDetails, in every status poll: the id of a context   *)
(* of the UE's gNB whose connection has the addresses of the UE's own.  On *)
(* a unix link these are the socket path and the UE's name, which its      *)
(* earlier connections to that gNB had too.                                *)
SameAddresses(c) == IF Unix THEN link[c] = link[uConn] ELSE c = uConn

ResolveUeConnectionDetails(k) ==
  /\ k \in Pool(uGnb) /\ ctx[k].sock # 0 /\ SameAddresses(ctx[k].sock)
  /\ ctx[k].amf # 0
  /\ uId' = ctx[k].amf
  /\ UNCHANGED <<uConn, uGnb, tun, nConn, link, open, reading, gnbVars, amfVars, msgs, opVars, faulty>>

(* The web action "connection-release": a UE CONTEXT RELEASE REQUEST for a *)
(* context with the UE's id in its gNB.                                    *)
ConnectionRelease(k) ==
  /\ ~released /\ k \in Pool(uGnb) /\ ctx[k].amf = uId
  /\ released' = TRUE
  /\ Send({Msg("relreq", "amf", k, 0, NoGnb)})
  /\ UNCHANGED <<ueVars, gnbVars, amfVars, call, calls, hurried, misnamed, faulty>>

-----------------------------------------------------------------------------
(* The gNBs                                                                *)

(* gnbListen accepts a connection and gives it a context.                  *)
Accept(c) ==
  /\ link[c] # NoGnb /\ owner[c] = 0
  /\ nCtx < MaxCtxs /\ nCtx' = NewCtx
  /\ ctx' = [ctx EXCEPT ![NewCtx] = NewGnBUe(link[c], c)]
  /\ owner' = [owner EXCEPT ![c] = NewCtx]
  /\ UNCHANGED <<ueVars, amfVars, msgs, opVars, faulty>>

(* processingConn: a message goes to a context of the pool that has the    *)
(* connection now, or to the connection's first context.                   *)
ActiveUe(c) ==
  LET held == {k \in Pool(link[c]) : ctx[k].sock = c}
  IN  IF held = {} THEN {owner[c]} ELSE held

ProcessingConn(m, k) ==
  /\ m.at = "conn" /\ m.k \in {"n2", "access", "ps"} /\ owner[m.x] # 0
  /\ k \in ActiveUe(m.x)
  /\ Replace(m, {[m EXCEPT !.at = "ctx", !.x = k]})
  /\ UNCHANGED <<ueVars, gnbVars, amfVars, opVars, faulty>>

(* What SetAmfUeId of a context writes to the UE, if it has a socket.      *)
Update(k, id) == Write("upd", ctx[k].sock, id, NoGnb)

HandleN2HandoverTrigger(m) ==
  /\ m.at = "ctx" /\ m.k = "n2"
  /\ ctx' = [ctx EXCEPT ![m.x].amf = m.id]
  /\ Replace(m, {[m EXCEPT !.k = "required", !.at = "amf"]} \cup Update(m.x, m.id))
  /\ UNCHANGED <<ueVars, nCtx, owner, amfVars, opVars, faulty>>

HandlePathSwitchTrigger(m) ==
  /\ m.at = "ctx" /\ m.k = "ps"
  /\ ctx' = [ctx EXCEPT ![m.x].amf = m.id, ![m.x].st = "ready"]
  /\ Replace(m, {[m EXCEPT !.k = "psreq", !.at = "amf"]} \cup Update(m.x, m.id))
  /\ UNCHANGED <<ueVars, nCtx, owner, amfVars, opVars, faulty>>

(* handleTargetAccessTrigger: the prepared context takes the connection of *)
(* the context the message came to, which is deleted in a later step.      *)
Prepared(g, id) == {k \in Pool(g) : id \in {ctx[k].amf, ctx[k].src}}

(* Mutant: the prepared context does not get the connection.               *)
HandleTargetAccess_NoSocket(m, k) ==
  /\ m.at = "ctx" /\ m.k = "access" /\ k \in Prepared(ctx[m.x].gnb, m.id)
  /\ ctx' = [ctx EXCEPT ![k].st = "ready"]
  /\ Replace(m, {[m EXCEPT !.k = "swapped", !.id = k]})
  /\ UNCHANGED <<ueVars, nCtx, owner, amfVars, opVars, faulty>>

HandleTargetAccess(m, k) ==
  /\ m.at = "ctx" /\ m.k = "access" /\ k \in Prepared(ctx[m.x].gnb, m.id)
  /\ ctx' = [ctx EXCEPT ![k].sock = ctx[m.x].sock, ![k].st = "ready"]
  /\ Replace(m, {[m EXCEPT !.k = "swapped", !.id = k]}
                \cup (IF ctx[k].amf = m.id THEN {} ELSE Update(m.x, ctx[k].amf)))
  /\ UNCHANGED <<ueVars, nCtx, owner, amfVars, opVars, faulty>>

HandleTargetAccessUnknown(m) ==
  /\ m.at = "ctx" /\ m.k = "access" /\ Prepared(ctx[m.x].gnb, m.id) = {}
  /\ Replace(m, {})
  /\ UNCHANGED <<ueVars, gnbVars, amfVars, opVars, faulty>>

HandleTargetAccessEnds(m) ==
  /\ m.k = "swapped"
  /\ ctx' = [ctx EXCEPT ![m.x].pool = FALSE]
  /\ Replace(m, {Msg("notify", "amf", m.id, 0, NoGnb)})
  /\ UNCHANGED <<ueVars, nCtx, owner, amfVars, opVars, faulty>>

HandlerHandoverRequest(m) ==
  /\ m.k = "request"
  /\ nCtx < MaxCtxs /\ nCtx' = NewCtx
  /\ ctx' = [ctx EXCEPT ![NewCtx] = [NewGnBUe(m.g, 0) EXCEPT !.amf = m.id, !.src = m.x,
                                                             !.st = "ongoing"]]
  /\ Replace(m, {Msg("ack", "amf", NewCtx, m.id, NoGnb)})
  /\ UNCHANGED <<ueVars, owner, amfVars, opVars, faulty>>

HandlerHandoverCommand(m) ==
  /\ m.k = "command"
  /\ Replace(m, IF ctx[m.x].pool THEN Write("cmd", ctx[m.x].sock, m.id, NoGnb) ELSE {})
  /\ UNCHANGED <<ueVars, gnbVars, amfVars, opVars, faulty>>

(* Mutant: the context does not leave the state Ready.                     *)
HandlerUeContextReleaseCommand_StaysReady(m) ==
  /\ m.k = "release"
  /\ Replace(m, IF ctx[m.x].pool THEN Write("rel", ctx[m.x].sock, 0, NoGnb) ELSE {})
  /\ UNCHANGED <<ueVars, gnbVars, amfVars, opVars, faulty>>

(* The context stays in the pool, in CM-IDLE, with its socket and id.      *)
HandlerUeContextReleaseCommand(m) ==
  /\ m.k = "release"
  /\ ctx' = IF ctx[m.x].pool THEN [ctx EXCEPT ![m.x].st = "initialized"] ELSE ctx
  /\ Replace(m, IF ctx[m.x].pool THEN Write("rel", ctx[m.x].sock, 0, NoGnb) ELSE {})
  /\ UNCHANGED <<ueVars, nCtx, owner, amfVars, opVars, faulty>>

(* Mutant: the gNB itself is not left out.                                 *)
FindUeInOtherGnb_Any(g, id) == {k \in Ctxs : ctx[k].pool /\ ctx[k].amf = id}

(* FindUeInOtherGnb: any context with the id in any other gNB.             *)
FindUeInOtherGnb(g, id) == {k \in Ctxs : ctx[k].pool /\ ctx[k].gnb # g /\ ctx[k].amf = id}

HandlerPathSwitchRequestAcknowledge(m) ==
  /\ m.k = "psack"
  /\ LET found == FindUeInOtherGnb(ctx[m.x].gnb, m.id) IN
     IF ctx[m.x].pool
     THEN /\ ctx' = [ctx EXCEPT ![m.x].amf = m.id]
          /\ IF found = {} THEN Replace(m, Update(m.x, m.id))
             ELSE \E k \in found :
                    Replace(m, {Msg("xnrel", "udp", 0, m.id, ctx[k].gnb)} \cup Update(m.x, m.id))
     ELSE Replace(m, {}) /\ UNCHANGED ctx
  /\ UNCHANGED <<ueVars, nCtx, owner, amfVars, opVars, faulty>>

(* processXnMessage, XN UE CONTEXT RELEASE: the first context of the pool  *)
(* that has the id is deleted.                                             *)
ProcessXnRelease(m) ==
  LET found == {k \in Pool(m.g) : ctx[k].amf = m.id} IN
  /\ m.k = "xnrel" /\ Replace(m, {})
  /\ IF found = {} THEN UNCHANGED ctx
     ELSE \E k \in found : ctx' = [ctx EXCEPT ![k].pool = FALSE]
  /\ UNCHANGED <<ueVars, nCtx, owner, amfVars, opVars, faulty>>

(* The message goes over UDP.                                              *)
XnReleaseLost(m) ==
  /\ m.k = "xnrel" /\ Replace(m, {})
  /\ faulty' = TRUE
  /\ UNCHANGED <<ueVars, gnbVars, amfVars, opVars>>

-----------------------------------------------------------------------------
(* The AMF (external): it prepares one handover at a time, gives the UE a  *)
(* new id for it, refuses one to the source itself, and follows what the   *)
(* gNBs tell it of the UE's context.                                       *)

AmfHandoverRequired(m) ==
  /\ m.at = "amf" /\ m.k = "required" /\ m.x = serving /\ m.g # ctx[m.x].gnb
  /\ ho = NoHo /\ lastId < MaxConns
  /\ lastId' = lastId + 1
  /\ ho' = [src |-> m.x, ctx |-> 0, id |-> lastId + 1]
  /\ Replace(m, {Msg("request", "gnb", m.id, lastId + 1, m.g)})
  /\ UNCHANGED <<ueVars, gnbVars, serving, amfId, opVars, faulty>>

(* A Handover Preparation Failure or Path Switch Request Failure, which no *)
(* gNB handles.                                                            *)
AmfRefuses(m) ==
  /\ m.at = "amf" /\ m.k \in {"required", "psreq"} /\ Replace(m, {})
  /\ faulty' = TRUE
  /\ UNCHANGED <<ueVars, gnbVars, amfVars, opVars>>

AmfHandoverRequestAck(m) ==
  /\ m.at = "amf" /\ m.k = "ack"
  /\ IF ho.id = m.id
     THEN /\ ho' = [ho EXCEPT !.ctx = m.x]
          /\ Replace(m, {Msg("command", "gnb", ho.src, m.id, NoGnb)})
     ELSE Replace(m, {}) /\ UNCHANGED ho
  /\ UNCHANGED <<ueVars, gnbVars, serving, amfId, lastId, opVars, faulty>>

AmfHandoverNotify(m) ==
  /\ m.at = "amf" /\ m.k = "notify"
  /\ IF ho # NoHo /\ ho.ctx = m.x
     THEN /\ serving' = m.x /\ amfId' = ho.id /\ ho' = NoHo
          /\ Replace(m, {Msg("release", "gnb", ho.src, 0, NoGnb)})
     ELSE Replace(m, {}) /\ UNCHANGED <<serving, amfId, ho>>
  /\ UNCHANGED <<ueVars, gnbVars, lastId, opVars, faulty>>

AmfPathSwitch(m) ==
  /\ m.at = "amf" /\ m.k = "psreq" /\ m.id = amfId
  /\ serving' = m.x /\ ho' = NoHo
  /\ Replace(m, {Msg("psack", "gnb", m.x, m.id, NoGnb)})
  /\ UNCHANGED <<ueVars, gnbVars, amfId, lastId, opVars, faulty>>

AmfReleaseRequest(m) ==
  /\ m.at = "amf" /\ m.k = "relreq"
  /\ Replace(m, {Msg("release", "gnb", m.x, 0, NoGnb)})
  /\ UNCHANGED <<ueVars, gnbVars, amfVars, opVars, faulty>>

(* The AMF's timer for a handover that is not notified.                    *)
AmfGivesUp ==
  /\ ho # NoHo /\ ho' = NoHo
  /\ faulty' = TRUE
  /\ UNCHANGED <<ueVars, gnbVars, serving, amfId, lastId, msgs, opVars>>

-----------------------------------------------------------------------------
Calls ==
  \/ \E t \in Gnbs : TriggerN2(t) \/ TriggerXn(t)
  \/ \E k \in Ctxs : ResolveUeConnectionDetails(k) \/ ConnectionRelease(k)

Faults ==
  \/ XnDialFails \/ AmfGivesUp
  \/ \E m \in msgs : CommandDialFails(m) \/ XnReleaseLost(m)

Steps ==
  \/ XnClose \/ XnDial
  \/ \E c \in Conns : Accept(c)
  \/ \E m \in msgs :
       \/ UeListen(m) \/ UeReads(m) \/ DispatchUpdate(m) \/ DispatchRelease(m)
       \/ DispatchCommand(m) \/ CommandDial(m)
       \/ HandleN2HandoverTrigger(m) \/ HandlePathSwitchTrigger(m)
       \/ HandleTargetAccessUnknown(m) \/ HandleTargetAccessEnds(m)
       \/ HandlerHandoverRequest(m) \/ HandlerHandoverCommand(m)
       \/ HandlerUeContextReleaseCommand(m) \/ HandlerPathSwitchRequestAcknowledge(m)
       \/ ProcessXnRelease(m)
       \/ AmfHandoverRequired(m) \/ AmfRefuses(m) \/ AmfHandoverRequestAck(m)
       \/ AmfHandoverNotify(m) \/ AmfPathSwitch(m) \/ AmfReleaseRequest(m)
  \/ \E m \in msgs, k \in Ctxs : ProcessingConn(m, k) \/ HandleTargetAccess(m, k)

Next == Calls \/ Faults \/ Steps

Spec == Init /\ [][Next]_vars

(* Goroutines are scheduled, the AMF answers, and a gNB accepts.  Nobody   *)
(* has to call TriggerHandover, and nothing has to fail.                   *)
FairSpec == Spec /\ WF_vars(Steps)

-----------------------------------------------------------------------------
Kinds  == {"n2", "access", "ps", "cmd", "upd", "rel", "listen", "dial", "swapped", "required",
           "request", "ack", "command", "notify", "release", "psreq", "psack", "xnrel", "relreq"}
Places == {"conn", "ctx", "ue", "gnb", "amf", "udp"}
Zero(S) == S \cup {0}
AnyGnb == Gnbs \cup {NoGnb}

TypeOK ==
  /\ uConn \in Conns /\ uId \in Ids /\ uGnb \in Gnbs /\ tun \in BOOLEAN
  /\ nConn \in Conns /\ nCtx \in Ctxs
  /\ link \in [Conns -> AnyGnb] /\ open \subseteq Conns /\ reading \subseteq open
  /\ ctx \in [Ctxs -> [gnb : AnyGnb, amf : Zero(Ids), src : Zero(Ids), sock : Zero(Conns),
                       st : {"none", "initialized", "ongoing", "ready"}, pool : BOOLEAN]]
  /\ owner \in [Conns -> Zero(Ctxs)]
  /\ \A m \in msgs : m \in [k : Kinds, at : Places, x : Nat, id : Nat, g : AnyGnb]
  /\ call \in [pc : {"idle", "sleep", "dial"}, old : Zero(Conns), g : AnyGnb]
  /\ calls \in 0 .. MaxHandovers /\ released \in BOOLEAN
  /\ hurried \in BOOLEAN /\ misnamed \in BOOLEAN /\ faulty \in BOOLEAN
  /\ serving \in Ctxs /\ amfId \in Ids /\ lastId \in Ids
  /\ ho \in [src : Zero(Ctxs), ctx : Zero(Ctxs), id : Zero(Ids)]

Clean == ~hurried /\ ~faulty /\ ~released

(* A handover does not cost the UE its tunnels: the release that ends it   *)
(* at the source is written to a connection the UE has closed, whatever    *)
(* fails, as long as handovers do not overlap; ReleaseConnection runs only *)
(* when a release was asked for (DispatchState 0x06,                       *)
(* HandlerUeContextReleaseCommand).                                        *)
TunnelsKept == tun \/ released \/ hurried

(* After handovers that were made one after the other and met no fault,    *)
(* UE, gNBs and AMF agree: one connection is open, the AMF's context of    *)
(* the UE is in the pool of the gNB the UE's parameters name, has the      *)
(* connection and the AMF's id, and is the only one that is Ready.  The UE *)
(* need not know that id: the update that answers its own trigger can be   *)
(* dispatched after the target's, and a poll can resolve the id of an old  *)
(* context.  The handover in which that happens still ends well, and so    *)
(* does every further one up to an N2 handover that is asked for with the  *)
(* wrong id.                                                               *)
ServedWhenQuiet ==
  Clean /\ ~misnamed /\ Quiet =>
    /\ open = {uConn} /\ link[uConn] = uGnb
    /\ serving \in Pool(uGnb) /\ ctx[serving].sock = uConn
    /\ ctx[serving].amf = amfId
    /\ {k \in Ctxs : ctx[k].pool /\ ctx[k].st = "ready"} = {serving}

(* A gNB never writes to a connection it does not have: the context the    *)
(* AMF believes to serve the UE, and the source it commands to hand over,  *)
(* have a socket (HandlerHandoverCommand and every downlink handler write  *)
(* to GetUnixSocket() unchecked; HandlerHandoverRequest leaves it nil).    *)
DownlinkHasSocket ==
  /\ ctx[serving].sock # 0
  /\ \A m \in msgs : m.k = "command" => ctx[m.x].sock # 0

(* As long as handovers do not overlap, no step of one deletes the context *)
(* that serves the UE, whatever fails or is lost (handleTargetAccess, the  *)
(* XN UE CONTEXT RELEASE, which looks for an id and not for a context).    *)
ServingInPool == hurried \/ ctx[serving].pool

(* A handover that meets no fault is over at some time.                    *)
HandoverEnds == (Clean /\ ~Quiet) ~> (Quiet \/ ~Clean)

(* "Xn Handover Context Release: Send XN UE CONTEXT RELEASE back to Source *)
(* GNodeB" (ngap/handler/handler.go): the context that serves the UE is    *)
(* not the one a release deletes.                                          *)
ServingKept == ctx[serving].pool

(* "Compare networks and local-to-remote addresses (stable comparison)"    *)
(* (webserver/fleet_runner.go): a poll takes the id of a context that has  *)
(* the UE's connection.                                                    *)
PollResolvesOwn ==
  [][\A k \in Ctxs : ResolveUeConnectionDetails(k) => ctx[k].sock = uConn]_vars
=============================================================================
