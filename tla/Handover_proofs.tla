-------------------------- MODULE Handover_proofs --------------------------
(***************************************************************************)
(* Proofs about Handover, for any gNBs and any number of handovers.        *)
(*                                                                         *)
(* However handovers overlap: type correctness, and that the context that  *)
(* serves the UE, and the source that is commanded to hand over, have a    *)
(* socket (IInv).  When they do not overlap: whatever fails, the UE keeps  *)
(* its tunnels and its context (OneInv), and when nothing fails, the UE,   *)
(* the gNBs and the AMF agree after each (SrvInv).  At the end, why every  *)
(* handover comes to an end: none gets stuck (FlowInv), and every step is  *)
(* nearer to the end (Nearer).                                             *)
(***************************************************************************)
EXTENDS Handover, FiniteSetTheorems, TLAPS

(* What the types of the variables leave open.  A context whose source id  *)
(* is known was prepared by a Handover Request, with an id of its own.     *)
CtxRec == [gnb : AnyGnb, amf : Zero(Ids), src : Zero(Ids), sock : Zero(Conns),
           st : {"none", "initialized", "ongoing", "ready"}, pool : BOOLEAN]
MsgRec == [k : Kinds, at : Places, x : Nat, id : Nat, g : AnyGnb]

HasSock(k) == k \in Ctxs /\ ctx[k].sock # 0

CtxInv ==
  \A k \in Ctxs : /\ k > nCtx => ctx[k].sock = 0 /\ ~ctx[k].pool
                  /\ ctx[k].src # 0 => ctx[k].amf # 0
OwnerInv == \A c \in Conns : owner[c] # 0 => HasSock(owner[c])
CallInv  == call.pc # "idle" => call.g \in Gnbs
AmfInv   == HasSock(serving) /\ (ho # NoHo => HasSock(ho.src) /\ ho.id # 0)

(* What a message of each kind names exists; only a context that has a     *)
(* connection sends to the AMF, or is commanded to hand over.              *)
MsgOK(m) ==
  /\ m.k \in {"n2", "access", "ps", "upd", "request", "required", "psreq", "ack", "psack"} =>
       m.id \in Ids
  /\ m.k \in {"n2", "access", "ps"} /\ m.at = "conn" => m.x \in Conns
  /\ m.k \in {"n2", "access", "ps"} /\ m.at = "ctx" => HasSock(m.x)
  /\ m.k \in {"required", "psreq", "notify", "command"} => HasSock(m.x)
  /\ m.k = "swapped" => HasSock(m.id)
  /\ m.k = "request" => m.x \in Ids
  /\ m.k = "ack" => m.x \in Ctxs
MsgInv == \A m \in msgs : MsgOK(m)

IInv == TypeOK /\ CtxInv /\ OwnerInv /\ CallInv /\ AmfInv /\ MsgInv

-----------------------------------------------------------------------------
LEMMA Bounds ==
  /\ MaxConns \in Nat /\ MaxCtxs \in Nat /\ 1 \in Conns /\ 1 \in Ctxs /\ 1 \in Ids
  /\ \A c \in Conns : c \in Nat /\ c # 0
  /\ \A k \in Ctxs : k \in Nat /\ k # 0
  /\ \A i \in Ids : i \in Nat /\ i # 0
  BY MaxAssumption DEF MaxConns, MaxCtxs, Conns, Ctxs, Ids

LEMMA InitIInv == Init => IInv
<1> SUFFICES ASSUME Init PROVE IInv
    OBVIOUS
<1> USE Bounds, HomeAssumption, MaxAssumption
<1>1. ctx \in [Ctxs -> CtxRec] /\ ctx[1].sock = 1 /\ ctx[1].amf = 1
      /\ \A k \in Ctxs : k # 1 => ctx[k].sock = 0 /\ ctx[k].src = 0 /\ ~ctx[k].pool
      /\ ctx[1].src = 0
    BY DEF Init, NewGnBUe, NoCtx, CtxRec, Zero, AnyGnb
<1>2. uConn = 1 /\ uId = 1 /\ uGnb = Home /\ tun = TRUE /\ nConn = 1 /\ nCtx = 1 /\ open = {1}
      /\ reading = {1} /\ msgs = {} /\ calls = 0 /\ serving = 1 /\ amfId = 1 /\ lastId = 1
      /\ released = FALSE /\ hurried = FALSE /\ misnamed = FALSE /\ faulty = FALSE /\ ho = NoHo
      /\ call = Idle
    BY DEF Init
<1>3. /\ link \in [Conns -> AnyGnb] /\ owner \in [Conns -> Zero(Ctxs)]
      /\ \A c \in Conns : owner[c] # 0 => owner[c] = 1
    BY DEF Init, AnyGnb, Zero
<1>4. NoHo \in [src : Zero(Ctxs), ctx : Zero(Ctxs), id : Zero(Ids)]
    BY DEF NoHo, Zero
<1>5. Idle \in [pc : {"idle", "sleep", "dial"}, old : Zero(Conns), g : AnyGnb] /\ Idle.pc = "idle"
    BY DEF Idle, Zero, AnyGnb
<1>6. 0 \in 0 .. MaxHandovers
    OBVIOUS
<1>7. TypeOK
    BY <1>1, <1>2, <1>3, <1>4, <1>5, <1>6 DEF TypeOK, CtxRec
<1>8. CtxInv /\ OwnerInv /\ CallInv /\ AmfInv /\ MsgInv
    BY <1>1, <1>2, <1>3, <1>5 DEF CtxInv, OwnerInv, CallInv, AmfInv, MsgInv, HasSock
<1> QED BY <1>7, <1>8 DEF IInv

-----------------------------------------------------------------------------
(* The types and invariants of the four groups of variables.               *)
UeT ==
  /\ uConn \in Conns /\ uId \in Ids /\ uGnb \in Gnbs /\ tun \in BOOLEAN
  /\ nConn \in Conns /\ link \in [Conns -> AnyGnb] /\ open \subseteq Conns
  /\ reading \subseteq open
GnbT ==
  /\ nCtx \in Ctxs /\ ctx \in [Ctxs -> CtxRec] /\ owner \in [Conns -> Zero(Ctxs)]
  /\ CtxInv /\ OwnerInv
OpT ==
  /\ call \in [pc : {"idle", "sleep", "dial"}, old : Zero(Conns), g : AnyGnb]
  /\ calls \in 0 .. MaxHandovers /\ released \in BOOLEAN /\ hurried \in BOOLEAN
  /\ misnamed \in BOOLEAN /\ CallInv
AmfT ==
  /\ serving \in Ctxs /\ amfId \in Ids /\ lastId \in Ids
  /\ ho \in [src : Zero(Ctxs), ctx : Zero(Ctxs), id : Zero(Ids)] /\ AmfInv
SocksKept == \A k \in Ctxs : ctx[k].sock # 0 => ctx'[k].sock # 0

LEMMA Groups ==
  IInv <=> /\ UeT /\ GnbT /\ OpT /\ AmfT /\ faulty \in BOOLEAN
           /\ \A m \in msgs : m \in MsgRec /\ MsgOK(m)
  BY DEF IInv, TypeOK, UeT, GnbT, OpT, AmfT, CtxRec, MsgRec, MsgInv

(* A step keeps the invariant if it keeps each group, no context loses its *)
(* socket, and the messages it sends are right.                            *)
LEMMA Assemble ==
  ASSUME IInv, UeT', GnbT', OpT', AmfT', faulty' \in BOOLEAN, SocksKept,
         NEW ms, msgs' \subseteq msgs \cup ms, \A n \in ms : n \in MsgRec /\ MsgOK(n)'
  PROVE  IInv'
<1>1. \A k : HasSock(k) => HasSock(k)'
    BY DEF SocksKept, HasSock
<1>2. \A m \in msgs : m \in MsgRec /\ MsgOK(m)'
    BY <1>1, Groups DEF MsgOK
<1>3. \A m \in msgs' : m \in MsgRec /\ MsgOK(m)'
    BY <1>2
<1> QED BY <1>3 DEF IInv, TypeOK, UeT, GnbT, OpT, AmfT, CtxRec, MsgRec, MsgInv

LEMMA SameUe == IInv /\ UNCHANGED ueVars => UeT'
  BY Groups DEF ueVars, UeT

LEMMA SameGnb == IInv /\ UNCHANGED gnbVars => GnbT' /\ SocksKept
  BY Groups DEF gnbVars, GnbT, CtxInv, OwnerInv, HasSock, SocksKept

LEMMA SameOp == IInv /\ UNCHANGED opVars => OpT'
  BY Groups DEF opVars, OpT, CallInv

LEMMA SameAmf == IInv /\ UNCHANGED amfVars /\ SocksKept => AmfT'
  BY Groups DEF amfVars, AmfT, AmfInv, HasSock, SocksKept

(* The messages of a state, the writes of a step.                          *)
LEMMA AMsg ==
  ASSUME IInv, NEW m \in msgs
  PROVE  m \in MsgRec /\ MsgOK(m)
  BY Groups

LEMMA UpdateOK ==
  ASSUME IInv, NEW k, NEW i \in Ids, NEW n \in Update(k, i)
  PROVE  /\ n \in MsgRec /\ MsgOK(n)'
         /\ n.k = "upd" /\ n.at = "conn" /\ n.x = ctx[k].sock /\ n.id = i
  BY Groups, Bounds DEF Update, Write, UeT, AnyGnb, MsgRec, MsgOK, Msg, Kinds, Places

(* A step that writes into contexts without touching their sockets.        *)
SocksAlone ==
  /\ ctx' \in [Ctxs -> CtxRec] /\ UNCHANGED <<nCtx, owner>>
  /\ \A k \in Ctxs : /\ ctx'[k].sock = ctx[k].sock /\ ctx'[k].src = ctx[k].src
                     /\ ctx'[k].pool => ctx[k].pool
                     /\ ctx[k].amf # 0 => ctx'[k].amf # 0

LEMMA SameSocks ==
  ASSUME IInv, SocksAlone
  PROVE  GnbT' /\ SocksKept
  BY Groups DEF SocksAlone, GnbT, CtxInv, OwnerInv, HasSock, SocksKept

(* A step that writes into one context, in the pool or not.                *)
LEMMA FieldStep ==
  ASSUME IInv, UNCHANGED <<nCtx, owner>>, NEW k \in Ctxs, NEW r \in CtxRec,
         ctx' = [ctx EXCEPT ![k] = r], r.sock = ctx[k].sock, r.src = ctx[k].src,
         r.pool => ctx[k].pool, r.amf = ctx[k].amf
  PROVE  SocksAlone
<1>1. ctx \in [Ctxs -> CtxRec]
    BY Groups DEF GnbT
<1>2. ctx' \in [Ctxs -> CtxRec] /\ ctx'[k] = r /\ \A j \in Ctxs : j # k => ctx'[j] = ctx[j]
    BY <1>1
<1> QED BY <1>2 DEF SocksAlone

LEMMA PoolStep ==
  ASSUME IInv, UNCHANGED <<nCtx, owner>>, NEW k, ctx' = [ctx EXCEPT ![k].pool = FALSE]
  PROVE  SocksAlone
<1>1. ctx \in [Ctxs -> CtxRec]
    BY Groups DEF GnbT
<1>2. CASE k \in Ctxs
  <2> DEFINE r == [ctx[k] EXCEPT !.pool = FALSE]
  <2>1. ctx[k] \in CtxRec
      BY <1>1, <1>2
  <2>2. r \in CtxRec /\ r.sock = ctx[k].sock /\ r.src = ctx[k].src /\ ~r.pool
        /\ r.amf = ctx[k].amf
      BY <2>1 DEF CtxRec
  <2>3. ctx' = [ctx EXCEPT ![k] = r]
      OBVIOUS
  <2> HIDE DEF r
  <2> QED BY <1>2, <2>2, <2>3, FieldStep
<1>3. CASE k \notin Ctxs
  <2>1. ctx' = ctx
      BY <1>1, <1>3
  <2> QED BY <1>1, <2>1 DEF SocksAlone
<1> QED BY <1>2, <1>3

LEMMA StateStep ==
  ASSUME IInv, UNCHANGED <<nCtx, owner>>, NEW k,
         ctx' = [ctx EXCEPT ![k].st = "initialized"]
  PROVE  SocksAlone
<1>1. ctx \in [Ctxs -> CtxRec]
    BY Groups DEF GnbT
<1>2. CASE k \in Ctxs
  <2> DEFINE r == [ctx[k] EXCEPT !.st = "initialized"]
  <2>1. ctx[k] \in CtxRec
      BY <1>1, <1>2
  <2>2. r \in CtxRec /\ r.sock = ctx[k].sock /\ r.src = ctx[k].src /\ r.pool = ctx[k].pool
        /\ r.amf = ctx[k].amf
      BY <2>1 DEF CtxRec
  <2>3. ctx' = [ctx EXCEPT ![k] = r]
      OBVIOUS
  <2> HIDE DEF r
  <2> QED BY <1>2, <2>2, <2>3, FieldStep
<1>3. CASE k \notin Ctxs
  <2>1. ctx' = ctx
      BY <1>1, <1>3
  <2> QED BY <1>1, <2>1 DEF SocksAlone
<1> QED BY <1>2, <1>3

(* A step that makes a context, which nothing can name yet.                *)
LEMMA NewCtxStep ==
  ASSUME IInv, NEW r \in CtxRec, r.src # 0 => r.amf # 0, nCtx < MaxCtxs,
         nCtx' = NewCtx, ctx' = [ctx EXCEPT ![NewCtx] = r],
         \/ UNCHANGED owner
         \/ r.sock # 0 /\ \E c \in Conns : owner' = [owner EXCEPT ![c] = NewCtx]
  PROVE  GnbT' /\ SocksKept
<1>1. NewCtx \in Ctxs /\ NewCtx > nCtx /\ nCtx \in Nat /\ NewCtx = nCtx + 1 /\ GnbT
    BY Groups, Bounds DEF GnbT, NewCtx, Ctxs
<1>2. ctx' \in [Ctxs -> CtxRec] /\ ctx'[NewCtx] = r /\ ctx[NewCtx].sock = 0
      /\ \A k \in Ctxs : k # NewCtx => ctx'[k] = ctx[k]
    BY <1>1 DEF GnbT, CtxInv
<1>3. SocksKept /\ CtxInv'
    BY <1>1, <1>2, Bounds DEF GnbT, CtxInv, SocksKept
<1>4. owner' \in [Conns -> Zero(Ctxs)] /\ OwnerInv'
    BY <1>1, <1>2, <1>3, Bounds DEF GnbT, OwnerInv, HasSock, SocksKept, Zero
<1> QED BY <1>1, <1>2, <1>3, <1>4 DEF GnbT

LEMMA NewConnType ==
  ASSUME UeT, nConn < MaxConns
  PROVE  NewConn \in Conns
  BY Bounds DEF UeT, NewConn, Conns

LEMMA NewGnBUeType ==
  ASSUME NEW g \in AnyGnb, NEW c \in Zero(Conns)
  PROVE  NewGnBUe(g, c) \in CtxRec /\ NewGnBUe(g, c).sock = c /\ NewGnBUe(g, c).src = 0
  BY DEF NewGnBUe, NoCtx, CtxRec, Zero, AnyGnb

-----------------------------------------------------------------------------
(* One lemma per action.  The steps of the UE.                             *)

LEMMA TriggerN2Step ==
  ASSUME IInv, NEW t \in Gnbs, TriggerN2(t)
  PROVE  IInv'
<1>1. GnbT' /\ SocksKept
    BY SameGnb DEF TriggerN2
<1>2. UeT'
    BY Groups DEF TriggerN2, UeT
<1>3. OpT'
    BY Groups, MaxAssumption DEF TriggerN2, CanCall, OpT, CallInv, Quiet
<1>4. AmfT'
    BY <1>1, SameAmf DEF TriggerN2
<1> DEFINE ms == Write("n2", uConn, uId, t)
<1>5. faulty' \in BOOLEAN /\ msgs' \subseteq msgs \cup ms
    BY Groups DEF TriggerN2, Replace, Send
<1>6. \A n \in ms : n \in MsgRec /\ MsgOK(n)'
    BY Groups, Bounds DEF Write, UeT, AnyGnb, MsgRec, MsgOK, Msg, Kinds, Places
<1> HIDE DEF ms
<1> QED BY <1>1, <1>2, <1>3, <1>4, <1>5, <1>6, Assemble

LEMMA TriggerXnStep ==
  ASSUME IInv, NEW t \in Gnbs, TriggerXn(t)
  PROVE  IInv'
<1>1. GnbT' /\ SocksKept
    BY SameGnb DEF TriggerXn
<1>2. UeT'
    BY SameUe DEF TriggerXn
<1>3. OpT'
    BY Groups, MaxAssumption DEF TriggerXn, CanCall, OpT, CallInv, Quiet, UeT, AnyGnb, Zero
<1>4. AmfT'
    BY <1>1, SameAmf DEF TriggerXn
<1> DEFINE ms == {}
<1>5. faulty' \in BOOLEAN /\ msgs' \subseteq msgs \cup ms
    BY Groups DEF TriggerXn, Replace, Send
<1>6. \A n \in ms : n \in MsgRec /\ MsgOK(n)'
    OBVIOUS
<1> HIDE DEF ms
<1> QED BY <1>1, <1>2, <1>3, <1>4, <1>5, <1>6, Assemble

LEMMA XnCloseStep ==
  ASSUME IInv, XnClose
  PROVE  IInv'
<1>1. GnbT' /\ SocksKept
    BY SameGnb DEF XnClose
<1>2. UeT'
    BY Groups DEF XnClose, Close, UeT
<1>3. OpT'
    BY Groups DEF XnClose, OpT, CallInv
<1>4. AmfT'
    BY <1>1, SameAmf DEF XnClose
<1> DEFINE ms == {}
<1>5. faulty' \in BOOLEAN /\ msgs' \subseteq msgs \cup ms
    BY Groups DEF XnClose, Replace, Send
<1>6. \A n \in ms : n \in MsgRec /\ MsgOK(n)'
    OBVIOUS
<1> HIDE DEF ms
<1> QED BY <1>1, <1>2, <1>3, <1>4, <1>5, <1>6, Assemble

LEMMA XnDialStep ==
  ASSUME IInv, XnDial
  PROVE  IInv'
<1>0. UeT /\ call.g \in Gnbs /\ call.g \in AnyGnb /\ NewConn \in Conns
    BY Groups, NewConnType DEF XnDial, Connect, OpT, CallInv, AnyGnb
<1>1. GnbT' /\ SocksKept
    BY SameGnb DEF XnDial
<1>2. UeT'
    BY <1>0 DEF XnDial, Connect, UeT, NewConn
<1>3. OpT'
    BY Groups DEF XnDial, OpT, CallInv, Idle, AnyGnb, Zero
<1>4. AmfT'
    BY <1>1, SameAmf DEF XnDial
<1> DEFINE ms == {Listen, Msg("ps", "conn", NewConn, uId, NoGnb)}
<1>5. faulty' \in BOOLEAN /\ msgs' \subseteq msgs \cup ms
    BY Groups DEF XnDial, Replace, Send
<1>6. \A n \in ms : n \in MsgRec /\ MsgOK(n)'
    BY <1>0, Bounds DEF UeT, AnyGnb, Listen, NewConn, MsgRec, MsgOK, Msg, Kinds, Places
<1> HIDE DEF ms
<1> QED BY <1>1, <1>2, <1>3, <1>4, <1>5, <1>6, Assemble

LEMMA XnDialFailsStep ==
  ASSUME IInv, XnDialFails
  PROVE  IInv'
<1>1. GnbT' /\ SocksKept
    BY SameGnb DEF XnDialFails
<1>2. UeT'
    BY SameUe DEF XnDialFails
<1>3. OpT'
    BY Groups DEF XnDialFails, OpT, CallInv, Idle, AnyGnb, Zero
<1>4. AmfT'
    BY <1>1, SameAmf DEF XnDialFails
<1> DEFINE ms == {}
<1>5. faulty' \in BOOLEAN /\ msgs' \subseteq msgs \cup ms
    BY Groups DEF XnDialFails, Replace, Send
<1>6. \A n \in ms : n \in MsgRec /\ MsgOK(n)'
    OBVIOUS
<1> HIDE DEF ms
<1> QED BY <1>1, <1>2, <1>3, <1>4, <1>5, <1>6, Assemble

LEMMA UeListenStep ==
  ASSUME IInv, NEW m \in msgs, UeListen(m)
  PROVE  IInv'
<1>1. GnbT' /\ SocksKept
    BY SameGnb DEF UeListen
<1>2. UeT'
    BY Groups DEF UeListen, UeT
<1>3. OpT'
    BY SameOp DEF UeListen
<1>4. AmfT'
    BY <1>1, SameAmf DEF UeListen
<1> DEFINE ms == {}
<1>5. faulty' \in BOOLEAN /\ msgs' \subseteq msgs \cup ms
    BY Groups DEF UeListen, Replace, Send
<1>6. \A n \in ms : n \in MsgRec /\ MsgOK(n)'
    OBVIOUS
<1> HIDE DEF ms
<1> QED BY <1>1, <1>2, <1>3, <1>4, <1>5, <1>6, Assemble

LEMMA UeReadsStep ==
  ASSUME IInv, NEW m \in msgs, UeReads(m)
  PROVE  IInv'
<1>1. GnbT' /\ SocksKept
    BY SameGnb DEF UeReads
<1>2. UeT'
    BY SameUe DEF UeReads
<1>3. OpT'
    BY SameOp DEF UeReads
<1>4. AmfT'
    BY <1>1, SameAmf DEF UeReads
<1> DEFINE ms == {[m EXCEPT !.at = "ue"]}
<1>5. faulty' \in BOOLEAN /\ msgs' \subseteq msgs \cup ms
    BY Groups DEF UeReads, Replace, Send
<1>6. \A n \in ms : n \in MsgRec /\ MsgOK(n)'
    BY AMsg DEF UeReads, MsgRec, MsgOK, Msg, Kinds, Places
<1> HIDE DEF ms
<1> QED BY <1>1, <1>2, <1>3, <1>4, <1>5, <1>6, Assemble

LEMMA DispatchUpdateStep ==
  ASSUME IInv, NEW m \in msgs, DispatchUpdate(m)
  PROVE  IInv'
<1>1. GnbT' /\ SocksKept
    BY SameGnb DEF DispatchUpdate
<1>2. UeT'
    BY Groups, AMsg DEF DispatchUpdate, UeT, MsgOK
<1>3. OpT'
    BY SameOp DEF DispatchUpdate
<1>4. AmfT'
    BY <1>1, SameAmf DEF DispatchUpdate
<1> DEFINE ms == {}
<1>5. faulty' \in BOOLEAN /\ msgs' \subseteq msgs \cup ms
    BY Groups DEF DispatchUpdate, Replace, Send
<1>6. \A n \in ms : n \in MsgRec /\ MsgOK(n)'
    OBVIOUS
<1> HIDE DEF ms
<1> QED BY <1>1, <1>2, <1>3, <1>4, <1>5, <1>6, Assemble

LEMMA DispatchReleaseStep ==
  ASSUME IInv, NEW m \in msgs, DispatchRelease(m)
  PROVE  IInv'
<1>1. GnbT' /\ SocksKept
    BY SameGnb DEF DispatchRelease
<1>2. UeT'
    BY Groups DEF DispatchRelease, UeT
<1>3. OpT'
    BY SameOp DEF DispatchRelease
<1>4. AmfT'
    BY <1>1, SameAmf DEF DispatchRelease
<1> DEFINE ms == {}
<1>5. faulty' \in BOOLEAN /\ msgs' \subseteq msgs \cup ms
    BY Groups DEF DispatchRelease, Replace, Send
<1>6. \A n \in ms : n \in MsgRec /\ MsgOK(n)'
    OBVIOUS
<1> HIDE DEF ms
<1> QED BY <1>1, <1>2, <1>3, <1>4, <1>5, <1>6, Assemble

LEMMA DispatchCommandStep ==
  ASSUME IInv, NEW m \in msgs, DispatchCommand(m)
  PROVE  IInv'
<1>1. GnbT' /\ SocksKept
    BY SameGnb DEF DispatchCommand
<1>2. UeT'
    BY Groups DEF DispatchCommand, Close, UeT
<1>3. OpT'
    BY SameOp DEF DispatchCommand
<1>4. AmfT'
    BY <1>1, SameAmf DEF DispatchCommand
<1> DEFINE ms == {Msg("dial", "ue", m.x, m.id, uGnb)}
<1>5. faulty' \in BOOLEAN /\ msgs' \subseteq msgs \cup ms
    BY Groups DEF DispatchCommand, Replace, Send
<1>6. \A n \in ms : n \in MsgRec /\ MsgOK(n)'
    BY AMsg, Groups DEF UeT, AnyGnb, MsgRec, MsgOK, Msg, Kinds, Places
<1> HIDE DEF ms
<1> QED BY <1>1, <1>2, <1>3, <1>4, <1>5, <1>6, Assemble

LEMMA CommandDialStep ==
  ASSUME IInv, NEW m \in msgs, CommandDial(m)
  PROVE  IInv'
<1>0. UeT /\ m.g \in AnyGnb /\ NewConn \in Conns
    BY Groups, AMsg, NewConnType DEF CommandDial, Connect, MsgRec
<1>1. GnbT' /\ SocksKept
    BY SameGnb DEF CommandDial
<1>2. UeT'
    BY <1>0 DEF CommandDial, Connect, UeT, NewConn
<1>3. OpT'
    BY SameOp DEF CommandDial
<1>4. AmfT'
    BY <1>1, SameAmf DEF CommandDial
<1> DEFINE ms == {Listen, Msg("access", "conn", NewConn, uId, NoGnb)}
<1>5. faulty' \in BOOLEAN /\ msgs' \subseteq msgs \cup ms
    BY Groups DEF CommandDial, Replace, Send
<1>6. \A n \in ms : n \in MsgRec /\ MsgOK(n)'
    BY <1>0, Bounds DEF UeT, AnyGnb, Listen, NewConn, MsgRec, MsgOK, Msg, Kinds, Places
<1> HIDE DEF ms
<1> QED BY <1>1, <1>2, <1>3, <1>4, <1>5, <1>6, Assemble

LEMMA CommandDialFailsStep ==
  ASSUME IInv, NEW m \in msgs, CommandDialFails(m)
  PROVE  IInv'
<1>1. GnbT' /\ SocksKept
    BY SameGnb DEF CommandDialFails
<1>2. UeT'
    BY SameUe DEF CommandDialFails
<1>3. OpT'
    BY SameOp DEF CommandDialFails
<1>4. AmfT'
    BY <1>1, SameAmf DEF CommandDialFails
<1> DEFINE ms == {}
<1>5. faulty' \in BOOLEAN /\ msgs' \subseteq msgs \cup ms
    BY Groups DEF CommandDialFails, Replace, Send
<1>6. \A n \in ms : n \in MsgRec /\ MsgOK(n)'
    OBVIOUS
<1> HIDE DEF ms
<1> QED BY <1>1, <1>2, <1>3, <1>4, <1>5, <1>6, Assemble

LEMMA ResolveUeConnectionDetailsStep ==
  ASSUME IInv, NEW k \in Ctxs, ResolveUeConnectionDetails(k)
  PROVE  IInv'
<1>1. GnbT' /\ SocksKept
    BY SameGnb DEF ResolveUeConnectionDetails
<1>2. UeT'
    BY Groups DEF ResolveUeConnectionDetails, UeT, GnbT, CtxRec, Zero
<1>3. OpT'
    BY SameOp DEF ResolveUeConnectionDetails
<1>4. AmfT'
    BY <1>1, SameAmf DEF ResolveUeConnectionDetails
<1> DEFINE ms == {}
<1>5. faulty' \in BOOLEAN /\ msgs' \subseteq msgs \cup ms
    BY Groups DEF ResolveUeConnectionDetails, Replace, Send
<1>6. \A n \in ms : n \in MsgRec /\ MsgOK(n)'
    OBVIOUS
<1> HIDE DEF ms
<1> QED BY <1>1, <1>2, <1>3, <1>4, <1>5, <1>6, Assemble

LEMMA ConnectionReleaseStep ==
  ASSUME IInv, NEW k \in Ctxs, ConnectionRelease(k)
  PROVE  IInv'
<1>1. GnbT' /\ SocksKept
    BY SameGnb DEF ConnectionRelease
<1>2. UeT'
    BY SameUe DEF ConnectionRelease
<1>3. OpT'
    BY Groups DEF ConnectionRelease, OpT, CallInv
<1>4. AmfT'
    BY <1>1, SameAmf DEF ConnectionRelease
<1> DEFINE ms == {Msg("relreq", "amf", k, 0, NoGnb)}
<1>5. faulty' \in BOOLEAN /\ msgs' \subseteq msgs \cup ms
    BY Groups DEF ConnectionRelease, Replace, Send
<1>6. \A n \in ms : n \in MsgRec /\ MsgOK(n)'
    BY Bounds DEF AnyGnb, MsgRec, MsgOK, Msg, Kinds, Places
<1> HIDE DEF ms
<1> QED BY <1>1, <1>2, <1>3, <1>4, <1>5, <1>6, Assemble

(* The steps of the gNBs.                                                  *)

LEMMA AcceptStep ==
  ASSUME IInv, NEW c \in Conns, Accept(c)
  PROVE  IInv'
<1>1. GnbT' /\ SocksKept
  <2> DEFINE r == NewGnBUe(link[c], c)
  <2>1. r \in CtxRec /\ r.sock = c /\ r.src = 0
      BY Groups, NewGnBUeType DEF UeT, Zero
  <2> HIDE DEF r
  <2>2. ctx' = [ctx EXCEPT ![NewCtx] = r] /\ owner' = [owner EXCEPT ![c] = NewCtx]
        /\ nCtx' = NewCtx /\ nCtx < MaxCtxs
      BY DEF Accept, r
  <2> QED BY <2>1, <2>2, Bounds, NewCtxStep
<1>2. UeT'
    BY SameUe DEF Accept
<1>3. OpT'
    BY SameOp DEF Accept
<1>4. AmfT'
    BY <1>1, SameAmf DEF Accept
<1> DEFINE ms == {}
<1>5. faulty' \in BOOLEAN /\ msgs' \subseteq msgs \cup ms
    BY Groups DEF Accept, Replace, Send
<1>6. \A n \in ms : n \in MsgRec /\ MsgOK(n)'
    OBVIOUS
<1> HIDE DEF ms
<1> QED BY <1>1, <1>2, <1>3, <1>4, <1>5, <1>6, Assemble

LEMMA ProcessingConnStep ==
  ASSUME IInv, NEW m \in msgs, NEW k \in Ctxs, ProcessingConn(m, k)
  PROVE  IInv'
<1>1. GnbT' /\ SocksKept
    BY SameGnb DEF ProcessingConn
<1>2. UeT'
    BY SameUe DEF ProcessingConn
<1>3. OpT'
    BY SameOp DEF ProcessingConn
<1>4. AmfT'
    BY <1>1, SameAmf DEF ProcessingConn
<1> DEFINE ms == {[m EXCEPT !.at = "ctx", !.x = k]}
<1>5. faulty' \in BOOLEAN /\ msgs' \subseteq msgs \cup ms
    BY Groups DEF ProcessingConn, Replace, Send
<1>6. \A n \in ms : n \in MsgRec /\ MsgOK(n)'
  <2>1. HasSock(k)
      BY Groups, AMsg, Bounds DEF ProcessingConn, ActiveUe, HasSock, MsgOK, GnbT, OwnerInv
  <2>2. HasSock(k)'
      BY <1>1, <2>1 DEF HasSock, SocksKept
  <2>3. m \in MsgRec /\ m.id \in Ids /\ m.k \in {"n2", "access", "ps"} /\ k \in Nat
      BY AMsg, Bounds DEF ProcessingConn, MsgOK
  <2> DEFINE n == [m EXCEPT !.at = "ctx", !.x = k]
  <2>4. n \in MsgRec /\ n.k = m.k /\ n.id = m.id /\ n.x = k /\ n.at = "ctx"
      BY <2>3 DEF MsgRec, Places
  <2> HIDE DEF n
  <2>5. MsgOK(n)'
      BY <2>2, <2>3, <2>4 DEF MsgOK
  <2> QED BY <2>4, <2>5 DEF n
<1> HIDE DEF ms
<1> QED BY <1>1, <1>2, <1>3, <1>4, <1>5, <1>6, Assemble

LEMMA HandleN2HandoverTriggerStep ==
  ASSUME IInv, NEW m \in msgs, HandleN2HandoverTrigger(m)
  PROVE  IInv'
<1>1. GnbT' /\ SocksKept
  <2>1. m.id \in Ids /\ m.x \in Ctxs
      BY AMsg DEF HandleN2HandoverTrigger, MsgOK, HasSock
  <2>2. SocksAlone
      BY <2>1, Groups, Bounds DEF HandleN2HandoverTrigger, SocksAlone, GnbT, CtxRec, Zero
  <2> QED BY <2>2, SameSocks
<1>2. UeT'
    BY SameUe DEF HandleN2HandoverTrigger
<1>3. OpT'
    BY SameOp DEF HandleN2HandoverTrigger
<1>4. AmfT'
    BY <1>1, SameAmf DEF HandleN2HandoverTrigger
<1> DEFINE ms == {[m EXCEPT !.k = "required", !.at = "amf"]} \cup Update(m.x, m.id)
<1>5. faulty' \in BOOLEAN /\ msgs' \subseteq msgs \cup ms
    BY Groups DEF HandleN2HandoverTrigger, Replace, Send
<1>6. \A n \in ms : n \in MsgRec /\ MsgOK(n)'
  <2>1. HasSock(m.x)'
      BY <1>1, AMsg DEF HandleN2HandoverTrigger, HasSock, SocksKept, MsgOK
  <2>2. [m EXCEPT !.k = "required", !.at = "amf"] \in MsgRec
        /\ MsgOK([m EXCEPT !.k = "required", !.at = "amf"])'
      BY <2>1, AMsg DEF HandleN2HandoverTrigger, MsgRec, MsgOK, Msg, Kinds, Places
  <2>3. m.id \in Ids
      BY AMsg DEF HandleN2HandoverTrigger, MsgOK
  <2> QED BY <2>2, <2>3, UpdateOK
<1> HIDE DEF ms
<1> QED BY <1>1, <1>2, <1>3, <1>4, <1>5, <1>6, Assemble

LEMMA HandlePathSwitchTriggerStep ==
  ASSUME IInv, NEW m \in msgs, HandlePathSwitchTrigger(m)
  PROVE  IInv'
<1>1. GnbT' /\ SocksKept
  <2>1. m.id \in Ids /\ m.x \in Ctxs
      BY AMsg DEF HandlePathSwitchTrigger, MsgOK, HasSock
  <2>2. SocksAlone
      BY <2>1, Groups, Bounds DEF HandlePathSwitchTrigger, SocksAlone, GnbT, CtxRec, Zero
  <2> QED BY <2>2, SameSocks
<1>2. UeT'
    BY SameUe DEF HandlePathSwitchTrigger
<1>3. OpT'
    BY SameOp DEF HandlePathSwitchTrigger
<1>4. AmfT'
    BY <1>1, SameAmf DEF HandlePathSwitchTrigger
<1> DEFINE ms == {[m EXCEPT !.k = "psreq", !.at = "amf"]} \cup Update(m.x, m.id)
<1>5. faulty' \in BOOLEAN /\ msgs' \subseteq msgs \cup ms
    BY Groups DEF HandlePathSwitchTrigger, Replace, Send
<1>6. \A n \in ms : n \in MsgRec /\ MsgOK(n)'
  <2>1. HasSock(m.x)'
      BY <1>1, AMsg DEF HandlePathSwitchTrigger, HasSock, SocksKept, MsgOK
  <2>2. [m EXCEPT !.k = "psreq", !.at = "amf"] \in MsgRec
        /\ MsgOK([m EXCEPT !.k = "psreq", !.at = "amf"])'
      BY <2>1, AMsg DEF HandlePathSwitchTrigger, MsgRec, MsgOK, Msg, Kinds, Places
  <2>3. m.id \in Ids
      BY AMsg DEF HandlePathSwitchTrigger, MsgOK
  <2> QED BY <2>2, <2>3, UpdateOK
<1> HIDE DEF ms
<1> QED BY <1>1, <1>2, <1>3, <1>4, <1>5, <1>6, Assemble

LEMMA HandleTargetAccessStep ==
  ASSUME IInv, NEW m \in msgs, NEW k \in Ctxs, HandleTargetAccess(m, k)
  PROVE  IInv'
<1>1. GnbT' /\ SocksKept
  <2>1. m.x \in Ctxs /\ ctx[m.x].sock # 0
      BY AMsg DEF HandleTargetAccess, MsgOK, HasSock
  <2> DEFINE r == [ctx[k] EXCEPT !.sock = ctx[m.x].sock, !.st = "ready"]
  <2>6. ctx \in [Ctxs -> CtxRec]
      BY Groups DEF GnbT
  <2>7. r \in CtxRec /\ r.sock = ctx[m.x].sock /\ r.src = ctx[k].src /\ r.amf = ctx[k].amf
        /\ r.pool = ctx[k].pool
      BY <2>1, <2>6 DEF CtxRec
  <2>8. UNCHANGED <<nCtx, owner>> /\ ctx' = [ctx EXCEPT ![k] = r]
      BY <2>6 DEF HandleTargetAccess
  <2> HIDE DEF r
  <2>2. /\ ctx' \in [Ctxs -> CtxRec] /\ UNCHANGED <<nCtx, owner>> /\ ctx'[k] = r
        /\ \A j \in Ctxs : j # k => ctx'[j] = ctx[j]
      BY <2>6, <2>7, <2>8
  <2>3. k <= nCtx
      BY Groups, Bounds DEF HandleTargetAccess, Prepared, Pool, GnbT, CtxInv
  <2>4. SocksKept /\ CtxInv'
      BY <2>1, <2>2, <2>3, <2>7, Groups, Bounds DEF GnbT, CtxInv, SocksKept
  <2>5. OwnerInv'
      BY <2>2, <2>4, Groups DEF GnbT, OwnerInv, HasSock, SocksKept
  <2> QED BY <2>2, <2>4, <2>5, Groups DEF GnbT
<1>2. UeT'
    BY SameUe DEF HandleTargetAccess
<1>3. OpT'
    BY SameOp DEF HandleTargetAccess
<1>4. AmfT'
    BY <1>1, SameAmf DEF HandleTargetAccess
<1> DEFINE ms == {[m EXCEPT !.k = "swapped", !.id = k]}
              \cup (IF ctx[k].amf = m.id THEN {}
                    ELSE Update(m.x, ctx[k].amf))
<1>5. faulty' \in BOOLEAN /\ msgs' \subseteq msgs \cup ms
    BY Groups DEF HandleTargetAccess, Replace, Send
<1>6. \A n \in ms : n \in MsgRec /\ MsgOK(n)'
  <2>1. m \in MsgRec /\ m.id \in Ids /\ HasSock(m.x) /\ k \in Nat
      BY AMsg, Bounds DEF HandleTargetAccess, MsgOK
  <2>2. HasSock(k)'
      BY <2>1, Groups DEF HandleTargetAccess, HasSock, GnbT, CtxRec
  <2>3. ctx[k].amf # m.id => ctx[k].amf \in Ids
      BY <2>1, Groups, Bounds DEF HandleTargetAccess, Prepared, Pool, GnbT, CtxInv, CtxRec, Zero
  <2>4. \A n \in {[m EXCEPT !.k = "swapped", !.id = k]} : n \in MsgRec /\ MsgOK(n)'
      BY <2>1, <2>2 DEF HandleTargetAccess, MsgRec, MsgOK, Msg, Kinds, Places
  <2>5. ASSUME ctx[k].amf # m.id, NEW n \in Update(m.x, ctx[k].amf)
        PROVE  n \in MsgRec /\ MsgOK(n)'
      BY <2>3, <2>5, UpdateOK
  <2> QED BY <2>4, <2>5
<1> HIDE DEF ms
<1> QED BY <1>1, <1>2, <1>3, <1>4, <1>5, <1>6, Assemble

LEMMA HandleTargetAccessUnknownStep ==
  ASSUME IInv, NEW m \in msgs, HandleTargetAccessUnknown(m)
  PROVE  IInv'
<1>1. GnbT' /\ SocksKept
    BY SameGnb DEF HandleTargetAccessUnknown
<1>2. UeT'
    BY SameUe DEF HandleTargetAccessUnknown
<1>3. OpT'
    BY SameOp DEF HandleTargetAccessUnknown
<1>4. AmfT'
    BY <1>1, SameAmf DEF HandleTargetAccessUnknown
<1> DEFINE ms == {}
<1>5. faulty' \in BOOLEAN /\ msgs' \subseteq msgs \cup ms
    BY Groups DEF HandleTargetAccessUnknown, Replace, Send
<1>6. \A n \in ms : n \in MsgRec /\ MsgOK(n)'
    OBVIOUS
<1> HIDE DEF ms
<1> QED BY <1>1, <1>2, <1>3, <1>4, <1>5, <1>6, Assemble

LEMMA HandleTargetAccessEndsStep ==
  ASSUME IInv, NEW m \in msgs, HandleTargetAccessEnds(m)
  PROVE  IInv'
<1>1. GnbT' /\ SocksKept
  <2>1. SocksAlone
      BY PoolStep DEF HandleTargetAccessEnds
  <2> QED BY <2>1, SameSocks
<1>2. UeT'
    BY SameUe DEF HandleTargetAccessEnds
<1>3. OpT'
    BY SameOp DEF HandleTargetAccessEnds
<1>4. AmfT'
    BY <1>1, SameAmf DEF HandleTargetAccessEnds
<1> DEFINE ms == {Msg("notify", "amf", m.id, 0, NoGnb)}
<1>5. faulty' \in BOOLEAN /\ msgs' \subseteq msgs \cup ms
    BY Groups DEF HandleTargetAccessEnds, Replace, Send
<1>6. \A n \in ms : n \in MsgRec /\ MsgOK(n)'
  <2>1. HasSock(m.id)' /\ m.id \in Nat
      BY <1>1, AMsg DEF HandleTargetAccessEnds, HasSock, SocksKept, MsgOK, MsgRec
  <2> QED BY <2>1 DEF AnyGnb, MsgRec, MsgOK, Msg, Kinds, Places
<1> HIDE DEF ms
<1> QED BY <1>1, <1>2, <1>3, <1>4, <1>5, <1>6, Assemble

LEMMA HandlerHandoverRequestStep ==
  ASSUME IInv, NEW m \in msgs, HandlerHandoverRequest(m)
  PROVE  IInv'
<1>1. GnbT' /\ SocksKept
  <2> DEFINE r == [NewGnBUe(m.g, 0) EXCEPT !.amf = m.id, !.src = m.x, !.st = "ongoing"]
  <2>0. /\ m.g \in AnyGnb /\ m.id \in Ids /\ m.x \in Ids
        /\ NewGnBUe(m.g, 0) \in CtxRec
      BY AMsg, NewGnBUeType DEF HandlerHandoverRequest, MsgOK, MsgRec, Zero
  <2>1. r \in CtxRec /\ r.amf # 0
      BY <2>0, Bounds DEF CtxRec, Zero
  <2> HIDE DEF r
  <2>2. ctx' = [ctx EXCEPT ![NewCtx] = r] /\ UNCHANGED owner
        /\ nCtx' = NewCtx /\ nCtx < MaxCtxs
      BY DEF HandlerHandoverRequest, r
  <2> QED BY <2>1, <2>2, NewCtxStep
<1>2. UeT'
    BY SameUe DEF HandlerHandoverRequest
<1>3. OpT'
    BY SameOp DEF HandlerHandoverRequest
<1>4. AmfT'
    BY <1>1, SameAmf DEF HandlerHandoverRequest
<1> DEFINE ms == {Msg("ack", "amf", NewCtx, m.id, NoGnb)}
<1>5. faulty' \in BOOLEAN /\ msgs' \subseteq msgs \cup ms
    BY Groups DEF HandlerHandoverRequest, Replace, Send
<1>6. \A n \in ms : n \in MsgRec /\ MsgOK(n)'
  <2>1. NewCtx \in Ctxs /\ NewCtx \in Nat
      BY Groups, Bounds DEF HandlerHandoverRequest, GnbT, NewCtx, Ctxs
  <2>2. m.id \in Ids /\ m.id \in Nat
      BY AMsg, Bounds DEF HandlerHandoverRequest, MsgOK
  <2> QED BY <2>1, <2>2 DEF AnyGnb, MsgRec, MsgOK, Msg, Kinds, Places
<1> HIDE DEF ms
<1> QED BY <1>1, <1>2, <1>3, <1>4, <1>5, <1>6, Assemble

LEMMA HandlerHandoverCommandStep ==
  ASSUME IInv, NEW m \in msgs, HandlerHandoverCommand(m)
  PROVE  IInv'
<1>1. GnbT' /\ SocksKept
    BY SameGnb DEF HandlerHandoverCommand
<1>2. UeT'
    BY SameUe DEF HandlerHandoverCommand
<1>3. OpT'
    BY SameOp DEF HandlerHandoverCommand
<1>4. AmfT'
    BY <1>1, SameAmf DEF HandlerHandoverCommand
<1> DEFINE ms == Write("cmd", ctx[m.x].sock, m.id, NoGnb)
<1>5. faulty' \in BOOLEAN /\ msgs' \subseteq msgs \cup ms
    BY Groups DEF HandlerHandoverCommand, Replace, Send
<1>6. \A n \in ms : n \in MsgRec /\ MsgOK(n)'
    BY AMsg, Groups, Bounds DEF Write, UeT, AnyGnb, MsgRec, MsgOK, Msg, Kinds, Places
<1> HIDE DEF ms
<1> QED BY <1>1, <1>2, <1>3, <1>4, <1>5, <1>6, Assemble

LEMMA HandlerUeContextReleaseCommandStep ==
  ASSUME IInv, NEW m \in msgs, HandlerUeContextReleaseCommand(m)
  PROVE  IInv'
<1>1. GnbT' /\ SocksKept
  <2>1. CASE UNCHANGED ctx
      BY <2>1, SameGnb DEF HandlerUeContextReleaseCommand, gnbVars
  <2>2. CASE ctx' = [ctx EXCEPT ![m.x].st = "initialized"]
      BY <2>2, StateStep, SameSocks DEF HandlerUeContextReleaseCommand
  <2> QED BY <2>1, <2>2 DEF HandlerUeContextReleaseCommand
<1>2. UeT'
    BY SameUe DEF HandlerUeContextReleaseCommand
<1>3. OpT'
    BY SameOp DEF HandlerUeContextReleaseCommand
<1>4. AmfT'
    BY <1>1, SameAmf DEF HandlerUeContextReleaseCommand
<1> DEFINE ms == Write("rel", ctx[m.x].sock, 0, NoGnb)
<1>5. faulty' \in BOOLEAN /\ msgs' \subseteq msgs \cup ms
    BY Groups DEF HandlerUeContextReleaseCommand, Replace, Send
<1>6. \A n \in ms : n \in MsgRec /\ MsgOK(n)'
    BY Groups, Bounds DEF Write, UeT, AnyGnb, MsgRec, MsgOK, Msg, Kinds, Places
<1> HIDE DEF ms
<1> QED BY <1>1, <1>2, <1>3, <1>4, <1>5, <1>6, Assemble

LEMMA HandlerPathSwitchRequestAcknowledgeStep ==
  ASSUME IInv, NEW m \in msgs, HandlerPathSwitchRequestAcknowledge(m)
  PROVE  IInv'
<1>1. GnbT' /\ SocksKept
  <2>1. m.id \in Ids
      BY AMsg DEF HandlerPathSwitchRequestAcknowledge, MsgOK
  <2>2. SocksAlone
      BY <2>1, Groups, Bounds
         DEF HandlerPathSwitchRequestAcknowledge, SocksAlone, GnbT, CtxRec, Zero
  <2> QED BY <2>2, SameSocks
<1>2. UeT'
    BY SameUe DEF HandlerPathSwitchRequestAcknowledge
<1>3. OpT'
    BY SameOp DEF HandlerPathSwitchRequestAcknowledge
<1>4. AmfT'
    BY <1>1, SameAmf DEF HandlerPathSwitchRequestAcknowledge
<1> DEFINE ms == {Msg("xnrel", "udp", 0, m.id, g) : g \in AnyGnb} \cup Update(m.x, m.id)
<1>5. faulty' \in BOOLEAN /\ msgs' \subseteq msgs \cup ms
    BY Groups DEF HandlerPathSwitchRequestAcknowledge, Replace, Send, FindUeInOtherGnb, GnbT, CtxRec
<1>6. \A n \in ms : n \in MsgRec /\ MsgOK(n)'
  <2>1. \A g \in AnyGnb : /\ Msg("xnrel", "udp", 0, m.id, g) \in MsgRec
                          /\ MsgOK(Msg("xnrel", "udp", 0, m.id, g))'
      BY AMsg DEF MsgRec, MsgOK, Msg, Kinds, Places
  <2>2. m.id \in Ids
      BY AMsg DEF HandlerPathSwitchRequestAcknowledge, MsgOK
  <2> QED BY <2>1, <2>2, UpdateOK
<1> HIDE DEF ms
<1> QED BY <1>1, <1>2, <1>3, <1>4, <1>5, <1>6, Assemble

LEMMA ProcessXnReleaseStep ==
  ASSUME IInv, NEW m \in msgs, ProcessXnRelease(m)
  PROVE  IInv'
<1>1. GnbT' /\ SocksKept
  <2>1. CASE UNCHANGED ctx
      BY <2>1, SameGnb DEF ProcessXnRelease, gnbVars
  <2>2. ASSUME NEW k \in Ctxs, ctx' = [ctx EXCEPT ![k].pool = FALSE] PROVE SocksAlone
      BY <2>2, PoolStep DEF ProcessXnRelease
  <2> QED BY <2>1, <2>2, SameSocks DEF ProcessXnRelease, Pool
<1>2. UeT'
    BY SameUe DEF ProcessXnRelease
<1>3. OpT'
    BY SameOp DEF ProcessXnRelease
<1>4. AmfT'
    BY <1>1, SameAmf DEF ProcessXnRelease
<1> DEFINE ms == {}
<1>5. faulty' \in BOOLEAN /\ msgs' \subseteq msgs \cup ms
    BY Groups DEF ProcessXnRelease, Replace, Send
<1>6. \A n \in ms : n \in MsgRec /\ MsgOK(n)'
    OBVIOUS
<1> HIDE DEF ms
<1> QED BY <1>1, <1>2, <1>3, <1>4, <1>5, <1>6, Assemble

LEMMA XnReleaseLostStep ==
  ASSUME IInv, NEW m \in msgs, XnReleaseLost(m)
  PROVE  IInv'
<1>1. GnbT' /\ SocksKept
    BY SameGnb DEF XnReleaseLost
<1>2. UeT'
    BY SameUe DEF XnReleaseLost
<1>3. OpT'
    BY SameOp DEF XnReleaseLost
<1>4. AmfT'
    BY <1>1, SameAmf DEF XnReleaseLost
<1> DEFINE ms == {}
<1>5. faulty' \in BOOLEAN /\ msgs' \subseteq msgs \cup ms
    BY Groups DEF XnReleaseLost, Replace, Send
<1>6. \A n \in ms : n \in MsgRec /\ MsgOK(n)'
    OBVIOUS
<1> HIDE DEF ms
<1> QED BY <1>1, <1>2, <1>3, <1>4, <1>5, <1>6, Assemble

(* The steps of the AMF.                                                   *)

LEMMA AmfHandoverRequiredStep ==
  ASSUME IInv, NEW m \in msgs, AmfHandoverRequired(m)
  PROVE  IInv'
<1>1. GnbT' /\ SocksKept
    BY SameGnb DEF AmfHandoverRequired
<1>2. UeT'
    BY SameUe DEF AmfHandoverRequired
<1>3. OpT'
    BY SameOp DEF AmfHandoverRequired
<1>4. AmfT'
  <2>1. HasSock(m.x)'
      BY <1>1, AMsg DEF AmfHandoverRequired, HasSock, SocksKept, MsgOK
  <2>2. HasSock(serving)'
      BY <1>1, Groups DEF AmfHandoverRequired, AmfT, AmfInv, HasSock, SocksKept
  <2>3. lastId + 1 \in Ids
      BY Groups, Bounds DEF AmfHandoverRequired, AmfT, Ids
  <2> QED BY <2>1, <2>2, <2>3, Groups, Bounds DEF AmfHandoverRequired, AmfT, AmfInv, HasSock, NoHo, Zero
<1> DEFINE ms == {Msg("request", "gnb", m.id, lastId + 1, m.g)}
<1>5. faulty' \in BOOLEAN /\ msgs' \subseteq msgs \cup ms
    BY Groups DEF AmfHandoverRequired, Replace, Send
<1>6. \A n \in ms : n \in MsgRec /\ MsgOK(n)'
  <2>1. lastId + 1 \in Ids /\ lastId + 1 \in Nat
      BY Groups, Bounds DEF AmfHandoverRequired, AmfT, Ids
  <2> QED BY <2>1, AMsg DEF AmfHandoverRequired, MsgRec, MsgOK, Msg, Kinds, Places
<1> HIDE DEF ms
<1> QED BY <1>1, <1>2, <1>3, <1>4, <1>5, <1>6, Assemble

LEMMA AmfRefusesStep ==
  ASSUME IInv, NEW m \in msgs, AmfRefuses(m)
  PROVE  IInv'
<1>1. GnbT' /\ SocksKept
    BY SameGnb DEF AmfRefuses
<1>2. UeT'
    BY SameUe DEF AmfRefuses
<1>3. OpT'
    BY SameOp DEF AmfRefuses
<1>4. AmfT'
    BY <1>1, SameAmf DEF AmfRefuses
<1> DEFINE ms == {}
<1>5. faulty' \in BOOLEAN /\ msgs' \subseteq msgs \cup ms
    BY Groups DEF AmfRefuses, Replace, Send
<1>6. \A n \in ms : n \in MsgRec /\ MsgOK(n)'
    OBVIOUS
<1> HIDE DEF ms
<1> QED BY <1>1, <1>2, <1>3, <1>4, <1>5, <1>6, Assemble

LEMMA AmfHandoverRequestAckStep ==
  ASSUME IInv, NEW m \in msgs, AmfHandoverRequestAck(m)
  PROVE  IInv'
<1>1. GnbT' /\ SocksKept
    BY SameGnb DEF AmfHandoverRequestAck
<1>2. UeT'
    BY SameUe DEF AmfHandoverRequestAck
<1>3. OpT'
    BY SameOp DEF AmfHandoverRequestAck
<1>4. AmfT'
  <2>1. serving' = serving /\ amfId' = amfId /\ lastId' = lastId /\ ho'.src = ho.src
        /\ ho'.id = ho.id
        /\ ho' \in [src : Zero(Ctxs), ctx : Zero(Ctxs), id : Zero(Ids)]
      BY Groups, AMsg DEF AmfHandoverRequestAck, AmfT, MsgOK, Zero
  <2>2. ho' # NoHo => ho # NoHo
      BY Groups, AMsg, Bounds DEF AmfHandoverRequestAck, AmfT, MsgOK, NoHo
  <2> QED BY <1>1, <2>1, <2>2, Groups DEF AmfT, AmfInv, HasSock, SocksKept
<1> DEFINE ms == IF ho.id = m.id THEN {Msg("command", "gnb", ho.src, m.id, NoGnb)} ELSE {}
<1>5. faulty' \in BOOLEAN /\ msgs' \subseteq msgs \cup ms
    BY Groups DEF AmfHandoverRequestAck, Replace, Send
<1>6. \A n \in ms : n \in MsgRec /\ MsgOK(n)'
  <2>1. ho.id = m.id => HasSock(ho.src)
      BY Groups, AMsg, Bounds DEF AmfHandoverRequestAck, AmfT, AmfInv, NoHo, MsgOK
  <2>2. ASSUME NEW j, j = ho.src, ho.id = m.id PROVE HasSock(j)' /\ j \in Nat
      BY <1>1, <2>1, <2>2, Bounds DEF HasSock, SocksKept
  <2> QED BY <2>2, AMsg DEF AmfHandoverRequestAck, AnyGnb, MsgRec, MsgOK, Msg, Kinds, Places
<1> HIDE DEF ms
<1> QED BY <1>1, <1>2, <1>3, <1>4, <1>5, <1>6, Assemble

LEMMA AmfHandoverNotifyStep ==
  ASSUME IInv, NEW m \in msgs, AmfHandoverNotify(m)
  PROVE  IInv'
<1>1. GnbT' /\ SocksKept
    BY SameGnb DEF AmfHandoverNotify
<1>2. UeT'
    BY SameUe DEF AmfHandoverNotify
<1>3. OpT'
    BY SameOp DEF AmfHandoverNotify
<1>4. AmfT'
  <2>1. CASE ho # NoHo /\ ho.ctx = m.x
    <3>1. HasSock(m.x)
        BY AMsg DEF AmfHandoverNotify, MsgOK
    <3>2. serving' = m.x /\ ho' = NoHo /\ amfId' = ho.id /\ lastId' = lastId
        BY <2>1 DEF AmfHandoverNotify
    <3>3. ho.id \in Ids
        BY <2>1, Groups DEF AmfT, AmfInv, Zero
    <3>4. NoHo \in [src : Zero(Ctxs), ctx : Zero(Ctxs), id : Zero(Ids)]
        BY DEF NoHo, Zero
    <3> QED BY <1>1, <3>1, <3>2, <3>3, <3>4, Groups DEF AmfT, AmfInv, HasSock, SocksKept
  <2>2. CASE ~(ho # NoHo /\ ho.ctx = m.x)
      BY <1>1, <2>2, SameAmf DEF AmfHandoverNotify, amfVars
  <2> QED BY <2>1, <2>2
<1> DEFINE ms == {Msg("release", "gnb", ho.src, 0, NoGnb)}
<1>5. faulty' \in BOOLEAN /\ msgs' \subseteq msgs \cup ms
    BY Groups DEF AmfHandoverNotify, Replace, Send
<1>6. \A n \in ms : n \in MsgRec /\ MsgOK(n)'
  <2>1. ho.src \in Nat
      BY Groups, Bounds DEF AmfT, Zero
  <2> QED BY <2>1 DEF AnyGnb, MsgRec, MsgOK, Msg, Kinds, Places
<1> HIDE DEF ms
<1> QED BY <1>1, <1>2, <1>3, <1>4, <1>5, <1>6, Assemble

LEMMA AmfPathSwitchStep ==
  ASSUME IInv, NEW m \in msgs, AmfPathSwitch(m)
  PROVE  IInv'
<1>1. GnbT' /\ SocksKept
    BY SameGnb DEF AmfPathSwitch
<1>2. UeT'
    BY SameUe DEF AmfPathSwitch
<1>3. OpT'
    BY SameOp DEF AmfPathSwitch
<1>4. AmfT'
    BY <1>1, Groups, AMsg DEF AmfPathSwitch, SocksKept, MsgOK, AmfT, AmfInv, HasSock, NoHo, Zero
<1> DEFINE ms == {Msg("psack", "gnb", m.x, m.id, NoGnb)}
<1>5. faulty' \in BOOLEAN /\ msgs' \subseteq msgs \cup ms
    BY Groups DEF AmfPathSwitch, Replace, Send
<1>6. \A n \in ms : n \in MsgRec /\ MsgOK(n)'
    BY AMsg DEF AmfPathSwitch, AnyGnb, MsgRec, MsgOK, Msg, Kinds, Places
<1> HIDE DEF ms
<1> QED BY <1>1, <1>2, <1>3, <1>4, <1>5, <1>6, Assemble

LEMMA AmfReleaseRequestStep ==
  ASSUME IInv, NEW m \in msgs, AmfReleaseRequest(m)
  PROVE  IInv'
<1>1. GnbT' /\ SocksKept
    BY SameGnb DEF AmfReleaseRequest
<1>2. UeT'
    BY SameUe DEF AmfReleaseRequest
<1>3. OpT'
    BY SameOp DEF AmfReleaseRequest
<1>4. AmfT'
    BY <1>1, SameAmf DEF AmfReleaseRequest
<1> DEFINE ms == {Msg("release", "gnb", m.x, 0, NoGnb)}
<1>5. faulty' \in BOOLEAN /\ msgs' \subseteq msgs \cup ms
    BY Groups DEF AmfReleaseRequest, Replace, Send
<1>6. \A n \in ms : n \in MsgRec /\ MsgOK(n)'
    BY AMsg DEF AnyGnb, MsgRec, MsgOK, Msg, Kinds, Places
<1> HIDE DEF ms
<1> QED BY <1>1, <1>2, <1>3, <1>4, <1>5, <1>6, Assemble

LEMMA AmfGivesUpStep ==
  ASSUME IInv, AmfGivesUp
  PROVE  IInv'
<1>1. GnbT' /\ SocksKept
    BY SameGnb DEF AmfGivesUp
<1>2. UeT'
    BY SameUe DEF AmfGivesUp
<1>3. OpT'
    BY SameOp DEF AmfGivesUp
<1>4. AmfT'
    BY <1>1, Groups DEF AmfGivesUp, SocksKept, AmfT, AmfInv, HasSock, NoHo, Zero
<1> DEFINE ms == {}
<1>5. faulty' \in BOOLEAN /\ msgs' \subseteq msgs \cup ms
    BY Groups DEF AmfGivesUp, Replace, Send
<1>6. \A n \in ms : n \in MsgRec /\ MsgOK(n)'
    OBVIOUS
<1> HIDE DEF ms
<1> QED BY <1>1, <1>2, <1>3, <1>4, <1>5, <1>6, Assemble

-----------------------------------------------------------------------------
LEMMA IInvNext == IInv /\ [Next]_vars => IInv'
<1> SUFFICES ASSUME IInv, [Next]_vars PROVE IInv'
    OBVIOUS
<1>1. CASE UNCHANGED vars
  <2>1. GnbT' /\ SocksKept /\ UeT' /\ OpT'
      BY <1>1, SameGnb, SameUe, SameOp DEF vars
  <2>2. AmfT' /\ faulty' \in BOOLEAN
      BY <1>1, <2>1, SameAmf, Groups DEF vars
  <2> DEFINE ms == {}
  <2>3. msgs' \subseteq msgs \cup ms /\ \A n \in ms : n \in MsgRec /\ MsgOK(n)'
      BY <1>1 DEF vars
  <2> HIDE DEF ms
  <2> QED BY <2>1, <2>2, <2>3, Assemble
<1>2. CASE Calls
    BY <1>2, TriggerN2Step, TriggerXnStep, ResolveUeConnectionDetailsStep, ConnectionReleaseStep
    DEF Calls
<1>3. CASE Faults
    BY <1>3, XnDialFailsStep, AmfGivesUpStep, CommandDialFailsStep, XnReleaseLostStep DEF Faults
<1>4. CASE Steps
    BY <1>4, XnCloseStep, XnDialStep, AcceptStep, UeListenStep, UeReadsStep, DispatchUpdateStep,
       DispatchReleaseStep, DispatchCommandStep, CommandDialStep, HandleN2HandoverTriggerStep,
       HandlePathSwitchTriggerStep, HandleTargetAccessUnknownStep, HandleTargetAccessEndsStep,
       HandlerHandoverRequestStep, HandlerHandoverCommandStep, HandlerUeContextReleaseCommandStep,
       HandlerPathSwitchRequestAcknowledgeStep, ProcessXnReleaseStep, AmfHandoverRequiredStep,
       AmfRefusesStep, AmfHandoverRequestAckStep, AmfHandoverNotifyStep, AmfPathSwitchStep,
       AmfReleaseRequestStep, ProcessingConnStep, HandleTargetAccessStep
    DEF Steps
<1> QED BY <1>1, <1>2, <1>3, <1>4 DEF Next

LEMMA IInvAlways == Spec => []IInv
  BY InitIInv, IInvNext, PTL DEF Spec

(* Type correctness of the handover of a UE.                               *)
THEOREM TypeCorrect == Spec => []TypeOK
<1>1. IInv => TypeOK
    BY DEF IInv
<1> QED BY <1>1, IInvAlways, PTL

(* Neither the AMF's downlink messages for the UE nor a Handover Command   *)
(* meet a context without a socket, however handovers overlap and whatever *)
(* fails: only contexts that have a connection tell the AMF of the UE, and *)
(* none loses it.                                                          *)
THEOREM DownlinkCorrect == Spec => []DownlinkHasSocket
<1>1. IInv => DownlinkHasSocket
    BY Groups DEF DownlinkHasSocket, AmfT, AmfInv, HasSock, MsgOK
<1> QED BY <1>1, IInvAlways, PTL

-----------------------------------------------------------------------------
(* Handovers that do not overlap.  A connection and the contexts that have *)
(* it are of one gNB, and none is there before it is made.                 *)
PlaceInv ==
  /\ uConn <= nConn
  /\ \A c \in Conns : owner[c] # 0 \/ link[c] # NoGnb => c <= nConn
  /\ \A c \in Conns : owner[c] # 0 => ctx[owner[c]].gnb = link[c]
  /\ \A k \in Ctxs : ctx[k].sock # 0 =>
       ctx[k].sock <= nConn /\ ctx[k].gnb = link[ctx[k].sock]

(* The messages that are the handover itself: a release that nobody asked  *)
(* for ends one.  There is one at most, and none while the caller sleeps.  *)
Main(m) == m.k \notin {"listen", "upd", "relreq", "rel"} /\ (m.k = "release" => ~released)

LoneInv ==
  /\ \A m, n \in msgs : Main(m) /\ Main(n) => m = n
  /\ call.pc # "idle" => \A m \in msgs : ~Main(m)

(* The UE has one connection, or none between closing and dialling.        *)
ConnInv ==
  /\ open \subseteq {uConn}
  /\ call.pc = "sleep" => call.old = uConn
  /\ call.pc = "dial" => open = {}

(* A context that has only been accepted, a connection that has no other.  *)
Fresh(k) == k \in Ctxs /\ ctx[k].pool /\ ctx[k].amf = 0 /\ ctx[k].src = 0 /\ k # serving
FreshConn(c) ==
  /\ \A k \in Ctxs : ctx[k].sock = c => k = owner[c]
  /\ owner[c] # 0 => Fresh(owner[c]) /\ ctx[owner[c]].sock = c

(* What a handover has done when it has come to each of its messages: the  *)
(* old connection is closed before the UE accesses the target, so that the *)
(* release of the source cannot reach the UE, and nothing that deletes a   *)
(* context names the one that serves the UE.                               *)
StageOK(m) ==
  /\ m.k \in {"n2", "required", "request", "dial"} => m.g = uGnb
  /\ m.k = "access" /\ m.at = "conn" => link[m.x] = uGnb
  /\ m.k = "access" /\ m.at # "conn" => ctx[m.x].gnb = uGnb
  /\ m.k \in {"request", "ack", "command", "cmd", "dial", "access", "swapped", "notify"}
     /\ ho # NoHo => ctx[ho.src].gnb # uGnb
  /\ m.k = "dial" => open = {}
  /\ m.k \in {"access", "swapped", "notify"} /\ ho # NoHo => ctx[ho.src].sock \notin open
  /\ m.k = "release" /\ ~released => HasSock(m.x) /\ ctx[m.x].sock \notin open
  /\ m.k \in {"relreq", "rel"} => released
  /\ m.k \in {"access", "ps"} /\ m.at = "conn" => FreshConn(m.x)
  /\ m.k \in {"access", "ps"} /\ m.at # "conn" => Fresh(m.x)
  /\ m.k = "swapped" => m.x # m.id /\ m.x # serving /\ ctx[m.id].pool
  /\ m.k \in {"notify", "psreq"} => ctx[m.x].pool
  /\ m.k = "psack" => m.x = serving
  /\ m.k = "xnrel" => m.g # ctx[serving].gnb

OneInv ==
  ~hurried => /\ LoneInv /\ ConnInv /\ (tun \/ released) /\ ctx[serving].pool
              /\ \A m \in msgs : StageOK(m)

-----------------------------------------------------------------------------
LEMMA InitOne == Init => PlaceInv /\ OneInv
<1> SUFFICES ASSUME Init PROVE PlaceInv /\ OneInv
    OBVIOUS
<1> USE Bounds, HomeAssumption
<1>1. ctx[1].sock = 1 /\ ctx[1].gnb = Home /\ ctx[1].pool /\ \A k \in Ctxs : k # 1 => ctx[k].sock = 0
    BY DEF Init, NewGnBUe, NoCtx
<1>2. PlaceInv
  <2>1. /\ uConn = 1 /\ nConn = 1 /\ link[1] = Home /\ owner[1] = 1
        /\ \A c \in Conns : owner[c] # 0 \/ link[c] # NoGnb => c = 1
      BY DEF Init
  <2> QED BY <1>1, <2>1 DEF PlaceInv
<1>3. LoneInv /\ ConnInv /\ ctx[serving].pool /\ \A m \in msgs : StageOK(m)
    BY <1>1 DEF Init, LoneInv, ConnInv, Idle
<1> QED BY <1>2, <1>3 DEF OneInv, Init

(* Nothing that has a place moves.                                         *)
LEMMA PlaceKept ==
  ASSUME IInv, PlaceInv, UNCHANGED <<uConn, nConn, link, owner>>,
         \A k \in Ctxs : ctx'[k].sock = ctx[k].sock /\ ctx'[k].gnb = ctx[k].gnb
  PROVE  PlaceInv'
  BY Groups DEF PlaceInv, GnbT, Zero

LEMMA PlaceConnect ==
  ASSUME IInv, PlaceInv, NEW g, Connect(g), UNCHANGED <<ctx, owner>>
  PROVE  PlaceInv'
<1>1. NewConn \in Conns /\ NewConn = nConn + 1 /\ nConn \in Nat /\ uConn \in Nat
    BY Groups, NewConnType, Bounds DEF Connect, UeT, NewConn
<1>2. nConn' = NewConn /\ uConn' = NewConn /\ \A c \in Conns : c # NewConn => link'[c] = link[c]
    BY Groups DEF Connect, UeT
<1>3. \A k \in Ctxs : ctx[k].sock # 0 => ctx[k].sock \in Conns
    BY Groups DEF GnbT, CtxRec, Zero
<1>4. NewConn <= NewConn /\ \A c \in Conns : c <= nConn => c # NewConn /\ c <= NewConn
    BY <1>1, Bounds
<1>5. \A c \in Conns : (owner[c] # 0 \/ link'[c] # NoGnb) => c <= NewConn
    BY <1>1, <1>2, <1>4 DEF PlaceInv
<1>6. \A c \in Conns : owner[c] # 0 => link'[c] = link[c]
    BY <1>2, <1>4 DEF PlaceInv
<1>7. \A k \in Ctxs : ctx[k].sock # 0 =>
        ctx[k].sock <= NewConn /\ link'[ctx[k].sock] = link[ctx[k].sock]
    BY <1>2, <1>3, <1>4 DEF PlaceInv
<1> QED BY <1>2, <1>4, <1>5, <1>6, <1>7 DEF PlaceInv

LEMMA PlaceNewCtx ==
  ASSUME IInv, PlaceInv, UNCHANGED <<uConn, nConn, link>>, NEW r, nCtx < MaxCtxs,
         ctx' = [ctx EXCEPT ![NewCtx] = r],
         r.sock # 0 => r.sock <= nConn /\ r.gnb = link[r.sock],
         \/ UNCHANGED owner
         \/ r.sock \in Conns /\ link[r.sock] # NoGnb
            /\ r.gnb = link[r.sock] /\ owner' = [owner EXCEPT ![r.sock] = NewCtx]
  PROVE  PlaceInv'
<1>1. NewCtx \in Ctxs /\ NewCtx > nCtx /\ GnbT
    BY Groups, Bounds DEF GnbT, NewCtx, Ctxs
<1>2. ctx'[NewCtx] = r /\ \A k \in Ctxs : k # NewCtx => ctx'[k] = ctx[k]
    BY <1>1 DEF GnbT
<1>3. \A c \in Conns : owner[c] # 0 => owner[c] \in Ctxs /\ owner[c] # NewCtx
    BY <1>1 DEF GnbT, OwnerInv, HasSock, CtxInv
<1> QED BY <1>1, <1>2, <1>3, Bounds DEF PlaceInv, GnbT

-----------------------------------------------------------------------------
LEMMA Alone ==
  ASSUME LoneInv, NEW m \in msgs, Main(m)
  PROVE  call.pc = "idle" /\ \A n \in msgs \ {m} : ~Main(n)
  BY DEF LoneInv

(* A message that is no step of a handover is right at any stage.          *)
LEMMA SideOK ==
  ASSUME NEW n, ~Main(n)', n.k \in {"relreq", "rel"} => released'
  PROVE  StageOK(n)'
  BY DEF Main, StageOK

LEMMA UpdateSide ==
  ASSUME NEW k, NEW i, NEW d \in Update(k, i)
  PROVE  d.k = "upd" /\ ~Main(d) /\ StageOK(d)'
  BY DEF Update, Write, Msg, Main, StageOK

(* A step of the handover that is under way, or the first one.             *)
LEMMA OneStep ==
  ASSUME OneInv, ~hurried, NEW gone, NEW ms, msgs' \subseteq (msgs \ gone) \cup ms,
         \A n \in msgs \ gone : ~Main(n), UNCHANGED released,
         \A n1, n2 \in ms : Main(n1) /\ Main(n2) => n1 = n2,
         call'.pc # "idle" => \A n \in ms : ~Main(n),
         \A n \in ms : StageOK(n)', ConnInv', tun' \/ released', ctx'[serving'].pool
  PROVE  OneInv'
<1>1. \A n : Main(n)' <=> Main(n)
    BY DEF Main
<1>2. LoneInv'
    BY <1>1 DEF LoneInv
<1>3. \A n \in msgs \ gone : StageOK(n)'
    BY <1>1, SideOK DEF OneInv, StageOK
<1> QED BY <1>2, <1>3 DEF OneInv

CtxSame ==
  \A k \in Ctxs : /\ ctx'[k].gnb = ctx[k].gnb /\ ctx'[k].sock = ctx[k].sock
                  /\ ctx'[k].pool = ctx[k].pool /\ ctx'[k].amf = ctx[k].amf
                  /\ ctx'[k].src = ctx[k].src

(* What a stage says does not depend on the other variables.               *)
LEMMA StageKept ==
  ASSUME IInv, NEW m \in msgs, StageOK(m), CtxSame,
         UNCHANGED <<uGnb, link, open, owner, serving, ho, released>>
  PROVE  StageOK(m)'
<1>1. MsgOK(m) /\ serving \in Ctxs /\ (ho # NoHo => ho.src \in Ctxs)
    BY Groups DEF AmfT, AmfInv, HasSock
<1>2. \A k : Fresh(k) => Fresh(k)'
    BY DEF Fresh, CtxSame
<1>3. \A c \in Conns : FreshConn(c) => FreshConn(c)'
    BY <1>2 DEF FreshConn, Fresh, CtxSame
<1>4. \A k : HasSock(k) => HasSock(k)' /\ k \in Ctxs
    BY DEF HasSock, CtxSame
<1>5. /\ ctx'[serving].gnb = ctx[serving].gnb
      /\ ho # NoHo => ctx'[ho.src].gnb = ctx[ho.src].gnb /\ ctx'[ho.src].sock = ctx[ho.src].sock
    BY <1>1 DEF CtxSame
<1>6. m.k \in {"access", "ps"} =>
        /\ m.at = "conn" /\ FreshConn(m.x) => FreshConn(m.x)'
        /\ m.at # "conn" /\ Fresh(m.x) => Fresh(m.x)' /\ ctx'[m.x].gnb = ctx[m.x].gnb
    BY <1>1, <1>2, <1>3 DEF MsgOK, Fresh, CtxSame
<1>7. /\ m.k = "swapped" => ctx'[m.id].pool = ctx[m.id].pool
      /\ m.k \in {"notify", "psreq"} => ctx'[m.x].pool = ctx[m.x].pool
      /\ m.k = "release" /\ HasSock(m.x) => HasSock(m.x)' /\ ctx'[m.x].sock = ctx[m.x].sock
    BY <1>1, <1>4 DEF MsgOK, CtxSame
<1> QED BY <1>5, <1>6, <1>7 DEF StageOK

LEMMA OneSide ==
  ASSUME IInv, OneInv, ~hurried, CtxSame, NEW ms, msgs' \subseteq msgs \cup ms,
         UNCHANGED <<uGnb, link, open, owner, serving, ho, released, uConn, call>>,
         \A n \in ms : ~Main(n) /\ (n.k \in {"relreq", "rel"} => released),
         tun' \/ released'
  PROVE  OneInv'
<1>1. \A n : Main(n)' <=> Main(n)
    BY DEF Main
<1>2. LoneInv'
    BY <1>1 DEF LoneInv, OneInv
<1>3. \A n \in msgs' : StageOK(n)'
    BY <1>1, SideOK, StageKept DEF OneInv
<1>4. ConnInv' /\ ctx'[serving'].pool
    BY Groups DEF OneInv, ConnInv, CtxSame, AmfT
<1> QED BY <1>2, <1>3, <1>4 DEF OneInv

LEMMA SameCtx ==
  ASSUME UNCHANGED ctx
  PROVE  CtxSame
  BY DEF CtxSame

(* A step that loses messages at most, or changes what no stage looks at.  *)
LEMMA OneDrop ==
  ASSUME IInv, PlaceInv, OneInv, msgs' \subseteq msgs,
         UNCHANGED <<uConn, uGnb, tun, nConn, link, open, gnbVars, serving, ho, opVars>>
  PROVE  PlaceInv' /\ OneInv'
<1>1. UNCHANGED <<ctx, owner, call, released, hurried>>
    BY DEF gnbVars, opVars
<1>2. PlaceInv'
    BY <1>1, PlaceKept
<1> SUFFICES OneInv'
    BY <1>2
<1>3. CASE hurried
    BY <1>1, <1>3 DEF OneInv
<1>4. CASE ~hurried
  <2> DEFINE ms == {}
  <2>1. msgs' \subseteq msgs \cup ms /\ (tun' \/ released') /\ CtxSame
        /\ \A n \in ms : ~Main(n) /\ (n.k \in {"relreq", "rel"} => released)
      BY <1>1, <1>4, SameCtx DEF OneInv
  <2> HIDE DEF ms
  <2> QED BY <1>1, <1>4, <2>1, OneSide
<1> QED BY <1>3, <1>4

LEMMA TriggerN2One ==
  ASSUME IInv, PlaceInv, OneInv, NEW t \in Gnbs, TriggerN2(t)
  PROVE  PlaceInv' /\ OneInv'
<1>1. UNCHANGED <<uConn, nConn, link, owner, ctx, open, call, released, serving, tun>> /\ call = Idle
    BY DEF TriggerN2, CanCall, gnbVars, amfVars
<1>2. PlaceInv'
    BY <1>1, PlaceKept
<1> SUFFICES OneInv'
    BY <1>2
<1>3. CASE hurried'
    BY <1>3 DEF OneInv
<1>4. CASE ~hurried'
  <2>1. msgs = {} /\ ~hurried /\ uGnb' = t /\ msgs' = Write("n2", uConn, uId, t)
      BY <1>4 DEF TriggerN2, Quiet, Send
  <2> DEFINE ms == Write("n2", uConn, uId, t)
             gone == {}
  <2>2. \A n \in ms : n.k = "n2" /\ n.g = t /\ StageOK(n)'
      BY <2>1 DEF Write, Msg, StageOK
  <2>3. \A n1, n2 \in ms : Main(n1) /\ Main(n2) => n1 = n2
      BY DEF Write
  <2>4. msgs' \subseteq (msgs \ gone) \cup ms /\ \A n \in msgs \ gone : ~Main(n)
      BY <2>1
  <2>5. call'.pc = "idle" /\ ConnInv' /\ (tun' \/ released') /\ ctx'[serving'].pool
      BY <1>1, <2>1 DEF OneInv, ConnInv, Idle
  <2> HIDE DEF ms, gone
  <2> QED BY <1>1, <2>1, <2>2, <2>3, <2>4, <2>5, OneStep
<1> QED BY <1>3, <1>4

LEMMA TriggerXnOne ==
  ASSUME IInv, PlaceInv, OneInv, NEW t \in Gnbs, TriggerXn(t)
  PROVE  PlaceInv' /\ OneInv'
<1>1. UNCHANGED <<uConn, nConn, link, owner, ctx, open, released, serving, tun, msgs>>
      /\ call' = [pc |-> "sleep", old |-> uConn, g |-> t]
    BY DEF TriggerXn, ueVars, gnbVars, amfVars
<1>2. PlaceInv'
    BY <1>1, PlaceKept
<1> SUFFICES OneInv'
    BY <1>2
<1>3. CASE hurried'
    BY <1>3 DEF OneInv
<1>4. CASE ~hurried'
  <2>1. msgs = {} /\ ~hurried
      BY <1>4 DEF TriggerXn, Quiet
  <2> QED BY <1>1, <2>1 DEF OneInv, ConnInv, LoneInv
<1> QED BY <1>3, <1>4

LEMMA XnCloseOne ==
  ASSUME IInv, PlaceInv, OneInv, XnClose
  PROVE  PlaceInv' /\ OneInv'
<1>1. UNCHANGED <<uConn, nConn, link, owner, ctx, released, serving, tun, hurried>>
      /\ call.pc = "sleep" /\ call'.pc = "dial" /\ open' = open \ {call.old} /\ msgs' \subseteq msgs
    BY Groups DEF XnClose, gnbVars, amfVars, Close, OpT
<1>2. PlaceInv'
    BY <1>1, PlaceKept
<1> SUFFICES OneInv'
    BY <1>2
<1>3. CASE hurried
    BY <1>1, <1>3 DEF OneInv
<1>4. CASE ~hurried
  <2> DEFINE ms == {}
             gone == {}
  <2>1. msgs' \subseteq (msgs \ gone) \cup ms /\ \A n \in msgs \ gone : ~Main(n)
      BY <1>1, <1>4 DEF OneInv, LoneInv
  <2>2. ConnInv' /\ (tun' \/ released') /\ ctx'[serving'].pool
      BY <1>1, <1>4 DEF OneInv, ConnInv
  <2> QED BY <1>1, <1>4, <2>1, <2>2, OneStep
<1> QED BY <1>3, <1>4

(* A connection that was just made is no context's yet.                    *)
LEMMA NewConnFresh ==
  ASSUME IInv, PlaceInv, nConn < MaxConns, UNCHANGED <<ctx, owner>>, NEW d, d = NewConn
  PROVE  FreshConn(d)'
<1>1. d \in Conns /\ d = nConn + 1 /\ nConn \in Nat
    BY Groups, NewConnType, Bounds DEF UeT, NewConn
<1>2. owner[d] = 0
    BY <1>1 DEF PlaceInv
<1>3. \A k \in Ctxs : ctx[k].sock # d
    BY <1>1, Bounds DEF PlaceInv
<1> QED BY <1>2, <1>3 DEF FreshConn

LEMMA XnDialOne ==
  ASSUME IInv, PlaceInv, OneInv, XnDial
  PROVE  PlaceInv' /\ OneInv'
<1>1. UNCHANGED <<owner, ctx, released, serving, tun, hurried>> /\ call.pc = "dial" /\ call' = Idle
      /\ open' = open \cup {NewConn} /\ uConn' = NewConn /\ nConn < MaxConns
      /\ msgs' = msgs \cup {Listen, Msg("ps", "conn", NewConn, uId, NoGnb)}
    BY DEF XnDial, gnbVars, amfVars, Connect, Send
<1>2. PlaceInv'
    BY PlaceConnect DEF XnDial, gnbVars
<1> SUFFICES OneInv'
    BY <1>2
<1>3. CASE hurried
    BY <1>1, <1>3 DEF OneInv
<1>4. CASE ~hurried
  <2> DEFINE ms == {Listen, Msg("ps", "conn", NewConn, uId, NoGnb)}
             gone == {}
  <2>1. msgs' \subseteq (msgs \ gone) \cup ms /\ \A n \in msgs \ gone : ~Main(n)
      BY <1>1, <1>4 DEF OneInv, LoneInv
  <2>2. ConnInv' /\ (tun' \/ released') /\ ctx'[serving'].pool /\ call'.pc = "idle"
      BY <1>1, <1>4 DEF OneInv, ConnInv, Idle
  <2>3. \A n1, n2 \in ms : Main(n1) /\ Main(n2) => n1 = n2
      BY DEF Main, Listen, Msg
  <2>4. \A n \in ms : StageOK(n)'
    <3>1. PICK d : d = NewConn
        OBVIOUS
    <3>2. FreshConn(d)'
        BY <1>1, <3>1, NewConnFresh
    <3> QED BY <3>1, <3>2 DEF StageOK, Listen, Msg
  <2> HIDE DEF ms, gone
  <2> QED BY <1>1, <1>4, <2>1, <2>2, <2>3, <2>4, OneStep
<1> QED BY <1>3, <1>4

LEMMA XnDialFailsOne ==
  ASSUME IInv, PlaceInv, OneInv, XnDialFails
  PROVE  PlaceInv' /\ OneInv'
<1>1. UNCHANGED <<uConn, uGnb, nConn, link, open, owner, ctx, released, serving, ho, tun, hurried,
                  msgs>>
      /\ call' = Idle
    BY DEF XnDialFails, ueVars, gnbVars, amfVars
<1>2. PlaceInv'
    BY <1>1, PlaceKept
<1>3. CASE hurried
    BY <1>1, <1>2, <1>3 DEF OneInv
<1>4. CASE ~hurried
  <2>1. \A n \in msgs : StageOK(n)'
      BY <1>1, <1>4, SameCtx, StageKept DEF OneInv
  <2>2. LoneInv' /\ ConnInv'
      BY <1>1, <1>4 DEF OneInv, LoneInv, ConnInv, Idle, Main
  <2> QED BY <1>1, <1>2, <1>4, <2>1, <2>2 DEF OneInv
<1> QED BY <1>3, <1>4

LEMMA UeListenOne ==
  ASSUME IInv, PlaceInv, OneInv, NEW m \in msgs, UeListen(m)
  PROVE  PlaceInv' /\ OneInv'
  BY OneDrop DEF UeListen, Replace, amfVars

LEMMA DispatchUpdateOne ==
  ASSUME IInv, PlaceInv, OneInv, NEW m \in msgs, DispatchUpdate(m)
  PROVE  PlaceInv' /\ OneInv'
  BY OneDrop DEF DispatchUpdate, Replace, amfVars

LEMMA ResolveUeConnectionDetailsOne ==
  ASSUME IInv, PlaceInv, OneInv, NEW k \in Ctxs, ResolveUeConnectionDetails(k)
  PROVE  PlaceInv' /\ OneInv'
  BY OneDrop DEF ResolveUeConnectionDetails, amfVars

LEMMA CommandDialFailsOne ==
  ASSUME IInv, PlaceInv, OneInv, NEW m \in msgs, CommandDialFails(m)
  PROVE  PlaceInv' /\ OneInv'
  BY OneDrop DEF CommandDialFails, Replace, amfVars, ueVars

LEMMA XnReleaseLostOne ==
  ASSUME IInv, PlaceInv, OneInv, NEW m \in msgs, XnReleaseLost(m)
  PROVE  PlaceInv' /\ OneInv'
  BY OneDrop DEF XnReleaseLost, Replace, amfVars, ueVars

LEMMA AmfRefusesOne ==
  ASSUME IInv, PlaceInv, OneInv, NEW m \in msgs, AmfRefuses(m)
  PROVE  PlaceInv' /\ OneInv'
  BY OneDrop DEF AmfRefuses, Replace, amfVars, ueVars

LEMMA HandleTargetAccessUnknownOne ==
  ASSUME IInv, PlaceInv, OneInv, NEW m \in msgs, HandleTargetAccessUnknown(m)
  PROVE  PlaceInv' /\ OneInv'
  BY OneDrop DEF HandleTargetAccessUnknown, Replace, amfVars, ueVars

(* The UE's tunnels go only when a release was asked for.                  *)
LEMMA DispatchReleaseOne ==
  ASSUME IInv, PlaceInv, OneInv, NEW m \in msgs, DispatchRelease(m)
  PROVE  PlaceInv' /\ OneInv'
<1>1. UNCHANGED <<uConn, uGnb, nConn, link, open, owner, ctx, call, released, serving, ho, hurried>>
      /\ msgs' \subseteq msgs /\ m.k = "rel"
    BY DEF DispatchRelease, gnbVars, amfVars, opVars, Replace
<1>2. PlaceInv'
    BY <1>1, PlaceKept
<1>3. CASE hurried
    BY <1>1, <1>2, <1>3 DEF OneInv
<1>4. CASE ~hurried
  <2> DEFINE ms == {}
  <2>1. msgs' \subseteq msgs \cup ms /\ released /\ CtxSame
        /\ \A n \in ms : ~Main(n) /\ (n.k \in {"relreq", "rel"} => released)
      BY <1>1, <1>4, SameCtx DEF OneInv, StageOK
  <2> HIDE DEF ms
  <2> QED BY <1>1, <1>2, <1>4, <2>1, OneSide
<1> QED BY <1>3, <1>4

LEMMA ConnectionReleaseOne ==
  ASSUME IInv, PlaceInv, OneInv, NEW k \in Ctxs, ConnectionRelease(k)
  PROVE  PlaceInv' /\ OneInv'
<1>1. UNCHANGED <<uConn, uGnb, nConn, link, open, owner, ctx, call, serving, ho, tun, hurried>>
      /\ msgs' = msgs \cup {Msg("relreq", "amf", k, 0, NoGnb)} /\ released' = TRUE
    BY DEF ConnectionRelease, ueVars, gnbVars, amfVars, Send
<1>2. PlaceInv'
    BY <1>1, PlaceKept
<1>3. CASE hurried
    BY <1>1, <1>2, <1>3 DEF OneInv
<1>4. CASE ~hurried
  <2>1. \A n : Main(n)' => Main(n)
      BY <1>1 DEF Main
  <2>2. \A n \in msgs : StageOK(n)'
      BY <1>1, <1>4 DEF OneInv, StageOK, Fresh, FreshConn, HasSock
  <2>3. StageOK(Msg("relreq", "amf", k, 0, NoGnb))' /\ ~Main(Msg("relreq", "amf", k, 0, NoGnb))
      BY <1>1 DEF StageOK, Main, Msg
  <2>4. LoneInv'
      BY <1>1, <1>4, <2>1, <2>3 DEF OneInv, LoneInv
  <2>5. ConnInv'
      BY <1>1, <1>4 DEF OneInv, ConnInv
  <2> QED BY <1>1, <1>2, <1>4, <2>2, <2>3, <2>4, <2>5 DEF OneInv
<1> QED BY <1>3, <1>4

LEMMA AmfGivesUpOne ==
  ASSUME IInv, PlaceInv, OneInv, AmfGivesUp
  PROVE  PlaceInv' /\ OneInv'
<1>1. UNCHANGED <<uConn, uGnb, nConn, link, open, owner, ctx, call, serving, tun, hurried, released,
                  msgs>>
      /\ ho' = NoHo
    BY DEF AmfGivesUp, ueVars, gnbVars, opVars
<1>2. PlaceInv'
    BY <1>1, PlaceKept
<1>3. CASE hurried
    BY <1>1, <1>2, <1>3 DEF OneInv
<1>4. CASE ~hurried
  <2>1. \A n : Main(n)' <=> Main(n)
      BY <1>1 DEF Main
  <2>2. \A n \in msgs : StageOK(n)'
      BY <1>1, <1>4 DEF OneInv, StageOK, Fresh, FreshConn, HasSock
  <2>3. LoneInv' /\ ConnInv'
      BY <1>1, <1>4, <2>1 DEF OneInv, LoneInv, ConnInv
  <2> QED BY <1>1, <1>2, <1>4, <2>2, <2>3 DEF OneInv
<1> QED BY <1>3, <1>4

(* A step that answers the message of the handover with at most one other  *)
(* and leaves the UE's connection alone.                                   *)
LEMMA OneMain ==
  ASSUME OneInv, ~hurried, NEW m \in msgs, Main(m), NEW ms, msgs' \subseteq (msgs \ {m}) \cup ms,
         UNCHANGED <<uConn, open, call, tun, released>>,
         \A n \in ms : StageOK(n)', \A n1, n2 \in ms : Main(n1) /\ Main(n2) => n1 = n2,
         ctx'[serving'].pool
  PROVE  OneInv'
<1> DEFINE gone == {m}
<1>1. call.pc = "idle" /\ \A n \in msgs \ gone : ~Main(n)
    BY Alone DEF OneInv
<1>2. ConnInv' /\ (tun' \/ released')
    BY DEF OneInv, ConnInv
<1>3. msgs' \subseteq (msgs \ gone) \cup ms /\ call'.pc = "idle"
    BY <1>1
<1> HIDE DEF gone
<1> QED BY <1>1, <1>2, <1>3, OneStep

LEMMA OneLast ==
  ASSUME OneInv, ~hurried, NEW m \in msgs, Main(m), msgs' \subseteq msgs \ {m},
         UNCHANGED <<uConn, open, call, tun, released>>, ctx'[serving'].pool
  PROVE  OneInv'
<1> DEFINE ms == {}
<1>1. msgs' \subseteq (msgs \ {m}) \cup ms /\ (\A n \in ms : StageOK(n)')
      /\ \A n1, n2 \in ms : Main(n1) /\ Main(n2) => n1 = n2
    OBVIOUS
<1> HIDE DEF ms
<1> QED BY <1>1, OneMain

LEMMA UeReadsOne ==
  ASSUME IInv, PlaceInv, OneInv, NEW m \in msgs, UeReads(m)
  PROVE  PlaceInv' /\ OneInv'
<1> DEFINE n == [m EXCEPT !.at = "ue"]
<1>0. m \in MsgRec
    BY AMsg
<1>1. UNCHANGED <<uConn, uGnb, tun, nConn, link, open, owner, ctx, call, released, serving, ho, hurried>>
      /\ m.k \in {"cmd", "upd", "rel"} /\ msgs' = (msgs \ {m}) \cup {n} /\ n.k = m.k
    BY <1>0 DEF UeReads, ueVars, gnbVars, amfVars, opVars, Replace, MsgRec
<1> HIDE DEF n
<1>2. PlaceInv'
    BY <1>1, PlaceKept
<1> SUFFICES ASSUME ~hurried PROVE OneInv'
    BY <1>1, <1>2 DEF OneInv
<1> DEFINE ms == {n}
<1>3. CASE m.k = "cmd"
  <2>1. Main(m) /\ \A n1, n2 \in ms : Main(n1) /\ Main(n2) => n1 = n2
      BY <1>3 DEF Main
  <2>2. \A d \in ms : StageOK(d)'
      BY <1>1, <1>3 DEF OneInv, StageOK
  <2>3. ctx'[serving'].pool /\ msgs' \subseteq (msgs \ {m}) \cup ms
      BY <1>1 DEF OneInv
  <2> HIDE DEF ms
  <2> QED BY <1>1, <2>1, <2>2, <2>3, OneMain
<1>4. CASE m.k # "cmd"
  <2>1. \A d \in ms : ~Main(d) /\ (d.k \in {"relreq", "rel"} => released)
      BY <1>1, <1>4 DEF Main, OneInv, StageOK
  <2>2. msgs' \subseteq msgs \cup ms /\ CtxSame /\ (tun' \/ released')
      BY <1>1, SameCtx DEF OneInv
  <2> HIDE DEF ms
  <2> QED BY <1>1, <2>1, <2>2, OneSide
<1> QED BY <1>3, <1>4

(* The UE closes the only connection it has.                               *)
LEMMA DispatchCommandOne ==
  ASSUME IInv, PlaceInv, OneInv, NEW m \in msgs, DispatchCommand(m)
  PROVE  PlaceInv' /\ OneInv'
<1> DEFINE n == Msg("dial", "ue", m.x, m.id, uGnb)
<1>1. UNCHANGED <<uConn, uGnb, tun, nConn, link, owner, ctx, call, released, serving, ho, hurried>>
      /\ m.k = "cmd" /\ msgs' \subseteq (msgs \ {m}) \cup {n} /\ open' = open \ {uConn}
    BY DEF DispatchCommand, gnbVars, amfVars, opVars, Close
<1>2. PlaceInv'
    BY <1>1, PlaceKept
<1> SUFFICES ASSUME ~hurried PROVE OneInv'
    BY <1>1, <1>2 DEF OneInv
<1> DEFINE ms == {n}
           gone == {m}
<1>3. call.pc = "idle" /\ \A d \in msgs \ gone : ~Main(d)
    BY <1>1, Alone DEF OneInv, Main
<1>4. \A d \in ms : StageOK(d)'
  <2>1. open' = {} /\ n.k = "dial" /\ n.g = uGnb
      BY <1>1 DEF OneInv, ConnInv, Msg
  <2>2. ho # NoHo => ctx[ho.src].gnb # uGnb
      BY <1>1 DEF OneInv, StageOK
  <2> HIDE DEF n
  <2> QED BY <1>1, <2>1, <2>2 DEF StageOK
<1>5. ConnInv' /\ (tun' \/ released') /\ ctx'[serving'].pool
    BY <1>1, <1>3 DEF OneInv, ConnInv
<1>6. msgs' \subseteq (msgs \ gone) \cup ms
      /\ \A n1, n2 \in ms : Main(n1) /\ Main(n2) => n1 = n2
    BY <1>1
<1> HIDE DEF ms, gone
<1> QED BY <1>1, <1>3, <1>4, <1>5, <1>6, OneStep

LEMMA CommandDialOne ==
  ASSUME IInv, PlaceInv, OneInv, NEW m \in msgs, CommandDial(m)
  PROVE  PlaceInv' /\ OneInv'
<1> DEFINE ms == {Listen, Msg("access", "conn", NewConn, uId, NoGnb)}
           gone == {m}
<1>1. UNCHANGED <<uGnb, tun, owner, ctx, call, released, serving, ho, hurried>> /\ m.k = "dial"
      /\ msgs' = (msgs \ {m}) \cup ms /\ open' = open \cup {NewConn} /\ uConn' = NewConn
      /\ nConn < MaxConns /\ link' = [link EXCEPT ![NewConn] = m.g]
    BY DEF CommandDial, gnbVars, amfVars, opVars, Replace, Connect
<1>2. PlaceInv'
    BY PlaceConnect DEF CommandDial, gnbVars
<1> SUFFICES ASSUME ~hurried PROVE OneInv'
    BY <1>1, <1>2 DEF OneInv
<1>3. call.pc = "idle" /\ \A d \in msgs \ gone : ~Main(d)
    BY <1>1, Alone DEF OneInv, Main
<1>4. \A n \in ms : StageOK(n)'
  <2>1. PICK d : d = NewConn
      OBVIOUS
  <2>2. FreshConn(d)'
      BY <1>1, <2>1, NewConnFresh
  <2>3. d \in Conns /\ link'[d] = uGnb /\ open' = {d} /\ d = nConn + 1 /\ nConn \in Nat
      BY <1>1, <2>1, Groups, NewConnType, Bounds DEF UeT, OneInv, StageOK, NewConn
  <2>4. ho # NoHo => ctx[ho.src].gnb # uGnb /\ ctx[ho.src].sock # d
      BY <1>1, <2>3, Groups, Bounds DEF OneInv, StageOK, PlaceInv, AmfT, AmfInv, HasSock
  <2> QED BY <1>1, <2>1, <2>2, <2>3, <2>4 DEF StageOK, Listen, Msg
<1>5. ConnInv' /\ (tun' \/ released') /\ ctx'[serving'].pool
    BY <1>1, <1>3 DEF OneInv, ConnInv, StageOK
<1>6. msgs' \subseteq (msgs \ gone) \cup ms
      /\ \A n1, n2 \in ms : Main(n1) /\ Main(n2) => n1 = n2
    BY <1>1 DEF Main, Listen, Msg
<1> HIDE DEF ms, gone
<1> QED BY <1>1, <1>3, <1>4, <1>5, <1>6, OneStep

(* A context that is made now is named by nothing yet.                     *)
LEMMA NewCtxFacts ==
  ASSUME IInv, nCtx < MaxCtxs
  PROVE  /\ NewCtx \in Ctxs /\ ~ctx[NewCtx].pool /\ ctx[NewCtx].sock = 0
         /\ serving # NewCtx /\ (ho # NoHo => ho.src # NewCtx)
         /\ \A c \in Conns : owner[c] # NewCtx
         /\ \A k : HasSock(k) => k # NewCtx
<1>1. NewCtx \in Ctxs /\ NewCtx > nCtx
    BY Groups, Bounds DEF GnbT, NewCtx, Ctxs
<1>2. ~ctx[NewCtx].pool /\ ctx[NewCtx].sock = 0
    BY <1>1, Groups DEF GnbT, CtxInv
<1> QED BY <1>1, <1>2, Groups, Bounds DEF GnbT, OwnerInv, AmfT, AmfInv, HasSock

LEMMA AcceptOne ==
  ASSUME IInv, PlaceInv, OneInv, NEW c \in Conns, Accept(c)
  PROVE  PlaceInv' /\ OneInv'
<1> DEFINE r == NewGnBUe(link[c], c)
<1>1. UNCHANGED <<uConn, uGnb, tun, nConn, link, open, msgs, call, released, serving, ho, hurried>>
      /\ link[c] # NoGnb /\ owner[c] = 0 /\ nCtx < MaxCtxs
      /\ ctx' = [ctx EXCEPT ![NewCtx] = r] /\ owner' = [owner EXCEPT ![c] = NewCtx]
    BY DEF Accept, ueVars, amfVars, opVars
<1>2. r.sock = c /\ r.gnb = link[c] /\ r.pool /\ r.amf = 0 /\ r.src = 0
    BY DEF NewGnBUe, NoCtx
<1> HIDE DEF r
<1>3. PlaceInv'
    BY <1>1, <1>2, PlaceNewCtx DEF PlaceInv
<1> SUFFICES ASSUME ~hurried PROVE OneInv'
    BY <1>1, <1>3 DEF OneInv
<1>4. PICK j : j = NewCtx
    OBVIOUS
<1>5. j \in Ctxs /\ ctx'[j] = r /\ \A k \in Ctxs : k # j => ctx'[k] = ctx[k]
    BY <1>1, <1>4, NewCtxFacts, Groups DEF GnbT
<1>6. owner'[c] = j /\ \A e \in Conns : e # c => owner'[e] = owner[e]
    BY <1>1, <1>4, Groups DEF GnbT
<1>7. ~ctx[j].pool /\ serving # j /\ (ho # NoHo => ho.src # j) /\ \A k : HasSock(k) => k # j
    BY <1>1, <1>4, NewCtxFacts
<1>8. \A k : Fresh(k) => Fresh(k)'
    BY <1>1, <1>5, <1>7 DEF Fresh
<1>9. Fresh(j)'
    BY <1>1, <1>2, <1>5, <1>7 DEF Fresh
<1>10. ASSUME NEW e \in Conns, FreshConn(e) PROVE FreshConn(e)'
  <2>1. CASE e = c
    <3>1. \A k \in Ctxs : k # j => ctx'[k].sock # c
        BY <1>1, <1>5, <1>10, <2>1, Bounds DEF FreshConn
    <3> QED BY <1>2, <1>5, <1>6, <1>9, <2>1, <3>1 DEF FreshConn
  <2>2. CASE e # c
    <3>1. owner'[e] = owner[e] /\ (owner[e] # 0 => owner[e] \in Ctxs /\ owner[e] # j)
        BY <1>6, <1>10, <1>7, <2>2 DEF FreshConn, Fresh
    <3> QED BY <1>2, <1>5, <1>8, <1>10, <2>2, <3>1 DEF FreshConn
  <2> QED BY <2>1, <2>2
<1>11. \A k : HasSock(k) => HasSock(k)' /\ k \in Ctxs /\ ctx'[k] = ctx[k]
    BY <1>5, <1>7 DEF HasSock
<1>12. HasSock(serving) /\ (ho # NoHo => HasSock(ho.src))
    BY Groups DEF AmfT, AmfInv
<1>13. ASSUME NEW m \in msgs PROVE StageOK(m)'
  <2>1. MsgOK(m) /\ StageOK(m)
      BY AMsg DEF OneInv
  <2>2. m.k \in {"access", "ps"} => /\ m.at = "conn" => m.x \in Conns /\ FreshConn(m.x)'
                                    /\ m.at # "conn" => Fresh(m.x)' /\ ctx'[m.x].gnb = ctx[m.x].gnb
      BY <2>1, <1>5, <1>7, <1>8, <1>10 DEF MsgOK, StageOK, Fresh
  <2>3. /\ m.k = "swapped" => ctx'[m.id] = ctx[m.id]
        /\ m.k \in {"notify", "psreq"} => ctx'[m.x] = ctx[m.x]
        /\ m.k = "release" /\ HasSock(m.x) => HasSock(m.x)' /\ ctx'[m.x] = ctx[m.x]
      BY <2>1, <1>11 DEF MsgOK
  <2>4. ctx'[serving] = ctx[serving] /\ (ho # NoHo => ctx'[ho.src] = ctx[ho.src])
      BY <1>11, <1>12
  <2> QED BY <1>1, <2>1, <2>2, <2>3, <2>4 DEF StageOK
<1>14. LoneInv' /\ ConnInv' /\ ctx'[serving'].pool /\ (tun' \/ released')
    BY <1>1, <1>11, <1>12 DEF OneInv, LoneInv, ConnInv, Main
<1> QED BY <1>1, <1>13, <1>14 DEF OneInv

(* The first message on a connection reaches the context made for it.      *)
LEMMA ProcessingConnOne ==
  ASSUME IInv, PlaceInv, OneInv, NEW m \in msgs, NEW k \in Ctxs, ProcessingConn(m, k)
  PROVE  PlaceInv' /\ OneInv'
<1> DEFINE n == [m EXCEPT !.at = "ctx", !.x = k]
<1>0. m \in MsgRec /\ MsgOK(m)
    BY AMsg
<1>1. UNCHANGED <<uConn, uGnb, tun, nConn, link, open, owner, ctx, call, released, serving, ho, hurried>>
      /\ m.at = "conn" /\ m.k \in {"n2", "access", "ps"} /\ k \in ActiveUe(m.x) /\ owner[m.x] # 0
      /\ msgs' = (msgs \ {m}) \cup {n} /\ n.k = m.k /\ n.x = k /\ n.at = "ctx" /\ n.g = m.g
    BY <1>0 DEF ProcessingConn, ueVars, gnbVars, amfVars, opVars, Replace, MsgRec
<1> HIDE DEF n
<1>2. PlaceInv'
    BY <1>1, PlaceKept
<1> SUFFICES ASSUME ~hurried PROVE OneInv'
    BY <1>1, <1>2 DEF OneInv
<1> DEFINE ms == {n}
<1>3. Main(m) /\ \A n1, n2 \in ms : Main(n1) /\ Main(n2) => n1 = n2
    BY <1>1 DEF Main
<1>4. m.k \in {"access", "ps"} => k = owner[m.x] /\ Fresh(k) /\ ctx[k].gnb = link[m.x]
    BY <1>0, <1>1 DEF OneInv, StageOK, FreshConn, ActiveUe, Pool, PlaceInv, MsgOK
<1>5. StageOK(n)'
  <2>1. m.k \in {"access", "ps"} => Fresh(k)'
      BY <1>1, <1>4 DEF Fresh
  <2> QED BY <1>1, <1>4, <2>1 DEF OneInv, StageOK
<1>6. ctx'[serving'].pool /\ msgs' \subseteq (msgs \ {m}) \cup ms /\ \A d \in ms : StageOK(d)'
    BY <1>1, <1>5 DEF OneInv
<1> HIDE DEF ms
<1> QED BY <1>1, <1>3, <1>6, OneMain

(* A step that writes an id or a state into a context.                     *)
IdStep ==
  \A k \in Ctxs : /\ ctx'[k].gnb = ctx[k].gnb /\ ctx'[k].sock = ctx[k].sock
                  /\ ctx'[k].pool = ctx[k].pool /\ ctx'[k].src = ctx[k].src

LEMMA HandleN2HandoverTriggerOne ==
  ASSUME IInv, PlaceInv, OneInv, NEW m \in msgs, HandleN2HandoverTrigger(m)
  PROVE  PlaceInv' /\ OneInv'
<1> DEFINE n  == [m EXCEPT !.k = "required", !.at = "amf"]
           up == Update(m.x, m.id)
<1>0. m \in MsgRec
    BY AMsg
<1>1. UNCHANGED <<uConn, uGnb, tun, nConn, link, open, owner, call, released, serving, ho, hurried>>
      /\ m.k = "n2" /\ ctx' = [ctx EXCEPT ![m.x].amf = m.id]
      /\ msgs' = (msgs \ {m}) \cup ({n} \cup up) /\ n.k = "required" /\ n.g = m.g
    BY <1>0 DEF HandleN2HandoverTrigger, ueVars, amfVars, opVars, Replace, MsgRec
<1>u. \A d \in up : d.k = "upd" /\ ~Main(d) /\ StageOK(d)'
    BY UpdateSide
<1> HIDE DEF n, up
<1>2. IdStep
    BY <1>1, Groups DEF IdStep, GnbT, CtxRec
<1>3. PlaceInv'
    BY <1>1, <1>2, PlaceKept DEF IdStep
<1> SUFFICES ASSUME ~hurried PROVE OneInv'
    BY <1>1, <1>3 DEF OneInv
<1> DEFINE ms == {n} \cup up
<1>4. Main(m) /\ \A n1, n2 \in ms : Main(n1) /\ Main(n2) => n1 = n2
    BY <1>1, <1>u DEF Main
<1>5. ctx'[serving'].pool
    BY <1>1, <1>2, Groups DEF OneInv, AmfT, IdStep
<1>6. msgs' \subseteq (msgs \ {m}) \cup ms /\ \A d \in ms : StageOK(d)'
  <2>1. StageOK(n)'
      BY <1>1 DEF OneInv, StageOK
  <2> QED BY <1>1, <1>u, <2>1
<1> HIDE DEF ms
<1> QED BY <1>1, <1>4, <1>5, <1>6, OneMain

LEMMA HandlePathSwitchTriggerOne ==
  ASSUME IInv, PlaceInv, OneInv, NEW m \in msgs, HandlePathSwitchTrigger(m)
  PROVE  PlaceInv' /\ OneInv'
<1> DEFINE n  == [m EXCEPT !.k = "psreq", !.at = "amf"]
           up == Update(m.x, m.id)
<1>0. m \in MsgRec
    BY AMsg
<1>1. UNCHANGED <<uConn, uGnb, tun, nConn, link, open, owner, call, released, serving, ho, hurried>>
      /\ m.k = "ps" /\ m.at = "ctx" /\ ctx' = [ctx EXCEPT ![m.x].amf = m.id, ![m.x].st = "ready"]
      /\ msgs' = (msgs \ {m}) \cup ({n} \cup up) /\ n.k = "psreq" /\ n.x = m.x
    BY <1>0 DEF HandlePathSwitchTrigger, ueVars, amfVars, opVars, Replace, MsgRec
<1>u. \A d \in up : d.k = "upd" /\ ~Main(d) /\ StageOK(d)'
    BY UpdateSide
<1> HIDE DEF n, up
<1>2. IdStep
    BY <1>1, Groups DEF IdStep, GnbT, CtxRec
<1>3. PlaceInv'
    BY <1>1, <1>2, PlaceKept DEF IdStep
<1> SUFFICES ASSUME ~hurried PROVE OneInv'
    BY <1>1, <1>3 DEF OneInv
<1> DEFINE ms == {n} \cup up
<1>4. Main(m) /\ \A n1, n2 \in ms : Main(n1) /\ Main(n2) => n1 = n2
    BY <1>1, <1>u DEF Main
<1>5. ctx'[serving'].pool
    BY <1>1, <1>2, Groups DEF OneInv, AmfT, IdStep
<1>6. ctx'[m.x].pool
  <2>1. Fresh(m.x)
      BY <1>1 DEF OneInv, StageOK
  <2> QED BY <1>2, <2>1 DEF Fresh, IdStep
<1>7. msgs' \subseteq (msgs \ {m}) \cup ms /\ \A d \in ms : StageOK(d)'
  <2>1. StageOK(n)'
      BY <1>1, <1>6 DEF StageOK
  <2> QED BY <1>1, <1>u, <2>1
<1> HIDE DEF ms
<1> QED BY <1>1, <1>4, <1>5, <1>7, OneMain

LEMMA HandleTargetAccessOne ==
  ASSUME IInv, PlaceInv, OneInv, NEW m \in msgs, NEW k \in Ctxs, HandleTargetAccess(m, k)
  PROVE  PlaceInv' /\ OneInv'
<1> DEFINE n == [m EXCEPT !.k = "swapped", !.id = k]
           up == IF ctx[k].amf = m.id THEN {} ELSE Update(m.x, ctx[k].amf)
<1>0. m \in MsgRec /\ MsgOK(m)
    BY AMsg
<1>1. UNCHANGED <<uConn, uGnb, tun, nConn, link, open, owner, call, released, serving, ho, hurried>>
      /\ m.k = "access" /\ m.at = "ctx" /\ k \in Prepared(ctx[m.x].gnb, m.id)
      /\ ctx' = [ctx EXCEPT ![k].sock = ctx[m.x].sock, ![k].st = "ready"]
      /\ msgs' = (msgs \ {m}) \cup ({n} \cup up) /\ n.k = "swapped" /\ n.x = m.x /\ n.id = k
    BY <1>0 DEF HandleTargetAccess, ueVars, amfVars, opVars, Replace, MsgRec
<1>2. \A d \in up : d.k = "upd"
    BY UpdateSide
<1> HIDE DEF n, up
<1>3. HasSock(m.x) /\ m.id \in Ids /\ m.id # 0
    BY <1>0, <1>1, Bounds DEF MsgOK
<1>4. ctx[k].pool /\ ctx[k].gnb = ctx[m.x].gnb /\ m.id \in {ctx[k].amf, ctx[k].src}
    BY <1>1 DEF Prepared, Pool
<1>5. /\ ctx'[k].sock = ctx[m.x].sock /\ \A j \in Ctxs : j # k => ctx'[j].sock = ctx[j].sock
      /\ \A j \in Ctxs : ctx'[j].gnb = ctx[j].gnb /\ ctx'[j].pool = ctx[j].pool
    BY <1>1, Groups DEF GnbT, CtxRec
<1>6. PlaceInv'
  <2>1. \A c \in Conns : owner[c] # 0 => owner[c] \in Ctxs
      BY Groups DEF GnbT, Zero
  <2>2. \A j \in Ctxs : ctx'[j].sock # 0 =>
          ctx'[j].sock <= nConn /\ ctx'[j].gnb = link[ctx'[j].sock]
      BY <1>3, <1>4, <1>5 DEF PlaceInv, HasSock
  <2>3. \A c \in Conns : owner[c] # 0 => ctx'[owner[c]].gnb = link[c]
      BY <1>5, <2>1 DEF PlaceInv
  <2>4. uConn <= nConn /\ \A c \in Conns : owner[c] # 0 \/ link[c] # NoGnb => c <= nConn
      BY DEF PlaceInv
  <2> QED BY <1>1, <2>2, <2>3, <2>4 DEF PlaceInv
<1> SUFFICES ASSUME ~hurried PROVE OneInv'
    BY <1>1, <1>6 DEF OneInv
<1> DEFINE ms == {n} \cup up
<1>7. Main(m) /\ \A n1, n2 \in ms : Main(n1) /\ Main(n2) => n1 = n2
    BY <1>1, <1>2 DEF Main
<1>8. ctx'[serving'].pool
    BY <1>1, <1>5, Groups DEF OneInv, AmfT
<1>9. StageOK(m)
    BY DEF OneInv
<1>10. StageOK(n)'
  <2>1. m.x # k /\ m.x # serving
      BY <1>1, <1>3, <1>4, <1>9 DEF StageOK, Fresh
  <2>2. ho # NoHo => ctx'[ho.src].gnb = ctx[ho.src].gnb /\ ctx[ho.src].gnb # uGnb
      BY <1>1, <1>5, <1>9, Groups DEF StageOK, AmfT, AmfInv, HasSock
  <2>3. ctx[k].gnb = uGnb /\ (ho # NoHo => ho.src \in Ctxs /\ ctx[ho.src].sock \notin open)
      BY <1>1, <1>4, <1>9, Groups DEF StageOK, AmfT, AmfInv, HasSock
  <2>4. ho # NoHo => ctx'[ho.src].sock = ctx[ho.src].sock
      BY <1>5, <2>2, <2>3
  <2>5. ctx'[k].pool
      BY <1>4, <1>5
  <2> QED BY <1>1, <2>1, <2>2, <2>3, <2>4, <2>5 DEF StageOK
<1>11. msgs' \subseteq (msgs \ {m}) \cup ms /\ \A d \in ms : StageOK(d)'
  <2>1. \A d \in up : StageOK(d)'
      BY <1>2 DEF StageOK
  <2> QED BY <1>1, <1>10, <2>1
<1> HIDE DEF ms
<1> QED BY <1>1, <1>7, <1>8, <1>11, OneMain

(* What is deleted is not what serves the UE, nor the context that will.   *)
LEMMA HandleTargetAccessEndsOne ==
  ASSUME IInv, PlaceInv, OneInv, NEW m \in msgs, HandleTargetAccessEnds(m)
  PROVE  PlaceInv' /\ OneInv'
<1> DEFINE n == Msg("notify", "amf", m.id, 0, NoGnb)
<1>0. MsgOK(m)
    BY AMsg
<1>1. UNCHANGED <<uConn, uGnb, tun, nConn, link, open, owner, call, released, serving, ho, hurried>>
      /\ m.k = "swapped" /\ ctx' = [ctx EXCEPT ![m.x].pool = FALSE]
      /\ msgs' = (msgs \ {m}) \cup {n} /\ n.k = "notify" /\ n.x = m.id
    BY DEF HandleTargetAccessEnds, ueVars, amfVars, opVars, Replace, Msg
<1> HIDE DEF n
<1>2. \A j \in Ctxs : /\ ctx'[j].gnb = ctx[j].gnb /\ ctx'[j].sock = ctx[j].sock
                      /\ j # m.x => ctx'[j].pool = ctx[j].pool
    BY <1>1, Groups DEF GnbT, CtxRec
<1>3. PlaceInv'
    BY <1>1, <1>2, PlaceKept
<1> SUFFICES ASSUME ~hurried PROVE OneInv'
    BY <1>1, <1>3 DEF OneInv
<1> DEFINE ms == {n}
<1>4. Main(m) /\ \A n1, n2 \in ms : Main(n1) /\ Main(n2) => n1 = n2
    BY <1>1 DEF Main
<1>5. ctx'[serving'].pool /\ ctx'[m.id].pool
    BY <1>0, <1>1, <1>2, Groups DEF OneInv, AmfT, StageOK, MsgOK, HasSock
<1>6. ho # NoHo => ctx'[ho.src].gnb = ctx[ho.src].gnb /\ ctx'[ho.src].sock = ctx[ho.src].sock
    BY <1>2, Groups DEF AmfT, AmfInv, HasSock
<1>7. msgs' \subseteq (msgs \ {m}) \cup ms /\ \A d \in ms : StageOK(d)'
    BY <1>1, <1>5, <1>6 DEF OneInv, StageOK
<1> HIDE DEF ms
<1> QED BY <1>1, <1>4, <1>5, <1>7, OneMain

LEMMA HandlerHandoverRequestOne ==
  ASSUME IInv, PlaceInv, OneInv, NEW m \in msgs, HandlerHandoverRequest(m)
  PROVE  PlaceInv' /\ OneInv'
<1> DEFINE n == Msg("ack", "amf", NewCtx, m.id, NoGnb)
           r == [NewGnBUe(m.g, 0) EXCEPT !.amf = m.id, !.src = m.x, !.st = "ongoing"]
<1>1. UNCHANGED <<uConn, uGnb, tun, nConn, link, open, owner, call, released, serving, ho, hurried>>
      /\ m.k = "request" /\ nCtx < MaxCtxs /\ ctx' = [ctx EXCEPT ![NewCtx] = r]
      /\ msgs' = (msgs \ {m}) \cup {n} /\ n.k = "ack"
    BY DEF HandlerHandoverRequest, ueVars, amfVars, opVars, Replace, Msg
<1>2. r.sock = 0
    BY DEF NewGnBUe, NoCtx
<1> HIDE DEF n, r
<1>3. PlaceInv'
    BY <1>1, <1>2, PlaceNewCtx
<1> SUFFICES ASSUME ~hurried PROVE OneInv'
    BY <1>1, <1>3 DEF OneInv
<1> DEFINE ms == {n}
<1>4. Main(m) /\ \A n1, n2 \in ms : Main(n1) /\ Main(n2) => n1 = n2
    BY <1>1 DEF Main
<1>5. ctx'[serving] = ctx[serving] /\ (ho # NoHo => ctx'[ho.src] = ctx[ho.src])
    BY <1>1, NewCtxFacts, Groups DEF GnbT, AmfT, AmfInv, HasSock
<1>6. ctx'[serving'].pool /\ msgs' \subseteq (msgs \ {m}) \cup ms /\ \A d \in ms : StageOK(d)'
    BY <1>1, <1>5 DEF OneInv, StageOK
<1> HIDE DEF ms
<1> QED BY <1>1, <1>4, <1>6, OneMain

LEMMA HandlerHandoverCommandOne ==
  ASSUME IInv, PlaceInv, OneInv, NEW m \in msgs, HandlerHandoverCommand(m)
  PROVE  PlaceInv' /\ OneInv'
<1> DEFINE ms == Write("cmd", ctx[m.x].sock, m.id, NoGnb)
<1>1. UNCHANGED <<uConn, uGnb, tun, nConn, link, open, owner, ctx, call, released, serving, ho, hurried>>
      /\ m.k = "command" /\ msgs' \subseteq (msgs \ {m}) \cup ms
    BY DEF HandlerHandoverCommand, ueVars, gnbVars, amfVars, opVars, Replace
<1>2. PlaceInv'
    BY <1>1, PlaceKept
<1> SUFFICES ASSUME ~hurried PROVE OneInv'
    BY <1>1, <1>2 DEF OneInv
<1>3. Main(m) /\ \A n1, n2 \in ms : Main(n1) /\ Main(n2) => n1 = n2
    BY <1>1 DEF Main, Write
<1>4. \A d \in ms : d.k = "cmd"
    BY DEF Write, Msg
<1>5. ctx'[serving'].pool /\ \A d \in ms : StageOK(d)'
    BY <1>1, <1>4 DEF OneInv, StageOK
<1> HIDE DEF ms
<1> QED BY <1>1, <1>3, <1>5, OneMain

(* The release of the source is written to a closed connection.            *)
LEMMA HandlerUeContextReleaseCommandOne ==
  ASSUME IInv, PlaceInv, OneInv, NEW m \in msgs, HandlerUeContextReleaseCommand(m)
  PROVE  PlaceInv' /\ OneInv'
<1> DEFINE ms == Write("rel", ctx[m.x].sock, 0, NoGnb)
<1>1. UNCHANGED <<uConn, uGnb, tun, nConn, link, open, owner, call, released, serving, ho, hurried>>
      /\ m.k = "release" /\ msgs' \subseteq (msgs \ {m}) \cup ms
      /\ (ctx' = ctx \/ ctx' = [ctx EXCEPT ![m.x].st = "initialized"])
    BY DEF HandlerUeContextReleaseCommand, ueVars, amfVars, opVars, Replace
<1>2. CtxSame
    BY <1>1, SameCtx, Groups DEF GnbT, CtxRec, CtxSame
<1>3. PlaceInv'
    BY <1>1, <1>2, PlaceKept DEF CtxSame
<1> SUFFICES ASSUME ~hurried PROVE OneInv'
    BY <1>1, <1>3 DEF OneInv
<1>4. \A d \in ms : d.k = "rel" /\ ~Main(d)
    BY DEF Write, Msg, Main
<1>5. CASE released
  <2>1. msgs' \subseteq msgs \cup ms /\ (tun' \/ released')
      BY <1>1, <1>5
  <2> HIDE DEF ms
  <2> QED BY <1>1, <1>2, <1>4, <1>5, <2>1, OneSide
<1>6. CASE ~released
  <2>1. ms = {}
      BY <1>1, <1>6 DEF OneInv, StageOK, Write
  <2>2. Main(m) /\ ctx'[serving'].pool
      BY <1>1, <1>2, <1>6, Groups DEF Main, OneInv, AmfT, CtxSame
  <2> HIDE DEF ms
  <2> QED BY <1>1, <2>1, <2>2, OneMain
<1> QED BY <1>5, <1>6

(* Another gNB than the one that serves the UE is told to release it.      *)
LEMMA HandlerPathSwitchRequestAcknowledgeOne ==
  ASSUME IInv, PlaceInv, OneInv, NEW m \in msgs, HandlerPathSwitchRequestAcknowledge(m)
  PROVE  PlaceInv' /\ OneInv'
<1>1. UNCHANGED <<uConn, uGnb, tun, nConn, link, open, owner, call, released, serving, ho, hurried>>
      /\ m.k = "psack" /\ (ctx' = ctx \/ ctx' = [ctx EXCEPT ![m.x].amf = m.id])
    BY DEF HandlerPathSwitchRequestAcknowledge, ueVars, amfVars, opVars
<1> DEFINE up == Update(m.x, m.id)
<1>2. \/ msgs' \subseteq (msgs \ {m}) \cup up
      \/ \E k \in Ctxs : /\ ctx[k].gnb # ctx[m.x].gnb
                         /\ msgs' = (msgs \ {m})
                                    \cup ({Msg("xnrel", "udp", 0, m.id, ctx[k].gnb)} \cup up)
    BY DEF HandlerPathSwitchRequestAcknowledge, Replace, FindUeInOtherGnb
<1>u. \A d \in up : ~Main(d) /\ StageOK(d)'
    BY UpdateSide
<1> HIDE DEF up
<1>3. IdStep
    BY <1>1, Groups DEF IdStep, GnbT, CtxRec
<1>4. PlaceInv'
    BY <1>1, <1>3, PlaceKept DEF IdStep
<1> SUFFICES ASSUME ~hurried PROVE OneInv'
    BY <1>1, <1>4 DEF OneInv
<1>5. Main(m) /\ m.x = serving /\ ctx'[serving'].pool /\ ctx'[serving'].gnb = ctx[m.x].gnb
    BY <1>1, <1>3, Groups DEF Main, OneInv, StageOK, AmfT, IdStep
<1>6. CASE msgs' \subseteq (msgs \ {m}) \cup up
    BY <1>1, <1>5, <1>6, <1>u, OneMain
<1>7. ASSUME NEW g, g # ctx[m.x].gnb,
             msgs' = (msgs \ {m}) \cup ({Msg("xnrel", "udp", 0, m.id, g)} \cup up)
      PROVE  OneInv'
  <2> DEFINE n  == Msg("xnrel", "udp", 0, m.id, g)
             ms == {n} \cup up
  <2>1. StageOK(n)'
      BY <1>5, <1>7 DEF StageOK, Msg
  <2> HIDE DEF n
  <2>2. /\ msgs' \subseteq (msgs \ {m}) \cup ms
        /\ \A d \in ms : StageOK(d)'
        /\ \A n1, n2 \in ms : Main(n1) /\ Main(n2) => n1 = n2
      BY <1>7, <1>u, <2>1 DEF n
  <2> HIDE DEF ms
  <2> QED BY <1>1, <1>5, <2>2, OneMain
<1> QED BY <1>2, <1>6, <1>7

LEMMA ProcessXnReleaseOne ==
  ASSUME IInv, PlaceInv, OneInv, NEW m \in msgs, ProcessXnRelease(m)
  PROVE  PlaceInv' /\ OneInv'
<1>1. UNCHANGED <<uConn, uGnb, tun, nConn, link, open, owner, call, released, serving, ho, hurried>>
      /\ m.k = "xnrel" /\ msgs' = msgs \ {m}
      /\ (ctx' = ctx \/ \E k \in Pool(m.g) : ctx' = [ctx EXCEPT ![k].pool = FALSE])
    BY DEF ProcessXnRelease, ueVars, amfVars, opVars, Replace
<1>2. \A j \in Ctxs : /\ ctx'[j].gnb = ctx[j].gnb /\ ctx'[j].sock = ctx[j].sock
                      /\ ctx[j].gnb # m.g => ctx'[j].pool = ctx[j].pool
    BY <1>1, Groups DEF GnbT, CtxRec, Pool
<1>3. PlaceInv'
    BY <1>1, <1>2, PlaceKept
<1> SUFFICES ASSUME ~hurried PROVE OneInv'
    BY <1>1, <1>3 DEF OneInv
<1>4. Main(m) /\ ctx'[serving'].pool
    BY <1>1, <1>2, Groups DEF Main, OneInv, StageOK, AmfT
<1> QED BY <1>1, <1>4, OneLast

LEMMA AmfHandoverRequiredOne ==
  ASSUME IInv, PlaceInv, OneInv, NEW m \in msgs, AmfHandoverRequired(m)
  PROVE  PlaceInv' /\ OneInv'
<1> DEFINE n == Msg("request", "gnb", m.id, lastId + 1, m.g)
<1>1. UNCHANGED <<uConn, uGnb, tun, nConn, link, open, owner, ctx, call, released, serving, hurried>>
      /\ m.k = "required" /\ m.g # ctx[m.x].gnb /\ ho'.src = m.x
      /\ msgs' = (msgs \ {m}) \cup {n} /\ n.k = "request" /\ n.g = m.g
    BY DEF AmfHandoverRequired, ueVars, gnbVars, opVars, Replace, Msg
<1> HIDE DEF n
<1>2. PlaceInv'
    BY <1>1, PlaceKept
<1> SUFFICES ASSUME ~hurried PROVE OneInv'
    BY <1>1, <1>2 DEF OneInv
<1> DEFINE ms == {n}
<1>3. Main(m) /\ \A n1, n2 \in ms : Main(n1) /\ Main(n2) => n1 = n2
    BY <1>1 DEF Main
<1>4. ctx'[serving'].pool /\ msgs' \subseteq (msgs \ {m}) \cup ms /\ \A d \in ms : StageOK(d)'
    BY <1>1 DEF OneInv, StageOK
<1> HIDE DEF ms
<1> QED BY <1>1, <1>3, <1>4, OneMain

LEMMA AmfHandoverRequestAckOne ==
  ASSUME IInv, PlaceInv, OneInv, NEW m \in msgs, AmfHandoverRequestAck(m)
  PROVE  PlaceInv' /\ OneInv'
<1> DEFINE n == Msg("command", "gnb", ho.src, m.id, NoGnb)
<1>0. MsgOK(m)
    BY AMsg
<1>1. UNCHANGED <<uConn, uGnb, tun, nConn, link, open, owner, ctx, call, released, serving, hurried>>
      /\ m.k = "ack" /\ msgs' \subseteq (msgs \ {m}) \cup {n} /\ n.k = "command"
      /\ (UNCHANGED ho \/ (ho.id = m.id /\ ho' = [ho EXCEPT !.ctx = m.x]))
    BY DEF AmfHandoverRequestAck, ueVars, gnbVars, opVars, Replace, Msg
<1> HIDE DEF n
<1>2. PlaceInv'
    BY <1>1, PlaceKept
<1> SUFFICES ASSUME ~hurried PROVE OneInv'
    BY <1>1, <1>2 DEF OneInv
<1> DEFINE ms == {n}
<1>3. Main(m) /\ \A n1, n2 \in ms : Main(n1) /\ Main(n2) => n1 = n2
    BY <1>1 DEF Main
<1>4. ho' # NoHo => ho'.src = ho.src /\ ho # NoHo
    BY <1>0, <1>1, Groups, Bounds DEF AmfT, MsgOK, NoHo
<1>5. ctx'[serving'].pool /\ msgs' \subseteq (msgs \ {m}) \cup ms /\ \A d \in ms : StageOK(d)'
    BY <1>1, <1>4 DEF OneInv, StageOK
<1> HIDE DEF ms
<1> QED BY <1>1, <1>3, <1>5, OneMain

(* The AMF releases the source, whose connection the UE has closed.        *)
LEMMA AmfHandoverNotifyOne ==
  ASSUME IInv, PlaceInv, OneInv, NEW m \in msgs, AmfHandoverNotify(m)
  PROVE  PlaceInv' /\ OneInv'
<1> DEFINE n == Msg("release", "gnb", ho.src, 0, NoGnb)
<1>1. UNCHANGED <<uConn, uGnb, tun, nConn, link, open, owner, ctx, call, released, hurried>>
      /\ m.k = "notify"
    BY DEF AmfHandoverNotify, ueVars, gnbVars, opVars
<1>2. \/ UNCHANGED serving /\ msgs' = msgs \ {m}
      \/ serving' = m.x /\ ho # NoHo /\ msgs' = (msgs \ {m}) \cup {n}
    BY DEF AmfHandoverNotify, Replace
<1>3. PlaceInv'
    BY <1>1, PlaceKept
<1> SUFFICES ASSUME ~hurried PROVE OneInv'
    BY <1>1, <1>3 DEF OneInv
<1>4. Main(m) /\ ctx'[serving'].pool
    BY <1>1, <1>2 DEF Main, OneInv, StageOK
<1>5. CASE msgs' = msgs \ {m}
    BY <1>1, <1>4, <1>5, OneLast
<1>6. CASE ho # NoHo /\ msgs' = (msgs \ {m}) \cup {n}
  <2> DEFINE ms == {n}
  <2>1. n.k = "release" /\ n.x = ho.src
      BY DEF Msg
  <2>2. HasSock(ho.src) /\ ctx[ho.src].sock \notin open
      BY <1>1, <1>6, Groups DEF OneInv, StageOK, AmfT, AmfInv
  <2>3. PICK j : j = ho.src
      OBVIOUS
  <2> HIDE DEF n
  <2>4. HasSock(j)' /\ ctx'[j].sock \notin open' /\ n.x = j
      BY <1>1, <2>1, <2>2, <2>3 DEF HasSock
  <2>5. \A d \in ms : StageOK(d)'
      BY <2>1, <2>4 DEF StageOK
  <2>6. msgs' \subseteq (msgs \ {m}) \cup ms /\ \A n1, n2 \in ms : Main(n1) /\ Main(n2) => n1 = n2
      BY <1>6
  <2> HIDE DEF ms
  <2> QED BY <1>1, <1>4, <2>5, <2>6, OneMain
<1> QED BY <1>2, <1>5, <1>6

LEMMA AmfPathSwitchOne ==
  ASSUME IInv, PlaceInv, OneInv, NEW m \in msgs, AmfPathSwitch(m)
  PROVE  PlaceInv' /\ OneInv'
<1> DEFINE n == Msg("psack", "gnb", m.x, m.id, NoGnb)
<1>1. UNCHANGED <<uConn, uGnb, tun, nConn, link, open, owner, ctx, call, released, hurried>>
      /\ m.k = "psreq" /\ serving' = m.x /\ ho' = NoHo
      /\ msgs' = (msgs \ {m}) \cup {n} /\ n.k = "psack" /\ n.x = m.x
    BY DEF AmfPathSwitch, ueVars, gnbVars, opVars, Replace, Msg
<1> HIDE DEF n
<1>2. PlaceInv'
    BY <1>1, PlaceKept
<1> SUFFICES ASSUME ~hurried PROVE OneInv'
    BY <1>1, <1>2 DEF OneInv
<1> DEFINE ms == {n}
<1>3. Main(m) /\ \A n1, n2 \in ms : Main(n1) /\ Main(n2) => n1 = n2
    BY <1>1 DEF Main
<1>4. ctx'[serving'].pool /\ msgs' \subseteq (msgs \ {m}) \cup ms /\ \A d \in ms : StageOK(d)'
    BY <1>1 DEF OneInv, StageOK
<1> HIDE DEF ms
<1> QED BY <1>1, <1>3, <1>4, OneMain

LEMMA AmfReleaseRequestOne ==
  ASSUME IInv, PlaceInv, OneInv, NEW m \in msgs, AmfReleaseRequest(m)
  PROVE  PlaceInv' /\ OneInv'
<1> DEFINE n == Msg("release", "gnb", m.x, 0, NoGnb)
<1>1. UNCHANGED <<uConn, uGnb, tun, nConn, link, open, owner, ctx, call, released, serving, ho, hurried>>
      /\ m.k = "relreq" /\ msgs' = (msgs \ {m}) \cup {n} /\ n.k = "release"
    BY DEF AmfReleaseRequest, ueVars, gnbVars, amfVars, opVars, Replace, Msg
<1> HIDE DEF n
<1>2. PlaceInv'
    BY <1>1, PlaceKept
<1> SUFFICES ASSUME ~hurried PROVE OneInv'
    BY <1>1, <1>2 DEF OneInv
<1> DEFINE ms == {n}
<1>3. released /\ \A d \in ms : ~Main(d) /\ (d.k \in {"relreq", "rel"} => released)
    BY <1>1 DEF OneInv, StageOK, Main
<1>4. msgs' \subseteq msgs \cup ms /\ CtxSame /\ (tun' \/ released')
    BY <1>1, <1>3, SameCtx
<1> HIDE DEF ms
<1> QED BY <1>1, <1>3, <1>4, OneSide

-----------------------------------------------------------------------------
LEMMA OneNext == IInv /\ PlaceInv /\ OneInv /\ [Next]_vars => PlaceInv' /\ OneInv'
<1> SUFFICES ASSUME IInv, PlaceInv, OneInv, [Next]_vars PROVE PlaceInv' /\ OneInv'
    OBVIOUS
<1>1. CASE UNCHANGED vars
    BY <1>1, OneDrop DEF vars, ueVars, amfVars
<1>2. CASE Calls
    BY <1>2, TriggerN2One, TriggerXnOne, ResolveUeConnectionDetailsOne, ConnectionReleaseOne
    DEF Calls
<1>3. CASE Faults
    BY <1>3, XnDialFailsOne, AmfGivesUpOne, CommandDialFailsOne, XnReleaseLostOne DEF Faults
<1>4. CASE Steps
    BY <1>4, XnCloseOne, XnDialOne, AcceptOne, UeListenOne, UeReadsOne, DispatchUpdateOne,
       DispatchReleaseOne, DispatchCommandOne, CommandDialOne, HandleN2HandoverTriggerOne,
       HandlePathSwitchTriggerOne, HandleTargetAccessUnknownOne, HandleTargetAccessEndsOne,
       HandlerHandoverRequestOne, HandlerHandoverCommandOne, HandlerUeContextReleaseCommandOne,
       HandlerPathSwitchRequestAcknowledgeOne, ProcessXnReleaseOne, AmfHandoverRequiredOne,
       AmfRefusesOne, AmfHandoverRequestAckOne, AmfHandoverNotifyOne, AmfPathSwitchOne,
       AmfReleaseRequestOne, ProcessingConnOne, HandleTargetAccessOne
    DEF Steps
<1> QED BY <1>1, <1>2, <1>3, <1>4 DEF Next

LEMMA OneAlways == Spec => [](IInv /\ PlaceInv /\ OneInv)
<1>1. Init => IInv /\ PlaceInv /\ OneInv
    BY InitIInv, InitOne
<1>2. (IInv /\ PlaceInv /\ OneInv) /\ [Next]_vars => (IInv /\ PlaceInv /\ OneInv)'
    BY IInvNext, OneNext
<1> QED BY <1>1, <1>2, PTL DEF Spec

(* As long as handovers do not overlap, none costs the UE its tunnels,     *)
(* whatever fails: ReleaseConnection (DispatchState 0x06) runs only when a *)
(* release was asked for.                                                  *)
THEOREM TunnelsCorrect == Spec => []TunnelsKept
<1>1. OneInv => TunnelsKept
    BY DEF OneInv, TunnelsKept
<1> QED BY <1>1, OneAlways, PTL

(* As long as handovers do not overlap, no step of one deletes the context *)
(* that serves the UE, whatever fails or is lost (the target access, the   *)
(* XN UE CONTEXT RELEASE, which looks for an id).                          *)
THEOREM ServingCorrect == Spec => []ServingInPool
<1>1. OneInv => ServingInPool
    BY DEF OneInv, ServingInPool
<1> QED BY <1>1, OneAlways, PTL

-----------------------------------------------------------------------------
(* Handovers that do not overlap, meet no fault and, if they go over N2,   *)
(* are asked for with the AMF's id.                                        *)
Fine == Clean /\ ~misnamed

(* Contexts that no handover under way has prepared, and contexts that     *)
(* look as if they served the UE.                                          *)
Plain(k)  == ctx[k].amf <= amfId /\ ctx[k].src < amfId
Live(k)   == ctx[k].pool /\ (ctx[k].st = "ready" \/ ctx[k].amf = amfId)
LiveIn(K) == \A k \in Ctxs : Live(k) => k \in K
AllPlain  == ho = NoHo /\ \A k \in Ctxs : Plain(k)

(* The UE has the AMF's id, and is told no other.  That is so from the     *)
(* trigger of an N2 handover until the UE accesses the target, when nobody *)
(* needs its id any more; the updates that cross later do no harm.         *)
Named == uId = amfId /\ \A m \in msgs : m.k = "upd" => m.id = amfId

(* Context k, and no other in a pool, has the UE's connection.             *)
Has(k) ==
  /\ owner[uConn] # 0 /\ ctx[k].sock = uConn
  /\ \A j \in Ctxs : ctx[j].pool /\ ctx[j].sock = uConn => j = k

(* Where the UE is: connected where its parameters say, not yet, and on    *)
(* its way with the first message of a new connection.                     *)
Arrived == open = {uConn} /\ link[uConn] = uGnb
Away    == Named /\ Has(serving) /\ LiveIn({serving}) /\ link[uConn] # uGnb
Arriving(m) ==
  /\ Arrived /\ LiveIn({serving}) /\ m.id = amfId /\ ctx[serving].gnb # uGnb
  /\ m.at = "conn" => m.x = uConn
  /\ m.at # "conn" => /\ owner[uConn] # 0 /\ ctx[m.x].sock = uConn
                      /\ \A k \in Ctxs : ctx[k].sock = uConn => k = m.x

(* p is the context prepared by a Handover Request, o the one that a path  *)
(* switch has left behind.                                                 *)
Prep(p) ==
  /\ ho # NoHo /\ p \in Ctxs
  /\ ctx[p].amf = ho.id /\ ctx[p].src = amfId /\ ctx[p].gnb = uGnb /\ ctx[p].pool
  /\ \A k \in Ctxs : k # p => Plain(k)
Left(o) ==
  /\ ctx[o].pool /\ ctx[o].amf = amfId /\ ctx[o].gnb # uGnb
  /\ LiveIn({serving, o})
Rest == AllPlain /\ Has(serving) /\ Arrived

(* What holds while the handover is at each of its messages.               *)
StN2(m) ==
  /\ Away /\ AllPlain /\ open = {uConn} /\ m.id = amfId
  /\ m.x = IF m.at = "conn" THEN uConn ELSE serving
StRequest(m) ==
  /\ Away /\ open = {uConn} /\ ho # NoHo /\ m.x = amfId /\ m.id = ho.id
  /\ \A k \in Ctxs : Plain(k)
StAck(m)     == Away /\ open = {uConn} /\ Prep(m.x) /\ m.id = ho.id
StCommand(m) == Away /\ open = {uConn} /\ Prep(ho.ctx) /\ m.x = serving
StCmd        == Away /\ Prep(ho.ctx)
StAccess(m)  == Arriving(m) /\ Prep(ho.ctx)
StSwapped(m) ==
  /\ Arrived /\ Prep(m.id) /\ ho.ctx = m.id /\ owner[uConn] # 0
  /\ ctx[m.id].sock = uConn /\ ctx[m.id].st = "ready"
  /\ m.x \in Ctxs /\ ctx[m.x].pool /\ ctx[m.x].amf = 0
  /\ \A j \in Ctxs : ctx[j].pool /\ ctx[j].sock = uConn => j \in {m.id, m.x}
  /\ LiveIn({serving, m.id})
StNotify(m) ==
  /\ Arrived /\ Prep(m.x) /\ ho.ctx = m.x /\ Has(m.x) /\ ctx[m.x].st = "ready"
  /\ LiveIn({serving, m.x})
StRelease(m) ==
  Rest /\ LiveIn({serving, m.x}) /\ m.x # serving /\ ctx[m.x].amf # amfId
StPs(m)      == Arriving(m) /\ AllPlain
StPsreq(m) ==
  /\ AllPlain /\ Arrived /\ Has(m.x) /\ m.id = amfId /\ ctx[serving].gnb # uGnb
  /\ ctx[m.x].amf = amfId /\ ctx[m.x].st = "ready" /\ LiveIn({serving, m.x})
StPsack(m)   == Rest /\ m.id = amfId /\ \E o \in Ctxs : Left(o)
StXnrel(m)   == Rest /\ m.id = amfId /\ \E o \in Ctxs : Left(o) /\ ctx[o].gnb = m.g

(* A path switch that is asked for with another id than the AMF's, which   *)
(* the UE may have, is refused.                                            *)
SrvOK(m) ==
  /\ m.k \in {"n2", "required"} => StN2(m)
  /\ m.k = "request" => StRequest(m)
  /\ m.k = "ack" => StAck(m)
  /\ m.k = "command" => StCommand(m)
  /\ m.k \in {"cmd", "dial"} => StCmd
  /\ m.k = "access" => StAccess(m)
  /\ m.k = "swapped" => StSwapped(m)
  /\ m.k = "notify" => StNotify(m)
  /\ m.k = "release" => StRelease(m)
  /\ m.k = "ps" /\ m.id = amfId => StPs(m)
  /\ m.k = "psreq" /\ m.id = amfId => StPsreq(m)
  /\ m.k = "psack" => StPsack(m)
  /\ m.k = "xnrel" => StXnrel(m)

AmfAgrees ==
  /\ ctx[serving].amf = amfId /\ ctx[serving].st = "ready"
  /\ ho = NoHo => lastId = amfId
  /\ ho # NoHo => ho.id = lastId /\ amfId < lastId /\ ho.src = serving
AtRest ==
  call.pc = "idle" /\ (\A m \in msgs : ~Main(m)) => Rest /\ LiveIn({serving})
InCall ==
  call.pc # "idle" => /\ AllPlain /\ Has(serving) /\ link[uConn] = uGnb
                      /\ LiveIn({serving}) /\ call.g # uGnb

SrvInv ==
  Fine => AmfAgrees /\ AtRest /\ InCall /\ \A m \in msgs : SrvOK(m)

-----------------------------------------------------------------------------
LEMMA InitSrv == Init => SrvInv
<1> SUFFICES ASSUME Init PROVE SrvInv
    OBVIOUS
<1> USE Bounds, HomeAssumption
<1>1. /\ ctx[1].sock = 1 /\ ctx[1].gnb = Home /\ ctx[1].pool /\ ctx[1].amf = 1 /\ ctx[1].src = 0
      /\ ctx[1].st = "ready"
      /\ \A k \in Ctxs : k # 1 => ctx[k].sock = 0 /\ ctx[k].amf = 0 /\ ctx[k].src = 0
                                  /\ ~ctx[k].pool
    BY DEF Init, NewGnBUe, NoCtx
<1>2. /\ uConn = 1 /\ owner[1] # 0 /\ link[1] = Home /\ uGnb = Home /\ open = {1} /\ uId = 1
      /\ amfId = 1 /\ serving = 1 /\ ho = NoHo /\ lastId = 1 /\ msgs = {} /\ call.pc = "idle"
    BY DEF Init, Idle
<1>3. AmfAgrees
    BY <1>1, <1>2 DEF AmfAgrees
<1>4. \A k \in Ctxs : Plain(k)
    BY <1>1, <1>2 DEF Plain
<1>5. AtRest
    BY <1>1, <1>2, <1>4 DEF AtRest, Rest, AllPlain, Has, Arrived, LiveIn, Live
<1> QED BY <1>2, <1>3, <1>5 DEF SrvInv, InCall

(* What a clean handover has that others need not have.                    *)
LEMMA CleanFacts ==
  ASSUME OneInv, SrvInv, Fine
  PROVE  /\ LoneInv /\ ConnInv /\ ctx[serving].pool /\ ~released
         /\ AmfAgrees /\ AtRest /\ InCall
         /\ \A m \in msgs : /\ StageOK(m) /\ SrvOK(m)
                            /\ ~Main(m) => m.k \in {"listen", "upd"}
  BY DEF OneInv, SrvInv, Clean, Fine, Main, StageOK

LEMMA StepTypes ==
  ASSUME IInv
  PROVE  /\ serving \in Ctxs /\ amfId \in Nat /\ amfId # 0 /\ lastId \in Nat /\ uConn \in Conns
         /\ uGnb \in Gnbs /\ ctx \in [Ctxs -> CtxRec] /\ nConn \in Nat
         /\ \A k \in Ctxs : ctx[k].amf \in Nat /\ ctx[k].src \in Nat
         /\ owner \in [Conns -> Zero(Ctxs)] /\ link \in [Conns -> AnyGnb]
         /\ ho \in [src : Zero(Ctxs), ctx : Zero(Ctxs), id : Zero(Ids)]
  BY Groups, Bounds DEF UeT, GnbT, AmfT, CtxRec, Zero

(* A step of the handover that answers its message with another.           *)
LEMMA SrvMain ==
  ASSUME OneInv, SrvInv, Fine, Fine', NEW m \in msgs, Main(m), NEW ms,
         msgs' \subseteq (msgs \ {m}) \cup ms, UNCHANGED call,
         NEW n \in msgs', Main(n), \A d \in ms : SrvOK(d)', AmfAgrees'
  PROVE  SrvInv'
<1>1. call.pc = "idle" /\ \A d \in msgs \ {m} : ~Main(d) /\ d.k \in {"listen", "upd"}
    BY CleanFacts, Alone
<1>2. \A d : Main(d)' <=> Main(d)
    BY DEF Main, Clean, Fine
<1>3. AtRest' /\ InCall'
    BY <1>1, <1>2 DEF AtRest, InCall
<1>4. \A d \in msgs \ {m} : SrvOK(d)'
    BY <1>1 DEF SrvOK
<1> QED BY <1>3, <1>4 DEF SrvInv

(* The last step of a handover.                                            *)
LEMMA SrvLast ==
  ASSUME OneInv, SrvInv, Fine, Fine', NEW m \in msgs, Main(m),
         msgs' \subseteq msgs \ {m}, UNCHANGED call, AmfAgrees', (Rest /\ LiveIn({serving}))'
  PROVE  SrvInv'
<1>1. call.pc = "idle" /\ \A d \in msgs \ {m} : ~Main(d) /\ d.k \in {"listen", "upd"}
    BY CleanFacts, Alone
<1>2. AtRest' /\ InCall'
    BY <1>1 DEF AtRest, InCall
<1>3. \A d \in msgs' : SrvOK(d)'
    BY <1>1 DEF SrvOK
<1> QED BY <1>2, <1>3 DEF SrvInv

(* The first step of a handover.                                           *)
LEMMA SrvFirst ==
  ASSUME OneInv, SrvInv, Fine, Fine', \A d \in msgs : ~Main(d), NEW ms,
         msgs' \subseteq msgs \cup ms, call'.pc = "idle",
         NEW n \in msgs', Main(n), \A d \in ms : SrvOK(d)', AmfAgrees'
  PROVE  SrvInv'
<1>1. \A d \in msgs : d.k \in {"listen", "upd"}
    BY CleanFacts
<1>2. \A d : Main(d)' <=> Main(d)
    BY DEF Main, Clean, Fine
<1>3. AtRest' /\ InCall'
    BY <1>2 DEF AtRest, InCall
<1>4. \A d \in msgs : SrvOK(d)'
    BY <1>1 DEF SrvOK
<1> QED BY <1>3, <1>4 DEF SrvInv

-----------------------------------------------------------------------------
(* A step beside the handover: contexts that are in use stay as they are,  *)
(* and a UE that is to move keeps its id.                                  *)
Frame ==
  /\ UNCHANGED <<uConn, uGnb, link, open, serving, amfId, ho, lastId, call>>
  /\ \A k \in Ctxs : ctx[k].pool \/ ctx[k].sock # 0 => ctx'[k] = ctx[k]
  /\ \A k \in Ctxs : (Plain(k) => Plain(k)') /\ (Live(k)' => Live(k))
  /\ owner[uConn] # 0 =>
       owner'[uConn] # 0 /\ \A k \in Ctxs : ctx'[k].sock = uConn => ctx'[k] = ctx[k]
  /\ Away => Named'

LEMMA FramePreds ==
  ASSUME IInv, Frame
  PROVE  /\ (Arrived => Arrived') /\ (AllPlain => AllPlain')
         /\ LiveIn({serving}) => LiveIn({serving})'
         /\ Has(serving) => Has(serving)'
         /\ Prep(ho.ctx) => Prep(ho.ctx)'
         /\ \A x : LiveIn({serving, x}) => LiveIn({serving, x})'
         /\ \A x : HasSock(x) /\ Has(x) => Has(x)'
         /\ \A x : Prep(x) => Prep(x)'
         /\ \A x : HasSock(x) => x \in Ctxs /\ ctx'[x] = ctx[x]
         /\ ctx'[serving] = ctx[serving]
<1>1. HasSock(serving)
    BY Groups DEF AmfT, AmfInv
<1>2. (Arrived => Arrived') /\ (AllPlain => AllPlain')
    BY DEF Frame, Arrived, AllPlain
<1>3. LiveIn({serving}) => LiveIn({serving})'
    BY DEF Frame, LiveIn
<1>4. \A x : LiveIn({serving, x}) => LiveIn({serving, x})'
    BY DEF Frame, LiveIn
<1>5. \A x : HasSock(x) => x \in Ctxs /\ ctx'[x] = ctx[x]
    BY DEF Frame, HasSock
<1>6. \A x : HasSock(x) /\ Has(x) => Has(x)'
    BY <1>5 DEF Frame, Has, HasSock
<1>7. Has(serving) => Has(serving)'
    BY <1>1, <1>5 DEF Frame, Has, HasSock
<1>8. \A x : Prep(x) => Prep(x)'
    BY DEF Frame, Prep
<1>9. Prep(ho.ctx) => Prep(ho.ctx)'
    BY DEF Frame, Prep
<1>10. ctx'[serving] = ctx[serving]
    BY <1>1, <1>5
<1> QED BY <1>2, <1>3, <1>4, <1>5, <1>6, <1>7, <1>8, <1>9, <1>10

LEMMA FrameStage ==
  ASSUME IInv, ~released, Frame, NEW m \in msgs, StageOK(m), SrvOK(m)
  PROVE  SrvOK(m)'
<1> USE FramePreds
<1>0. MsgOK(m)
    BY AMsg
<1>1. Away => Away'
    BY DEF Away, Frame
<1>2. Rest => Rest'
    BY DEF Rest
<1>3. m.k \in {"n2", "required"} => StN2(m)'
    BY <1>1 DEF SrvOK, StN2, Frame
<1>4. m.k = "request" => StRequest(m)'
    BY <1>1 DEF SrvOK, StRequest, Frame
<1>5. (m.k = "ack" => StAck(m)') /\ (m.k = "command" => StCommand(m)')
    BY <1>1 DEF SrvOK, StAck, StCommand, Frame
<1>6. m.k \in {"cmd", "dial"} => StCmd'
    BY <1>1 DEF SrvOK, StCmd
<1>7. m.k \in {"access", "ps"} /\ Arriving(m) => Arriving(m)'
  <2>1. m.k \in {"access", "ps"} /\ Arriving(m) /\ m.at # "conn" =>
          /\ owner'[uConn] # 0 /\ ctx'[m.x].sock = uConn
          /\ \A k \in Ctxs : ctx'[k].sock = uConn => k = m.x
      BY <1>0 DEF Arriving, Frame, MsgOK, StageOK, Fresh
  <2> QED BY <2>1 DEF Arriving, Frame
<1>8. (m.k = "access" => StAccess(m)') /\ (m.k = "ps" /\ m.id = amfId => StPs(m)')
    BY <1>7 DEF SrvOK, StAccess, StPs
<1>9. m.k = "swapped" => StSwapped(m)'
  <2> SUFFICES ASSUME m.k = "swapped" PROVE StSwapped(m)'
      OBVIOUS
  <2>1. StSwapped(m) /\ HasSock(m.id)
      BY <1>0 DEF SrvOK, MsgOK
  <2>2. ctx'[m.id] = ctx[m.id] /\ ctx'[m.x] = ctx[m.x]
      BY <2>1 DEF StSwapped, Frame
  <2>3. owner'[uConn] # 0 /\ \A j \in Ctxs : ctx'[j].pool /\ ctx'[j].sock = uConn => j \in {m.id, m.x}
      BY <2>1 DEF StSwapped, Frame
  <2> QED BY <2>1, <2>2, <2>3 DEF StSwapped, Frame
<1>10. m.k = "notify" => StNotify(m)'
    BY <1>0 DEF SrvOK, StNotify, Frame, MsgOK
<1>11. m.k = "release" => StRelease(m)'
    BY <1>2 DEF SrvOK, StRelease, Frame, StageOK
<1>12. m.k = "psreq" /\ m.id = amfId => StPsreq(m)'
    BY <1>0 DEF SrvOK, StPsreq, Frame, MsgOK
<1>13. \A o \in Ctxs : Left(o) => Left(o)' /\ ctx'[o] = ctx[o]
    BY DEF Left, Frame
<1>14. (m.k = "psack" => StPsack(m)') /\ (m.k = "xnrel" => StXnrel(m)')
    BY <1>2, <1>13 DEF SrvOK, StPsack, StXnrel, Frame
<1>15. amfId' = amfId
    BY DEF Frame
<1> QED BY <1>3, <1>4, <1>5, <1>6, <1>8, <1>9, <1>10, <1>11, <1>12, <1>14, <1>15 DEF SrvOK

LEMMA SrvFrame ==
  ASSUME IInv, OneInv, SrvInv, Fine, Fine', Frame,
         \A n \in msgs' \ msgs : ~Main(n) /\ n.k # "release",
         \A n \in msgs \ msgs' : ~Main(n)
  PROVE  SrvInv'
<1>0. \A n : Main(n)' <=> Main(n)
    BY DEF Main, Clean, Fine
<1>1. AmfAgrees'
    BY CleanFacts, FramePreds DEF AmfAgrees, Frame
<1>2. Rest /\ LiveIn({serving}) => (Rest /\ LiveIn({serving}))'
    BY FramePreds DEF Rest, Frame
<1>3. AtRest'
    BY <1>0, <1>2, CleanFacts DEF AtRest, Frame
<1>4. InCall'
    BY CleanFacts, FramePreds DEF InCall, Frame
<1>5. \A n \in msgs : SrvOK(n)'
    BY CleanFacts, FrameStage
<1>6. \A n \in msgs' \ msgs : SrvOK(n)'
    BY FramePreds DEF SrvOK, Main
<1> QED BY <1>1, <1>3, <1>4, <1>5, <1>6 DEF SrvInv

LEMMA FrameSame ==
  ASSUME UNCHANGED <<uConn, uGnb, link, open, serving, amfId, ho, lastId, call, ctx, owner>>,
         Away => Named'
  PROVE  Frame
  BY DEF Frame, Plain, Live

LEMMA UeListenSrv ==
  ASSUME IInv, PlaceInv, OneInv, SrvInv, Fine, Fine', NEW m \in msgs, UeListen(m)
  PROVE  SrvInv'
<1>1. UNCHANGED <<uConn, uId, uGnb, link, open, serving, amfId, ho, lastId, call, ctx, owner>>
      /\ m.k = "listen" /\ msgs' = msgs \ {m}
    BY DEF UeListen, gnbVars, amfVars, opVars, Replace
<1>2. Away => Named'
    BY <1>1 DEF Away, Named
<1>3. Frame
    BY <1>1, <1>2, FrameSame
<1> QED BY <1>1, <1>3, SrvFrame DEF Main

LEMMA DispatchUpdateSrv ==
  ASSUME IInv, PlaceInv, OneInv, SrvInv, Fine, Fine', NEW m \in msgs, DispatchUpdate(m)
  PROVE  SrvInv'
<1>1. UNCHANGED <<uConn, uGnb, link, open, serving, amfId, ho, lastId, call, ctx, owner>>
      /\ m.k = "upd" /\ msgs' = msgs \ {m} /\ uId' = m.id
    BY DEF DispatchUpdate, gnbVars, amfVars, opVars, Replace
<1>2. Away => Named'
    BY <1>1 DEF Away, Named
<1>3. Frame
    BY <1>1, <1>2, FrameSame
<1> QED BY <1>1, <1>3, SrvFrame DEF Main

LEMMA UeReadsSrv ==
  ASSUME IInv, PlaceInv, OneInv, SrvInv, Fine, Fine', NEW m \in msgs, UeReads(m)
  PROVE  SrvInv'
<1> DEFINE n == [m EXCEPT !.at = "ue"]
<1>0. m \in MsgRec
    BY AMsg
<1>1. UNCHANGED <<uConn, uId, uGnb, link, open, serving, amfId, ho, lastId, call, ctx, owner>>
      /\ m.k \in {"cmd", "upd", "rel"} /\ msgs' = (msgs \ {m}) \cup {n} /\ n.k = m.k /\ n.id = m.id
    BY <1>0 DEF UeReads, ueVars, gnbVars, amfVars, opVars, Replace, MsgRec
<1> HIDE DEF n
<1>2. Away => Named'
    BY <1>1 DEF Away, Named
<1>3. Frame
    BY <1>1, <1>2, FrameSame
<1>4. CASE m.k = "cmd"
  <2> DEFINE ms == {n}
  <2>1. Main(m) /\ Main(n) /\ n \in msgs' /\ msgs' \subseteq (msgs \ {m}) \cup ms
      BY <1>1, <1>4 DEF Main
  <2>2. SrvOK(m)' /\ AmfAgrees'
      BY <1>3, CleanFacts, FrameStage, FramePreds DEF AmfAgrees, Frame
  <2>3. \A d \in ms : SrvOK(d)'
      BY <1>1, <1>4, <2>2 DEF SrvOK
  <2> HIDE DEF ms
  <2> QED BY <1>1, <2>1, <2>2, <2>3, SrvMain
<1>5. CASE m.k = "upd"
    BY <1>1, <1>3, <1>5, CleanFacts, SrvFrame DEF Main, SrvOK
<1>6. CASE m.k = "rel"
    BY <1>6, CleanFacts DEF StageOK
<1> QED BY <1>1, <1>4, <1>5, <1>6

(* A UE that is to move is not yet where its parameters say: no context of *)
(* that gNB has its addresses, be the link a unix socket or not.           *)
LEMMA ResolveUeConnectionDetailsSrv ==
  ASSUME IInv, PlaceInv, OneInv, SrvInv, Fine, Fine', NEW k \in Ctxs,
         ResolveUeConnectionDetails(k)
  PROVE  SrvInv'
<1>1. UNCHANGED <<uConn, uGnb, link, open, serving, amfId, ho, lastId, call, ctx, owner, msgs>>
      /\ k \in Pool(uGnb) /\ ctx[k].sock # 0 /\ SameAddresses(ctx[k].sock)
    BY DEF ResolveUeConnectionDetails, gnbVars, amfVars, opVars
<1>2. link[uConn] = uGnb
    BY <1>1 DEF Pool, PlaceInv, SameAddresses
<1>3. Frame
    BY <1>1, <1>2, FrameSame DEF Away
<1> QED BY <1>1, <1>3, SrvFrame

LEMMA AcceptSrv ==
  ASSUME IInv, PlaceInv, OneInv, SrvInv, Fine, Fine', NEW c \in Conns, Accept(c)
  PROVE  SrvInv'
<1> DEFINE r == NewGnBUe(link[c], c)
<1>1. UNCHANGED <<uConn, uId, uGnb, link, open, serving, amfId, ho, lastId, call, msgs>>
      /\ owner[c] = 0 /\ nCtx < MaxCtxs
      /\ ctx' = [ctx EXCEPT ![NewCtx] = r] /\ owner' = [owner EXCEPT ![c] = NewCtx]
    BY DEF Accept, ueVars, amfVars, opVars
<1>2. r.sock = c /\ r.amf = 0 /\ r.src = 0 /\ r.st = "initialized"
    BY DEF NewGnBUe, NoCtx
<1> HIDE DEF r
<1>3. PICK j : j = NewCtx
    OBVIOUS
<1>4. j \in Ctxs /\ ctx'[j] = r /\ \A k \in Ctxs : k # j => ctx'[k] = ctx[k]
    BY <1>1, <1>3, NewCtxFacts, StepTypes
<1>5. ~ctx[j].pool /\ ctx[j].sock = 0
    BY <1>1, <1>3, NewCtxFacts
<1>6. \A e \in Conns : e # c => owner'[e] = owner[e]
    BY <1>1, StepTypes
<1>7. \A k \in Ctxs : (Plain(k) => Plain(k)') /\ (Live(k)' => Live(k))
  <2>1. Plain(j)' /\ ~Live(j)'
      BY <1>1, <1>2, <1>4, StepTypes DEF Plain, Live
  <2> QED BY <1>1, <1>4, <2>1 DEF Plain, Live
<1>8. owner[uConn] # 0 =>
        owner'[uConn] # 0 /\ \A k \in Ctxs : ctx'[k].sock = uConn => ctx'[k] = ctx[k]
    BY <1>1, <1>2, <1>4, <1>6, StepTypes
<1>9. Away => Named'
    BY <1>1 DEF Away, Named
<1>10. Frame
    BY <1>1, <1>4, <1>5, <1>7, <1>8, <1>9 DEF Frame
<1> QED BY <1>1, <1>10, SrvFrame

-----------------------------------------------------------------------------
(* The steps of a handover, in their order.  Most leave the contexts and   *)
(* what the AMF knows alone.                                               *)
LEMMA SameHas ==
  ASSUME UNCHANGED <<ctx, owner, uConn, serving, amfId>>
  PROVE  /\ Has(serving) => Has(serving)'
         /\ \A x : Has(x) => Has(x)'
         /\ LiveIn({serving}) => LiveIn({serving})'
         /\ \A x : LiveIn({serving, x}) => LiveIn({serving, x})'
         /\ \A k : Plain(k) <=> Plain(k)'
  BY DEF Has, LiveIn, Live, Plain

LEMMA SamePrep ==
  ASSUME UNCHANGED <<ctx, amfId, ho, uGnb, lastId, serving>>
  PROVE  /\ \A p : Prep(p) => Prep(p)'
         /\ Prep(ho.ctx) => Prep(ho.ctx)'
         /\ AllPlain => AllPlain'
         /\ AmfAgrees => AmfAgrees'
  BY DEF Prep, AllPlain, AmfAgrees, Plain

LEMMA TriggerN2Srv ==
  ASSUME IInv, PlaceInv, OneInv, SrvInv, Fine, Fine', NEW t \in Gnbs, TriggerN2(t)
  PROVE  SrvInv'
<1>0. PICK n : n = Msg("n2", "conn", uConn, uId, t)
    OBVIOUS
<1>1. UNCHANGED <<uConn, uId, link, open, serving, amfId, ho, lastId, call, ctx, owner>>
      /\ call = Idle /\ (t # uGnb \/ t # link[uConn]) /\ uGnb' = t /\ msgs = {}
      /\ msgs' = Write("n2", uConn, uId, t) /\ uId = amfId
    BY DEF TriggerN2, CanCall, Send, Quiet, Clean, Fine, gnbVars, amfVars
<1>2. n.k = "n2" /\ n.at = "conn" /\ n.x = uConn /\ n.id = uId
    BY <1>0 DEF Msg
<1>3. AllPlain /\ Has(serving) /\ Arrived /\ LiveIn({serving}) /\ AmfAgrees
    BY <1>1, CleanFacts DEF AtRest, Rest, Idle
<1>4. msgs' = {n}
    BY <1>0, <1>1, <1>3 DEF Write, Arrived
<1>5. Has(serving)' /\ LiveIn({serving})' /\ AllPlain' /\ AmfAgrees'
    BY <1>1, <1>3, SameHas DEF AllPlain, AmfAgrees
<1>6. Named'
    BY <1>1, <1>2, <1>3, <1>4 DEF Named
<1>7. StN2(n)'
    BY <1>1, <1>2, <1>3, <1>5, <1>6 DEF StN2, Away, Arrived
<1> DEFINE ms == {n}
<1>8. (\A d \in ms : SrvOK(d)') /\ Main(n) /\ n \in msgs' /\ msgs' \subseteq msgs \cup ms
    BY <1>2, <1>4, <1>7 DEF SrvOK, Main
<1> HIDE DEF ms
<1>9. call'.pc = "idle"
    BY <1>1 DEF Idle
<1> QED BY <1>1, <1>5, <1>8, <1>9, SrvFirst

LEMMA TriggerXnSrv ==
  ASSUME IInv, PlaceInv, OneInv, SrvInv, Fine, Fine', NEW t \in Gnbs, TriggerXn(t)
  PROVE  SrvInv'
<1>1. UNCHANGED <<uConn, uId, uGnb, link, open, serving, amfId, ho, lastId, ctx, owner, msgs>>
      /\ call = Idle /\ (t # uGnb \/ t # link[uConn]) /\ msgs = {}
      /\ call' = [pc |-> "sleep", old |-> uConn, g |-> t]
    BY DEF TriggerXn, CanCall, Quiet, Clean, Fine, ueVars, gnbVars, amfVars
<1>2. AllPlain /\ Has(serving) /\ Arrived /\ LiveIn({serving}) /\ AmfAgrees
    BY <1>1, CleanFacts DEF AtRest, Rest, Idle
<1>3. Has(serving)' /\ LiveIn({serving})' /\ AllPlain' /\ AmfAgrees'
    BY <1>1, <1>2, SameHas DEF AllPlain, AmfAgrees
<1>4. InCall' /\ AtRest'
    BY <1>1, <1>2, <1>3 DEF InCall, AtRest, Arrived
<1> QED BY <1>1, <1>3, <1>4 DEF SrvInv

LEMMA XnCloseSrv ==
  ASSUME IInv, PlaceInv, OneInv, SrvInv, Fine, Fine', XnClose
  PROVE  SrvInv'
<1>1. UNCHANGED <<uConn, uId, uGnb, link, serving, amfId, ho, lastId, ctx, owner>>
      /\ call.pc = "sleep" /\ call'.pc = "dial" /\ call'.g = call.g /\ msgs' \subseteq msgs
    BY Groups DEF XnClose, gnbVars, amfVars, OpT
<1>2. /\ AllPlain /\ Has(serving) /\ link[uConn] = uGnb /\ LiveIn({serving})
      /\ call.g # uGnb /\ AmfAgrees
    BY <1>1, CleanFacts DEF InCall
<1>3. Has(serving)' /\ LiveIn({serving})' /\ AllPlain' /\ AmfAgrees'
    BY <1>1, <1>2, SameHas DEF AllPlain, AmfAgrees
<1>4. InCall' /\ AtRest'
    BY <1>1, <1>2, <1>3 DEF InCall, AtRest
<1>5. \A d \in msgs : d.k \in {"listen", "upd"}
    BY <1>1, <1>2, CleanFacts DEF LoneInv
<1>6. \A d \in msgs' : SrvOK(d)'
    BY <1>1, <1>5 DEF SrvOK
<1> QED BY <1>3, <1>4, <1>6 DEF SrvInv

(* A new connection: the parameters of the UE name its gNB.                *)
LEMMA ConnectArrives ==
  ASSUME IInv, NEW g, Connect(g), open = {}
  PROVE  open' = {uConn'} /\ link'[uConn'] = g /\ uConn' = NewConn
  BY StepTypes, NewConnType, Groups DEF Connect

LEMMA XnDialSrv ==
  ASSUME IInv, PlaceInv, OneInv, SrvInv, Fine, Fine', XnDial
  PROVE  SrvInv'
<1>0. PICK n : n = Msg("ps", "conn", NewConn, uId, NoGnb)
    OBVIOUS
<1>1. UNCHANGED <<uId, serving, amfId, ho, lastId, ctx, owner>>
      /\ call.pc = "dial" /\ call' = Idle /\ uGnb' = call.g /\ Connect(call.g)
      /\ msgs' = msgs \cup {Listen, n}
    BY <1>0 DEF XnDial, gnbVars, amfVars, Send
<1>2. n.k = "ps" /\ n.at = "conn" /\ n.x = NewConn /\ n.id = uId /\ Listen.k = "listen"
    BY <1>0 DEF Msg, Listen
<1>3. /\ AllPlain /\ Has(serving) /\ link[uConn] = uGnb /\ LiveIn({serving})
      /\ call.g # uGnb /\ AmfAgrees /\ open = {}
    BY <1>1, CleanFacts DEF InCall, ConnInv
<1>4. open' = {uConn'} /\ link'[uConn'] = uGnb' /\ uConn' = NewConn
    BY <1>1, <1>3, ConnectArrives
<1>5. ctx[serving].gnb = uGnb
    BY <1>3, StepTypes, Bounds DEF Has, PlaceInv
<1>6. LiveIn({serving})' /\ AllPlain' /\ AmfAgrees'
    BY <1>1, <1>3 DEF LiveIn, Live, AllPlain, Plain, AmfAgrees
<1>8. n.id = amfId' => StPs(n)'
  <2>1. uConn' = n.x /\ ctx'[serving'].gnb # uGnb'
      BY <1>1, <1>2, <1>3, <1>4, <1>5
  <2> QED BY <1>2, <1>4, <1>6, <2>1 DEF StPs, Arriving, Arrived
<1> DEFINE ms == {Listen, n}
<1>9. (\A d \in ms : SrvOK(d)') /\ Main(n) /\ n \in msgs' /\ msgs' \subseteq msgs \cup ms
  <2>1. \A d : d.k = "listen" => SrvOK(d)'
      BY DEF SrvOK
  <2>2. SrvOK(n)'
      BY <1>2, <1>8 DEF SrvOK
  <2> QED BY <1>1, <1>2, <2>1, <2>2 DEF Main
<1>10. call'.pc = "idle" /\ \A d \in msgs : ~Main(d)
    BY <1>1, <1>3, CleanFacts DEF Idle, LoneInv
<1> HIDE DEF ms
<1> QED BY <1>6, <1>9, <1>10, SrvFirst

LEMMA ProcessingConnSrv ==
  ASSUME IInv, PlaceInv, OneInv, SrvInv, Fine, Fine', NEW m \in msgs, NEW k \in Ctxs,
         ProcessingConn(m, k)
  PROVE  SrvInv'
<1>0. m \in MsgRec /\ MsgOK(m) /\ SrvOK(m) /\ StageOK(m)
    BY AMsg, CleanFacts
<1>1. PICK n : n = [m EXCEPT !.at = "ctx", !.x = k]
    OBVIOUS
<1>2. UNCHANGED <<uConn, uId, uGnb, link, open, serving, amfId, ho, lastId, call, ctx, owner>>
      /\ m.at = "conn" /\ m.k \in {"n2", "access", "ps"} /\ owner[m.x] # 0 /\ k \in ActiveUe(m.x)
      /\ msgs' = (msgs \ {m}) \cup {n} /\ n.k = m.k /\ n.x = k /\ n.at = "ctx" /\ n.id = m.id
    BY <1>0, <1>1 DEF ProcessingConn, ueVars, gnbVars, amfVars, opVars, Replace, MsgRec
<1>3. AmfAgrees /\ AmfAgrees'
    BY <1>2, CleanFacts, SamePrep
<1>4. LiveIn({serving}) => LiveIn({serving})'
    BY <1>2, SameHas
<1>5. (m.k = "n2") => StN2(n)'
  <2> SUFFICES ASSUME m.k = "n2" PROVE StN2(n)'
      OBVIOUS
  <2>1. StN2(m)
      BY <1>0 DEF SrvOK
  <2>2. serving \in {j \in Pool(link[m.x]) : ctx[j].sock = m.x}
      BY <1>2, <2>1, StepTypes, CleanFacts, Bounds DEF StN2, Away, Has, Pool, PlaceInv
  <2>3. k = serving
      BY <1>2, <2>1, <2>2 DEF ActiveUe, Pool, StN2, Away, Has
  <2>4. Has(serving)' /\ AllPlain' /\ Named'
      BY <1>2, <2>1, SameHas, SamePrep DEF StN2, Away, Named
  <2> QED BY <1>2, <1>4, <2>1, <2>3, <2>4 DEF StN2, Away
<1>6. m.k \in {"access", "ps"} /\ Arriving(m) => Arriving(n)'
  <2> SUFFICES ASSUME m.k \in {"access", "ps"}, Arriving(m) PROVE Arriving(n)'
      OBVIOUS
  <2>1. m.x = uConn /\ FreshConn(uConn)
      BY <1>0, <1>2 DEF Arriving, StageOK
  <2>2. k = owner[uConn]
      BY <1>2, <2>1 DEF ActiveUe, Pool, FreshConn
  <2>3. ctx[k].sock = uConn /\ \A j \in Ctxs : ctx[j].sock = uConn => j = k
      BY <1>2, <2>1, <2>2 DEF FreshConn
  <2> QED BY <1>2, <1>4, <2>1, <2>3 DEF Arriving, Arrived
<1>7. m.k = "access" => StAccess(n)'
    BY <1>0, <1>2, <1>6, SamePrep DEF SrvOK, StAccess
<1>8. m.k = "ps" /\ m.id = amfId => StPs(n)'
    BY <1>0, <1>2, <1>6, SamePrep DEF SrvOK, StPs
<1> DEFINE ms == {n}
<1>9. (\A d \in ms : SrvOK(d)') /\ Main(m) /\ Main(n) /\ n \in msgs'
      /\ msgs' \subseteq (msgs \ {m}) \cup ms
    BY <1>2, <1>5, <1>7, <1>8 DEF SrvOK, Main
<1> HIDE DEF ms
<1> QED BY <1>2, <1>3, <1>9, SrvMain

LEMMA HandleN2HandoverTriggerSrv ==
  ASSUME IInv, PlaceInv, OneInv, SrvInv, Fine, Fine', NEW m \in msgs,
         HandleN2HandoverTrigger(m)
  PROVE  SrvInv'
<1>0. m \in MsgRec /\ SrvOK(m)
    BY AMsg, CleanFacts
<1>1. PICK n : n = [m EXCEPT !.k = "required", !.at = "amf"]
    OBVIOUS
<1> DEFINE up == Update(m.x, m.id)
<1>2. UNCHANGED <<uConn, uId, uGnb, link, open, serving, amfId, ho, lastId, call, owner>>
      /\ m.at = "ctx" /\ m.k = "n2" /\ ctx' = [ctx EXCEPT ![m.x].amf = m.id]
      /\ msgs' = (msgs \ {m}) \cup ({n} \cup up)
      /\ n.k = "required" /\ n.x = m.x /\ n.at = "amf" /\ n.id = m.id
    BY <1>0, <1>1 DEF HandleN2HandoverTrigger, ueVars, amfVars, opVars, Replace, MsgRec
<1>u. \A d \in up : d.k = "upd" /\ d.id = m.id
    BY DEF Update, Write, Msg
<1> HIDE DEF up
<1>3. StN2(m) /\ AmfAgrees
    BY <1>0, <1>2, CleanFacts DEF SrvOK
<1>4. UNCHANGED ctx
  <2>1. m.x = serving /\ m.id = ctx[serving].amf
      BY <1>2, <1>3 DEF StN2, AmfAgrees
  <2>2. ctx[serving] \in CtxRec
      BY StepTypes
  <2>3. [ctx[serving] EXCEPT !.amf = ctx[serving].amf] = ctx[serving]
      BY <2>2 DEF CtxRec
  <2> QED BY <1>2, <2>1, <2>3, StepTypes
<1>5. Has(serving)' /\ LiveIn({serving})' /\ AllPlain' /\ AmfAgrees' /\ Named'
    BY <1>2, <1>3, <1>4, <1>u, SameHas, SamePrep DEF StN2, Away, Named
<1>6. StN2(n)'
    BY <1>2, <1>3, <1>5 DEF StN2, Away
<1> DEFINE ms == {n} \cup up
<1>7. (\A d \in ms : SrvOK(d)') /\ Main(m) /\ Main(n) /\ n \in msgs'
      /\ msgs' \subseteq (msgs \ {m}) \cup ms
  <2>1. \A d \in up : SrvOK(d)'
      BY <1>u DEF SrvOK
  <2>2. SrvOK(n)'
      BY <1>2, <1>6 DEF SrvOK
  <2> QED BY <1>2, <2>1, <2>2 DEF Main
<1> HIDE DEF ms
<1> QED BY <1>2, <1>5, <1>7, SrvMain

LEMMA AmfHandoverRequiredSrv ==
  ASSUME IInv, PlaceInv, OneInv, SrvInv, Fine, Fine', NEW m \in msgs,
         AmfHandoverRequired(m)
  PROVE  SrvInv'
<1>0. SrvOK(m) /\ AmfAgrees
    BY CleanFacts
<1>1. PICK n : n = Msg("request", "gnb", m.id, lastId + 1, m.g)
    OBVIOUS
<1>2. UNCHANGED <<uConn, uId, uGnb, link, open, serving, amfId, call, ctx, owner>>
      /\ m.k = "required" /\ m.x = serving /\ lastId' = lastId + 1
      /\ ho' = [src |-> m.x, ctx |-> 0, id |-> lastId + 1]
      /\ msgs' = (msgs \ {m}) \cup {n}
    BY <1>1 DEF AmfHandoverRequired, ueVars, gnbVars, opVars, Replace
<1>3. n.k = "request" /\ n.x = m.id /\ n.id = lastId + 1
    BY <1>1 DEF Msg
<1>4. StN2(m)
    BY <1>0, <1>2 DEF SrvOK
<1>5. ho' # NoHo /\ ho'.id = lastId' /\ ho'.src = serving /\ lastId = amfId /\ amfId < lastId'
    BY <1>0, <1>2, <1>4, StepTypes DEF NoHo, StN2, AllPlain, AmfAgrees
<1>6. Has(serving)' /\ LiveIn({serving})' /\ (\A k \in Ctxs : Plain(k)') /\ AmfAgrees' /\ Named'
    BY <1>0, <1>2, <1>3, <1>4, <1>5, SameHas DEF StN2, Away, AllPlain, AmfAgrees, Named
<1>7. StRequest(n)'
    BY <1>2, <1>3, <1>4, <1>5, <1>6 DEF StRequest, StN2, Away
<1> DEFINE ms == {n}
<1>8. (\A d \in ms : SrvOK(d)') /\ Main(m) /\ Main(n) /\ n \in msgs'
      /\ msgs' \subseteq (msgs \ {m}) \cup ms
    BY <1>2, <1>3, <1>7 DEF SrvOK, Main
<1> HIDE DEF ms
<1> QED BY <1>2, <1>6, <1>8, SrvMain

LEMMA HandlerHandoverRequestSrv ==
  ASSUME IInv, PlaceInv, OneInv, SrvInv, Fine, Fine', NEW m \in msgs,
         HandlerHandoverRequest(m)
  PROVE  SrvInv'
<1>0. SrvOK(m) /\ StageOK(m) /\ AmfAgrees /\ ctx[serving].pool
    BY CleanFacts
<1>1. PICK n, p : n = Msg("ack", "amf", NewCtx, m.id, NoGnb) /\ p = NewCtx
    OBVIOUS
<1> DEFINE r == [NewGnBUe(m.g, 0) EXCEPT !.amf = m.id, !.src = m.x, !.st = "ongoing"]
<1>2. UNCHANGED <<uConn, uId, uGnb, link, open, serving, amfId, ho, lastId, call, owner>>
      /\ m.k = "request" /\ nCtx < MaxCtxs /\ ctx' = [ctx EXCEPT ![p] = r]
      /\ msgs' = (msgs \ {m}) \cup {n} /\ n.k = "ack" /\ n.x = p /\ n.id = m.id
    BY <1>1 DEF HandlerHandoverRequest, ueVars, amfVars, opVars, Replace, Msg
<1>3. r.sock = 0 /\ r.gnb = m.g /\ r.pool /\ r.amf = m.id /\ r.src = m.x /\ r.st = "ongoing"
    BY DEF NewGnBUe, NoCtx
<1> HIDE DEF r
<1>4. p \in Ctxs /\ serving # p /\ ctx'[p] = r /\ \A k \in Ctxs : k # p => ctx'[k] = ctx[k]
    BY <1>1, <1>2, NewCtxFacts, StepTypes
<1>5. StRequest(m) /\ m.g = uGnb
    BY <1>0, <1>2 DEF SrvOK, StageOK
<1>6. ho.id # amfId /\ uConn # 0
    BY <1>0, <1>5, StepTypes, Bounds DEF AmfAgrees, StRequest
<1>7. Has(serving)'
    BY <1>2, <1>3, <1>4, <1>5, <1>6, StepTypes DEF Has, StRequest, Away
<1>8. LiveIn({serving})'
    BY <1>2, <1>3, <1>4, <1>5, <1>6 DEF LiveIn, Live, StRequest, Away
<1>9. Prep(p)'
    BY <1>2, <1>3, <1>4, <1>5 DEF Prep, Plain, StRequest
<1>10. AmfAgrees' /\ Named'
    BY <1>0, <1>2, <1>4, <1>5, StepTypes DEF AmfAgrees, Named, StRequest, Away
<1>11. StAck(n)'
    BY <1>2, <1>5, <1>7, <1>8, <1>9, <1>10 DEF StAck, Away, StRequest
<1> DEFINE ms == {n}
<1>12. (\A d \in ms : SrvOK(d)') /\ Main(m) /\ Main(n) /\ n \in msgs'
      /\ msgs' \subseteq (msgs \ {m}) \cup ms
    BY <1>2, <1>11 DEF SrvOK, Main
<1> HIDE DEF ms
<1> QED BY <1>2, <1>10, <1>12, SrvMain

LEMMA AmfHandoverRequestAckSrv ==
  ASSUME IInv, PlaceInv, OneInv, SrvInv, Fine, Fine', NEW m \in msgs,
         AmfHandoverRequestAck(m)
  PROVE  SrvInv'
<1>0. SrvOK(m) /\ AmfAgrees
    BY CleanFacts
<1>1. m.k = "ack"
    BY DEF AmfHandoverRequestAck
<1>2. StAck(m)
    BY <1>0, <1>1 DEF SrvOK
<1>3. ho.src = serving /\ ho.id = m.id /\ ho # NoHo
    BY <1>0, <1>2 DEF StAck, Prep, AmfAgrees
<1>4. PICK n : n = Msg("command", "gnb", serving, m.id, NoGnb)
    OBVIOUS
<1>5. UNCHANGED <<uConn, uId, uGnb, link, open, serving, amfId, lastId, call, ctx, owner>>
      /\ ho' = [ho EXCEPT !.ctx = m.x] /\ msgs' = (msgs \ {m}) \cup {n}
    BY <1>3, <1>4 DEF AmfHandoverRequestAck, ueVars, gnbVars, opVars, Replace
<1>6. n.k = "command" /\ n.x = serving
    BY <1>4 DEF Msg
<1>7. ho'.src = ho.src /\ ho'.id = ho.id /\ ho'.ctx = m.x /\ ho' # NoHo
    BY <1>2, <1>3, <1>5, StepTypes, Bounds DEF NoHo, StAck, Prep
<1>8. Has(serving)' /\ LiveIn({serving})' /\ AmfAgrees' /\ Named'
    BY <1>0, <1>2, <1>3, <1>5, <1>6, <1>7, SameHas DEF StAck, Away, AmfAgrees, Named
<1>9. Prep(ho.ctx)'
    BY <1>2, <1>5, <1>7 DEF StAck, Prep, Plain
<1>10. StCommand(n)'
    BY <1>2, <1>5, <1>6, <1>8, <1>9 DEF StCommand, StAck, Away
<1> DEFINE ms == {n}
<1>11. (\A d \in ms : SrvOK(d)') /\ Main(m) /\ Main(n) /\ n \in msgs'
      /\ msgs' \subseteq (msgs \ {m}) \cup ms
    BY <1>1, <1>5, <1>6, <1>10 DEF SrvOK, Main
<1> HIDE DEF ms
<1> QED BY <1>5, <1>8, <1>11, SrvMain

LEMMA HandlerHandoverCommandSrv ==
  ASSUME IInv, PlaceInv, OneInv, SrvInv, Fine, Fine', NEW m \in msgs,
         HandlerHandoverCommand(m)
  PROVE  SrvInv'
<1>0. SrvOK(m) /\ AmfAgrees /\ ctx[serving].pool
    BY CleanFacts
<1>1. m.k = "command"
    BY DEF HandlerHandoverCommand
<1>2. StCommand(m) /\ m.x = serving /\ ctx[serving].sock \in open
    BY <1>0, <1>1 DEF SrvOK, StCommand, Away, Has
<1>3. PICK n : n = Msg("cmd", "conn", ctx[m.x].sock, m.id, NoGnb)
    OBVIOUS
<1>4. UNCHANGED <<uConn, uId, uGnb, link, open, serving, amfId, ho, lastId, call, ctx, owner>>
      /\ msgs' = (msgs \ {m}) \cup {n} /\ n.k = "cmd"
    BY <1>0, <1>2, <1>3 DEF HandlerHandoverCommand, ueVars, gnbVars, amfVars, opVars, Replace, Write, Msg
<1>5. Has(serving)' /\ LiveIn({serving})' /\ AmfAgrees' /\ Named' /\ Prep(ho.ctx)'
    BY <1>0, <1>2, <1>4, SameHas, SamePrep DEF StCommand, Away, Named
<1>6. StCmd'
    BY <1>2, <1>4, <1>5 DEF StCommand, StCmd, Away
<1> DEFINE ms == {n}
<1>7. (\A d \in ms : SrvOK(d)') /\ Main(m) /\ Main(n) /\ n \in msgs'
      /\ msgs' \subseteq (msgs \ {m}) \cup ms
    BY <1>1, <1>4, <1>6 DEF SrvOK, Main
<1> HIDE DEF ms
<1> QED BY <1>4, <1>5, <1>7, SrvMain

LEMMA DispatchCommandSrv ==
  ASSUME IInv, PlaceInv, OneInv, SrvInv, Fine, Fine', NEW m \in msgs, DispatchCommand(m)
  PROVE  SrvInv'
<1>0. SrvOK(m) /\ AmfAgrees
    BY CleanFacts
<1>1. PICK n : n = Msg("dial", "ue", m.x, m.id, uGnb)
    OBVIOUS
<1>2. UNCHANGED <<uConn, uId, uGnb, link, serving, amfId, ho, lastId, call, ctx, owner>>
      /\ m.k = "cmd" /\ n.k = "dial" /\ n \in msgs' /\ msgs' \subseteq (msgs \ {m}) \cup {n}
    BY <1>1 DEF DispatchCommand, gnbVars, amfVars, opVars, Msg
<1>3. StCmd
    BY <1>0, <1>2 DEF SrvOK
<1>4. Has(serving)' /\ LiveIn({serving})' /\ AmfAgrees' /\ Named' /\ Prep(ho.ctx)'
    BY <1>0, <1>2, <1>3, SameHas, SamePrep DEF StCmd, Away, Named
<1>5. StCmd'
    BY <1>2, <1>3, <1>4 DEF StCmd, Away
<1> DEFINE ms == {n}
<1>6. (\A d \in ms : SrvOK(d)') /\ Main(m) /\ Main(n) /\ n \in msgs'
      /\ msgs' \subseteq (msgs \ {m}) \cup ms
    BY <1>2, <1>5 DEF SrvOK, Main
<1> HIDE DEF ms
<1> QED BY <1>2, <1>4, <1>6, SrvMain

LEMMA CommandDialSrv ==
  ASSUME IInv, PlaceInv, OneInv, SrvInv, Fine, Fine', NEW m \in msgs, CommandDial(m)
  PROVE  SrvInv'
<1>0. SrvOK(m) /\ StageOK(m) /\ AmfAgrees
    BY CleanFacts
<1>1. PICK n : n = Msg("access", "conn", NewConn, uId, NoGnb)
    OBVIOUS
<1>2. UNCHANGED <<uId, uGnb, serving, amfId, ho, lastId, call, ctx, owner>>
      /\ m.k = "dial" /\ Connect(m.g) /\ msgs' = (msgs \ {m}) \cup {Listen, n}
    BY <1>1 DEF CommandDial, gnbVars, amfVars, opVars, Replace
<1>3. n.k = "access" /\ n.at = "conn" /\ n.x = NewConn /\ n.id = uId /\ Listen.k = "listen"
    BY <1>1 DEF Msg, Listen
<1>4. StCmd /\ m.g = uGnb /\ open = {}
    BY <1>0, <1>2 DEF SrvOK, StageOK
<1>5. open' = {uConn'} /\ link'[uConn'] = uGnb' /\ uConn' = NewConn
    BY <1>2, <1>4, ConnectArrives
<1>6. ctx[serving].gnb # uGnb
    BY <1>4, StepTypes, Bounds DEF StCmd, Away, Has, PlaceInv
<1>7. LiveIn({serving})' /\ AmfAgrees' /\ Prep(ho.ctx)'
  <2>1. LiveIn({serving})'
      BY <1>2, <1>4 DEF StCmd, Away, LiveIn, Live
  <2>2. AmfAgrees' /\ Prep(ho.ctx)'
      BY <1>0, <1>2, <1>4, SamePrep DEF StCmd
  <2> QED BY <2>1, <2>2
<1>8. StAccess(n)'
  <2>1. uConn' = n.x /\ n.id = amfId' /\ ctx'[serving'].gnb # uGnb'
      BY <1>2, <1>3, <1>4, <1>5, <1>6 DEF StCmd, Away, Named
  <2> QED BY <1>3, <1>5, <1>7, <2>1 DEF StAccess, Arriving, Arrived
<1> DEFINE ms == {Listen, n}
<1>9. (\A d \in ms : SrvOK(d)') /\ Main(m) /\ Main(n) /\ n \in msgs'
      /\ msgs' \subseteq (msgs \ {m}) \cup ms
  <2>1. \A d : d.k = "listen" => SrvOK(d)'
      BY DEF SrvOK
  <2>2. SrvOK(n)'
      BY <1>3, <1>8 DEF SrvOK
  <2> QED BY <1>2, <1>3, <2>1, <2>2 DEF Main
<1> HIDE DEF ms
<1> QED BY <1>2, <1>7, <1>9, SrvMain

(* The context prepared for the UE's id is the only one it can access.     *)
LEMMA PreparedOne ==
  ASSUME IInv, PlaceInv, OneInv, SrvInv, Fine, NEW m \in msgs, m.k = "access", m.at = "ctx"
  PROVE  /\ StAccess(m) /\ Prepared(ctx[m.x].gnb, m.id) = {ho.ctx} /\ ho.ctx # m.x
         /\ ctx[m.x].gnb = uGnb /\ Fresh(m.x) /\ ho.ctx # serving
<1>1. SrvOK(m) /\ StageOK(m) /\ AmfAgrees
    BY CleanFacts
<1>2. StAccess(m) /\ ctx[m.x].gnb = uGnb /\ Fresh(m.x) /\ m.id = amfId /\ Prep(ho.ctx)
    BY <1>1 DEF SrvOK, StageOK, StAccess, Arriving
<1>3. ho.ctx \in Prepared(uGnb, amfId)
    BY <1>2 DEF Prep, Prepared, Pool
<1>4. ASSUME NEW k \in Prepared(uGnb, amfId), k # ho.ctx PROVE FALSE
  <2>1. k \in Ctxs /\ ctx[k].pool /\ ctx[k].gnb = uGnb /\ amfId \in {ctx[k].amf, ctx[k].src}
      BY DEF Prepared, Pool
  <2>2. Plain(k)
      BY <1>2, <1>4, <2>1 DEF Prep
  <2>3. ctx[k].amf = amfId
      BY <2>1, <2>2, StepTypes DEF Plain
  <2>4. k = serving
      BY <1>2, <2>1, <2>3 DEF StAccess, Arriving, LiveIn, Live
  <2> QED BY <1>2, <2>1, <2>4 DEF StAccess, Arriving
<1>5. ho.ctx # m.x /\ ho.ctx # serving
    BY <1>1, <1>2, StepTypes DEF Prep, Fresh, AmfAgrees
<1> QED BY <1>2, <1>3, <1>4, <1>5

LEMMA HandleTargetAccessUnknownSrv ==
  ASSUME IInv, PlaceInv, OneInv, SrvInv, Fine, NEW m \in msgs, HandleTargetAccessUnknown(m)
  PROVE  FALSE
  BY PreparedOne DEF HandleTargetAccessUnknown

LEMMA HandleTargetAccessSrv ==
  ASSUME IInv, PlaceInv, OneInv, SrvInv, Fine, Fine', NEW m \in msgs, NEW k \in Ctxs,
         HandleTargetAccess(m, k)
  PROVE  SrvInv'
<1>0. m \in MsgRec /\ AmfAgrees
    BY AMsg, CleanFacts
<1>1. m.k = "access" /\ m.at = "ctx" /\ k \in Prepared(ctx[m.x].gnb, m.id)
    BY DEF HandleTargetAccess
<1>2. StAccess(m) /\ k = ho.ctx /\ k # m.x /\ ctx[m.x].gnb = uGnb /\ Fresh(m.x) /\ k # serving
    BY <1>1, PreparedOne
<1>3. Prep(k) /\ Arriving(m) /\ m.id = amfId
    BY <1>2 DEF StAccess, Arriving
<1>4. ctx[m.x].sock = uConn /\ owner[uConn] # 0 /\ open = {uConn} /\ link[uConn] = uGnb
      /\ \A j \in Ctxs : ctx[j].sock = uConn => j = m.x
    BY <1>1, <1>3 DEF Arriving, Arrived
<1>5. ctx[k].amf = ho.id /\ ho.id # amfId
    BY <1>0, <1>3, StepTypes DEF Prep, AmfAgrees
<1>6. PICK n : n = [m EXCEPT !.k = "swapped", !.id = k]
    OBVIOUS
<1>7. PICK u : u = Msg("upd", "conn", uConn, ho.id, NoGnb)
    OBVIOUS
<1>8. n.k = "swapped" /\ n.id = k /\ n.x = m.x /\ u.k = "upd" /\ u.id = ho.id
    BY <1>0, <1>6, <1>7 DEF Msg, MsgRec
<1>9. UNCHANGED <<uConn, uId, uGnb, link, open, serving, amfId, ho, lastId, call, owner>>
      /\ ctx' = [ctx EXCEPT ![k].sock = uConn, ![k].st = "ready"]
    BY <1>4 DEF HandleTargetAccess, ueVars, amfVars, opVars
<1>10. msgs' = (msgs \ {m}) \cup {n, u}
  <2>1. Update(m.x, ctx[k].amf) = {u}
      BY <1>4, <1>5, <1>7 DEF Update, Write
  <2> QED BY <1>3, <1>5, <1>6, <2>1 DEF HandleTargetAccess, Replace
<1>11. /\ \A j \in Ctxs : j # k => ctx'[j] = ctx[j]
       /\ ctx'[k].sock = uConn /\ ctx'[k].st = "ready" /\ ctx'[k].amf = ctx[k].amf
       /\ ctx'[k].src = ctx[k].src /\ ctx'[k].gnb = ctx[k].gnb /\ ctx'[k].pool = ctx[k].pool
    BY <1>9, StepTypes DEF CtxRec
<1>12. Prep(k)'
    BY <1>3, <1>9, <1>11 DEF Prep, Plain
<1>13. ctx'[m.x].pool /\ ctx'[m.x].amf = 0 /\ m.x \in Ctxs
    BY <1>2, <1>11 DEF Fresh
<1>14. \A j \in Ctxs : ctx'[j].pool /\ ctx'[j].sock = uConn => j \in {k, m.x}
    BY <1>4, <1>11
<1>15. AmfAgrees'
    BY <1>0, <1>2, <1>3, <1>9, <1>11, StepTypes DEF Prep, AmfAgrees
<1>16. LiveIn({serving, k})'
    BY <1>3, <1>9, <1>11 DEF LiveIn, Live, Arriving
<1>17. StSwapped(n)'
    BY <1>2, <1>4, <1>8, <1>9, <1>11, <1>12, <1>13, <1>14, <1>15, <1>16 DEF StSwapped, Arrived
<1> DEFINE ms == {n, u}
<1>18. (\A d \in ms : SrvOK(d)') /\ Main(m) /\ Main(n) /\ n \in msgs'
      /\ msgs' \subseteq (msgs \ {m}) \cup ms
  <2>1. SrvOK(n)'
      BY <1>8, <1>17 DEF SrvOK
  <2>2. SrvOK(u)'
      BY <1>8 DEF SrvOK
  <2> QED BY <1>1, <1>8, <1>10, <2>1, <2>2 DEF Main
<1> HIDE DEF ms
<1> QED BY <1>9, <1>15, <1>18, SrvMain

LEMMA HandleTargetAccessEndsSrv ==
  ASSUME IInv, PlaceInv, OneInv, SrvInv, Fine, Fine', NEW m \in msgs,
         HandleTargetAccessEnds(m)
  PROVE  SrvInv'
<1>0. SrvOK(m) /\ StageOK(m) /\ AmfAgrees
    BY CleanFacts
<1>1. PICK n : n = Msg("notify", "amf", m.id, 0, NoGnb)
    OBVIOUS
<1>2. UNCHANGED <<uConn, uId, uGnb, link, open, serving, amfId, ho, lastId, call, owner>>
      /\ m.k = "swapped" /\ ctx' = [ctx EXCEPT ![m.x].pool = FALSE]
      /\ msgs' = (msgs \ {m}) \cup {n} /\ n.k = "notify" /\ n.x = m.id
    BY <1>1 DEF HandleTargetAccessEnds, ueVars, amfVars, opVars, Replace, Msg
<1>3. StSwapped(m) /\ m.x # m.id /\ m.x # serving /\ m.x \in Ctxs /\ m.id \in Ctxs
    BY <1>0, <1>2 DEF SrvOK, StageOK, StSwapped, Prep
<1>4. /\ \A j \in Ctxs : j # m.x => ctx'[j] = ctx[j]
      /\ ~ctx'[m.x].pool /\ ctx'[m.x].amf = ctx[m.x].amf /\ ctx'[m.x].src = ctx[m.x].src
    BY <1>2, <1>3, StepTypes DEF CtxRec
<1>5. Prep(m.id)'
    BY <1>2, <1>3, <1>4 DEF StSwapped, Prep, Plain
<1>6. Has(m.id)'
    BY <1>2, <1>3, <1>4 DEF StSwapped, Has
<1>8. LiveIn({serving, m.id})'
    BY <1>2, <1>3, <1>4 DEF StSwapped, LiveIn, Live
<1>9. AmfAgrees'
    BY <1>0, <1>2, <1>3, <1>4, StepTypes DEF AmfAgrees
<1>10. StNotify(n)'
    BY <1>2, <1>3, <1>4, <1>5, <1>6, <1>8 DEF StNotify, StSwapped, Arrived
<1> DEFINE ms == {n}
<1>11. (\A d \in ms : SrvOK(d)') /\ Main(m) /\ Main(n) /\ n \in msgs'
      /\ msgs' \subseteq (msgs \ {m}) \cup ms
    BY <1>2, <1>10 DEF SrvOK, Main
<1> HIDE DEF ms
<1> QED BY <1>2, <1>9, <1>11, SrvMain

LEMMA AmfHandoverNotifySrv ==
  ASSUME IInv, PlaceInv, OneInv, SrvInv, Fine, Fine', NEW m \in msgs, AmfHandoverNotify(m)
  PROVE  SrvInv'
<1>0. SrvOK(m) /\ AmfAgrees
    BY CleanFacts
<1>1. m.k = "notify"
    BY DEF AmfHandoverNotify
<1>2. StNotify(m) /\ ho # NoHo /\ ho.ctx = m.x /\ Prep(m.x) /\ m.x \in Ctxs
    BY <1>0, <1>1 DEF SrvOK, StNotify, Prep
<1>3. ho.src = serving /\ ho.id = lastId /\ amfId < lastId
    BY <1>0, <1>2 DEF AmfAgrees
<1>4. PICK n : n = Msg("release", "gnb", serving, 0, NoGnb)
    OBVIOUS
<1>5. UNCHANGED <<uConn, uId, uGnb, link, open, lastId, call, ctx, owner>>
      /\ serving' = m.x /\ amfId' = ho.id /\ ho' = NoHo
      /\ msgs' = (msgs \ {m}) \cup {n} /\ n.k = "release" /\ n.x = serving
    BY <1>2, <1>3, <1>4 DEF AmfHandoverNotify, ueVars, gnbVars, opVars, Replace, Msg
<1>7. AmfAgrees'
    BY <1>2, <1>3, <1>5 DEF AmfAgrees, StNotify, Prep
<1>8. AllPlain'
    BY <1>2, <1>3, <1>5, StepTypes DEF AllPlain, Plain, Prep
<1>9. Has(serving)'
    BY <1>2, <1>5 DEF Has, StNotify
<1>10. Rest'
    BY <1>2, <1>5, <1>8, <1>9 DEF Rest, Arrived, StNotify
<1>11. \A k \in Ctxs : Live(k)' => k \in {serving, m.x}
  <2>1. SUFFICES ASSUME NEW k \in Ctxs, Live(k)', k # m.x PROVE k = serving
      OBVIOUS
  <2>2. ctx[k].amf # ho.id
      BY <1>2, <1>3, <2>1, StepTypes DEF Prep, Plain
  <2>3. Live(k)
      BY <1>5, <2>1, <2>2 DEF Live
  <2> QED BY <1>2, <2>1, <2>3 DEF StNotify, LiveIn
<1>12. serving # m.x /\ ctx[serving].amf # ho.id
    BY <1>0, <1>2, <1>3, StepTypes DEF AmfAgrees, Prep
<1>13. StRelease(n)'
    BY <1>5, <1>10, <1>11, <1>12 DEF StRelease, LiveIn
<1> DEFINE ms == {n}
<1>14. (\A d \in ms : SrvOK(d)') /\ Main(m) /\ Main(n) /\ n \in msgs'
      /\ msgs' \subseteq (msgs \ {m}) \cup ms
    BY <1>1, <1>5, <1>13, CleanFacts DEF SrvOK, Main
<1> HIDE DEF ms
<1> QED BY <1>5, <1>7, <1>14, SrvMain

LEMMA HandlerUeContextReleaseCommandSrv ==
  ASSUME IInv, PlaceInv, OneInv, SrvInv, Fine, Fine', NEW m \in msgs,
         HandlerUeContextReleaseCommand(m)
  PROVE  SrvInv'
<1>0. SrvOK(m) /\ StageOK(m) /\ AmfAgrees /\ ~released
    BY CleanFacts
<1>1. UNCHANGED <<uConn, uId, uGnb, link, open, serving, amfId, ho, lastId, call, owner>>
      /\ m.k = "release"
      /\ ctx' = IF ctx[m.x].pool THEN [ctx EXCEPT ![m.x].st = "initialized"] ELSE ctx
    BY DEF HandlerUeContextReleaseCommand, ueVars, amfVars, opVars
<1>2. StRelease(m) /\ m.x \in Ctxs /\ ctx[m.x].sock \notin open /\ Main(m)
    BY <1>0, <1>1 DEF SrvOK, StageOK, HasSock, Main
<1>3. msgs' = msgs \ {m}
    BY <1>2 DEF HandlerUeContextReleaseCommand, Replace, Write
<1>4. /\ \A j \in Ctxs : j # m.x => ctx'[j] = ctx[j]
      /\ ctx[m.x].pool => ctx'[m.x].st = "initialized"
      /\ ctx'[m.x].amf = ctx[m.x].amf /\ ctx'[m.x].src = ctx[m.x].src
      /\ ctx'[m.x].sock = ctx[m.x].sock /\ ctx'[m.x].pool = ctx[m.x].pool
    BY <1>1, <1>2, StepTypes DEF CtxRec
<1>5. AmfAgrees'
    BY <1>0, <1>1, <1>2, <1>4, StepTypes DEF AmfAgrees, StRelease
<1>6. AllPlain'
    BY <1>1, <1>2, <1>4 DEF StRelease, Rest, AllPlain, Plain
<1>7. Has(serving)'
    BY <1>1, <1>2, <1>4, StepTypes DEF StRelease, Rest, Has
<1>9. LiveIn({serving})'
  <2>1. ~Live(m.x)'
      BY <1>1, <1>2, <1>4 DEF Live, StRelease
  <2> QED BY <1>1, <1>2, <1>4, <2>1 DEF StRelease, LiveIn, Live
<1>10. (Rest /\ LiveIn({serving}))'
    BY <1>1, <1>2, <1>6, <1>7, <1>9 DEF Rest, StRelease, Arrived
<1> QED BY <1>1, <1>2, <1>3, <1>5, <1>10, SrvLast

LEMMA HandlePathSwitchTriggerSrv ==
  ASSUME IInv, PlaceInv, OneInv, SrvInv, Fine, Fine', NEW m \in msgs,
         HandlePathSwitchTrigger(m)
  PROVE  SrvInv'
<1>0. m \in MsgRec /\ SrvOK(m) /\ StageOK(m) /\ AmfAgrees
    BY AMsg, CleanFacts
<1>1. PICK n : n = [m EXCEPT !.k = "psreq", !.at = "amf"]
    OBVIOUS
<1> DEFINE up == Update(m.x, m.id)
<1>2. UNCHANGED <<uConn, uId, uGnb, link, open, serving, amfId, ho, lastId, call, owner>>
      /\ m.at = "ctx" /\ m.k = "ps" /\ ctx' = [ctx EXCEPT ![m.x].amf = m.id, ![m.x].st = "ready"]
      /\ msgs' = (msgs \ {m}) \cup ({n} \cup up)
      /\ n.k = "psreq" /\ n.x = m.x /\ n.at = "amf" /\ n.id = m.id
    BY <1>0, <1>1 DEF HandlePathSwitchTrigger, ueVars, amfVars, opVars, Replace, MsgRec
<1>u. \A d \in up : d.k = "upd"
    BY UpdateSide
<1> HIDE DEF up
<1>3. Fresh(m.x) /\ m.x \in Ctxs /\ m.x # serving
    BY <1>0, <1>2 DEF StageOK, Fresh
<1>4. /\ \A j \in Ctxs : j # m.x => ctx'[j] = ctx[j]
      /\ ctx'[m.x].amf = m.id /\ ctx'[m.x].st = "ready" /\ ctx'[m.x].sock = ctx[m.x].sock
      /\ ctx'[m.x].src = ctx[m.x].src
    BY <1>2, <1>3, StepTypes DEF CtxRec
<1>5. AmfAgrees' /\ ctx'[serving] = ctx[serving]
    BY <1>0, <1>2, <1>3, <1>4, StepTypes DEF AmfAgrees
<1>6. n.id = amfId' => StPsreq(n)'
  <2> SUFFICES ASSUME m.id = amfId PROVE StPsreq(n)'
      BY <1>2
  <2>1. StPs(m)
      BY <1>0, <1>2 DEF SrvOK
  <2>2. Arrived' /\ ctx'[serving].gnb # uGnb
      BY <1>2, <1>5, <2>1 DEF StPs, Arriving, Arrived
  <2>3. AllPlain'
      BY <1>2, <1>3, <1>4, <2>1, StepTypes DEF StPs, AllPlain, Plain
  <2>4. Has(m.x)'
      BY <1>2, <1>3, <1>4, <2>1 DEF StPs, Arriving, Has
  <2>5. LiveIn({serving, m.x})'
      BY <1>2, <1>3, <1>4, <2>1 DEF StPs, Arriving, LiveIn, Live
  <2> QED BY <1>2, <1>4, <2>2, <2>3, <2>4, <2>5 DEF StPsreq
<1> DEFINE ms == {n} \cup up
<1>7. (\A d \in ms : SrvOK(d)') /\ Main(m) /\ Main(n) /\ n \in msgs'
      /\ msgs' \subseteq (msgs \ {m}) \cup ms
  <2>1. \A d \in up : SrvOK(d)'
      BY <1>u DEF SrvOK
  <2>2. SrvOK(n)'
      BY <1>2, <1>6 DEF SrvOK
  <2> QED BY <1>2, <2>1, <2>2 DEF Main
<1> HIDE DEF ms
<1> QED BY <1>2, <1>5, <1>7, SrvMain

LEMMA AmfPathSwitchSrv ==
  ASSUME IInv, PlaceInv, OneInv, SrvInv, Fine, Fine', NEW m \in msgs, AmfPathSwitch(m)
  PROVE  SrvInv'
<1>0. SrvOK(m) /\ MsgOK(m) /\ AmfAgrees /\ ctx[serving].pool
    BY AMsg, CleanFacts
<1>1. PICK n, o : n = Msg("psack", "gnb", m.x, m.id, NoGnb) /\ o = serving
    OBVIOUS
<1>2. UNCHANGED <<uConn, uId, uGnb, link, open, amfId, lastId, call, ctx, owner>>
      /\ m.k = "psreq" /\ m.id = amfId /\ serving' = m.x /\ ho' = NoHo
      /\ msgs' = (msgs \ {m}) \cup {n} /\ n.k = "psack" /\ n.x = m.x /\ n.id = m.id
    BY <1>1 DEF AmfPathSwitch, ueVars, gnbVars, opVars, Replace, Msg
<1>3. StPsreq(m) /\ ho = NoHo
    BY <1>0, <1>2 DEF SrvOK, StPsreq, AllPlain
<1>4. AllPlain' /\ Arrived' /\ Has(serving)'
    BY <1>2, <1>3 DEF StPsreq, AllPlain, Plain, Arrived, Has
<1>5. AmfAgrees'
    BY <1>0, <1>2, <1>3 DEF AmfAgrees, StPsreq
<1>6. Left(o)' /\ o \in Ctxs
    BY <1>0, <1>1, <1>2, <1>3, StepTypes DEF Left, StPsreq, LiveIn, Live, AmfAgrees
<1>7. StPsack(n)'
    BY <1>2, <1>3, <1>4, <1>6 DEF StPsack, StPsreq, Rest
<1> DEFINE ms == {n}
<1>8. (\A d \in ms : SrvOK(d)') /\ Main(m) /\ Main(n) /\ n \in msgs'
      /\ msgs' \subseteq (msgs \ {m}) \cup ms
    BY <1>2, <1>7 DEF SrvOK, Main
<1> HIDE DEF ms
<1> QED BY <1>2, <1>5, <1>8, SrvMain

LEMMA HandlerPathSwitchRequestAcknowledgeSrv ==
  ASSUME IInv, PlaceInv, OneInv, SrvInv, Fine, Fine', NEW m \in msgs,
         HandlerPathSwitchRequestAcknowledge(m)
  PROVE  SrvInv'
<1>0. SrvOK(m) /\ StageOK(m) /\ AmfAgrees /\ ctx[serving].pool
    BY CleanFacts
<1>1. UNCHANGED <<uConn, uId, uGnb, link, open, serving, amfId, ho, lastId, call, owner>>
      /\ m.k = "psack"
    BY DEF HandlerPathSwitchRequestAcknowledge, ueVars, amfVars, opVars
<1>2. StPsack(m) /\ m.x = serving /\ m.id = amfId
    BY <1>0, <1>1 DEF SrvOK, StageOK, StPsack
<1>3. PICK o \in Ctxs : Left(o)
    BY <1>2 DEF StPsack
<1>4. UNCHANGED ctx
  <2>1. ctx' = [ctx EXCEPT ![serving].amf = amfId]
      BY <1>0, <1>2 DEF HandlerPathSwitchRequestAcknowledge
  <2>2. ctx[serving] \in CtxRec /\ ctx[serving].amf = amfId
      BY <1>0, StepTypes DEF AmfAgrees
  <2>3. [ctx[serving] EXCEPT !.amf = ctx[serving].amf] = ctx[serving]
      BY <2>2 DEF CtxRec
  <2> QED BY <2>1, <2>2, <2>3, StepTypes
<1>5. ctx[serving].gnb = uGnb
    BY <1>2, StepTypes, Bounds DEF StPsack, Rest, Has, Arrived, PlaceInv
<1>6. FindUeInOtherGnb(uGnb, amfId) = {o}
  <2>1. o \in FindUeInOtherGnb(uGnb, amfId)
      BY <1>3 DEF Left, FindUeInOtherGnb
  <2>2. \A k \in FindUeInOtherGnb(uGnb, amfId) : k = o
      BY <1>3, <1>5 DEF Left, FindUeInOtherGnb, LiveIn, Live
  <2> QED BY <2>1, <2>2
<1>7. PICK n : n = Msg("xnrel", "udp", 0, m.id, ctx[o].gnb)
    OBVIOUS
<1> DEFINE up == Update(m.x, m.id)
<1>8. msgs' = (msgs \ {m}) \cup ({n} \cup up)
      /\ n.k = "xnrel" /\ n.id = amfId /\ n.g = ctx[o].gnb
    BY <1>0, <1>2, <1>5, <1>6, <1>7 DEF HandlerPathSwitchRequestAcknowledge, Replace, Msg
<1>u. \A d \in up : d.k = "upd"
    BY UpdateSide
<1> HIDE DEF up
<1>9. Arrived' /\ Has(serving)' /\ AllPlain' /\ AmfAgrees'
    BY <1>0, <1>1, <1>2, <1>4, SameHas, SamePrep DEF StPsack, Rest, Arrived
<1>10. Left(o)'
    BY <1>1, <1>3, <1>4, SameHas DEF Left
<1>11. StXnrel(n)'
    BY <1>1, <1>3, <1>4, <1>8, <1>9, <1>10 DEF StXnrel, Rest
<1> DEFINE ms == {n} \cup up
<1>12. (\A d \in ms : SrvOK(d)') /\ Main(m) /\ Main(n) /\ n \in msgs'
      /\ msgs' \subseteq (msgs \ {m}) \cup ms
  <2>1. \A d \in up : SrvOK(d)'
      BY <1>u DEF SrvOK
  <2>2. SrvOK(n)'
      BY <1>8, <1>11 DEF SrvOK
  <2> QED BY <1>1, <1>8, <2>1, <2>2 DEF Main
<1> HIDE DEF ms
<1> QED BY <1>1, <1>9, <1>12, SrvMain

LEMMA ProcessXnReleaseSrv ==
  ASSUME IInv, PlaceInv, OneInv, SrvInv, Fine, Fine', NEW m \in msgs, ProcessXnRelease(m)
  PROVE  SrvInv'
<1>0. SrvOK(m) /\ AmfAgrees
    BY CleanFacts
<1>1. UNCHANGED <<uConn, uId, uGnb, link, open, serving, amfId, ho, lastId, call, owner>>
      /\ m.k = "xnrel" /\ msgs' = msgs \ {m}
    BY DEF ProcessXnRelease, ueVars, amfVars, opVars, Replace
<1>2. StXnrel(m) /\ m.id = amfId
    BY <1>0, <1>1 DEF SrvOK, StXnrel
<1>3. PICK o \in Ctxs : Left(o) /\ ctx[o].gnb = m.g
    BY <1>2 DEF StXnrel
<1>4. ctx[serving].gnb = uGnb /\ o # serving
    BY <1>2, <1>3, StepTypes, Bounds DEF StXnrel, Rest, Has, Arrived, PlaceInv, Left
<1>5. {k \in Pool(m.g) : ctx[k].amf = m.id} = {o}
  <2>1. o \in {k \in Pool(m.g) : ctx[k].amf = m.id}
      BY <1>2, <1>3 DEF Left, Pool
  <2>2. \A k \in Pool(m.g) : ctx[k].amf = m.id => k = o
      BY <1>2, <1>3, <1>4 DEF Left, Pool, LiveIn, Live
  <2> QED BY <2>1, <2>2
<1>6. ctx' = [ctx EXCEPT ![o].pool = FALSE]
    BY <1>5 DEF ProcessXnRelease
<1>7. /\ \A j \in Ctxs : j # o => ctx'[j] = ctx[j]
      /\ ~ctx'[o].pool /\ ctx'[o].amf = ctx[o].amf /\ ctx'[o].src = ctx[o].src
    BY <1>3, <1>6, StepTypes DEF CtxRec
<1>8. AmfAgrees'
    BY <1>0, <1>1, <1>4, <1>7, StepTypes DEF AmfAgrees
<1>9. AllPlain' /\ Has(serving)' /\ Arrived'
  <2>1. AllPlain'
      BY <1>1, <1>2, <1>7 DEF StXnrel, Rest, AllPlain, Plain
  <2>2. Has(serving)'
      BY <1>1, <1>2, <1>4, <1>7, StepTypes DEF StXnrel, Rest, Has
  <2> QED BY <1>1, <1>2, <2>1, <2>2 DEF StXnrel, Rest, Arrived
<1>10. LiveIn({serving})'
    BY <1>1, <1>3, <1>7 DEF Left, LiveIn, Live
<1>13. Main(m) /\ (Rest /\ LiveIn({serving}))'
    BY <1>1, <1>9, <1>10 DEF Main, Rest
<1> QED BY <1>1, <1>8, <1>13, SrvLast

-----------------------------------------------------------------------------
(* Steps that a clean handover does not take, or after which it is none.   *)
LEMMA Unclean ==
  ASSUME IInv, OneInv, SrvInv, Fine, Fine'
  PROVE  /\ ~XnDialFails /\ ~AmfGivesUp
         /\ \A k \in Ctxs : ~ConnectionRelease(k)
         /\ \A m \in msgs : /\ ~CommandDialFails(m) /\ ~XnReleaseLost(m) /\ ~AmfRefuses(m)
                            /\ ~DispatchRelease(m) /\ ~AmfReleaseRequest(m)
<1>1. ~XnDialFails /\ ~AmfGivesUp /\ \A k \in Ctxs : ~ConnectionRelease(k)
    BY DEF Fine, Clean, XnDialFails, AmfGivesUp, ConnectionRelease
<1>2. \A m \in msgs : ~CommandDialFails(m) /\ ~XnReleaseLost(m) /\ ~AmfRefuses(m)
    BY DEF Fine, Clean, CommandDialFails, XnReleaseLost, AmfRefuses
<1>3. \A m \in msgs : ~DispatchRelease(m) /\ ~AmfReleaseRequest(m)
    BY CleanFacts DEF StageOK, DispatchRelease, AmfReleaseRequest
<1> QED BY <1>1, <1>2, <1>3

(* Once a handover was hurried, met a fault or a release, that stays so.   *)
LEMMA FineBefore ==
  ASSUME IInv, [Next]_vars, Fine'
  PROVE  Fine
<1>0. released \in BOOLEAN /\ hurried \in BOOLEAN /\ misnamed \in BOOLEAN /\ faulty \in BOOLEAN
    BY Groups DEF OpT
<1>1. CASE UNCHANGED vars
    BY <1>1 DEF vars, opVars, Clean, Fine
<1>2. CASE Calls
  <2>1. ASSUME NEW t \in Gnbs, TriggerN2(t) \/ TriggerXn(t) PROVE Fine
      BY <1>0, <2>1 DEF TriggerN2, TriggerXn, Clean, Fine
  <2>2. ASSUME NEW k \in Ctxs, ResolveUeConnectionDetails(k) \/ ConnectionRelease(k) PROVE Fine
      BY <2>2 DEF ResolveUeConnectionDetails, ConnectionRelease, opVars, Clean, Fine
  <2> QED BY <1>2, <2>1, <2>2 DEF Calls
<1>3. CASE Faults
    BY <1>3 DEF Faults, XnDialFails, AmfGivesUp, CommandDialFails, XnReleaseLost, Clean, Fine
<1>4. CASE Steps
  <2>1. CASE XnClose \/ XnDial \/ \E c \in Conns : Accept(c)
      BY <2>1 DEF XnClose, XnDial, Accept, opVars, Clean, Fine
  <2>2. ASSUME NEW m \in msgs,
               \/ UeListen(m) \/ UeReads(m) \/ DispatchUpdate(m) \/ DispatchRelease(m)
               \/ DispatchCommand(m) \/ CommandDial(m)
        PROVE  UNCHANGED <<released, hurried, misnamed, faulty>>
      BY <2>2 DEF UeListen, UeReads, DispatchUpdate, DispatchRelease, DispatchCommand,
                  CommandDial, opVars
  <2>3. ASSUME NEW m \in msgs,
               \/ HandleN2HandoverTrigger(m) \/ HandlePathSwitchTrigger(m)
               \/ HandleTargetAccessUnknown(m) \/ HandleTargetAccessEnds(m)
               \/ HandlerHandoverRequest(m) \/ HandlerHandoverCommand(m)
               \/ HandlerUeContextReleaseCommand(m) \/ HandlerPathSwitchRequestAcknowledge(m)
               \/ ProcessXnRelease(m)
        PROVE  UNCHANGED <<released, hurried, misnamed, faulty>>
      BY <2>3 DEF HandleN2HandoverTrigger, HandlePathSwitchTrigger, HandleTargetAccessUnknown,
                  HandleTargetAccessEnds, HandlerHandoverRequest, HandlerHandoverCommand,
                  HandlerUeContextReleaseCommand, HandlerPathSwitchRequestAcknowledge,
                  ProcessXnRelease, opVars
  <2>4. ASSUME NEW m \in msgs,
               \/ AmfHandoverRequired(m) \/ AmfHandoverRequestAck(m) \/ AmfHandoverNotify(m)
               \/ AmfPathSwitch(m) \/ AmfReleaseRequest(m)
        PROVE  UNCHANGED <<released, hurried, misnamed, faulty>>
      BY <2>4 DEF AmfHandoverRequired, AmfHandoverRequestAck, AmfHandoverNotify, AmfPathSwitch,
                  AmfReleaseRequest, opVars
  <2>5. \A m \in msgs : ~AmfRefuses(m)
      BY DEF AmfRefuses, Clean, Fine
  <2>6. ASSUME NEW m \in msgs, NEW k \in Ctxs, ProcessingConn(m, k) \/ HandleTargetAccess(m, k)
        PROVE  UNCHANGED <<released, hurried, misnamed, faulty>>
      BY <2>6 DEF ProcessingConn, HandleTargetAccess, opVars
  <2>7. UNCHANGED <<released, hurried, misnamed, faulty>> => Fine
      BY DEF Clean, Fine
  <2> QED BY <1>4, <2>1, <2>2, <2>3, <2>4, <2>5, <2>6, <2>7 DEF Steps
<1> QED BY <1>1, <1>2, <1>3, <1>4 DEF Next

LEMMA SrvNext == IInv /\ PlaceInv /\ OneInv /\ SrvInv /\ [Next]_vars => SrvInv'
<1> SUFFICES ASSUME IInv, PlaceInv, OneInv, SrvInv, [Next]_vars, Fine' PROVE SrvInv'
    BY DEF SrvInv
<1>0. Fine
    BY FineBefore
<1>1. CASE UNCHANGED vars
  <2>1. UNCHANGED <<uConn, uId, uGnb, link, open, serving, amfId, ho, lastId, call, ctx, owner, msgs>>
      BY <1>1 DEF vars, ueVars, gnbVars, amfVars, opVars
  <2>2. Frame
      BY <2>1, FrameSame DEF Away, Named
  <2> QED BY <1>0, <2>1, <2>2, SrvFrame
<1>2. CASE Calls
    BY <1>0, <1>2, Unclean, TriggerN2Srv, TriggerXnSrv, ResolveUeConnectionDetailsSrv DEF Calls
<1>3. CASE Faults
    BY <1>0, <1>3, Unclean DEF Faults
<1>4. CASE Steps
    BY <1>0, <1>4, Unclean, XnCloseSrv, XnDialSrv, AcceptSrv, UeListenSrv, UeReadsSrv,
       DispatchUpdateSrv, DispatchCommandSrv, CommandDialSrv, HandleN2HandoverTriggerSrv,
       HandlePathSwitchTriggerSrv, HandleTargetAccessUnknownSrv, HandleTargetAccessEndsSrv,
       HandlerHandoverRequestSrv, HandlerHandoverCommandSrv, HandlerUeContextReleaseCommandSrv,
       HandlerPathSwitchRequestAcknowledgeSrv, ProcessXnReleaseSrv, AmfHandoverRequiredSrv,
       AmfHandoverRequestAckSrv, AmfHandoverNotifySrv, AmfPathSwitchSrv, ProcessingConnSrv,
       HandleTargetAccessSrv
    DEF Steps
<1> QED BY <1>1, <1>2, <1>3, <1>4 DEF Next

LEMMA SrvAlways == Spec => [](IInv /\ PlaceInv /\ OneInv /\ SrvInv)
<1>1. Init => SrvInv
    BY InitSrv
<1>2. IInv /\ PlaceInv /\ OneInv /\ SrvInv /\ [Next]_vars => SrvInv'
    BY SrvNext
<1> QED BY <1>1, <1>2, OneAlways, PTL DEF Spec

(* After handovers that were made one after the other, met no fault and,   *)
(* over N2, were asked for with the AMF's id, the UE, the gNBs and the AMF *)
(* agree where the UE is, and one context is Ready for it, with the AMF's  *)
(* id (TriggerHandover, handleTargetAccessTrigger, processXnMessage,       *)
(* HandlerUeContextReleaseCommand), on unix links and on TCP, in whatever  *)
(* order the updates of SetAmfUeId reach the UE.                           *)
THEOREM ServedCorrect == Spec => []ServedWhenQuiet
<1>1. IInv /\ PlaceInv /\ OneInv /\ SrvInv => ServedWhenQuiet
  <2> SUFFICES ASSUME IInv, PlaceInv, OneInv, SrvInv, Fine, Quiet
               PROVE  /\ open = {uConn} /\ link[uConn] = uGnb
                      /\ serving \in Pool(uGnb) /\ ctx[serving].sock = uConn
                      /\ ctx[serving].amf = amfId
                      /\ {k \in Ctxs : ctx[k].pool /\ ctx[k].st = "ready"} = {serving}
      BY DEF ServedWhenQuiet, Fine
  <2>1. Rest /\ LiveIn({serving}) /\ AmfAgrees /\ ctx[serving].pool
      BY CleanFacts DEF Quiet, Idle, AtRest
  <2>2. open = {uConn} /\ link[uConn] = uGnb /\ ctx[serving].sock = uConn
      BY <2>1 DEF Rest, Arrived, Has
  <2>3. ctx[serving].amf = amfId /\ ctx[serving].st = "ready"
      BY <2>1 DEF AmfAgrees
  <2>4. serving \in Pool(uGnb)
      BY <2>1, <2>2, StepTypes, Bounds DEF Pool, PlaceInv
  <2>5. {k \in Ctxs : ctx[k].pool /\ ctx[k].st = "ready"} = {serving}
      BY <2>1, <2>3, StepTypes DEF LiveIn, Live
  <2> QED BY <2>2, <2>3, <2>4, <2>5
<1> QED BY <1>1, SrvAlways, PTL

-----------------------------------------------------------------------------
(* How handovers end, overlapping or not.                                  *)
(*                                                                         *)
(* The messages that a connection, a prepared context and an id of the AMF *)
(* are still to come of, and the connections still to be accepted.         *)
DialK == {"n2", "required", "request", "ack", "command", "cmd", "dial"}
PrepK == {"n2", "required", "request"}
IdK   == {"n2", "required"}
Pending(K) == Cardinality({m \in msgs : m.k \in K})
Calling    == IF call.pc = "idle" THEN 0 ELSE 1
Unaccepted == {c \in Conns : link[c] # NoGnb /\ owner[c] = 0}

(* Each call of TriggerHandover makes one connection, two contexts and one *)
(* id at most, overlapping or not.                                         *)
CountInv ==
  /\ IsFiniteSet(msgs)
  /\ nConn + Pending(DialK) + Calling <= calls + 1
  /\ lastId + Pending(IdK) <= calls + 1
  /\ nCtx + Cardinality(Unaccepted) + Pending(PrepK) + Pending(DialK) + Calling <= 2 * calls + 1

(* A message is where its handler is; what is on its way to the UE is on a *)
(* connection the UE has not closed, and somebody reads the UE's own one,  *)
(* or will.                                                                *)
Whole(m) ==
  /\ m.k \in {"n2", "access", "ps"} =>
       m.at \in {"conn", "ctx"} /\ (m.at = "conn" => link[m.x] # NoGnb)
  /\ m.k \in {"cmd", "upd", "rel"} => m.at \in {"conn", "ue"} /\ (m.at = "conn" => m.x \in open)
  /\ m.k \in {"required", "ack", "notify", "psreq", "relreq"} => m.at = "amf"
  /\ m.k = "dial" => m.g \in Gnbs
Read == uConn \in open => uConn \in reading \/ \E m \in msgs : m.k = "listen"
WholeInv == link[uConn] # NoGnb /\ Read /\ \A m \in msgs : Whole(m)

FlowInv == CountInv /\ WholeInv

(* A caller that is not in TriggerHandover has nothing left of it.         *)
IdleInv == call.pc = "idle" => call = Idle

-----------------------------------------------------------------------------
LEMMA CountTypes ==
  ASSUME IInv, CountInv
  PROVE  /\ nConn \in Nat /\ nCtx \in Nat /\ lastId \in Nat /\ calls \in Nat
         /\ Calling \in Nat /\ calls <= MaxHandovers /\ MaxHandovers \in Nat
         /\ IsFiniteSet(Unaccepted) /\ Cardinality(Unaccepted) \in Nat
         /\ \A K : Pending(K) \in Nat
         /\ \A K : (\E m \in msgs : m.k \in K) => Pending(K) >= 1
<1>1. nConn \in Nat /\ nCtx \in Nat /\ lastId \in Nat /\ calls \in Nat /\ calls <= MaxHandovers
    BY Groups, Bounds, MaxAssumption DEF UeT, GnbT, AmfT, OpT
<1>2. IsFiniteSet(Conns)
    BY Bounds, FS_Interval DEF Conns
<1>3. IsFiniteSet(Unaccepted) /\ Cardinality(Unaccepted) \in Nat
    BY <1>2, FS_Subset, FS_CardinalityType DEF Unaccepted
<1>4. ASSUME NEW K
      PROVE  Pending(K) \in Nat /\ ((\E m \in msgs : m.k \in K) => Pending(K) >= 1)
  <2> DEFINE S == {m \in msgs : m.k \in K}
  <2>1. IsFiniteSet(S)
      BY FS_Subset DEF CountInv
  <2>2. Cardinality(S) \in Nat /\ (S # {} => Cardinality(S) # 0)
      BY <2>1, FS_CardinalityType, FS_EmptySet
  <2> QED BY <2>2 DEF Pending
<1> QED BY <1>1, <1>3, <1>4, MaxAssumption DEF Calling

(* A step that takes message m, if it does, and sends x and y, if it does. *)
LEMMA PendingStep ==
  ASSUME IsFiniteSet(msgs), NEW m, NEW x, NEW y, NEW K,
         msgs' \subseteq (msgs \ {m}) \cup {x, y}, y.k \notin K
  PROVE  /\ IsFiniteSet(msgs') /\ Pending(K) \in Nat /\ Pending(K)' \in Nat
         /\ Pending(K)' <= Pending(K) + 1
         /\ x.k \notin K => Pending(K)' <= Pending(K)
         /\ m \in msgs /\ m.k \in K => Pending(K)' <= Pending(K)
         /\ m \in msgs /\ m.k \in K /\ x.k \notin K => Pending(K)' + 1 <= Pending(K)
<1> DEFINE S == {d \in msgs : d.k \in K}
           T == {d \in msgs' : d.k \in K}
           R == S \ {m}
<1>1. IsFiniteSet(msgs')
  <2>1. IsFiniteSet((msgs \cup {x}) \cup {y})
      BY FS_AddElement
  <2>2. msgs' \in SUBSET ((msgs \cup {x}) \cup {y})
      OBVIOUS
  <2> QED BY <2>1, <2>2, FS_Subset
<1>2. IsFiniteSet(S) /\ IsFiniteSet(T)
  <2>1. S \in SUBSET msgs /\ T \in SUBSET msgs'
      OBVIOUS
  <2> HIDE DEF S, T
  <2> QED BY <1>1, <2>1, FS_Subset
<1>3. Cardinality(S) \in Nat /\ Cardinality(T) \in Nat
    BY <1>2, FS_CardinalityType
<1>4. IsFiniteSet(R) /\ Cardinality(R) = IF m \in S THEN Cardinality(S) - 1 ELSE Cardinality(S)
    BY <1>2, FS_RemoveElement
<1>5. IsFiniteSet(R \cup {x}) /\ Cardinality(R \cup {x}) <= Cardinality(R) + 1
  <2>1. Cardinality(R) \in Nat
      BY <1>4, FS_CardinalityType
  <2>2. IsFiniteSet(R)
      BY <1>4
  <2> HIDE DEF R
  <2>3. /\ IsFiniteSet(R \cup {x})
        /\ Cardinality(R \cup {x}) = IF x \in R THEN Cardinality(R) ELSE Cardinality(R) + 1
      BY <2>2, FS_AddElement
  <2> QED BY <2>1, <2>3
<1>6. T \subseteq R \cup {x} /\ (x.k \notin K => T \subseteq R)
    OBVIOUS
<1>7. /\ Cardinality(T) <= Cardinality(R \cup {x})
      /\ x.k \notin K => Cardinality(T) <= Cardinality(R)
    BY <1>4, <1>5, <1>6, FS_Subset
<1>8. Cardinality(R \cup {x}) \in Nat
    BY <1>5, FS_CardinalityType
<1>9. m \in msgs /\ m.k \in K => m \in S
    OBVIOUS
<1> HIDE DEF S, T, R
<1>10. /\ Cardinality(T) <= Cardinality(S) + 1
       /\ x.k \notin K => Cardinality(T) <= Cardinality(S)
       /\ m \in msgs /\ m.k \in K => Cardinality(T) <= Cardinality(S)
       /\ m \in msgs /\ m.k \in K /\ x.k \notin K => Cardinality(T) + 1 <= Cardinality(S)
    BY <1>3, <1>4, <1>5, <1>7, <1>8, <1>9
<1> QED BY <1>1, <1>3, <1>10 DEF Pending, S, T

(* A step that answers message m with x, if it does, and perhaps with y.   *)
(* An answer is no earlier in a handover than what it answers.             *)
Untouched == UNCHANGED <<uConn, nConn, link, open, reading, nCtx, owner, call, calls, lastId>>
Follows(x, m) ==
  /\ x.k \in DialK => m.k \in DialK
  /\ x.k \in PrepK => m.k \in PrepK
  /\ x.k \in IdK => m.k \in IdK

LEMMA FlowTwo ==
  ASSUME IInv, FlowInv, Untouched, NEW m \in msgs, m.k # "listen", NEW x, NEW y,
         msgs' \subseteq (msgs \ {m}) \cup {x, y}, msgs \ {m} \subseteq msgs',
         Follows(x, m), y.k \notin DialK, Whole(x)', Whole(y)'
  PROVE  FlowInv'
<1>1. CountInv /\ WholeInv /\ IsFiniteSet(msgs)
    BY DEF FlowInv, CountInv
<1>2. ASSUME NEW K, y.k \notin K, x.k \in K => m.k \in K
      PROVE  Pending(K)' <= Pending(K) /\ Pending(K)' \in Nat /\ IsFiniteSet(msgs')
    BY <1>1, <1>2, PendingStep
<1>3. y.k \notin DialK /\ y.k \notin PrepK /\ y.k \notin IdK
    BY DEF DialK, PrepK, IdK
<1>4. /\ Pending(DialK)' <= Pending(DialK) /\ Pending(DialK)' \in Nat
      /\ Pending(PrepK)' <= Pending(PrepK) /\ Pending(PrepK)' \in Nat
      /\ Pending(IdK)' <= Pending(IdK) /\ Pending(IdK)' \in Nat /\ IsFiniteSet(msgs')
    BY <1>2, <1>3 DEF Follows
<1>5. Unaccepted' = Unaccepted /\ Calling' = Calling
    BY DEF Unaccepted, Calling, Untouched
<1>6. CountInv'
    BY <1>1, <1>4, <1>5, CountTypes DEF CountInv, Untouched
<1>7. \A d \in msgs \ {m} : Whole(d)'
    BY <1>1 DEF WholeInv, Whole, Untouched
<1>8. WholeInv'
  <2>1. \A d \in msgs' : Whole(d)'
      BY <1>7
  <2>2. Read' /\ link'[uConn'] # NoGnb
      BY <1>1 DEF WholeInv, Read, Untouched
  <2> QED BY <2>1, <2>2 DEF WholeInv
<1> QED BY <1>6, <1>8 DEF FlowInv

LEMMA FlowOne ==
  ASSUME IInv, FlowInv, Untouched, NEW m \in msgs, m.k # "listen", NEW x,
         msgs' = (msgs \ {m}) \cup {x}, Follows(x, m), Whole(x)'
  PROVE  FlowInv'
<1>1. PICK y : y = Msg("listen", "ue", 0, 0, NoGnb)
    OBVIOUS
<1>2. msgs' \cup {y} \subseteq (msgs \ {m}) \cup {x, y} /\ y.k = "listen"
    BY <1>1 DEF Msg
<1>3. Whole(y)' /\ y.k \notin DialK
    BY <1>2 DEF Whole, DialK
<1> QED BY <1>2, <1>3, FlowTwo

LEMMA FlowNone ==
  ASSUME IInv, FlowInv, Untouched, NEW m \in msgs, m.k # "listen", msgs' = msgs \ {m}
  PROVE  FlowInv'
<1>1. PICK y : y = Msg("listen", "ue", 0, 0, NoGnb)
    OBVIOUS
<1>2. msgs' \subseteq (msgs \ {m}) \cup {y, y} /\ y.k = "listen"
    BY <1>1 DEF Msg
<1>3. Whole(y)' /\ y.k \notin DialK /\ Follows(y, m)
    BY <1>2 DEF Whole, DialK, PrepK, IdK, Follows
<1> QED BY <1>2, <1>3, FlowTwo

(* A step that answers m with x, if it does, and with an update of the UE. *)
LEMMA FlowUpdate ==
  ASSUME IInv, FlowInv, Untouched, NEW m \in msgs, m.k # "listen", NEW k, NEW i, NEW x,
         \/ msgs' = (msgs \ {m}) \cup ({x} \cup Update(k, i)) /\ Follows(x, m) /\ Whole(x)'
         \/ msgs' = (msgs \ {m}) \cup Update(k, i)
  PROVE  FlowInv'
<1>1. PICK y : y = Msg("upd", "conn", ctx[k].sock, i, NoGnb)
    OBVIOUS
<1>2. Update(k, i) = {} \/ (Update(k, i) = {y} /\ ctx[k].sock \in open)
    BY <1>1 DEF Update, Write
<1>3. CASE Update(k, i) = {}
    BY <1>3, FlowOne, FlowNone
<1>4. CASE Update(k, i) = {y} /\ ctx[k].sock \in open
  <2>1. y.k \notin DialK /\ Whole(y)' /\ Follows(y, m)
      BY <1>1, <1>4 DEF Whole, Msg, Untouched, DialK, PrepK, IdK, Follows
  <2>2. CASE msgs' = (msgs \ {m}) \cup ({x} \cup Update(k, i)) /\ Follows(x, m) /\ Whole(x)'
      BY <1>4, <2>1, <2>2, FlowTwo
  <2>3. CASE msgs' = (msgs \ {m}) \cup Update(k, i)
      BY <1>4, <2>1, <2>3, FlowTwo
  <2> QED BY <2>2, <2>3
<1> QED BY <1>2, <1>3, <1>4
-----------------------------------------------------------------------------
LEMMA DispatchUpdateFlow ==
  ASSUME IInv, FlowInv, NEW m \in msgs, DispatchUpdate(m)
  PROVE  FlowInv'
  BY FlowNone DEF DispatchUpdate, Replace, Untouched, ueVars, gnbVars, amfVars, opVars

LEMMA DispatchReleaseFlow ==
  ASSUME IInv, FlowInv, NEW m \in msgs, DispatchRelease(m)
  PROVE  FlowInv'
  BY FlowNone DEF DispatchRelease, Replace, Untouched, ueVars, gnbVars, amfVars, opVars

LEMMA CommandDialFailsFlow ==
  ASSUME IInv, FlowInv, NEW m \in msgs, CommandDialFails(m)
  PROVE  FlowInv'
  BY FlowNone DEF CommandDialFails, Replace, Untouched, ueVars, gnbVars, amfVars, opVars

LEMMA HandleTargetAccessUnknownFlow ==
  ASSUME IInv, FlowInv, NEW m \in msgs, HandleTargetAccessUnknown(m)
  PROVE  FlowInv'
  BY FlowNone DEF HandleTargetAccessUnknown, Replace, Untouched, ueVars, gnbVars, amfVars, opVars

LEMMA ProcessXnReleaseFlow ==
  ASSUME IInv, FlowInv, NEW m \in msgs, ProcessXnRelease(m)
  PROVE  FlowInv'
  BY FlowNone DEF ProcessXnRelease, Replace, Untouched, ueVars, gnbVars, amfVars, opVars

LEMMA XnReleaseLostFlow ==
  ASSUME IInv, FlowInv, NEW m \in msgs, XnReleaseLost(m)
  PROVE  FlowInv'
  BY FlowNone DEF XnReleaseLost, Replace, Untouched, ueVars, gnbVars, amfVars, opVars

LEMMA AmfRefusesFlow ==
  ASSUME IInv, FlowInv, NEW m \in msgs, AmfRefuses(m)
  PROVE  FlowInv'
  BY FlowNone DEF AmfRefuses, Replace, Untouched, ueVars, gnbVars, amfVars, opVars

LEMMA UeReadsFlow ==
  ASSUME IInv, FlowInv, NEW m \in msgs, UeReads(m)
  PROVE  FlowInv'
<1>1. PICK x : x = [m EXCEPT !.at = "ue"]
    OBVIOUS
<1>2. Untouched /\ msgs' = (msgs \ {m}) \cup {x} /\ m.k \in {"cmd", "upd", "rel"}
    BY <1>1 DEF UeReads, Replace, Untouched, ueVars, gnbVars, amfVars, opVars
<1>3. m \in MsgRec
    BY AMsg
<1>4. Follows(x, m) /\ Whole(x)'
    BY <1>1, <1>2, <1>3 DEF Follows, DialK, PrepK, IdK, Whole, Msg, MsgRec
<1> QED BY <1>2, <1>4, FlowOne

LEMMA HandleN2HandoverTriggerFlow ==
  ASSUME IInv, FlowInv, NEW m \in msgs, HandleN2HandoverTrigger(m)
  PROVE  FlowInv'
<1>1. PICK x : x = [m EXCEPT !.k = "required", !.at = "amf"]
    OBVIOUS
<1>2. Untouched /\ msgs' = (msgs \ {m}) \cup ({x} \cup Update(m.x, m.id)) /\ m.k = "n2"
    BY <1>1 DEF HandleN2HandoverTrigger, Replace, Untouched, ueVars, gnbVars, amfVars, opVars
<1>3. m \in MsgRec
    BY AMsg
<1>4. Follows(x, m) /\ Whole(x)'
    BY <1>1, <1>2, <1>3 DEF Follows, DialK, PrepK, IdK, Whole, Msg, MsgRec
<1> QED BY <1>2, <1>4, FlowUpdate

LEMMA HandlePathSwitchTriggerFlow ==
  ASSUME IInv, FlowInv, NEW m \in msgs, HandlePathSwitchTrigger(m)
  PROVE  FlowInv'
<1>1. PICK x : x = [m EXCEPT !.k = "psreq", !.at = "amf"]
    OBVIOUS
<1>2. Untouched /\ msgs' = (msgs \ {m}) \cup ({x} \cup Update(m.x, m.id)) /\ m.k = "ps"
    BY <1>1 DEF HandlePathSwitchTrigger, Replace, Untouched, ueVars, gnbVars, amfVars, opVars
<1>3. m \in MsgRec
    BY AMsg
<1>4. Follows(x, m) /\ Whole(x)'
    BY <1>1, <1>2, <1>3 DEF Follows, DialK, PrepK, IdK, Whole, Msg, MsgRec
<1> QED BY <1>2, <1>4, FlowUpdate

LEMMA HandleTargetAccessEndsFlow ==
  ASSUME IInv, FlowInv, NEW m \in msgs, HandleTargetAccessEnds(m)
  PROVE  FlowInv'
<1>1. PICK x : x = Msg("notify", "amf", m.id, 0, NoGnb)
    OBVIOUS
<1>2. Untouched /\ msgs' = (msgs \ {m}) \cup {x} /\ m.k = "swapped"
    BY <1>1 DEF HandleTargetAccessEnds, Replace, Untouched, ueVars, gnbVars, amfVars, opVars
<1>3. m \in MsgRec
    BY AMsg
<1>4. Follows(x, m) /\ Whole(x)'
    BY <1>1, <1>2, <1>3 DEF Follows, DialK, PrepK, IdK, Whole, Msg, MsgRec
<1> QED BY <1>2, <1>4, FlowOne

LEMMA AmfPathSwitchFlow ==
  ASSUME IInv, FlowInv, NEW m \in msgs, AmfPathSwitch(m)
  PROVE  FlowInv'
<1>1. PICK x : x = Msg("psack", "gnb", m.x, m.id, NoGnb)
    OBVIOUS
<1>2. Untouched /\ msgs' = (msgs \ {m}) \cup {x} /\ m.k = "psreq"
    BY <1>1 DEF AmfPathSwitch, Replace, Untouched, ueVars, gnbVars, amfVars, opVars
<1>3. m \in MsgRec
    BY AMsg
<1>4. Follows(x, m) /\ Whole(x)'
    BY <1>1, <1>2, <1>3 DEF Follows, DialK, PrepK, IdK, Whole, Msg, MsgRec
<1> QED BY <1>2, <1>4, FlowOne

LEMMA AmfReleaseRequestFlow ==
  ASSUME IInv, FlowInv, NEW m \in msgs, AmfReleaseRequest(m)
  PROVE  FlowInv'
<1>1. PICK x : x = Msg("release", "gnb", m.x, 0, NoGnb)
    OBVIOUS
<1>2. Untouched /\ msgs' = (msgs \ {m}) \cup {x} /\ m.k = "relreq"
    BY <1>1 DEF AmfReleaseRequest, Replace, Untouched, ueVars, gnbVars, amfVars, opVars
<1>3. m \in MsgRec
    BY AMsg
<1>4. Follows(x, m) /\ Whole(x)'
    BY <1>1, <1>2, <1>3 DEF Follows, DialK, PrepK, IdK, Whole, Msg, MsgRec
<1> QED BY <1>2, <1>4, FlowOne

LEMMA ProcessingConnFlow ==
  ASSUME IInv, FlowInv, NEW m \in msgs, NEW k, ProcessingConn(m, k)
  PROVE  FlowInv'
<1>1. PICK x : x = [m EXCEPT !.at = "ctx", !.x = k]
    OBVIOUS
<1>2. Untouched /\ msgs' = (msgs \ {m}) \cup {x} /\ m.k \in {"n2", "access", "ps"}
    BY <1>1 DEF ProcessingConn, Replace, Untouched, ueVars, gnbVars, amfVars, opVars
<1>3. m \in MsgRec
    BY AMsg
<1>4. Follows(x, m) /\ Whole(x)'
    BY <1>1, <1>2, <1>3 DEF Follows, DialK, PrepK, IdK, Whole, Msg, MsgRec
<1> QED BY <1>2, <1>4, FlowOne

LEMMA HandlerHandoverCommandFlow ==
  ASSUME IInv, FlowInv, NEW m \in msgs, HandlerHandoverCommand(m)
  PROVE  FlowInv'
<1>1. PICK x : x = Msg("cmd", "conn", ctx[m.x].sock, m.id, NoGnb)
    OBVIOUS
<1>2. Untouched /\ m.k = "command"
    BY DEF HandlerHandoverCommand, Untouched, ueVars, gnbVars, amfVars, opVars
<1>3. \/ msgs' = msgs \ {m}
      \/ msgs' = (msgs \ {m}) \cup {x} /\ x.x \in open
    BY <1>1 DEF HandlerHandoverCommand, Replace, Write, Msg
<1>4. CASE msgs' = msgs \ {m}
    BY <1>2, <1>4, FlowNone
<1>5. CASE msgs' = (msgs \ {m}) \cup {x} /\ x.x \in open
  <2>1. Follows(x, m) /\ Whole(x)'
      BY <1>1, <1>2, <1>5 DEF Follows, DialK, PrepK, IdK, Whole, Msg, Untouched
  <2> QED BY <1>2, <1>5, <2>1, FlowOne
<1> QED BY <1>3, <1>4, <1>5

LEMMA HandlerUeContextReleaseCommandFlow ==
  ASSUME IInv, FlowInv, NEW m \in msgs, HandlerUeContextReleaseCommand(m)
  PROVE  FlowInv'
<1>1. PICK x : x = Msg("rel", "conn", ctx[m.x].sock, 0, NoGnb)
    OBVIOUS
<1>2. Untouched /\ m.k = "release"
    BY DEF HandlerUeContextReleaseCommand, Untouched, ueVars, gnbVars, amfVars, opVars
<1>3. \/ msgs' = msgs \ {m}
      \/ msgs' = (msgs \ {m}) \cup {x} /\ x.x \in open
    BY <1>1 DEF HandlerUeContextReleaseCommand, Replace, Write, Msg
<1>4. CASE msgs' = msgs \ {m}
    BY <1>2, <1>4, FlowNone
<1>5. CASE msgs' = (msgs \ {m}) \cup {x} /\ x.x \in open
  <2>1. Follows(x, m) /\ Whole(x)'
      BY <1>1, <1>2, <1>5 DEF Follows, DialK, PrepK, IdK, Whole, Msg, Untouched
  <2> QED BY <1>2, <1>5, <2>1, FlowOne
<1> QED BY <1>3, <1>4, <1>5

LEMMA AmfHandoverRequestAckFlow ==
  ASSUME IInv, FlowInv, NEW m \in msgs, AmfHandoverRequestAck(m)
  PROVE  FlowInv'
<1>1. PICK x : x = Msg("command", "gnb", ho.src, m.id, NoGnb)
    OBVIOUS
<1>2. Untouched /\ m.k = "ack" /\ (msgs' = msgs \ {m} \/ msgs' = (msgs \ {m}) \cup {x})
    BY <1>1 DEF AmfHandoverRequestAck, Replace, Untouched, ueVars, gnbVars, amfVars, opVars
<1>3. Follows(x, m) /\ Whole(x)'
    BY <1>1, <1>2 DEF Follows, DialK, PrepK, IdK, Whole, Msg
<1> QED BY <1>2, <1>3, FlowOne, FlowNone

LEMMA AmfHandoverNotifyFlow ==
  ASSUME IInv, FlowInv, NEW m \in msgs, AmfHandoverNotify(m)
  PROVE  FlowInv'
<1>1. PICK x : x = Msg("release", "gnb", ho.src, 0, NoGnb)
    OBVIOUS
<1>2. Untouched /\ m.k = "notify" /\ (msgs' = msgs \ {m} \/ msgs' = (msgs \ {m}) \cup {x})
    BY <1>1 DEF AmfHandoverNotify, Replace, Untouched, ueVars, gnbVars, amfVars, opVars
<1>3. Follows(x, m) /\ Whole(x)'
    BY <1>1, <1>2 DEF Follows, DialK, PrepK, IdK, Whole, Msg
<1> QED BY <1>2, <1>3, FlowOne, FlowNone

LEMMA HandlerPathSwitchRequestAcknowledgeFlow ==
  ASSUME IInv, FlowInv, NEW m \in msgs, HandlerPathSwitchRequestAcknowledge(m)
  PROVE  FlowInv'
<1>1. Untouched /\ m.k = "psack"
    BY DEF HandlerPathSwitchRequestAcknowledge, Untouched, ueVars, gnbVars, amfVars, opVars
<1>2. \/ msgs' = msgs \ {m}
      \/ msgs' = (msgs \ {m}) \cup Update(m.x, m.id)
      \/ \E k : msgs' = (msgs \ {m})
                       \cup ({Msg("xnrel", "udp", 0, m.id, ctx[k].gnb)} \cup Update(m.x, m.id))
    BY DEF HandlerPathSwitchRequestAcknowledge, Replace
<1>3. ASSUME NEW x, NEW g, x = Msg("xnrel", "udp", 0, m.id, g),
             msgs' = (msgs \ {m}) \cup ({x} \cup Update(m.x, m.id))
      PROVE  FlowInv'
  <2>1. Follows(x, m) /\ Whole(x)'
      BY <1>3 DEF Follows, DialK, PrepK, IdK, Whole, Msg
  <2> QED BY <1>1, <1>3, <2>1, FlowUpdate
<1> QED BY <1>1, <1>2, <1>3, FlowNone, FlowUpdate

LEMMA HandleTargetAccessFlow ==
  ASSUME IInv, FlowInv, NEW m \in msgs, NEW k, HandleTargetAccess(m, k)
  PROVE  FlowInv'
<1>1. PICK x : x = [m EXCEPT !.k = "swapped", !.id = k]
    OBVIOUS
<1>2. Untouched /\ m.k = "access" /\ m \in MsgRec
    BY AMsg DEF HandleTargetAccess, Untouched, ueVars, gnbVars, amfVars, opVars
<1>3. \/ msgs' = (msgs \ {m}) \cup {x}
      \/ msgs' = (msgs \ {m}) \cup ({x} \cup Update(m.x, ctx[k].amf))
    BY <1>1 DEF HandleTargetAccess, Replace
<1>4. Follows(x, m) /\ Whole(x)'
    BY <1>1, <1>2 DEF Follows, DialK, PrepK, IdK, Whole, Msg, MsgRec
<1> QED BY <1>2, <1>3, <1>4, FlowOne, FlowUpdate
-----------------------------------------------------------------------------
(* The steps that begin a handover, connect, or count something.           *)
LEMMA FlowSame ==
  ASSUME IInv, FlowInv, Untouched, UNCHANGED msgs
  PROVE  FlowInv'
<1>1. Unaccepted' = Unaccepted /\ Calling' = Calling /\ \A K : Pending(K)' = Pending(K)
    BY DEF Unaccepted, Calling, Pending, Untouched
<1>2. CountInv'
    BY <1>1 DEF FlowInv, CountInv, Untouched
<1>3. WholeInv'
    BY DEF FlowInv, WholeInv, Read, Whole, Untouched
<1> QED BY <1>2, <1>3 DEF FlowInv

LEMMA AmfGivesUpFlow ==
  ASSUME IInv, FlowInv, AmfGivesUp
  PROVE  FlowInv'
  BY FlowSame DEF AmfGivesUp, Untouched, ueVars, gnbVars, opVars

LEMMA ResolveUeConnectionDetailsFlow ==
  ASSUME IInv, FlowInv, NEW k, ResolveUeConnectionDetails(k)
  PROVE  FlowInv'
  BY FlowSame DEF ResolveUeConnectionDetails, Untouched, gnbVars, amfVars, opVars

(* Messages that are only sent or dropped.                                 *)
LEMMA PendingSend ==
  ASSUME IsFiniteSet(msgs), NEW x, NEW y, NEW K, msgs' \subseteq msgs \cup {x, y}, y.k \notin K
  PROVE  /\ IsFiniteSet(msgs') /\ Pending(K) \in Nat /\ Pending(K)' \in Nat
         /\ Pending(K)' <= Pending(K) + 1
         /\ x.k \notin K => Pending(K)' <= Pending(K)
<1>1. msgs' \subseteq (msgs \ {x}) \cup {x, y}
    OBVIOUS
<1> QED BY <1>1, PendingStep

LEMMA SentWhole ==
  ASSUME WholeInv, UNCHANGED <<uConn, link, open, reading>>, NEW ms,
         msgs' = msgs \cup ms, \A x \in ms : Whole(x)'
  PROVE  WholeInv'
<1>1. \A d \in msgs : Whole(d)'
    BY DEF WholeInv, Whole
<1>2. \A d \in msgs' : Whole(d)'
    BY <1>1
<1> QED BY <1>2 DEF WholeInv, Read

LEMMA ConnectionReleaseFlow ==
  ASSUME IInv, FlowInv, NEW k, ConnectionRelease(k)
  PROVE  FlowInv'
<1>1. PICK x : x = Msg("relreq", "amf", k, 0, NoGnb)
    OBVIOUS
<1>2. Untouched /\ msgs' = msgs \cup {x}
    BY <1>1 DEF ConnectionRelease, Send, Untouched, ueVars, gnbVars, amfVars
<1>3. Whole(x)' /\ x.k \notin DialK /\ x.k \notin PrepK /\ x.k \notin IdK
    BY <1>1 DEF Whole, Msg, DialK, PrepK, IdK
<1>4. Unaccepted' = Unaccepted /\ Calling' = Calling
    BY <1>2 DEF Unaccepted, Calling, Untouched
<1>5. CountInv /\ IsFiniteSet(msgs) /\ msgs' \subseteq msgs \cup {x, x}
    BY <1>2 DEF FlowInv, CountInv
<1>6. /\ Pending(DialK)' <= Pending(DialK) /\ Pending(DialK)' \in Nat
      /\ Pending(PrepK)' <= Pending(PrepK) /\ Pending(PrepK)' \in Nat
      /\ Pending(IdK)' <= Pending(IdK) /\ Pending(IdK)' \in Nat /\ IsFiniteSet(msgs')
    BY <1>3, <1>5, PendingSend
<1>7. CountInv'
    BY <1>2, <1>4, <1>5, <1>6, CountTypes DEF CountInv, Untouched
<1>8. WholeInv'
  <2>1. PICK ms : ms = {x}
      OBVIOUS
  <2>2. WholeInv /\ UNCHANGED <<uConn, link, open, reading>> /\ msgs' = msgs \cup ms
      BY <1>2, <2>1 DEF FlowInv, Untouched
  <2>3. \A d \in ms : Whole(d)'
      BY <1>3, <2>1
  <2> QED BY <2>2, <2>3, SentWhole
<1> QED BY <1>7, <1>8 DEF FlowInv

LEMMA TriggerN2Flow ==
  ASSUME IInv, FlowInv, NEW t \in Gnbs, TriggerN2(t)
  PROVE  FlowInv'
<1>1. PICK x : x = Msg("n2", "conn", uConn, uId, t)
    OBVIOUS
<1>2. PICK y : y = Msg("listen", "ue", 0, 0, NoGnb)
    OBVIOUS
<1>3. PICK ms : ms = Write("n2", uConn, uId, t)
    OBVIOUS
<1>4. /\ UNCHANGED <<uConn, nConn, link, open, reading, nCtx, owner, call, lastId>>
      /\ calls' = calls + 1 /\ msgs' = msgs \cup ms /\ ms \subseteq {x}
    BY <1>1, <1>3 DEF TriggerN2, Send, Write, gnbVars, amfVars
<1>5. CountInv /\ WholeInv /\ IsFiniteSet(msgs) /\ msgs' \subseteq msgs \cup {x, y}
    BY <1>4 DEF FlowInv, CountInv
<1>6. Whole(x)' /\ y.k \notin DialK /\ y.k \notin PrepK /\ y.k \notin IdK
  <2>1. x.k = "n2" /\ x.at = "conn" /\ x.x = uConn /\ y.k = "listen"
      BY <1>1, <1>2 DEF Msg
  <2>2. link'[x.x] # NoGnb
      BY <1>4, <1>5, <2>1 DEF WholeInv
  <2> QED BY <2>1, <2>2 DEF Whole, DialK, PrepK, IdK
<1>7. Unaccepted' = Unaccepted /\ Calling' = Calling
    BY <1>4 DEF Unaccepted, Calling
<1>8. /\ Pending(DialK)' <= Pending(DialK) + 1 /\ Pending(DialK)' \in Nat
      /\ Pending(PrepK)' <= Pending(PrepK) + 1 /\ Pending(PrepK)' \in Nat
      /\ Pending(IdK)' <= Pending(IdK) + 1 /\ Pending(IdK)' \in Nat /\ IsFiniteSet(msgs')
    BY <1>5, <1>6, PendingSend
<1>9. CountInv'
    BY <1>4, <1>5, <1>7, <1>8, CountTypes DEF CountInv
<1>10. WholeInv'
    BY <1>4, <1>5, <1>6, SentWhole
<1> QED BY <1>9, <1>10 DEF FlowInv

LEMMA TriggerXnFlow ==
  ASSUME IInv, FlowInv, NEW t \in Gnbs, TriggerXn(t)
  PROVE  FlowInv'
<1>1. /\ UNCHANGED <<uConn, nConn, link, open, reading, nCtx, owner, lastId, msgs>>
      /\ calls' = calls + 1 /\ call.pc = "idle" /\ call'.pc = "sleep"
    BY DEF TriggerXn, CanCall, Idle, ueVars, gnbVars, amfVars
<1>2. Unaccepted' = Unaccepted /\ Calling = 0 /\ Calling' = 1 /\ \A K : Pending(K)' = Pending(K)
    BY <1>1 DEF Unaccepted, Calling, Pending
<1>3. CountInv'
    BY <1>1, <1>2, CountTypes DEF FlowInv, CountInv
<1>4. WholeInv'
    BY <1>1 DEF FlowInv, WholeInv, Read, Whole
<1> QED BY <1>3, <1>4 DEF FlowInv

LEMMA XnDialFailsFlow ==
  ASSUME IInv, FlowInv, XnDialFails
  PROVE  FlowInv'
<1>1. /\ UNCHANGED <<uConn, nConn, link, open, reading, nCtx, owner, lastId, msgs, calls>>
      /\ call.pc = "dial" /\ call'.pc = "idle"
    BY DEF XnDialFails, Idle, ueVars, gnbVars, amfVars
<1>2. Unaccepted' = Unaccepted /\ Calling = 1 /\ Calling' = 0 /\ \A K : Pending(K)' = Pending(K)
    BY <1>1 DEF Unaccepted, Calling, Pending
<1>3. CountInv'
    BY <1>1, <1>2, CountTypes DEF FlowInv, CountInv
<1>4. WholeInv'
    BY <1>1 DEF FlowInv, WholeInv, Read, Whole
<1> QED BY <1>3, <1>4 DEF FlowInv

LEMMA UeListenFlow ==
  ASSUME IInv, FlowInv, NEW m \in msgs, UeListen(m)
  PROVE  FlowInv'
<1>1. /\ UNCHANGED <<uConn, nConn, link, open, nCtx, owner, call, calls, lastId>>
      /\ msgs' = msgs \ {m} /\ m.k = "listen" /\ reading' = reading \cup (open \cap {uConn})
    BY DEF UeListen, Replace, gnbVars, amfVars, opVars
<1>2. CountInv /\ WholeInv /\ IsFiniteSet(msgs) /\ msgs' \subseteq msgs \cup {m, m}
      /\ m.k \notin DialK /\ m.k \notin PrepK /\ m.k \notin IdK
    BY <1>1 DEF FlowInv, CountInv, DialK, PrepK, IdK
<1>3. Unaccepted' = Unaccepted /\ Calling' = Calling
    BY <1>1 DEF Unaccepted, Calling
<1>4. /\ Pending(DialK)' <= Pending(DialK) /\ Pending(DialK)' \in Nat
      /\ Pending(PrepK)' <= Pending(PrepK) /\ Pending(PrepK)' \in Nat
      /\ Pending(IdK)' <= Pending(IdK) /\ Pending(IdK)' \in Nat /\ IsFiniteSet(msgs')
    BY <1>2, PendingSend
<1>5. CountInv'
    BY <1>1, <1>2, <1>3, <1>4, CountTypes DEF CountInv
<1>6. WholeInv'
    BY <1>1, <1>2 DEF WholeInv, Read, Whole
<1> QED BY <1>5, <1>6 DEF FlowInv

LEMMA XnCloseFlow ==
  ASSUME IInv, FlowInv, XnClose
  PROVE  FlowInv'
<1>1. /\ UNCHANGED <<uConn, nConn, link, nCtx, owner, calls, lastId>>
      /\ msgs' = msgs \ Unread(call.old) /\ open' = open \ {call.old}
      /\ reading' = reading \ {call.old} /\ call.pc = "sleep" /\ call'.pc = "dial"
  <2>1. call \in [pc : {"idle", "sleep", "dial"}, old : Zero(Conns), g : AnyGnb]
      BY Groups DEF OpT
  <2> QED BY <2>1 DEF XnClose, Close, gnbVars, amfVars
<1>2. PICK y : y = Msg("listen", "ue", 0, 0, NoGnb)
    OBVIOUS
<1>3. CountInv /\ WholeInv /\ IsFiniteSet(msgs) /\ msgs' \subseteq msgs \cup {y, y}
      /\ y.k \notin DialK /\ y.k \notin PrepK /\ y.k \notin IdK
    BY <1>1, <1>2 DEF FlowInv, CountInv, DialK, PrepK, IdK, Msg
<1>4. Unaccepted' = Unaccepted /\ Calling = 1 /\ Calling' = 1
    BY <1>1 DEF Unaccepted, Calling
<1>5. /\ Pending(DialK)' <= Pending(DialK) /\ Pending(DialK)' \in Nat
      /\ Pending(PrepK)' <= Pending(PrepK) /\ Pending(PrepK)' \in Nat
      /\ Pending(IdK)' <= Pending(IdK) /\ Pending(IdK)' \in Nat /\ IsFiniteSet(msgs')
    BY <1>3, PendingSend
<1>6. CountInv'
    BY <1>1, <1>3, <1>4, <1>5, CountTypes DEF CountInv
<1>7. \A d \in msgs' : Whole(d)'
    BY <1>1, <1>3 DEF WholeInv, Whole, Unread
<1>8. Read' /\ link'[uConn'] # NoGnb
    BY <1>1, <1>3 DEF WholeInv, Read, Unread
<1> QED BY <1>6, <1>7, <1>8 DEF FlowInv, WholeInv

LEMMA DispatchCommandFlow ==
  ASSUME IInv, FlowInv, NEW m \in msgs, DispatchCommand(m)
  PROVE  FlowInv'
<1>1. PICK x : x = Msg("dial", "ue", m.x, m.id, uGnb)
    OBVIOUS
<1>2. /\ UNCHANGED <<uConn, nConn, link, nCtx, owner, call, calls, lastId>>
      /\ msgs' = ((msgs \ {m}) \ Unread(uConn)) \cup {x} /\ open' = open \ {uConn}
      /\ reading' = reading \ {uConn} /\ m.k = "cmd"
    BY <1>1 DEF DispatchCommand, Close, gnbVars, amfVars, opVars
<1>3. PICK y : y = Msg("listen", "ue", 0, 0, NoGnb)
    OBVIOUS
<1>4. CountInv /\ WholeInv /\ IsFiniteSet(msgs) /\ msgs' \subseteq (msgs \ {m}) \cup {x, y}
    BY <1>2 DEF FlowInv, CountInv
<1>5. y.k \notin DialK /\ y.k \notin PrepK /\ y.k \notin IdK
      /\ m.k \in DialK /\ x.k \notin PrepK /\ x.k \notin IdK
    BY <1>1, <1>2, <1>3 DEF DialK, PrepK, IdK, Msg
<1>6. Unaccepted' = Unaccepted /\ Calling' = Calling
    BY <1>2 DEF Unaccepted, Calling
<1>7. /\ Pending(DialK)' <= Pending(DialK) /\ Pending(DialK)' \in Nat
      /\ Pending(PrepK)' <= Pending(PrepK) /\ Pending(PrepK)' \in Nat
      /\ Pending(IdK)' <= Pending(IdK) /\ Pending(IdK)' \in Nat /\ IsFiniteSet(msgs')
    BY <1>4, <1>5, PendingStep
<1>8. CountInv'
    BY <1>2, <1>4, <1>6, <1>7, CountTypes DEF CountInv
<1>9. \A d \in msgs' : Whole(d)'
  <2>1. Whole(x)'
      BY <1>1, Groups DEF Whole, Msg, UeT
  <2>2. \A d \in msgs \ Unread(uConn) : Whole(d)'
      BY <1>2, <1>4 DEF WholeInv, Whole, Unread
  <2> QED BY <1>2, <2>1, <2>2
<1>10. Read' /\ link'[uConn'] # NoGnb
    BY <1>2, <1>4 DEF WholeInv, Read
<1> QED BY <1>8, <1>9, <1>10 DEF FlowInv, WholeInv

(* A new connection waits to be accepted and to be read.                   *)
LEMMA ConnectFlow ==
  ASSUME IInv, FlowInv, NEW g \in Gnbs, Connect(g), UNCHANGED owner
  PROVE  /\ NewConn \in Conns /\ nConn' = nConn + 1 /\ IsFiniteSet(Unaccepted')
         /\ Cardinality(Unaccepted') \in Nat
         /\ Cardinality(Unaccepted') <= Cardinality(Unaccepted) + 1
         /\ link'[NewConn] # NoGnb /\ \A c : link[c] # NoGnb /\ c \in Conns => link'[c] # NoGnb
<1>1. NewConn \in Conns /\ UeT /\ NewConn = nConn + 1
    BY Groups, NewConnType DEF Connect, NewConn
<1>2. link'[NewConn] = g /\ \A c \in Conns : c # NewConn => link'[c] = link[c]
    BY <1>1 DEF Connect, UeT
<1>3. PICK U : U = Unaccepted
    OBVIOUS
<1>4. PICK n : n = NewConn
    OBVIOUS
<1>5. PICK W : W = Unaccepted'
    OBVIOUS
<1>6. IsFiniteSet(U) /\ Cardinality(U) \in Nat
    BY <1>3, CountTypes DEF FlowInv
<1>7. W \in SUBSET (U \cup {n})
    BY <1>2, <1>3, <1>4, <1>5 DEF Unaccepted
<1>8. /\ IsFiniteSet(U \cup {n})
      /\ Cardinality(U \cup {n}) = IF n \in U THEN Cardinality(U) ELSE Cardinality(U) + 1
    BY <1>6, FS_AddElement
<1>9. IsFiniteSet(W) /\ Cardinality(W) <= Cardinality(U \cup {n}) /\ Cardinality(W) \in Nat
    BY <1>7, <1>8, FS_Subset, FS_CardinalityType
<1>10. Cardinality(W) <= Cardinality(U) + 1
    BY <1>6, <1>8, <1>9
<1> QED BY <1>1, <1>2, <1>3, <1>5, <1>9, <1>10, HomeAssumption DEF Connect

LEMMA ConnectWhole ==
  ASSUME IInv, FlowInv, NEW g \in Gnbs, Connect(g), NEW d \in msgs
  PROVE  Whole(d)'
<1>1. NewConn \in Conns /\ UeT
    BY Groups, NewConnType DEF Connect
<1>2. /\ \A c \in Conns : link[c] # NoGnb => link'[c] # NoGnb
      /\ open \subseteq open'
    BY <1>1, HomeAssumption DEF Connect, UeT
<1>3. Whole(d) /\ MsgOK(d)
    BY AMsg DEF FlowInv, WholeInv
<1> QED BY <1>2, <1>3 DEF Whole, MsgOK

LEMMA XnDialFlow ==
  ASSUME IInv, FlowInv, XnDial
  PROVE  FlowInv'
<1>1. PICK x : x = Listen
    OBVIOUS
<1>2. PICK y : y = Msg("ps", "conn", NewConn, uId, NoGnb)
    OBVIOUS
<1>3. /\ UNCHANGED <<nCtx, owner, calls, lastId>> /\ call.pc = "dial" /\ call'.pc = "idle"
      /\ msgs' = msgs \cup {x, y} /\ Connect(call.g) /\ call.g \in Gnbs
    BY <1>1, <1>2, Groups DEF XnDial, Send, Idle, gnbVars, amfVars, OpT, CallInv
<1>4. /\ nConn' = nConn + 1 /\ Cardinality(Unaccepted') \in Nat /\ link'[NewConn] # NoGnb
      /\ Cardinality(Unaccepted') <= Cardinality(Unaccepted) + 1
    BY <1>3, ConnectFlow
<1>5. CountInv /\ WholeInv /\ IsFiniteSet(msgs) /\ msgs' \subseteq msgs \cup {x, y}
    BY <1>3 DEF FlowInv, CountInv
<1>6. /\ x.k = "listen" /\ y.k = "ps" /\ y.at = "conn" /\ y.x = NewConn
      /\ x.k \notin DialK /\ x.k \notin PrepK /\ x.k \notin IdK
      /\ y.k \notin DialK /\ y.k \notin PrepK /\ y.k \notin IdK
    BY <1>1, <1>2 DEF Listen, DialK, PrepK, IdK, Msg
<1>7. /\ Pending(DialK)' <= Pending(DialK) /\ Pending(DialK)' \in Nat
      /\ Pending(PrepK)' <= Pending(PrepK) /\ Pending(PrepK)' \in Nat
      /\ Pending(IdK)' <= Pending(IdK) /\ Pending(IdK)' \in Nat /\ IsFiniteSet(msgs')
    BY <1>5, <1>6, PendingSend
<1>8. Calling = 1 /\ Calling' = 0
    BY <1>3 DEF Calling
<1>9. CountInv'
    BY <1>3, <1>4, <1>5, <1>7, <1>8, CountTypes DEF CountInv
<1>10. Whole(x)' /\ Whole(y)' /\ \A d \in msgs : Whole(d)'
    BY <1>3, <1>4, <1>6, ConnectWhole DEF Whole
<1>11. Read' /\ link'[uConn'] # NoGnb
    BY <1>3, <1>4, <1>6 DEF Read, Connect
<1>12. WholeInv'
    BY <1>3, <1>10, <1>11 DEF WholeInv
<1> QED BY <1>9, <1>12 DEF FlowInv

LEMMA CommandDialFlow ==
  ASSUME IInv, FlowInv, NEW m \in msgs, CommandDial(m)
  PROVE  FlowInv'
<1>1. PICK x : x = Listen
    OBVIOUS
<1>2. PICK y : y = Msg("access", "conn", NewConn, uId, NoGnb)
    OBVIOUS
<1>3. /\ UNCHANGED <<nCtx, owner, call, calls, lastId>> /\ m.k = "dial"
      /\ msgs' = (msgs \ {m}) \cup {x, y} /\ Connect(m.g) /\ m.g \in Gnbs
    BY <1>1, <1>2 DEF CommandDial, Replace, gnbVars, amfVars, opVars, FlowInv, WholeInv, Whole
<1>4. /\ nConn' = nConn + 1 /\ Cardinality(Unaccepted') \in Nat /\ link'[NewConn] # NoGnb
      /\ Cardinality(Unaccepted') <= Cardinality(Unaccepted) + 1
    BY <1>3, ConnectFlow
<1>5. CountInv /\ WholeInv /\ IsFiniteSet(msgs) /\ msgs' \subseteq (msgs \ {m}) \cup {x, y}
    BY <1>3 DEF FlowInv, CountInv
<1>6. /\ x.k = "listen" /\ y.k = "access" /\ y.at = "conn" /\ y.x = NewConn /\ m.k \in DialK
      /\ x.k \notin DialK /\ x.k \notin PrepK /\ x.k \notin IdK
      /\ y.k \notin DialK /\ y.k \notin PrepK /\ y.k \notin IdK
    BY <1>1, <1>2, <1>3 DEF Listen, DialK, PrepK, IdK, Msg
<1>7. /\ Pending(DialK)' + 1 <= Pending(DialK) /\ Pending(DialK)' \in Nat
      /\ Pending(PrepK)' <= Pending(PrepK) /\ Pending(PrepK)' \in Nat
      /\ Pending(IdK)' <= Pending(IdK) /\ Pending(IdK)' \in Nat /\ IsFiniteSet(msgs')
    BY <1>5, <1>6, PendingStep
<1>8. Calling' = Calling
    BY <1>3 DEF Calling
<1>9. CountInv'
    BY <1>3, <1>4, <1>5, <1>7, <1>8, CountTypes DEF CountInv
<1>10. Whole(x)' /\ Whole(y)' /\ \A d \in msgs : Whole(d)'
    BY <1>3, <1>4, <1>6, ConnectWhole DEF Whole
<1>11. Read' /\ link'[uConn'] # NoGnb
    BY <1>3, <1>4, <1>6 DEF Read, Connect
<1>12. WholeInv'
    BY <1>3, <1>10, <1>11 DEF WholeInv
<1> QED BY <1>9, <1>12 DEF FlowInv

LEMMA AcceptFlow ==
  ASSUME IInv, FlowInv, NEW c \in Conns, Accept(c)
  PROVE  FlowInv'
<1>1. /\ UNCHANGED <<uConn, nConn, link, open, reading, msgs, call, calls, lastId>>
      /\ nCtx' = nCtx + 1 /\ owner' = [owner EXCEPT ![c] = NewCtx] /\ c \in Unaccepted
    BY DEF Accept, Unaccepted, ueVars, amfVars, opVars, NewCtx
<1>2. Unaccepted' = Unaccepted \ {c}
  <2>1. owner \in [Conns -> Zero(Ctxs)] /\ NewCtx # 0
      BY Groups, Bounds DEF GnbT, NewCtx
  <2>2. owner'[c] # 0 /\ \A e \in Conns : e # c => owner'[e] = owner[e]
      BY <1>1, <2>1
  <2> QED BY <1>1, <2>2 DEF Unaccepted
<1>3. PICK U : U = Unaccepted
    OBVIOUS
<1>4. IsFiniteSet(U) /\ c \in U
    BY <1>1, <1>3, CountTypes DEF FlowInv
<1>5. IsFiniteSet(U \ {c}) /\ Cardinality(U \ {c}) = Cardinality(U) - 1
    BY <1>4, FS_RemoveElement
<1>6. Cardinality(Unaccepted') = Cardinality(Unaccepted) - 1
    BY <1>2, <1>3, <1>5
<1>7. Calling' = Calling /\ \A K : Pending(K)' = Pending(K)
    BY <1>1 DEF Calling, Pending
<1>8. CountInv'
    BY <1>1, <1>6, <1>7, CountTypes DEF FlowInv, CountInv
<1>9. WholeInv'
    BY <1>1 DEF FlowInv, WholeInv, Read, Whole
<1> QED BY <1>8, <1>9 DEF FlowInv

(* Answers that make a context, or take an id.                             *)
LEMMA AnswerWhole ==
  ASSUME WholeInv, UNCHANGED <<uConn, link, open, reading>>, NEW m \in msgs, m.k # "listen",
         NEW x, msgs' = (msgs \ {m}) \cup {x}, Whole(x)'
  PROVE  WholeInv'
<1>1. \A d \in msgs : Whole(d)'
    BY DEF WholeInv, Whole
<1>2. \A d \in msgs' : Whole(d)'
    BY <1>1
<1> QED BY <1>2 DEF WholeInv, Read

LEMMA HandlerHandoverRequestFlow ==
  ASSUME IInv, FlowInv, NEW m \in msgs, HandlerHandoverRequest(m)
  PROVE  FlowInv'
<1>1. PICK x : x = Msg("ack", "amf", NewCtx, m.id, NoGnb)
    OBVIOUS
<1>2. /\ UNCHANGED <<uConn, nConn, link, open, reading, owner, call, calls, lastId>>
      /\ nCtx' = nCtx + 1 /\ m.k = "request" /\ msgs' = (msgs \ {m}) \cup {x}
    BY <1>1 DEF HandlerHandoverRequest, Replace, ueVars, amfVars, opVars, NewCtx
<1>3. PICK y : y = Msg("listen", "ue", 0, 0, NoGnb)
    OBVIOUS
<1>4. CountInv /\ WholeInv /\ IsFiniteSet(msgs) /\ msgs' \subseteq (msgs \ {m}) \cup {x, y}
    BY <1>2 DEF FlowInv, CountInv
<1>5. /\ m.k \in DialK /\ m.k \in PrepK /\ x.k \notin PrepK /\ x.k \notin IdK
      /\ y.k \notin DialK /\ y.k \notin PrepK /\ y.k \notin IdK
    BY <1>1, <1>2, <1>3 DEF DialK, PrepK, IdK, Msg
<1>6. /\ Pending(DialK)' <= Pending(DialK) /\ Pending(DialK)' \in Nat
      /\ Pending(PrepK)' + 1 <= Pending(PrepK) /\ Pending(PrepK)' \in Nat
      /\ Pending(IdK)' <= Pending(IdK) /\ Pending(IdK)' \in Nat /\ IsFiniteSet(msgs')
    BY <1>4, <1>5, PendingStep
<1>7. Unaccepted' = Unaccepted /\ Calling' = Calling
    BY <1>2 DEF Unaccepted, Calling
<1>8. CountInv'
    BY <1>2, <1>4, <1>6, <1>7, CountTypes DEF CountInv
<1>9. Whole(x)'
    BY <1>1 DEF Whole, Msg
<1>10. WholeInv'
    BY <1>2, <1>4, <1>9, AnswerWhole
<1> QED BY <1>8, <1>10 DEF FlowInv

LEMMA AmfHandoverRequiredFlow ==
  ASSUME IInv, FlowInv, NEW m \in msgs, AmfHandoverRequired(m)
  PROVE  FlowInv'
<1>1. PICK x : x = Msg("request", "gnb", m.id, lastId + 1, m.g)
    OBVIOUS
<1>2. /\ UNCHANGED <<uConn, nConn, link, open, reading, nCtx, owner, call, calls>>
      /\ lastId' = lastId + 1 /\ m.k = "required" /\ msgs' = (msgs \ {m}) \cup {x}
    BY <1>1 DEF AmfHandoverRequired, Replace, ueVars, gnbVars, opVars
<1>3. PICK y : y = Msg("listen", "ue", 0, 0, NoGnb)
    OBVIOUS
<1>4. CountInv /\ WholeInv /\ IsFiniteSet(msgs) /\ msgs' \subseteq (msgs \ {m}) \cup {x, y}
    BY <1>2 DEF FlowInv, CountInv
<1>5. /\ m.k \in DialK /\ m.k \in PrepK /\ m.k \in IdK /\ x.k \notin IdK
      /\ y.k \notin DialK /\ y.k \notin PrepK /\ y.k \notin IdK
    BY <1>1, <1>2, <1>3 DEF DialK, PrepK, IdK, Msg
<1>6. /\ Pending(DialK)' <= Pending(DialK) /\ Pending(DialK)' \in Nat
      /\ Pending(PrepK)' <= Pending(PrepK) /\ Pending(PrepK)' \in Nat
      /\ Pending(IdK)' + 1 <= Pending(IdK) /\ Pending(IdK)' \in Nat /\ IsFiniteSet(msgs')
    BY <1>4, <1>5, PendingStep
<1>7. Unaccepted' = Unaccepted /\ Calling' = Calling
    BY <1>2 DEF Unaccepted, Calling
<1>8. CountInv'
    BY <1>2, <1>4, <1>6, <1>7, CountTypes DEF CountInv
<1>9. Whole(x)'
    BY <1>1 DEF Whole, Msg
<1>10. WholeInv'
    BY <1>2, <1>4, <1>9, AnswerWhole
<1> QED BY <1>8, <1>10 DEF FlowInv

-----------------------------------------------------------------------------
LEMMA InitFlow == Init => FlowInv /\ IdleInv
<1> SUFFICES ASSUME Init PROVE FlowInv /\ IdleInv
    OBVIOUS
<1> USE Bounds, HomeAssumption
<1>1. /\ msgs = {} /\ nConn = 1 /\ nCtx = 1 /\ lastId = 1 /\ calls = 0 /\ uConn = 1
      /\ reading = {1} /\ link[1] = Home /\ call = Idle /\ call.pc = "idle"
    BY DEF Init, Idle
<1>2. Unaccepted = {}
    BY DEF Init, Unaccepted
<1>3. IsFiniteSet({}) /\ Cardinality({}) = 0
    BY FS_EmptySet
<1>4. Calling = 0 /\ \A K : Pending(K) = 0
  <2>1. \A K : {m \in msgs : m.k \in K} = {}
      BY <1>1
  <2> QED BY <1>1, <1>3, <2>1 DEF Calling, Pending
<1>5. CountInv
    BY <1>1, <1>2, <1>3, <1>4 DEF CountInv
<1>6. WholeInv
    BY <1>1 DEF WholeInv, Read
<1> QED BY <1>1, <1>5, <1>6 DEF FlowInv, IdleInv

LEMMA FlowNext == IInv /\ FlowInv /\ [Next]_vars => FlowInv'
<1> SUFFICES ASSUME IInv, FlowInv, [Next]_vars PROVE FlowInv'
    OBVIOUS
<1>1. CASE UNCHANGED vars
    BY <1>1, FlowSame DEF vars, ueVars, gnbVars, amfVars, opVars, Untouched
<1>2. CASE Calls
    BY <1>2, TriggerN2Flow, TriggerXnFlow, ResolveUeConnectionDetailsFlow, ConnectionReleaseFlow
    DEF Calls
<1>3. CASE Faults
    BY <1>3, XnDialFailsFlow, AmfGivesUpFlow, CommandDialFailsFlow, XnReleaseLostFlow DEF Faults
<1>4. CASE Steps
    BY <1>4, XnCloseFlow, XnDialFlow, AcceptFlow, UeListenFlow, UeReadsFlow, DispatchUpdateFlow,
       DispatchReleaseFlow, DispatchCommandFlow, CommandDialFlow, HandleN2HandoverTriggerFlow,
       HandlePathSwitchTriggerFlow, HandleTargetAccessUnknownFlow, HandleTargetAccessEndsFlow,
       HandlerHandoverRequestFlow, HandlerHandoverCommandFlow,
       HandlerUeContextReleaseCommandFlow, HandlerPathSwitchRequestAcknowledgeFlow,
       ProcessXnReleaseFlow, AmfHandoverRequiredFlow, AmfRefusesFlow, AmfHandoverRequestAckFlow,
       AmfHandoverNotifyFlow, AmfPathSwitchFlow, AmfReleaseRequestFlow, ProcessingConnFlow,
       HandleTargetAccessFlow
    DEF Steps
<1> QED BY <1>1, <1>2, <1>3, <1>4 DEF Next

LEMMA IdleNext == IdleInv /\ [Next]_vars => IdleInv'
<1> SUFFICES ASSUME IdleInv, [Next]_vars PROVE IdleInv'
    OBVIOUS
<1>1. ASSUME UNCHANGED call PROVE IdleInv'
    BY <1>1 DEF IdleInv
<1>2. CASE UNCHANGED vars
    BY <1>1, <1>2 DEF vars, opVars
<1>3. ASSUME call' = Idle \/ call'.pc = "sleep" PROVE IdleInv'
    BY <1>3 DEF IdleInv
<1>4. CASE Calls
  <2>1. ASSUME NEW t \in Gnbs, TriggerXn(t) PROVE call'.pc = "sleep"
      BY <2>1 DEF TriggerXn
  <2> QED BY <1>1, <1>3, <1>4, <2>1
          DEF Calls, TriggerN2, ResolveUeConnectionDetails, ConnectionRelease, opVars
<1>5. CASE Faults
    BY <1>1, <1>3, <1>5
    DEF Faults, XnDialFails, AmfGivesUp, CommandDialFails, XnReleaseLost, opVars
<1>6. CASE Steps
  <2>1. CASE XnClose \/ XnDial
    <3>1. CASE XnClose
      <4>1. call'.pc = "dial" \/ call' = call
          BY <3>1 DEF XnClose
      <4> QED BY <1>1, <4>1 DEF IdleInv
    <3> QED BY <1>3, <2>1, <3>1 DEF XnDial
  <2>2. CASE \E c \in Conns : Accept(c)
      BY <1>1, <2>2 DEF Accept, opVars
  <2>3. ASSUME NEW m \in msgs,
               \/ UeListen(m) \/ UeReads(m) \/ DispatchUpdate(m) \/ DispatchRelease(m)
               \/ DispatchCommand(m) \/ CommandDial(m)
               \/ HandleN2HandoverTrigger(m) \/ HandlePathSwitchTrigger(m)
               \/ HandleTargetAccessUnknown(m) \/ HandleTargetAccessEnds(m)
               \/ HandlerHandoverRequest(m) \/ HandlerHandoverCommand(m)
               \/ HandlerUeContextReleaseCommand(m) \/ HandlerPathSwitchRequestAcknowledge(m)
               \/ ProcessXnRelease(m)
               \/ AmfHandoverRequired(m) \/ AmfRefuses(m) \/ AmfHandoverRequestAck(m)
               \/ AmfHandoverNotify(m) \/ AmfPathSwitch(m) \/ AmfReleaseRequest(m)
        PROVE  IdleInv'
    <3>1. UNCHANGED opVars
        BY <2>3
        DEF UeListen, UeReads, DispatchUpdate, DispatchRelease, DispatchCommand, CommandDial,
            HandleN2HandoverTrigger, HandlePathSwitchTrigger, HandleTargetAccessUnknown,
            HandleTargetAccessEnds, HandlerHandoverRequest, HandlerHandoverCommand,
            HandlerUeContextReleaseCommand, HandlerPathSwitchRequestAcknowledge,
            ProcessXnRelease, AmfHandoverRequired, AmfRefuses, AmfHandoverRequestAck,
            AmfHandoverNotify, AmfPathSwitch, AmfReleaseRequest
    <3> QED BY <1>1, <3>1 DEF opVars
  <2>4. CASE \E m \in msgs, k \in Ctxs : ProcessingConn(m, k) \/ HandleTargetAccess(m, k)
      BY <1>1, <2>4 DEF ProcessingConn, HandleTargetAccess, opVars
  <2> QED BY <1>6, <2>1, <2>2, <2>3, <2>4 DEF Steps
<1> QED BY <1>2, <1>4, <1>5, <1>6 DEF Next

LEMMA FlowAlways == Spec => [](IInv /\ PlaceInv /\ OneInv /\ FlowInv /\ IdleInv)
<1>1. Init => FlowInv /\ IdleInv
    BY InitFlow
<1>2. IInv /\ (FlowInv /\ IdleInv) /\ [Next]_vars => (FlowInv /\ IdleInv)'
    BY FlowNext, IdleNext
<1> QED BY <1>1, <1>2, OneAlways, PTL DEF Spec

(* There is room for what is due.                                          *)
RoomLeft ==
  /\ call.pc = "dial" => nConn < MaxConns
  /\ \A m \in msgs : /\ m.k = "dial" => nConn < MaxConns
                     /\ m.k = "request" => nCtx < MaxCtxs
                     /\ m.k = "required" => lastId < MaxConns
  /\ \A c \in Conns : link[c] # NoGnb /\ owner[c] = 0 => nCtx < MaxCtxs

LEMMA FlowRoom == IInv /\ FlowInv => RoomLeft
<1> SUFFICES ASSUME IInv, FlowInv PROVE RoomLeft
    OBVIOUS
<1>1. CountInv
    BY DEF FlowInv
<1> USE <1>1, CountTypes
<1>2. MaxConns = MaxHandovers + 1 /\ MaxCtxs = 2 * MaxHandovers + 1
    BY DEF MaxConns, MaxCtxs
<1>3. call.pc = "dial" => nConn < MaxConns
    BY <1>2 DEF CountInv, Calling
<1>4. ASSUME NEW m \in msgs
      PROVE  /\ m.k = "dial" => nConn < MaxConns
             /\ m.k = "request" => nCtx < MaxCtxs
             /\ m.k = "required" => lastId < MaxConns
  <2>1. /\ m.k = "dial" => Pending(DialK) >= 1
        /\ m.k = "request" => Pending(PrepK) >= 1
        /\ m.k = "required" => Pending(IdK) >= 1
      BY DEF DialK, PrepK, IdK
  <2> QED BY <1>2, <2>1 DEF CountInv
<1>5. ASSUME NEW c \in Conns, link[c] # NoGnb, owner[c] = 0
      PROVE  nCtx < MaxCtxs
  <2>1. c \in Unaccepted
      BY <1>5 DEF Unaccepted
  <2>2. Cardinality(Unaccepted) # 0
      BY <2>1, FS_EmptySet
  <2> QED BY <1>2, <2>2 DEF CountInv
<1> QED BY <1>3, <1>4, <1>5 DEF RoomLeft

(* The bounds of the model cut nothing off: whenever a dial, an accept, a  *)
(* Handover Request or an id of the AMF is due there is room for it, also  *)
(* when handovers overlap and whatever fails.                              *)
THEOREM RoomCorrect == Spec => []RoomLeft
  BY FlowAlways, FlowRoom, PTL

(* The guard of some step of the UE, a gNB or the AMF holds (Steps): one   *)
(* disjunct for each thing that the guards tell apart.                     *)
CanStep ==
  \/ call.pc = "sleep"
  \/ call.pc = "dial" /\ nConn < MaxConns
  \/ \E c \in Conns : link[c] # NoGnb /\ owner[c] = 0 /\ nCtx < MaxCtxs
  \/ \E m \in msgs :
       \/ m.k \in {"listen", "swapped", "command", "release", "psack", "xnrel"}
       \/ m.k \in {"cmd", "upd", "rel"} /\ (m.at = "ue" \/ (m.at = "conn" /\ m.x \in reading))
       \/ m.k = "dial" /\ nConn < MaxConns
       \/ m.k \in {"n2", "access", "ps"} /\ (m.at = "ctx" \/ (m.at = "conn" /\ owner[m.x] # 0))
       \/ m.k = "request" /\ nCtx < MaxCtxs
       \/ m.k \in {"required", "ack", "notify", "psreq", "relreq"} /\ m.at = "amf"

NeverStuck == ~hurried /\ ~Quiet => CanStep

(* As long as handovers do not overlap, none gets stuck, whatever fails or *)
(* is refused: a message that is under way is at a handler that can take   *)
(* it, or on a connection that is read (UeListen), will be read or will be *)
(* accepted (gnbListen), and a caller can go on.                           *)
THEOREM NeverStuckCorrect == Spec => []NeverStuck
<1>1. IInv /\ PlaceInv /\ OneInv /\ FlowInv /\ IdleInv => NeverStuck
  <2> SUFFICES ASSUME IInv, OneInv, FlowInv, IdleInv, ~hurried, ~Quiet PROVE CanStep
      BY DEF NeverStuck
  <2>1. RoomLeft /\ WholeInv /\ open \subseteq {uConn}
      BY FlowRoom DEF FlowInv, OneInv, ConnInv
  <2>2. CASE call # Idle
    <3>1. call.pc = "sleep" \/ call.pc = "dial"
        BY <2>2, Groups DEF IdleInv, OpT
    <3> QED BY <2>1, <3>1 DEF RoomLeft, CanStep
  <2>3. ASSUME NEW m \in msgs PROVE CanStep
    <3>1. m \in MsgRec /\ MsgOK(m) /\ Whole(m)
        BY <2>1, AMsg DEF WholeInv
    <3>2. CASE m.k \in {"cmd", "upd", "rel"} /\ m.at = "conn"
      <4>1. m.x = uConn /\ m.x \in open
          BY <2>1, <3>1, <3>2 DEF Whole
      <4> QED BY <2>1, <3>2, <4>1 DEF WholeInv, Read, CanStep
    <3>3. CASE m.k \in {"n2", "access", "ps"} /\ m.at = "conn"
      <4>1. m.x \in Conns /\ link[m.x] # NoGnb
          BY <3>1, <3>3 DEF Whole, MsgOK
      <4> QED BY <2>1, <3>3, <4>1 DEF RoomLeft, CanStep
    <3>4. CASE m.k \in {"dial", "request"}
        BY <2>1, <3>4 DEF RoomLeft, CanStep
    <3>5. CASE m.k \in {"listen", "swapped", "command", "release", "psack", "xnrel"}
        BY <3>5 DEF CanStep
    <3>6. CASE m.k \in {"required", "ack", "notify", "psreq", "relreq"}
        BY <3>1, <3>6 DEF Whole, CanStep
    <3>7. CASE m.k \in {"cmd", "upd", "rel", "n2", "access", "ps"} /\ m.at # "conn"
        BY <3>1, <3>7 DEF Whole, CanStep
    <3> QED BY <3>1, <3>2, <3>3, <3>4, <3>5, <3>6, <3>7 DEF MsgRec, Kinds
  <2> QED BY <2>2, <2>3 DEF Quiet
<1> QED BY <1>1, FlowAlways, PTL

-----------------------------------------------------------------------------
(* How far a handover is: every message is answered by later ones, and one *)
(* that is on a connection is read first.                                  *)
Order(k) ==
  CASE k = "n2"      -> 1
    [] k = "required" -> 2
    [] k = "request" -> 3
    [] k = "ack"     -> 4
    [] k = "command" -> 5
    [] k = "cmd"     -> 6
    [] k = "dial"    -> 7
    [] k \in {"listen", "access", "ps"}   -> 8
    [] k \in {"swapped", "psreq"}         -> 9
    [] k \in {"notify", "psack"}          -> 10
    [] k \in {"upd", "xnrel", "relreq"}   -> 11
    [] k = "release" -> 12
    [] k = "rel"     -> 13
LastStage == 26
Stage(m) == IF m.at = "conn" THEN 2 * Order(m.k) - 1 ELSE 2 * Order(m.k)

(* What is left to do: by the caller, by the messages of each stage, and   *)
(* by the gNBs that have a connection to accept.  A step gets nearer to    *)
(* the end if this becomes less, lexicographically.                        *)
ToDo(i) ==
  IF i = 0 THEN (IF call.pc = "sleep" THEN 2 ELSE IF call.pc = "dial" THEN 1 ELSE 0)
  ELSE IF i <= LastStage THEN Cardinality({m \in msgs : Stage(m) = i})
  ELSE Cardinality(Unaccepted)
Nearer ==
  \E i \in 0 .. LastStage + 1 :
    ToDo(i)' < ToDo(i) /\ \A j \in 0 .. LastStage + 1 : j < i => ToDo(j)' <= ToDo(j)

-----------------------------------------------------------------------------
LEMMA StageType ==
  ASSUME NEW m \in MsgRec
  PROVE  Stage(m) \in 1 .. LastStage
  BY DEF MsgRec, Kinds, Stage, Order, LastStage

LEMMA LeftType ==
  ASSUME IInv, CountInv, NEW i \in 0 .. LastStage + 1
  PROVE  ToDo(i) \in Nat
<1> DEFINE S == {m \in msgs : Stage(m) = i}
<1>1. S \in SUBSET msgs
    OBVIOUS
<1> HIDE DEF S
<1>2. IsFiniteSet(S) /\ Cardinality(S) \in Nat
    BY <1>1, FS_Subset, FS_CardinalityType DEF CountInv
<1>3. Cardinality(Unaccepted) \in Nat
    BY CountTypes
<1> QED BY <1>2, <1>3 DEF ToDo, S, LastStage

(* A step that takes message m, and sends only what comes later.           *)
LEMMA NearerMsg ==
  ASSUME IInv, CountInv, UNCHANGED call, NEW m \in msgs, NEW ms,
         msgs' \subseteq (msgs \ {m}) \cup ms, \A x \in ms : Stage(x) > Stage(m)
  PROVE  Nearer
<1>1. PICK i \in 1 .. LastStage : i = Stage(m)
    BY StageType, AMsg
<1>2. IsFiniteSet(msgs) /\ i \in 0 .. LastStage + 1 /\ i \in Nat
    BY <1>1 DEF CountInv, LastStage
<1>3. ASSUME NEW j \in 1 .. LastStage, j <= i
      PROVE  ToDo(j)' <= ToDo(j) /\ (j = i => ToDo(j)' < ToDo(j))
  <2> DEFINE S == {d \in msgs : Stage(d) = j}
             T == {d \in msgs' : Stage(d) = j}
  <2>1. S \in SUBSET msgs /\ T \in SUBSET (S \ {m})  /\ (j = i => m \in S)
    <3>1. \A d \in msgs' : Stage(d) = j => d \in msgs \ {m}
        BY <1>1, <1>3
    <3> QED BY <1>1, <3>1
  <2>2. ToDo(j) = Cardinality(S) /\ ToDo(j)' = Cardinality(T)
      BY <1>3 DEF ToDo, LastStage
  <2> HIDE DEF S, T
  <2>3. IsFiniteSet(S) /\ Cardinality(S) \in Nat
      BY <1>2, <2>1, FS_Subset, FS_CardinalityType
  <2>4. PICK R : R = S \ {m}
      OBVIOUS
  <2>5. IsFiniteSet(R) /\ Cardinality(R) = IF m \in S THEN Cardinality(S) - 1 ELSE Cardinality(S)
      BY <2>3, <2>4, FS_RemoveElement
  <2>6. IsFiniteSet(T) /\ Cardinality(T) <= Cardinality(R) /\ Cardinality(T) \in Nat
      BY <2>1, <2>4, <2>5, FS_Subset, FS_CardinalityType
  <2> QED BY <2>1, <2>2, <2>3, <2>5, <2>6
<1>4. ToDo(0)' <= ToDo(0)
    BY DEF ToDo
<1>5. \A j \in 0 .. LastStage + 1 : j < i => ToDo(j)' <= ToDo(j)
  <2> TAKE j \in 0 .. LastStage + 1
  <2> HAVE j < i
  <2>1. j = 0 \/ j \in 1 .. LastStage
      BY <1>1 DEF LastStage
  <2> QED BY <1>2, <1>3, <1>4, <2>1
<1>6. ToDo(i)' < ToDo(i)
    BY <1>1, <1>2, <1>3
<1> QED BY <1>2, <1>5, <1>6 DEF Nearer
-----------------------------------------------------------------------------
LEMMA UeListenNear ==
  ASSUME IInv, CountInv, NEW m \in msgs, UeListen(m)
  PROVE  Nearer
<1>1. PICK ms : ms = {}
    OBVIOUS
<1>2. UNCHANGED call /\ msgs' \subseteq (msgs \ {m}) \cup ms
    BY <1>1 DEF UeListen, Replace, opVars
<1> QED BY <1>1, <1>2, NearerMsg

LEMMA DispatchUpdateNear ==
  ASSUME IInv, CountInv, NEW m \in msgs, DispatchUpdate(m)
  PROVE  Nearer
<1>1. PICK ms : ms = {}
    OBVIOUS
<1>2. UNCHANGED call /\ msgs' \subseteq (msgs \ {m}) \cup ms
    BY <1>1 DEF DispatchUpdate, Replace, opVars
<1> QED BY <1>1, <1>2, NearerMsg

LEMMA DispatchReleaseNear ==
  ASSUME IInv, CountInv, NEW m \in msgs, DispatchRelease(m)
  PROVE  Nearer
<1>1. PICK ms : ms = {}
    OBVIOUS
<1>2. UNCHANGED call /\ msgs' \subseteq (msgs \ {m}) \cup ms
    BY <1>1 DEF DispatchRelease, Replace, opVars
<1> QED BY <1>1, <1>2, NearerMsg

LEMMA HandleTargetAccessUnknownNear ==
  ASSUME IInv, CountInv, NEW m \in msgs, HandleTargetAccessUnknown(m)
  PROVE  Nearer
<1>1. PICK ms : ms = {}
    OBVIOUS
<1>2. UNCHANGED call /\ msgs' \subseteq (msgs \ {m}) \cup ms
    BY <1>1 DEF HandleTargetAccessUnknown, Replace, opVars
<1> QED BY <1>1, <1>2, NearerMsg

LEMMA ProcessXnReleaseNear ==
  ASSUME IInv, CountInv, NEW m \in msgs, ProcessXnRelease(m)
  PROVE  Nearer
<1>1. PICK ms : ms = {}
    OBVIOUS
<1>2. UNCHANGED call /\ msgs' \subseteq (msgs \ {m}) \cup ms
    BY <1>1 DEF ProcessXnRelease, Replace, opVars
<1> QED BY <1>1, <1>2, NearerMsg

LEMMA AmfRefusesNear ==
  ASSUME IInv, CountInv, NEW m \in msgs, AmfRefuses(m)
  PROVE  Nearer
<1>1. PICK ms : ms = {}
    OBVIOUS
<1>2. UNCHANGED call /\ msgs' \subseteq (msgs \ {m}) \cup ms
    BY <1>1 DEF AmfRefuses, Replace, opVars
<1> QED BY <1>1, <1>2, NearerMsg

LEMMA UeReadsNear ==
  ASSUME IInv, CountInv, NEW m \in msgs, UeReads(m)
  PROVE  Nearer
<1>1. PICK ms : ms = {[m EXCEPT !.at = "ue"]}
    OBVIOUS
<1>2. UNCHANGED call /\ msgs' \subseteq (msgs \ {m}) \cup ms
      /\ m.k \in {"cmd", "upd", "rel"} /\ m.at = "conn"
    BY <1>1 DEF UeReads, Replace, opVars
<1>3. \A x \in ms : x.k = m.k /\ x.at = "ue"
    BY <1>1, AMsg DEF Msg, MsgRec
<1>4. \A x \in ms : Stage(x) > Stage(m)
    BY <1>2, <1>3 DEF Stage, Order
<1> QED BY <1>2, <1>4, NearerMsg

LEMMA DispatchCommandNear ==
  ASSUME IInv, CountInv, NEW m \in msgs, DispatchCommand(m)
  PROVE  Nearer
<1>1. PICK ms : ms = {Msg("dial", "ue", m.x, m.id, uGnb)}
    OBVIOUS
<1>2. UNCHANGED call /\ msgs' \subseteq (msgs \ {m}) \cup ms /\ m.k = "cmd"
    BY <1>1 DEF DispatchCommand, Replace, opVars
<1>3. m \in MsgRec
    BY AMsg
<1>4. \A x \in ms : Stage(x) > Stage(m)
    BY <1>1, <1>2, <1>3 DEF Stage, Order, Msg, MsgRec
<1> QED BY <1>2, <1>4, NearerMsg

LEMMA CommandDialNear ==
  ASSUME IInv, CountInv, NEW m \in msgs, CommandDial(m)
  PROVE  Nearer
<1>1. PICK ms : ms = {Listen, Msg("access", "conn", NewConn, uId, NoGnb)}
    OBVIOUS
<1>2. UNCHANGED call /\ msgs' \subseteq (msgs \ {m}) \cup ms /\ m.k = "dial"
    BY <1>1 DEF CommandDial, Replace, opVars
<1>3. \A x \in ms : x.k = "access" \/ (x.k = "listen" /\ x.at = "ue")
    BY <1>1, AMsg DEF Msg, MsgRec, Listen
<1>4. \A x \in ms : Stage(x) > Stage(m)
    BY <1>2, <1>3 DEF Stage, Order
<1> QED BY <1>2, <1>4, NearerMsg

LEMMA ProcessingConnNear ==
  ASSUME IInv, CountInv, NEW m \in msgs, NEW k, ProcessingConn(m, k)
  PROVE  Nearer
<1>1. PICK ms : ms = {[m EXCEPT !.at = "ctx", !.x = k]}
    OBVIOUS
<1>2. UNCHANGED call /\ msgs' \subseteq (msgs \ {m}) \cup ms
      /\ m.at = "conn" /\ m.k \in {"n2", "access", "ps"}
    BY <1>1 DEF ProcessingConn, Replace, opVars
<1>3. \A x \in ms : x.k = m.k /\ x.at = "ctx"
    BY <1>1, AMsg DEF Msg, MsgRec
<1>4. \A x \in ms : Stage(x) > Stage(m)
    BY <1>2, <1>3 DEF Stage, Order
<1> QED BY <1>2, <1>4, NearerMsg

LEMMA HandleN2HandoverTriggerNear ==
  ASSUME IInv, CountInv, NEW m \in msgs, HandleN2HandoverTrigger(m)
  PROVE  Nearer
<1>1. PICK ms : ms = {[m EXCEPT !.k = "required", !.at = "amf"]} \cup Update(m.x, m.id)
    OBVIOUS
<1>2. UNCHANGED call /\ msgs' \subseteq (msgs \ {m}) \cup ms /\ m.k = "n2"
    BY <1>1 DEF HandleN2HandoverTrigger, Replace, opVars
<1>3. \A x \in ms : x.k \in {"required", "upd"}
    BY <1>1, AMsg, UpdateSide DEF MsgRec
<1>4. \A x \in ms : Stage(x) > Stage(m)
    BY <1>2, <1>3 DEF Stage, Order
<1> QED BY <1>2, <1>4, NearerMsg

LEMMA HandlePathSwitchTriggerNear ==
  ASSUME IInv, CountInv, NEW m \in msgs, HandlePathSwitchTrigger(m)
  PROVE  Nearer
<1>1. PICK ms : ms = {[m EXCEPT !.k = "psreq", !.at = "amf"]} \cup Update(m.x, m.id)
    OBVIOUS
<1>2. UNCHANGED call /\ msgs' \subseteq (msgs \ {m}) \cup ms /\ m.k = "ps"
    BY <1>1 DEF HandlePathSwitchTrigger, Replace, opVars
<1>3. \A x \in ms : x.k \in {"psreq", "upd"}
    BY <1>1, AMsg, UpdateSide DEF MsgRec
<1>4. \A x \in ms : Stage(x) > Stage(m)
    BY <1>2, <1>3 DEF Stage, Order
<1> QED BY <1>2, <1>4, NearerMsg

LEMMA HandleTargetAccessNear ==
  ASSUME IInv, CountInv, NEW m \in msgs, NEW k, HandleTargetAccess(m, k)
  PROVE  Nearer
<1>1. PICK ms : ms = {[m EXCEPT !.k = "swapped", !.id = k]} \cup Update(m.x, ctx[k].amf)
    OBVIOUS
<1>2. UNCHANGED call /\ msgs' \subseteq (msgs \ {m}) \cup ms /\ m.k = "access" /\ m.at = "ctx"
    BY <1>1 DEF HandleTargetAccess, Replace, opVars
<1>3. \A x \in ms : x.k \in {"swapped", "upd"}
    BY <1>1, AMsg, UpdateSide DEF MsgRec
<1>4. \A x \in ms : Stage(x) > Stage(m)
    BY <1>2, <1>3 DEF Stage, Order
<1> QED BY <1>2, <1>4, NearerMsg

LEMMA HandleTargetAccessEndsNear ==
  ASSUME IInv, CountInv, NEW m \in msgs, HandleTargetAccessEnds(m)
  PROVE  Nearer
<1>1. PICK ms : ms = {Msg("notify", "amf", m.id, 0, NoGnb)}
    OBVIOUS
<1>2. UNCHANGED call /\ msgs' \subseteq (msgs \ {m}) \cup ms /\ m.k = "swapped"
    BY <1>1 DEF HandleTargetAccessEnds, Replace, opVars
<1>3. m \in MsgRec
    BY AMsg
<1>4. \A x \in ms : Stage(x) > Stage(m)
    BY <1>1, <1>2, <1>3 DEF Stage, Order, Msg, MsgRec
<1> QED BY <1>2, <1>4, NearerMsg

LEMMA HandlerHandoverRequestNear ==
  ASSUME IInv, CountInv, NEW m \in msgs, HandlerHandoverRequest(m)
  PROVE  Nearer
<1>1. PICK ms : ms = {Msg("ack", "amf", NewCtx, m.id, NoGnb)}
    OBVIOUS
<1>2. UNCHANGED call /\ msgs' \subseteq (msgs \ {m}) \cup ms /\ m.k = "request"
    BY <1>1 DEF HandlerHandoverRequest, Replace, opVars
<1>3. m \in MsgRec
    BY AMsg
<1>4. \A x \in ms : Stage(x) > Stage(m)
    BY <1>1, <1>2, <1>3 DEF Stage, Order, Msg, MsgRec
<1> QED BY <1>2, <1>4, NearerMsg

LEMMA HandlerHandoverCommandNear ==
  ASSUME IInv, CountInv, NEW m \in msgs, HandlerHandoverCommand(m)
  PROVE  Nearer
<1>1. PICK ms : ms = {Msg("cmd", "conn", ctx[m.x].sock, m.id, NoGnb)}
    OBVIOUS
<1>2. UNCHANGED call /\ msgs' \subseteq (msgs \ {m}) \cup ms /\ m.k = "command"
    BY <1>1 DEF HandlerHandoverCommand, Replace, opVars, Write
<1>3. m \in MsgRec
    BY AMsg
<1>4. \A x \in ms : Stage(x) > Stage(m)
    BY <1>1, <1>2, <1>3 DEF Stage, Order, Msg, MsgRec
<1> QED BY <1>2, <1>4, NearerMsg

LEMMA HandlerUeContextReleaseCommandNear ==
  ASSUME IInv, CountInv, NEW m \in msgs, HandlerUeContextReleaseCommand(m)
  PROVE  Nearer
<1>1. PICK ms : ms = {Msg("rel", "conn", ctx[m.x].sock, 0, NoGnb)}
    OBVIOUS
<1>2. UNCHANGED call /\ msgs' \subseteq (msgs \ {m}) \cup ms /\ m.k = "release"
    BY <1>1 DEF HandlerUeContextReleaseCommand, Replace, opVars, Write
<1>3. m \in MsgRec
    BY AMsg
<1>4. \A x \in ms : Stage(x) > Stage(m)
    BY <1>1, <1>2, <1>3 DEF Stage, Order, Msg, MsgRec
<1> QED BY <1>2, <1>4, NearerMsg

LEMMA HandlerPathSwitchRequestAcknowledgeNear ==
  ASSUME IInv, CountInv, NEW m \in msgs, HandlerPathSwitchRequestAcknowledge(m)
  PROVE  Nearer
<1>1. PICK ms : ms = {Msg("xnrel", "udp", 0, m.id, ctx[k].gnb) : k \in Ctxs}
                     \cup Update(m.x, m.id)
    OBVIOUS
<1>2. UNCHANGED call /\ msgs' \subseteq (msgs \ {m}) \cup ms /\ m.k = "psack"
    BY <1>1 DEF HandlerPathSwitchRequestAcknowledge, Replace, opVars, FindUeInOtherGnb
<1>3. \A x \in ms : x.k \in {"xnrel", "upd"}
    BY <1>1, UpdateSide DEF Msg
<1>4. \A x \in ms : Stage(x) > Stage(m)
    BY <1>2, <1>3 DEF Stage, Order
<1> QED BY <1>2, <1>4, NearerMsg

LEMMA AmfHandoverRequiredNear ==
  ASSUME IInv, CountInv, NEW m \in msgs, AmfHandoverRequired(m)
  PROVE  Nearer
<1>1. PICK ms : ms = {Msg("request", "gnb", m.id, lastId + 1, m.g)}
    OBVIOUS
<1>2. UNCHANGED call /\ msgs' \subseteq (msgs \ {m}) \cup ms /\ m.k = "required"
    BY <1>1 DEF AmfHandoverRequired, Replace, opVars
<1>3. m \in MsgRec
    BY AMsg
<1>4. \A x \in ms : Stage(x) > Stage(m)
    BY <1>1, <1>2, <1>3 DEF Stage, Order, Msg, MsgRec
<1> QED BY <1>2, <1>4, NearerMsg

LEMMA AmfHandoverRequestAckNear ==
  ASSUME IInv, CountInv, NEW m \in msgs, AmfHandoverRequestAck(m)
  PROVE  Nearer
<1>1. PICK ms : ms = {Msg("command", "gnb", ho.src, m.id, NoGnb)}
    OBVIOUS
<1>2. UNCHANGED call /\ msgs' \subseteq (msgs \ {m}) \cup ms /\ m.k = "ack"
    BY <1>1 DEF AmfHandoverRequestAck, Replace, opVars
<1>3. m \in MsgRec
    BY AMsg
<1>4. \A x \in ms : Stage(x) > Stage(m)
    BY <1>1, <1>2, <1>3 DEF Stage, Order, Msg, MsgRec
<1> QED BY <1>2, <1>4, NearerMsg

LEMMA AmfHandoverNotifyNear ==
  ASSUME IInv, CountInv, NEW m \in msgs, AmfHandoverNotify(m)
  PROVE  Nearer
<1>1. PICK ms : ms = {Msg("release", "gnb", ho.src, 0, NoGnb)}
    OBVIOUS
<1>2. UNCHANGED call /\ msgs' \subseteq (msgs \ {m}) \cup ms /\ m.k = "notify"
    BY <1>1 DEF AmfHandoverNotify, Replace, opVars
<1>3. m \in MsgRec
    BY AMsg
<1>4. \A x \in ms : Stage(x) > Stage(m)
    BY <1>1, <1>2, <1>3 DEF Stage, Order, Msg, MsgRec
<1> QED BY <1>2, <1>4, NearerMsg

LEMMA AmfPathSwitchNear ==
  ASSUME IInv, CountInv, NEW m \in msgs, AmfPathSwitch(m)
  PROVE  Nearer
<1>1. PICK ms : ms = {Msg("psack", "gnb", m.x, m.id, NoGnb)}
    OBVIOUS
<1>2. UNCHANGED call /\ msgs' \subseteq (msgs \ {m}) \cup ms /\ m.k = "psreq"
    BY <1>1 DEF AmfPathSwitch, Replace, opVars
<1>3. m \in MsgRec
    BY AMsg
<1>4. \A x \in ms : Stage(x) > Stage(m)
    BY <1>1, <1>2, <1>3 DEF Stage, Order, Msg, MsgRec
<1> QED BY <1>2, <1>4, NearerMsg

LEMMA AmfReleaseRequestNear ==
  ASSUME IInv, CountInv, NEW m \in msgs, AmfReleaseRequest(m)
  PROVE  Nearer
<1>1. PICK ms : ms = {Msg("release", "gnb", m.x, 0, NoGnb)}
    OBVIOUS
<1>2. UNCHANGED call /\ msgs' \subseteq (msgs \ {m}) \cup ms /\ m.k = "relreq"
    BY <1>1 DEF AmfReleaseRequest, Replace, opVars
<1>3. m \in MsgRec
    BY AMsg
<1>4. \A x \in ms : Stage(x) > Stage(m)
    BY <1>1, <1>2, <1>3 DEF Stage, Order, Msg, MsgRec
<1> QED BY <1>2, <1>4, NearerMsg

LEMMA XnCloseNear ==
  ASSUME IInv, XnClose
  PROVE  Nearer
<1>1. call.pc = "sleep" /\ call'.pc = "dial"
    BY Groups DEF XnClose, OpT
<1>2. ToDo(0) = 2 /\ ToDo(0)' = 1
    BY <1>1 DEF ToDo
<1> QED BY <1>2 DEF Nearer, LastStage

LEMMA XnDialNear ==
  ASSUME IInv, XnDial
  PROVE  Nearer
<1>1. call.pc = "dial" /\ call'.pc = "idle"
    BY DEF XnDial, Idle
<1>2. ToDo(0) = 1 /\ ToDo(0)' = 0
    BY <1>1 DEF ToDo
<1> QED BY <1>2 DEF Nearer, LastStage

LEMMA AcceptNear ==
  ASSUME IInv, CountInv, NEW c \in Conns, Accept(c)
  PROVE  Nearer
<1>1. UNCHANGED <<msgs, call>>
    BY DEF Accept, opVars
<1>2. PICK U : U = Unaccepted
    OBVIOUS
<1>3. PICK W : W = Unaccepted'
    OBVIOUS
<1>4. c \in U /\ IsFiniteSet(U) /\ Cardinality(U) \in Nat
    BY <1>2, CountTypes DEF Accept, Unaccepted
<1>5. W \in SUBSET (U \ {c})
  <2>1. owner \in [Conns -> Zero(Ctxs)] /\ NewCtx # 0 /\ UNCHANGED link
        /\ owner' = [owner EXCEPT ![c] = NewCtx]
      BY Groups, Bounds DEF Accept, GnbT, NewCtx, ueVars
  <2>2. owner'[c] # 0 /\ \A e \in Conns : e # c => owner'[e] = owner[e]
      BY <2>1
  <2> QED BY <1>2, <1>3, <2>1, <2>2 DEF Unaccepted
<1>6. PICK R : R = U \ {c}
    OBVIOUS
<1>7. IsFiniteSet(R) /\ Cardinality(R) = Cardinality(U) - 1
    BY <1>4, <1>6, FS_RemoveElement
<1>8. Cardinality(W) <= Cardinality(R) /\ Cardinality(W) \in Nat
    BY <1>5, <1>6, <1>7, FS_Subset, FS_CardinalityType
<1>9. ToDo(27) = Cardinality(U) /\ ToDo(27)' = Cardinality(W)
    BY <1>2, <1>3 DEF ToDo, LastStage
<1>10. ToDo(27)' < ToDo(27)
    BY <1>4, <1>7, <1>8, <1>9
<1>11. ASSUME NEW j \in 0 .. 27, j < 27
       PROVE  ToDo(j)' <= ToDo(j)
  <2>1. ToDo(j)' = ToDo(j)
      BY <1>1, <1>11 DEF ToDo, LastStage
  <2>2. ToDo(j) \in Nat
      BY LeftType DEF LastStage
  <2> QED BY <2>1, <2>2
<1> QED BY <1>10, <1>11 DEF Nearer, LastStage

(* However handovers overlap and whatever fails, no step of the UE, a gNB  *)
(* or the AMF leads back to where it has been: without a new call of       *)
(* TriggerHandover or a new release request there are finitely many.       *)
THEOREM NearerCorrect == Spec => [][Steps => Nearer]_vars
<1>1. IInv /\ FlowInv /\ [Next]_vars => [Steps => Nearer]_vars
  <2> SUFFICES ASSUME IInv, FlowInv, Steps PROVE Nearer
      OBVIOUS
  <2>1. CountInv
      BY DEF FlowInv
  <2> QED
    BY <2>1, XnCloseNear, XnDialNear, AcceptNear, UeListenNear, UeReadsNear, DispatchUpdateNear,
       DispatchReleaseNear, DispatchCommandNear, CommandDialNear, HandleN2HandoverTriggerNear,
       HandlePathSwitchTriggerNear, HandleTargetAccessUnknownNear, HandleTargetAccessEndsNear,
       HandlerHandoverRequestNear, HandlerHandoverCommandNear,
       HandlerUeContextReleaseCommandNear, HandlerPathSwitchRequestAcknowledgeNear,
       ProcessXnReleaseNear, AmfHandoverRequiredNear, AmfRefusesNear, AmfHandoverRequestAckNear,
       AmfHandoverNotifyNear, AmfPathSwitchNear, AmfReleaseRequestNear, ProcessingConnNear,
       HandleTargetAccessNear
    DEF Steps
<1> QED BY <1>1, FlowAlways, PTL DEF Spec
=============================================================================
