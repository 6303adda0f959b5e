----------------------------- MODULE GnbContext -----------------------------
(***************************************************************************)
(* The UE contexts of one gNB (gnb/context) and the goroutines that work   *)
(* on them: the one that accepts UE links (gnb/nas/service), one per NAS   *)
(* message of a UE (gnb/nas/handler), one per NGAP message of the AMF      *)
(* (gnb/ngap), and the two readers of the user plane (gnb/gtp, gnb/data).  *)
(* Nothing is locked: a generator is loaded and stored in two steps.       *)
(*                                                                         *)
(* A UE is a context (GNBUe).  The AMF names it by its RAN UE NGAP ID, so  *)
(* uePool is a set of contexts of which no two have the same id.  The AMF  *)
(* and the UPF are there for the identities and the order of messages.     *)
(***************************************************************************)
EXTENDS Naturals

CONSTANTS
  Ues,        \* UE contexts
  Handlers,   \* bound: message goroutines at a time
  Acceptor,   \* the goroutine of gnbListen
  NoUe,       \* no UE
  Sessions,   \* PDU session ids
  NoSession,
  IpMod,      \* 256 in the code, the width of ueIpGenerator
  FirstIp,    \* 3 in the code
  MaxTeid,    \* bound: TEIDs handed out
  MaxMsgs     \* bound: messages from UEs and from the AMF

ASSUME UesAssumption      == NoUe \notin Ues
ASSUME ThreadsAssumption  == Acceptor \notin Handlers
ASSUME SessionsAssumption == NoSession \notin Sessions
ASSUME IpAssumption       == IpMod \in Nat \ {0} /\ FirstIp \in 0 .. IpMod - 1
ASSUME BoundsAssumption   == MaxTeid \in Nat /\ MaxMsgs \in Nat

VARIABLES
  st,         \* GNBUe.state, "absent" before the UE is in uePool
  ran,        \* GNBUe.ranUeNgapId, 0 before it has one
  amfUeId,    \* GNBUe.amfUeNgapId
  nssai,      \* CreateUeContext has stored the allowed slices
  ctx,        \* context.pduSession: its TEID and UE address
  sess,       \* pduSessions: TEID and address of each session, TEID 0 if none
  uePool, teidPool, ueIpPool,
  ranGen, teidGen, ipGen,
  thr,        \* the goroutines
  amfConn,    \* AMF: id of the UE's N2 connection, 0 if none
  amfSetup,   \* AMF: the Initial Context Setup has been answered
  amfRel,     \* AMF: the release command has been sent
  amfSwitch,  \* AMF: a Path Switch Request has not been answered
  amfNext,    \* AMF: next id
  msgs,
  told,       \* history: TEIDs in answers about sessions of the UE
  toldIp,     \* history: addresses sent to the UE
  took,       \* history: TEIDs taken for the UE
  teidOver,   \* history: two goroutines have overlapped in GetUeTeid
  ipOver,     \* history: ... in getRanUeIp
  ips,        \* history: addresses taken
  switched,   \* history: TEIDs of the UPF stored in teidPool
  released    \* history: UE contexts that have been released

ueVars   == <<st, ran, amfUeId, nssai, ctx, sess>>
poolVars == <<uePool, teidPool, ueIpPool, switched>>
genVars  == <<ranGen, teidGen, ipGen, took, teidOver, ipOver, ips>>
amfVars  == <<amfConn, amfSetup, amfRel, amfSwitch, amfNext>>
toldVars == <<told, toldIp>>
vars == <<st, ran, amfUeId, nssai, ctx, sess, uePool, teidPool, ueIpPool, ranGen, teidGen,
          ipGen, thr, amfConn, amfSetup, amfRel, amfSwitch, amfNext, msgs, told,
          toldIp, took, teidOver, ipOver, ips, switched, released>>

Threads == Handlers \cup {Acceptor}
Teids   == 1 .. MaxTeid
Ips     == 0 .. IpMod - 1
States  == {"absent", "initialized", "ongoing", "ready"}
Kinds   == {"none", "accept", "ul", "dl", "ics", "su", "ucr", "ucrAmf", "horeq", "psack"}
Pcs     == {"free", "start", "first", "later", "ran", "ran2", "teid", "teid2", "ip", "ip2",
            "ho", "create", "resp", "n3", "sess", "done"}
NoIp    == IpMod
Tunnels == [teid : {0} \cup Teids, ip : Ips \cup {NoIp}]
NoTunnel == [teid |-> 0, ip |-> NoIp]

(* A goroutine: the message it handles and its local variables.            *)
Thread(pc, kind, u, id, s, todo, ok) ==
  [pc |-> pc, kind |-> kind, ue |-> u, id |-> id, sid |-> s, todo |-> todo, ok |-> ok,
   teid |-> 0, ip |-> 0]
Free == Thread("free", "none", NoUe, 0, NoSession, {}, FALSE)

Init ==
  /\ st = [u \in Ues |-> "absent"]
  /\ ran = [u \in Ues |-> 0] /\ amfUeId = [u \in Ues |-> 0]
  /\ nssai = [u \in Ues |-> FALSE]
  /\ ctx = [u \in Ues |-> NoTunnel]
  /\ sess = [u \in Ues |-> [s \in Sessions |-> NoTunnel]]
  /\ uePool = {}
  /\ teidPool = [t \in Teids |-> NoUe] /\ ueIpPool = [i \in Ips |-> NoUe]
  /\ ranGen = 1 /\ teidGen = 1 /\ ipGen = FirstIp
  /\ thr = [h \in Threads |-> Free]
  /\ amfConn = [u \in Ues |-> 0] /\ amfSetup = [u \in Ues |-> FALSE]
  /\ amfRel = [u \in Ues |-> FALSE] /\ amfSwitch = [u \in Ues |-> FALSE]
  /\ amfNext = 1 /\ msgs = 0
  /\ told = [u \in Ues |-> {}] /\ toldIp = [u \in Ues |-> {}]
  /\ took = [u \in Ues |-> {}]
  /\ teidOver = FALSE /\ ipOver = FALSE /\ ips = 0
  /\ switched = {} /\ released = {}

At(h, pc)   == thr[h].pc = pc
Goto(h, pc) == thr' = [thr EXCEPT ![h].pc = pc]
Return(h)   == thr' = [thr EXCEPT ![h] = Free]

-----------------------------------------------------------------------------
(* Messages.  Each starts a goroutine.                                     *)

(* The AMF's part of a message is in the action that sends it.             *)
Receive(h, m) ==
  /\ h \in Handlers /\ At(h, "free")
  /\ msgs < MaxMsgs /\ msgs' = msgs + 1
  /\ thr' = [thr EXCEPT ![h] = m]
  /\ UNCHANGED <<ueVars, poolVars, genVars, amfConn, amfSetup, toldVars, released>>

(* A context that no goroutine is creating.                                *)
Idle(u) == \A x \in Threads : thr[x].ue = u => thr[x].kind \notin {"accept", "horeq"}

(* A UE that has been accepted sends a NAS message.                        *)
UeSends(h, u) ==
  /\ st[u] # "absent" /\ Idle(u)
  /\ Receive(h, Thread("start", "ul", u, 0, NoSession, {}, FALSE))
  /\ UNCHANGED <<amfRel, amfSwitch, amfNext>>

(* The AMF has a connection for the UE and has not started to release it.  *)
Connected(u) == amfConn[u] # 0 /\ ~amfRel[u]
Pending(u, k, s) ==
  \E h \in Handlers : thr[h].id = amfConn[u] /\ thr[h].kind = k /\ thr[h].sid = s

(* GetGnbUe: the context that has the RAN UE NGAP ID of the AMF's UE.  One *)
(* that is not in uePool is not found, and the message has no effect.      *)
GetGnbUe(u) == {v \in uePool : ran[v] = ran[u]}

AmfSendsNas(h, u) ==
  /\ Connected(u)
  /\ \E v \in GetGnbUe(u) :
       Receive(h, Thread("start", "dl", v, amfConn[u], NoSession, {}, FALSE))
  /\ UNCHANGED <<amfRel, amfSwitch, amfNext>>

(* Sessions that are to be resumed, of allowed slices, come with the setup. *)
AmfSetsUpContext(h, u, S) ==
  /\ Connected(u) /\ ~amfSetup[u]
  /\ \A x \in Handlers : ~(thr[x].id = amfConn[u] /\ thr[x].kind = "ics")
  /\ \E v \in GetGnbUe(u) :
       Receive(h, Thread("start", "ics", v, amfConn[u], NoSession, S, TRUE))
  /\ UNCHANGED <<amfRel, amfSwitch, amfNext>>

(* ok: the slice of the session is one of those of the context setup.      *)
AmfSetsUpSession(h, u, s, ok) ==
  /\ Connected(u) /\ amfSetup[u] /\ ~Pending(u, "su", s)
  /\ \E v \in GetGnbUe(u) :
       Receive(h, Thread("start", "su", v, amfConn[u], s, {}, ok))
  /\ UNCHANGED <<amfRel, amfSwitch, amfNext>>

(* The command names the UE by both ids (ucr) or by the AMF's (ucrAmf).    *)
AmfReleases(h, u, k) ==
  /\ Connected(u)
  /\ Receive(h, Thread("start", k, u, amfConn[u], NoSession, {}, FALSE))
  /\ amfRel' = [amfRel EXCEPT ![u] = TRUE]
  /\ UNCHANGED <<amfSwitch, amfNext>>

(* Handover Request to this gNB as target: a context is to be created.     *)
AmfRequestsHandover(h, u) ==
  /\ st[u] = "absent" /\ Idle(u) /\ teidGen <= MaxTeid
  /\ Receive(h, Thread("ran", "horeq", u, amfNext, NoSession, {}, FALSE))
  /\ amfNext' = amfNext + 1
  /\ UNCHANGED <<amfRel, amfSwitch>>

(* Path Switch Request Acknowledge, with the sessions S.                   *)
AmfSwitchesPath(h, u, S) ==
  /\ Connected(u) /\ amfSwitch[u]
  /\ \E v \in GetGnbUe(u) :
       Receive(h, Thread("start", "psack", v, amfConn[u], NoSession, S, FALSE))
  /\ amfSwitch' = [amfSwitch EXCEPT ![u] = FALSE]
  /\ UNCHANGED <<amfRel, amfNext>>

-----------------------------------------------------------------------------
(* NewGnBUe and the allocation of a tunnel.                                *)

(* Mutant: the generator of the TEIDs is not stepped.                      *)
AfterTeid_Kept(t) == t

(* id := teidGenerator; teidGenerator++.  The 2^32 TEIDs do not run out.   *)
AfterTeid(t) == t + 1

(* Mutant: the address generator is not cut to its width.                  *)
AfterIp_NoWrap(i) == i + 1

(* Mutant: the address generator is not stepped.                           *)
AfterIp_Kept(i) == i

(* id := ueIpGenerator; ueIpGenerator++: uint8 arithmetic.                 *)
AfterIp(i) == (i + 1) % IpMod

(* Mutant: the entry is not made.                                          *)
Store_Lost(pool, k, u) == pool

(* teidPool.Store, ueIpPool.Store.                                         *)
Store(pool, k, u) == [pool EXCEPT ![k] = u]

(* Mutant: the pool is emptied.                                            *)
Delete_All(pool, keys) == [k \in DOMAIN pool |-> NoUe]

(* DeleteGnBUeByTeid, DeleteGnBUeByIp.                                     *)
Delete(pool, keys) == [k \in DOMAIN pool |-> IF k \in keys THEN NoUe ELSE pool[k]]

(* gnbListen accepts a link and calls NewGnBUe.                            *)
AcceptUe(u) ==
  /\ At(Acceptor, "free") /\ st[u] = "absent" /\ Idle(u) /\ teidGen <= MaxTeid
  /\ thr' = [thr EXCEPT ![Acceptor] = Thread("ran", "accept", u, 0, NoSession, {}, FALSE)]
  /\ UNCHANGED <<ueVars, poolVars, genVars, amfVars, toldVars, msgs, released>>

(* getRanUeId: as the other generators, loaded and then stepped.           *)
GetRanUeId(h) ==
  /\ At(h, "ran")
  /\ ran' = [ran EXCEPT ![thr[h].ue] = ranGen]
  /\ Goto(h, "ran2")
  /\ UNCHANGED <<st, amfUeId, nssai, ctx, sess, poolVars, genVars, amfVars, toldVars,
                 msgs, released>>

StepRanUeId(h) ==
  /\ At(h, "ran2")
  /\ ranGen' = ran[thr[h].ue] + 1
  /\ Goto(h, "teid")
  /\ UNCHANGED <<ueVars, poolVars, teidGen, ipGen, took, teidOver, ipOver, ips, amfVars,
                 toldVars, msgs, released>>

GetUeTeid(h) ==
  /\ At(h, "teid") /\ teidGen <= MaxTeid
  /\ thr' = [thr EXCEPT ![h].pc = "teid2", ![h].teid = teidGen]
  /\ teidOver' = (teidOver \/ \E x \in Threads \ {h} : At(x, "teid2"))
  /\ UNCHANGED <<ueVars, poolVars, ranGen, teidGen, ipGen, took, ipOver, ips, amfVars,
                 toldVars, msgs, released>>

Creates(h) == thr[h].kind \in {"accept", "horeq"}

(* The generator is stepped from the value that was loaded and the TEID    *)
(* stored; a new UE enters uePool, in the place of one with the same id.   *)
StoreTeid(h) ==
  LET u == thr[h].ue
      t == thr[h].teid
  IN
  /\ At(h, "teid2")
  /\ teidGen' = AfterTeid(t)
  /\ teidPool' = Store(teidPool, t, u)
  /\ took' = [took EXCEPT ![u] = @ \cup {t}]
  /\ IF Creates(h)
       THEN /\ st' = [st EXCEPT ![u] = "initialized"]
            /\ ctx' = [ctx EXCEPT ![u].teid = t]
            /\ uePool' = (uePool \ GetGnbUe(u)) \cup {u}
       ELSE UNCHANGED <<st, ctx, uePool>>
  /\ Goto(h, "ip")
  /\ UNCHANGED <<ran, amfUeId, nssai, sess, ueIpPool, switched, ranGen, ipGen, teidOver,
                 ipOver, ips, amfVars, toldVars, msgs, released>>

GetRanUeIp(h) ==
  /\ At(h, "ip")
  /\ thr' = [thr EXCEPT ![h].pc = "ip2", ![h].ip = ipGen]
  /\ ipOver' = (ipOver \/ \E x \in Threads \ {h} : At(x, "ip2"))
  /\ UNCHANGED <<ueVars, poolVars, ranGen, teidGen, ipGen, took, teidOver, ips, amfVars,
                 toldVars, msgs, released>>

StoreUeIp(h) ==
  LET u == thr[h].ue
      i == thr[h].ip
  IN
  /\ At(h, "ip2")
  /\ ipGen' = AfterIp(i)
  /\ ueIpPool' = Store(ueIpPool, i, u)
  /\ ips' = ips + 1
  /\ IF Creates(h)
       THEN /\ ctx' = [ctx EXCEPT ![u].ip = i]
            /\ IF thr[h].kind = "accept" THEN Return(h) ELSE Goto(h, "ho")
       ELSE UNCHANGED ctx /\ Goto(h, "create")
  /\ UNCHANGED <<st, ran, amfUeId, nssai, sess, uePool, teidPool, switched, ranGen, teidGen,
                 took, teidOver, ipOver, amfVars, toldVars, msgs, released>>

(* The rest of HandlerHandoverRequest.  CreatePduSession stores downlink   *)
(* TEID 0 over the one NewGnBUe has taken, no slice is known so the        *)
(* session does not enter the map, and the acknowledgement, if it is built *)
(* and sent, gives the core TEID 0.                                        *)
HandlerHandoverRequest(h) ==
  LET u == thr[h].ue IN
  /\ At(h, "ho")
  /\ amfUeId' = [amfUeId EXCEPT ![u] = thr[h].id]
  /\ st' = [st EXCEPT ![u] = "ongoing"]
  /\ ctx' = [ctx EXCEPT ![u].teid = 0]
  /\ \/ /\ told' = [told EXCEPT ![u] = @ \cup {0}]
        /\ amfConn' = [amfConn EXCEPT ![u] = thr[h].id]
        /\ amfSetup' = [amfSetup EXCEPT ![u] = TRUE]
     \/ UNCHANGED <<told, amfConn, amfSetup>>
  /\ Return(h)
  /\ UNCHANGED <<ran, nssai, sess, poolVars, genVars, amfRel, amfSwitch, amfNext, toldIp, msgs, released>>

-----------------------------------------------------------------------------
(* The handlers of the UE's and of the AMF's messages.                     *)

(* nas.Dispatch reads the state; HandlerUeInitialized or the other two.    *)
DispatchNas(h) ==
  /\ At(h, "start") /\ thr[h].kind = "ul"
  /\ Goto(h, IF st[thr[h].ue] = "initialized" THEN "first" ELSE "later")
  /\ UNCHANGED <<ueVars, poolVars, genVars, amfVars, toldVars, msgs, released>>

(* InitialUEMessage.  The AMF gives the connection a new id, or the one    *)
(* the UE had.                                                             *)
HandlerUeInitialized(h) ==
  LET u == thr[h].ue IN
  /\ At(h, "first")
  /\ st' = [st EXCEPT ![u] = "ongoing"]
  /\ \/ amfConn' = [amfConn EXCEPT ![u] = amfNext] /\ amfNext' = amfNext + 1
     \/ /\ amfUeId[u] # 0
        /\ amfConn' = [amfConn EXCEPT ![u] = amfUeId[u]] /\ UNCHANGED amfNext
  /\ amfSetup' = [amfSetup EXCEPT ![u] = FALSE]
  /\ amfRel' = [amfRel EXCEPT ![u] = FALSE]
  /\ amfSwitch' = [amfSwitch EXCEPT ![u] = FALSE]
  /\ Return(h)
  /\ UNCHANGED <<ran, amfUeId, nssai, ctx, sess, poolVars, genVars, toldVars, msgs,
                 released>>

(* HandlerUeOngoing, HandlerUeReady: UplinkNASTransport.                   *)
HandlerUeOngoing(h) ==
  /\ At(h, "later")
  /\ Return(h)
  /\ UNCHANGED <<ueVars, poolVars, genVars, amfVars, toldVars, msgs, released>>

(* A UE that comes by Xn handover: the Path Switch Request gives the core  *)
(* the TEID of context.pduSession, for an AMF id that the UE brings.       *)
HandlePathSwitchTrigger(h) ==
  LET u == thr[h].ue IN
  /\ thr[h].pc \in {"first", "later"}
  /\ amfUeId' = [amfUeId EXCEPT ![u] = amfNext]
  /\ st' = [st EXCEPT ![u] = "ready"]
  /\ told' = [told EXCEPT ![u] = @ \cup {ctx[u].teid}]
  /\ amfConn' = [amfConn EXCEPT ![u] = amfNext] /\ amfNext' = amfNext + 1
  /\ amfSetup' = [amfSetup EXCEPT ![u] = TRUE]
  /\ amfRel' = [amfRel EXCEPT ![u] = FALSE]
  /\ amfSwitch' = [amfSwitch EXCEPT ![u] = TRUE]
  /\ Return(h)
  /\ UNCHANGED <<ran, nssai, ctx, sess, poolVars, genVars, toldIp, msgs, released>>

(* A UE that comes by N2 handover: its link goes to the context that the   *)
(* Handover Request made, and the one its link was accepted with leaves    *)
(* uePool, but neither teidPool nor ueIpPool.  Without such a context      *)
(* nothing is done.                                                        *)
HandleTargetAccessTrigger(h) ==
  LET u == thr[h].ue IN
  /\ thr[h].pc \in {"first", "later"}
  /\ \/ /\ \E v \in uePool : amfUeId[v] # 0 /\ st' = [st EXCEPT ![v] = "ready"]
        /\ uePool' = uePool \ GetGnbUe(u)
     \/ UNCHANGED <<st, uePool>>
  /\ Return(h)
  /\ UNCHANGED <<ran, amfUeId, nssai, ctx, sess, teidPool, ueIpPool, switched, genVars,
                 amfVars, toldVars, msgs, released>>

(* XN UE CONTEXT RELEASE from the target of an Xn handover.                *)
XnContextRelease(u) ==
  /\ u \in uePool /\ amfUeId[u] # 0
  /\ msgs < MaxMsgs /\ msgs' = msgs + 1
  /\ uePool' = uePool \ {u}
  /\ UNCHANGED <<ueVars, teidPool, ueIpPool, switched, genVars, amfVars, toldVars,
                 thr, released>>

(* The first message gives the UE its AMF id, a later one has to match it. *)
HandlerDownlinkNasTransport(h) ==
  LET u == thr[h].ue IN
  /\ At(h, "start") /\ thr[h].kind = "dl"
  /\ amfUeId' = [amfUeId EXCEPT ![u] = IF @ = 0 THEN thr[h].id ELSE @]
  /\ Return(h)
  /\ UNCHANGED <<st, ran, nssai, ctx, sess, poolVars, genVars, amfVars, toldVars,
                 msgs, released>>

(* HandlerPathSwitchRequestAcknowledge: for each session the uplink TEID,  *)
(* a number the UPF has chosen, is stored in teidPool over whatever is     *)
(* there.                                                                  *)
SwitchSession(h) ==
  /\ At(h, "start") /\ thr[h].kind = "psack"
  /\ \E s \in thr[h].todo, t \in Teids :
       /\ thr' = [thr EXCEPT ![h].todo = @ \ {s}]
       /\ teidPool' = Store(teidPool, t, thr[h].ue)
       /\ switched' = switched \cup {t}
  /\ UNCHANGED <<ueVars, uePool, ueIpPool, genVars, amfVars, toldVars, msgs,
                 released>>

HandlerPathSwitchRequestAcknowledge(h) ==
  /\ At(h, "start") /\ thr[h].kind = "psack" /\ thr[h].todo = {}
  /\ amfUeId' = [amfUeId EXCEPT ![thr[h].ue] = thr[h].id]
  /\ Return(h)
  /\ UNCHANGED <<st, ran, nssai, ctx, sess, poolVars, genVars, amfVars, toldVars,
                 msgs, released>>

NextSession(h, todo) ==
  IF todo = {} THEN Goto(h, "resp")
  ELSE \E s \in todo : thr' = [thr EXCEPT ![h].pc = "teid", ![h].sid = s,
                                          ![h].todo = todo \ {s}]

HandlerInitialContextSetupRequest(h) ==
  LET u == thr[h].ue IN
  /\ At(h, "start") /\ thr[h].kind = "ics"
  /\ IF amfUeId[u] = thr[h].id
       THEN nssai' = [nssai EXCEPT ![u] = TRUE] /\ NextSession(h, thr[h].todo)
       ELSE UNCHANGED nssai /\ Return(h)
  /\ UNCHANGED <<st, ran, amfUeId, ctx, sess, poolVars, genVars, amfVars, toldVars,
                 msgs, released>>

HandlerPduSessionResourceSetupRequest(h) ==
  /\ At(h, "start") /\ thr[h].kind = "su"
  /\ IF amfUeId[thr[h].ue] = thr[h].id THEN Goto(h, "teid") ELSE Return(h)
  /\ UNCHANGED <<ueVars, poolVars, genVars, amfVars, toldVars, msgs, released>>

(* The single context.pduSession is overwritten; the session enters the    *)
(* map if its slice is found.                                              *)
CreatePduSession(h) ==
  LET u == thr[h].ue
      tun == [teid |-> thr[h].teid, ip |-> thr[h].ip]
  IN
  /\ At(h, "create")
  /\ ctx' = [ctx EXCEPT ![u] = tun]
  /\ IF nssai[u] /\ thr[h].ok THEN sess' = [sess EXCEPT ![u][thr[h].sid] = tun]
     ELSE UNCHANGED sess
  /\ IF thr[h].kind = "ics" THEN NextSession(h, thr[h].todo) ELSE Goto(h, "resp")
  /\ UNCHANGED <<st, ran, amfUeId, nssai, poolVars, genVars, amfVars, toldVars, msgs,
                 released>>

(* The NAS message goes to the UE and the answer, with every session in    *)
(* the map, to the AMF.                                                    *)
SendInitialContextSetupResponse(h) ==
  LET u == thr[h].ue IN
  /\ At(h, "resp") /\ thr[h].kind = "ics"
  /\ told' = [told EXCEPT ![u] = @ \cup ({sess[u][s].teid : s \in Sessions} \ {0})]
  /\ amfSetup' = [v \in Ues |-> IF amfConn[v] = thr[h].id THEN TRUE ELSE amfSetup[v]]
  /\ Return(h)
  /\ UNCHANGED <<ueVars, poolVars, genVars, amfConn, amfRel, amfSwitch, amfNext, toldIp, msgs, released>>

(* The answer is built and sent, or neither.  A session that is not in the *)
(* map is answered for with TEID 0.                                        *)
SendPduSessionResourceSetupResponse(h) ==
  LET u == thr[h].ue IN
  /\ At(h, "resp") /\ thr[h].kind = "su"
  /\ \/ /\ st' = [st EXCEPT ![u] = "ready"]
        /\ told' = [told EXCEPT ![u] = @ \cup {sess[u][thr[h].sid].teid}]
     \/ UNCHANGED <<st, told>>
  /\ Goto(h, "n3")
  /\ UNCHANGED <<ran, amfUeId, nssai, ctx, sess, poolVars, genVars, amfVars, toldIp, msgs,
                 released>>

(* The first session starts the readers; then, whether they have started   *)
(* or not, the UE gets its address.                                        *)
InitUserPlane(h) ==
  /\ At(h, "n3")
  /\ toldIp' = [toldIp EXCEPT ![thr[h].ue] = @ \cup {thr[h].ip}]
  /\ Return(h)
  /\ UNCHANGED <<ueVars, poolVars, genVars, amfVars, told, msgs, released>>

-----------------------------------------------------------------------------
(* UE Context Release Command.                                             *)

(* By AMF id alone, the UE is one in uePool that has the id.               *)
Named(h) ==
  IF thr[h].kind = "ucrAmf" THEN {v \in uePool : amfUeId[v] = thr[h].id}
  ELSE GetGnbUe(thr[h].ue)

ReleaseContext(h) ==
  /\ At(h, "start") /\ thr[h].kind \in {"ucr", "ucrAmf"}
  /\ \/ \E u \in Named(h) :
          /\ teidPool' = Delete(teidPool, {ctx[u].teid})
          /\ ueIpPool' = Delete(ueIpPool, {ctx[u].ip})
          /\ released' = released \cup {u}
          /\ thr' = [thr EXCEPT ![h].pc = "sess", ![h].ue = u]
     \/ /\ Named(h) = {}
        /\ Goto(h, "done")
        /\ UNCHANGED <<teidPool, ueIpPool, released>>
  /\ UNCHANGED <<ueVars, uePool, switched, genVars, amfVars, toldVars, msgs>>

ReleaseSessions(h) ==
  LET mine == {s \in Sessions : sess[thr[h].ue][s].teid # 0} IN
  /\ At(h, "sess")
  /\ teidPool' = Delete(teidPool, {sess[thr[h].ue][s].teid : s \in mine})
  /\ ueIpPool' = Delete(ueIpPool, {sess[thr[h].ue][s].ip : s \in mine})
  /\ st' = [st EXCEPT ![thr[h].ue] = "initialized"]
  /\ Goto(h, "done")
  /\ UNCHANGED <<ran, amfUeId, nssai, ctx, sess, uePool, switched, genVars, amfVars, toldVars, msgs, released>>

(* UEContextReleaseComplete, for the connection that has the id.           *)
ReleaseComplete(h) ==
  LET over == {v \in Ues : amfConn[v] = thr[h].id /\ amfRel[v]} IN
  /\ At(h, "done")
  /\ amfConn' = [v \in Ues |-> IF v \in over THEN 0 ELSE amfConn[v]]
  /\ amfSetup' = [v \in Ues |-> IF v \in over THEN FALSE ELSE amfSetup[v]]
  /\ amfRel' = [v \in Ues |-> IF v \in over THEN FALSE ELSE amfRel[v]]
  /\ Return(h)
  /\ UNCHANGED <<ueVars, poolVars, genVars, amfSwitch, amfNext, toldVars, msgs,
                 released>>

-----------------------------------------------------------------------------
(* The readers of the user plane, gtpListen and gatewayListen, serve every *)
(* UE of the gNB.  A packet changes nothing here; one whose TEID or        *)
(* address is not in the pool ends the reader for all UEs, as an error of  *)
(* its socket does, and nothing starts it again.                           *)

(* The UE to whom gtpListen gives a downlink packet.                       *)
GetGnbUeByTeid(t) == IF t \in Teids THEN teidPool[t] ELSE NoUe

(* The UE to whom gatewayListen ascribes an uplink packet.                 *)
GetGnbUeByIp(i) == ueIpPool[i]

-----------------------------------------------------------------------------
Arrive(h) ==
  \E u \in Ues :
    \/ UeSends(h, u) \/ AmfSendsNas(h, u)
    \/ \E S \in SUBSET Sessions : AmfSetsUpContext(h, u, S)
    \/ \E s \in Sessions, ok \in BOOLEAN : AmfSetsUpSession(h, u, s, ok)
    \/ \E k \in {"ucr", "ucrAmf"} : AmfReleases(h, u, k)
    \/ AmfRequestsHandover(h, u)
    \/ \E S \in SUBSET Sessions : AmfSwitchesPath(h, u, S)

Run(h) ==
  \/ GetRanUeId(h) \/ StepRanUeId(h) \/ GetUeTeid(h) \/ StoreTeid(h) \/ GetRanUeIp(h) \/ StoreUeIp(h)
  \/ HandlerHandoverRequest(h) \/ HandlePathSwitchTrigger(h) \/ HandleTargetAccessTrigger(h)
  \/ SwitchSession(h) \/ HandlerPathSwitchRequestAcknowledge(h)
  \/ DispatchNas(h) \/ HandlerUeInitialized(h) \/ HandlerUeOngoing(h)
  \/ HandlerDownlinkNasTransport(h) \/ HandlerInitialContextSetupRequest(h)
  \/ HandlerPduSessionResourceSetupRequest(h) \/ CreatePduSession(h)
  \/ SendInitialContextSetupResponse(h) \/ SendPduSessionResourceSetupResponse(h)
  \/ InitUserPlane(h) \/ ReleaseContext(h) \/ ReleaseSessions(h) \/ ReleaseComplete(h)

Next ==
  \/ \E u \in Ues : AcceptUe(u) \/ XnContextRelease(u)
  \/ \E h \in Handlers : Arrive(h)
  \/ \E h \in Threads : Run(h)

Spec == Init /\ [][Next]_vars
-----------------------------------------------------------------------------
(* Properties.                                                             *)

ThreadType ==
  [pc : Pcs, kind : Kinds, ue : Ues \cup {NoUe}, id : Nat,
   sid : Sessions \cup {NoSession}, todo : SUBSET Sessions, ok : BOOLEAN,
   teid : {0} \cup Teids, ip : Ips]

(* Types of the UE contexts, pools, generators and goroutines of a gNB;    *)
(* the address generator stays within its width.                           *)
TypeOK ==
  /\ st \in [Ues -> States] /\ ran \in [Ues -> Nat] /\ amfUeId \in [Ues -> Nat]
  /\ nssai \in [Ues -> BOOLEAN] /\ uePool \subseteq Ues /\ ranGen \in Nat
  /\ ctx \in [Ues -> Tunnels] /\ sess \in [Ues -> [Sessions -> Tunnels]]
  /\ teidPool \in [Teids -> Ues \cup {NoUe}] /\ ueIpPool \in [Ips -> Ues \cup {NoUe}]
  /\ teidGen \in 1 .. MaxTeid + 1 /\ ipGen \in Ips
  /\ thr \in [Threads -> ThreadType]
  /\ amfConn \in [Ues -> Nat] /\ amfSetup \in [Ues -> BOOLEAN] /\ amfRel \in [Ues -> BOOLEAN]
  /\ amfSwitch \in [Ues -> BOOLEAN] /\ amfNext \in Nat /\ msgs \in Nat
  /\ told \in [Ues -> SUBSET ({0} \cup Teids)] /\ toldIp \in [Ues -> SUBSET Ips]
  /\ took \in [Ues -> SUBSET Teids]
  /\ teidOver \in BOOLEAN /\ ipOver \in BOOLEAN /\ ips \in Nat
  /\ switched \subseteq Teids /\ released \subseteq Ues

(* A downlink TEID that the gNB has given to the core for a session of a   *)
(* UE leads gtpListen to that UE or to none, whatever contexts and tunnels *)
(* have come and gone since, as long as no two goroutines have overlapped  *)
(* in the unlocked GetUeTeid.  A Path Switch Acknowledge that brings the   *)
(* same number from the UPF redirects that TEID, and no other.             *)
DownlinkToOwner ==
  ~teidOver => \A u \in Ues : \A t \in told[u] \ {0} :
                 GetGnbUeByTeid(t) \in {u, NoUe} \/ t \in switched

(* The address that the gNB has sent to a UE leads gatewayListen to that   *)
(* UE or to none, until the 8-bit generator has gone round or two          *)
(* goroutines have overlapped in getRanUeIp.                               *)
UplinkFromOwner ==
  ~ipOver /\ ips <= IpMod =>
    \A u \in Ues : \A i \in toldIp[u] : GetGnbUeByIp(i) \in {u, NoUe}

(* A UE loses a downlink tunnel in two ways: in a step of a UE Context     *)
(* Release Command for its own context, or to a Path Switch Acknowledge    *)
(* that brings this very TEID from the UPF.  Neither the set-up of other   *)
(* tunnels nor the release or handover of another UE takes it away, unless *)
(* allocations have overlapped.                                            *)
TunnelKept ==
  [][ ~teidOver' =>
        \A t \in Teids : teidPool[t] # NoUe /\ teidPool'[t] # teidPool[t] =>
          \/ t \in switched'
          \/ \E h \in Handlers : /\ thr'[h].ue = teidPool[t]
                                 /\ thr[h].kind \in {"ucr", "ucrAmf"}
                                 /\ thr'[h] # thr[h] ]_vars

(* As long as the context of a UE has not been released, every TEID that   *)
(* the core has been told for it and every address that the UE has been    *)
(* told is in its pool, so no packet of this UE ends the reader that       *)
(* serves all of them, whatever becomes of the other UEs.  Not so for      *)
(* TEID 0, which the core is told for a session that is not in the map.    *)
ToldPlaced ==
  \A u \in Ues \ released :
    /\ ~teidOver => \A t \in told[u] \ {0} : GetGnbUeByTeid(t) = u \/ t \in switched
    /\ ~ipOver /\ ips <= IpMod => \A i \in toldIp[u] : GetGnbUeByIp(i) = u

=============================================================================
