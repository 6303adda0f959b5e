------------------------- MODULE GnbContext_proofs -------------------------
(***************************************************************************)
(* Proofs about GnbContext, for any number of UEs, goroutines and sessions *)
(* and any number of tunnels.                                              *)
(***************************************************************************)
EXTENDS GnbContext, TLAPS

(* A goroutine that is not free works for a UE; one that has loaded a TEID *)
(* holds it; the handler of a session set-up has its session; only         *)
(* handlers of a release command delete, and only of a released context.   *)
Shape(h) ==
  LET x == thr[h] IN
  /\ x.pc # "free" => x.ue \in Ues
  /\ x.pc = "teid2" => x.teid \in Teids
  /\ x.kind = "su" => x.sid \in Sessions
  /\ x.pc = "sess" => x.kind \in {"ucr", "ucrAmf"} /\ x.ue \in released
  /\ x.kind \in {"ucr", "ucrAmf"} => h \in Handlers

ShapeInv == \A h \in Threads : Shape(h)

TypeInv == TypeOK /\ ShapeInv

LEMMA ThreadTyped ==
  ASSUME NEW pc \in Pcs, NEW k \in Kinds, NEW u \in Ues \cup {NoUe}, NEW id \in Nat,
         NEW s \in Sessions \cup {NoSession}, NEW todo \in SUBSET Sessions, NEW ok \in BOOLEAN
  PROVE  Thread(pc, k, u, id, s, todo, ok) \in ThreadType
BY IpAssumption DEF Thread, ThreadType, Ips

LEMMA FreeTyped == Free \in ThreadType
BY ThreadTyped DEF Free, Pcs, Kinds

LEMMA TypeInit == Init => TypeInv
<1> SUFFICES ASSUME Init PROVE TypeInv
  OBVIOUS
<1>1. NoTunnel \in Tunnels
  BY DEF NoTunnel, Tunnels
<1>2. TypeOK
  <2>1. thr \in [Threads -> ThreadType]
    BY FreeTyped DEF Init
  <2>2. /\ ctx \in [Ues -> Tunnels] /\ sess \in [Ues -> [Sessions -> Tunnels]]
    BY <1>1 DEF Init
  <2>3. teidGen \in 1 .. MaxTeid + 1 /\ ipGen \in Ips /\ amfNext \in Nat /\ msgs \in Nat
        /\ ips \in Nat /\ ranGen \in Nat
    BY IpAssumption, BoundsAssumption DEF Init, Ips
  <2>4. /\ st \in [Ues -> States] /\ ran \in [Ues -> Nat] /\ amfUeId \in [Ues -> Nat]
        /\ nssai \in [Ues -> BOOLEAN] /\ uePool \subseteq Ues
        /\ teidPool \in [Teids -> Ues \cup {NoUe}] /\ ueIpPool \in [Ips -> Ues \cup {NoUe}]
    BY DEF Init, States
  <2>5. /\ amfConn \in [Ues -> Nat] /\ amfSetup \in [Ues -> BOOLEAN]
        /\ amfRel \in [Ues -> BOOLEAN] /\ amfSwitch \in [Ues -> BOOLEAN]
        /\ told \in [Ues -> SUBSET ({0} \cup Teids)] /\ toldIp \in [Ues -> SUBSET Ips]
        /\ took \in [Ues -> SUBSET Teids]
        /\ teidOver \in BOOLEAN /\ ipOver \in BOOLEAN
        /\ switched \subseteq Teids /\ released \subseteq Ues
    BY DEF Init
  <2> QED
    BY <2>1, <2>2, <2>3, <2>4, <2>5 DEF TypeOK
<1>3. ShapeInv
  BY DEF Init, ShapeInv, Shape, Free, Thread
<1> QED
  BY <1>2, <1>3 DEF TypeInv

(* Of the goroutines one step changes one, the others keep their shape.    *)
LEMMA ThreadStep ==
  ASSUME TypeInv, NEW h \in Threads, NEW y \in ThreadType,
         thr' = [thr EXCEPT ![h] = y],
         y.pc # "free" => y.ue \in Ues,
         y.pc = "teid2" => y.teid \in Teids,
         y.kind = "su" => y.sid \in Sessions,
         y.pc = "sess" => y.kind \in {"ucr", "ucrAmf"} /\ y.ue \in released',
         y.kind \in {"ucr", "ucrAmf"} => h \in Handlers, released \subseteq released'
  PROVE  thr' \in [Threads -> ThreadType] /\ ShapeInv'
<1>1. thr \in [Threads -> ThreadType]
  BY DEF TypeInv, TypeOK
<1>2. thr' \in [Threads -> ThreadType]
  BY <1>1
<1>3. ASSUME NEW x \in Threads PROVE Shape(x)'
  <2>1. CASE x = h
    <3>1. thr'[x] = y
      BY <1>1, <2>1
    <3> QED
      BY <2>1, <3>1 DEF Shape
  <2>2. CASE x # h
    <3>1. thr'[x] = thr[x]
      BY <1>1, <2>2
    <3> QED
      BY <3>1 DEF TypeInv, ShapeInv, Shape
  <2> QED
    BY <2>1, <2>2
<1> QED
  BY <1>2, <1>3 DEF ShapeInv

LEMMA GotoStep ==
  ASSUME TypeInv, NEW h \in Threads, NEW pc \in Pcs, Goto(h, pc), thr[h].pc # "free",
         pc \notin {"teid2", "sess"}, UNCHANGED released
  PROVE  thr' \in [Threads -> ThreadType] /\ ShapeInv'
<1> DEFINE y == [thr[h] EXCEPT !.pc = pc]
<1>1. thr[h] \in ThreadType /\ Shape(h)
  BY DEF TypeInv, TypeOK, ShapeInv
<1>2. y \in ThreadType /\ y.pc = pc /\ y.ue = thr[h].ue /\ y.kind = thr[h].kind
      /\ y.sid = thr[h].sid
  BY <1>1 DEF ThreadType
<1>3. thr' = [thr EXCEPT ![h] = y]
  BY DEF Goto
<1> HIDE DEF y
<1> QED
  BY <1>1, <1>2, <1>3, ThreadStep DEF Shape

LEMMA ReturnStep ==
  ASSUME TypeInv, NEW h \in Threads, Return(h), UNCHANGED released
  PROVE  thr' \in [Threads -> ThreadType] /\ ShapeInv'
<1>1. Free.pc = "free" /\ Free.kind = "none"
  BY DEF Free, Thread
<1> QED
  BY <1>1, FreeTyped, ThreadStep DEF Return

LEMMA SessionStep ==
  ASSUME TypeInv, NEW h \in Threads, NEW todo \in SUBSET Sessions, NextSession(h, todo),
         thr[h].pc # "free", UNCHANGED released
  PROVE  thr' \in [Threads -> ThreadType] /\ ShapeInv'
<1>1. CASE todo = {}
  BY <1>1, GotoStep DEF NextSession, Pcs
<1>2. CASE todo # {}
  <2>1. PICK s \in todo : thr' = [thr EXCEPT ![h].pc = "teid", ![h].sid = s,
                                             ![h].todo = todo \ {s}]
    BY <1>2 DEF NextSession
  <2> DEFINE y == [thr[h] EXCEPT !.pc = "teid", !.sid = s, !.todo = todo \ {s}]
  <2>2. thr[h] \in ThreadType /\ Shape(h)
    BY DEF TypeInv, TypeOK, ShapeInv
  <2>3. /\ y \in ThreadType /\ y.pc = "teid" /\ y.ue = thr[h].ue
        /\ y.kind = thr[h].kind /\ y.sid = s
    BY <2>2 DEF ThreadType, Pcs
  <2>4. thr' = [thr EXCEPT ![h] = y]
    BY <2>1, <2>2 DEF TypeInv, TypeOK
  <2> HIDE DEF y
  <2> QED
    BY <2>2, <2>3, <2>4, ThreadStep DEF Shape
<1> QED
  BY <1>1, <1>2

LEMMA TypeNext == TypeInv /\ [Next]_vars => TypeInv'
<1> SUFFICES ASSUME TypeInv, [Next]_vars PROVE TypeInv'
  OBVIOUS
<1>t. TypeOK /\ \A h \in Threads : Shape(h) /\ thr[h] \in ThreadType
  BY DEF TypeInv, ShapeInv, TypeOK
<1> DEFINE ThrOK == thr' \in [Threads -> ThreadType] /\ ShapeInv'
<1> USE DEF ueVars, poolVars, genVars, amfVars, toldVars
<1>r. ASSUME NEW h \in Threads, h \in Handlers, NEW m \in ThreadType, Receive(h, m),
             m.ue \in Ues, m.pc \in {"start", "ran"}, m.kind = "su" => m.sid \in Sessions,
             amfRel' \in [Ues -> BOOLEAN], amfSwitch' \in [Ues -> BOOLEAN], amfNext' \in Nat
      PROVE  TypeInv'
  <2>1. ThrOK
    BY <1>r, ThreadStep DEF Receive
  <2>2. msgs' \in Nat
    BY <1>r, <1>t DEF Receive, TypeOK
  <2> QED
    BY <1>r, <1>t, <2>1, <2>2 DEF Receive, TypeInv, TypeOK
<1>1. ASSUME NEW u \in Ues, AcceptUe(u) PROVE TypeInv'
  <2> DEFINE m == Thread("ran", "accept", u, 0, NoSession, {}, FALSE)
  <2>1. m \in ThreadType /\ m.pc = "ran" /\ m.kind = "accept" /\ m.ue = u
    BY ThreadTyped DEF Thread, Pcs, Kinds
  <2>2. thr' = [thr EXCEPT ![Acceptor] = m] /\ Acceptor \in Threads /\ UNCHANGED released
    BY <1>1 DEF AcceptUe, Threads
  <2> HIDE DEF m
  <2>3. ThrOK
    BY <2>1, <2>2, ThreadStep
  <2> QED
    BY <1>1, <1>t, <2>3 DEF AcceptUe, TypeInv, TypeOK
<1>2. ASSUME NEW h \in Handlers, Arrive(h) PROVE TypeInv'
  <2>h. h \in Threads
    BY DEF Threads
  <2>0. PICK u \in Ues : \/ UeSends(h, u) \/ AmfSendsNas(h, u)
                         \/ \E S \in SUBSET Sessions : AmfSetsUpContext(h, u, S)
                         \/ \E s \in Sessions, ok \in BOOLEAN : AmfSetsUpSession(h, u, s, ok)
                         \/ \E k \in {"ucr", "ucrAmf"} : AmfReleases(h, u, k)
                         \/ AmfRequestsHandover(h, u)
                         \/ \E S \in SUBSET Sessions : AmfSwitchesPath(h, u, S)
    BY <1>2 DEF Arrive
  <2>a. amfConn[u] \in Nat /\ amfNext \in Nat
    BY <1>t DEF TypeOK
  <2>1. CASE UeSends(h, u)
    <3>0. PICK v \in Ues : Receive(h, Thread("start", "ul", v, 0, NoSession, {}, FALSE))
      BY <2>1, <1>t DEF UeSends, GetGnbUe, TypeOK
    <3> DEFINE m == Thread("start", "ul", v, 0, NoSession, {}, FALSE)
    <3>1. m \in ThreadType
      BY <2>a, ThreadTyped DEF Pcs, Kinds
    <3>2. m.pc = "start" /\ m.ue = v /\ m.kind = "ul" /\ Receive(h, m)
      BY <3>0 DEF Thread
    <3>3. UNCHANGED <<amfRel, amfSwitch, amfNext>>
      BY <2>1, <1>t DEF UeSends, TypeOK
    <3> HIDE DEF m
    <3> QED
      BY <2>h, <1>t, <3>1, <3>2, <3>3, <1>r DEF TypeOK
  <2>2. CASE AmfSendsNas(h, u)
    <3>0. PICK v \in Ues : Receive(h, Thread("start", "dl", v, amfConn[u], NoSession, {}, FALSE))
      BY <2>2, <1>t DEF AmfSendsNas, GetGnbUe, TypeOK
    <3> DEFINE m == Thread("start", "dl", v, amfConn[u], NoSession, {}, FALSE)
    <3>1. m \in ThreadType
      BY <2>a, ThreadTyped DEF Pcs, Kinds
    <3>2. m.pc = "start" /\ m.ue = v /\ m.kind = "dl" /\ Receive(h, m)
      BY <3>0 DEF Thread
    <3>3. UNCHANGED <<amfRel, amfSwitch, amfNext>>
      BY <2>2, <1>t DEF AmfSendsNas, TypeOK
    <3> HIDE DEF m
    <3> QED
      BY <2>h, <1>t, <3>1, <3>2, <3>3, <1>r DEF TypeOK
  <2>3. ASSUME NEW S \in SUBSET Sessions, AmfSetsUpContext(h, u, S) PROVE TypeInv'
    <3>0. PICK v \in Ues : Receive(h, Thread("start", "ics", v, amfConn[u], NoSession, S, TRUE))
      BY <2>3, <1>t DEF AmfSetsUpContext, GetGnbUe, TypeOK
    <3> DEFINE m == Thread("start", "ics", v, amfConn[u], NoSession, S, TRUE)
    <3>1. m \in ThreadType
      BY <2>a, ThreadTyped DEF Pcs, Kinds
    <3>2. m.pc = "start" /\ m.ue = v /\ m.kind = "ics" /\ Receive(h, m)
      BY <3>0 DEF Thread
    <3>3. UNCHANGED <<amfRel, amfSwitch, amfNext>>
      BY <2>3, <1>t DEF AmfSetsUpContext, TypeOK
    <3> HIDE DEF m
    <3> QED
      BY <2>h, <1>t, <3>1, <3>2, <3>3, <1>r DEF TypeOK
  <2>4. ASSUME NEW s \in Sessions, NEW ok \in BOOLEAN, AmfSetsUpSession(h, u, s, ok)
        PROVE  TypeInv'
    <3>0. PICK v \in Ues : Receive(h, Thread("start", "su", v, amfConn[u], s, {}, ok))
      BY <2>4, <1>t DEF AmfSetsUpSession, GetGnbUe, TypeOK
    <3> DEFINE m == Thread("start", "su", v, amfConn[u], s, {}, ok)
    <3>1. m \in ThreadType
      BY <2>a, ThreadTyped DEF Pcs, Kinds
    <3>2. m.pc = "start" /\ m.ue = v /\ m.sid = s /\ Receive(h, m)
      BY <3>0 DEF Thread
    <3>3. UNCHANGED <<amfRel, amfSwitch, amfNext>>
      BY <2>4, <1>t DEF AmfSetsUpSession, TypeOK
    <3> HIDE DEF m
    <3> QED
      BY <2>h, <1>t, <3>1, <3>2, <3>3, <1>r DEF TypeOK
  <2>5. ASSUME NEW k \in {"ucr", "ucrAmf"}, AmfReleases(h, u, k) PROVE TypeInv'
    <3>0. PICK v \in Ues : Receive(h, Thread("start", k, v, amfConn[u], NoSession, {}, FALSE))
      BY <2>5, <1>t DEF AmfReleases, GetGnbUe, TypeOK
    <3> DEFINE m == Thread("start", k, v, amfConn[u], NoSession, {}, FALSE)
    <3>1. m \in ThreadType
      BY <2>a, ThreadTyped DEF Pcs, Kinds
    <3>2. m.pc = "start" /\ m.ue = v /\ m.kind = k /\ Receive(h, m)
      BY <3>0 DEF Thread
    <3>3. amfRel' \in [Ues -> BOOLEAN] /\ UNCHANGED <<amfSwitch, amfNext>>
      BY <2>5, <1>t DEF AmfReleases, TypeOK
    <3> HIDE DEF m
    <3> QED
      BY <2>h, <1>t, <3>1, <3>2, <3>3, <1>r DEF TypeOK
  <2>6. CASE AmfRequestsHandover(h, u)
    <3>0. PICK v \in Ues : Receive(h, Thread("ran", "horeq", v, amfNext, NoSession, {}, FALSE))
      BY <2>6, <1>t DEF AmfRequestsHandover, GetGnbUe, TypeOK
    <3> DEFINE m == Thread("ran", "horeq", v, amfNext, NoSession, {}, FALSE)
    <3>1. m \in ThreadType
      BY <2>a, ThreadTyped DEF Pcs, Kinds
    <3>2. m.pc = "ran" /\ m.ue = v /\ m.kind = "horeq" /\ Receive(h, m)
      BY <3>0 DEF Thread
    <3>3. amfNext' \in Nat /\ UNCHANGED <<amfRel, amfSwitch>>
      BY <2>6, <1>t DEF AmfRequestsHandover, TypeOK
    <3> HIDE DEF m
    <3> QED
      BY <2>h, <1>t, <3>1, <3>2, <3>3, <1>r DEF TypeOK
  <2>7. ASSUME NEW S \in SUBSET Sessions, AmfSwitchesPath(h, u, S) PROVE TypeInv'
    <3>0. PICK v \in Ues : Receive(h, Thread("start", "psack", v, amfConn[u], NoSession, S, FALSE))
      BY <2>7, <1>t DEF AmfSwitchesPath, GetGnbUe, TypeOK
    <3> DEFINE m == Thread("start", "psack", v, amfConn[u], NoSession, S, FALSE)
    <3>1. m \in ThreadType
      BY <2>a, ThreadTyped DEF Pcs, Kinds
    <3>2. m.pc = "start" /\ m.ue = v /\ m.kind = "psack" /\ Receive(h, m)
      BY <3>0 DEF Thread
    <3>3. amfSwitch' \in [Ues -> BOOLEAN] /\ UNCHANGED <<amfRel, amfNext>>
      BY <2>7, <1>t DEF AmfSwitchesPath, TypeOK
    <3> HIDE DEF m
    <3> QED
      BY <2>h, <1>t, <3>1, <3>2, <3>3, <1>r DEF TypeOK
  <2> QED
    BY <2>0, <2>1, <2>2, <2>3, <2>4, <2>5, <2>6, <2>7
<1>3. ASSUME NEW h \in Threads, GetUeTeid(h) PROVE TypeInv'
  <2> DEFINE y == [thr[h] EXCEPT !.pc = "teid2", !.teid = teidGen]
  <2>1. teidGen \in Teids
    BY <1>3, <1>t, BoundsAssumption DEF GetUeTeid, TypeOK, Teids
  <2>2. /\ y \in ThreadType /\ y.pc = "teid2" /\ y.teid = teidGen /\ y.ue = thr[h].ue
        /\ y.kind = thr[h].kind /\ y.sid = thr[h].sid
    BY <1>t, <2>1 DEF ThreadType, Pcs
  <2>3. thr' = [thr EXCEPT ![h] = y] /\ thr[h].pc = "teid"
    BY <1>3 DEF GetUeTeid, At
  <2>r. UNCHANGED released
    BY <1>3 DEF GetUeTeid
  <2> HIDE DEF y
  <2>4. ThrOK
    BY <1>t, <2>1, <2>2, <2>3, <2>r, ThreadStep DEF Shape
  <2>5. teidOver' \in BOOLEAN
    BY <1>3, <1>t, Zenon DEF GetUeTeid, TypeOK
  <2> QED
    BY <1>3, <1>t, <2>4, <2>5 DEF GetUeTeid, TypeInv, TypeOK
<1>4. ASSUME NEW h \in Threads, StoreTeid(h) PROVE TypeInv'
  <2>1. thr[h].pc = "teid2" /\ thr[h].ue \in Ues /\ thr[h].teid \in Teids
    BY <1>4, <1>t DEF StoreTeid, At, Shape
  <2>2. ThrOK
    BY <1>4, <2>1, GotoStep DEF StoreTeid, Pcs
  <2>3. teidGen' \in 1 .. MaxTeid + 1
    BY <1>4, <2>1, BoundsAssumption DEF StoreTeid, AfterTeid, Teids
  <2>4. /\ teidPool' \in [Teids -> Ues \cup {NoUe}] /\ took' \in [Ues -> SUBSET Teids]
    BY <1>4, <1>t, <2>1 DEF StoreTeid, Store, TypeOK
  <2>5. st' \in [Ues -> States] /\ ctx' \in [Ues -> Tunnels]
    <3>1. st \in [Ues -> States] /\ ctx \in [Ues -> Tunnels]
      BY <1>t DEF TypeOK
    <3>2. [ctx[thr[h].ue] EXCEPT !.teid = thr[h].teid] \in Tunnels
      BY <2>1, <3>1 DEF Tunnels
    <3> QED
      BY <1>4, <3>1, <3>2 DEF StoreTeid, States
  <2>6. uePool' \subseteq Ues
    BY <1>4, <1>t, <2>1 DEF StoreTeid, TypeOK
  <2> QED
    BY <1>4, <1>t, <2>2, <2>3, <2>4, <2>5, <2>6 DEF StoreTeid, TypeInv, TypeOK
<1>5. ASSUME NEW h \in Threads, GetRanUeIp(h) PROVE TypeInv'
  <2> DEFINE y == [thr[h] EXCEPT !.pc = "ip2", !.ip = ipGen]
  <2>1. /\ y \in ThreadType /\ y.pc = "ip2" /\ y.ue = thr[h].ue
        /\ y.kind = thr[h].kind /\ y.sid = thr[h].sid
    <3>1. ipGen \in Ips /\ thr[h] \in ThreadType
      BY <1>t DEF TypeOK
    <3> QED
      BY <3>1 DEF ThreadType, Pcs
  <2>2. thr' = [thr EXCEPT ![h] = y] /\ thr[h].pc = "ip"
    BY <1>5 DEF GetRanUeIp, At
  <2>r. UNCHANGED released
    BY <1>5 DEF GetRanUeIp
  <2> HIDE DEF y
  <2>3. ThrOK
    BY <1>t, <2>1, <2>2, <2>r, ThreadStep DEF Shape
  <2>4. ipOver' \in BOOLEAN
    BY <1>5, <1>t, Zenon DEF GetRanUeIp, TypeOK
  <2> QED
    BY <1>5, <1>t, <2>3, <2>4 DEF GetRanUeIp, TypeInv, TypeOK
<1>6. ASSUME NEW h \in Threads, StoreUeIp(h) PROVE TypeInv'
  <2>1. thr[h].pc = "ip2" /\ thr[h].ue \in Ues /\ thr[h].ip \in Ips
    BY <1>6, <1>t DEF StoreUeIp, At, Shape, ThreadType
  <2>2. ThrOK
    BY <1>6, <2>1, GotoStep, ReturnStep DEF StoreUeIp, Pcs
  <2>3. ipGen' \in Ips
    BY <1>6, <2>1, IpAssumption DEF StoreUeIp, AfterIp, Ips
  <2>4. ueIpPool' \in [Ips -> Ues \cup {NoUe}] /\ ips' \in Nat
    BY <1>6, <1>t, <2>1 DEF StoreUeIp, Store, TypeOK
  <2>5. ctx' \in [Ues -> Tunnels]
    <3>1. ctx \in [Ues -> Tunnels]
      BY <1>t DEF TypeOK
    <3>2. [ctx[thr[h].ue] EXCEPT !.ip = thr[h].ip] \in Tunnels
      BY <2>1, <3>1 DEF Tunnels
    <3> QED
      BY <1>6, <3>1, <3>2 DEF StoreUeIp
  <2> QED
    BY <1>6, <1>t, <2>2, <2>3, <2>4, <2>5 DEF StoreUeIp, TypeInv, TypeOK
<1>7. ASSUME NEW h \in Threads, DispatchNas(h) PROVE TypeInv'
  <2>1. ThrOK
    BY <1>7, GotoStep DEF DispatchNas, At, Pcs
  <2> QED
    BY <1>7, <1>t, <2>1 DEF DispatchNas, TypeInv, TypeOK
<1>8. ASSUME NEW h \in Threads, HandlerUeInitialized(h) PROVE TypeInv'
  <2>1. ThrOK
    BY <1>8, ReturnStep DEF HandlerUeInitialized
  <2>2. thr[h].ue \in Ues
    BY <1>8, <1>t DEF HandlerUeInitialized, At, Shape
  <2>4. /\ amfSetup' \in [Ues -> BOOLEAN] /\ amfRel' \in [Ues -> BOOLEAN]
        /\ amfSwitch' \in [Ues -> BOOLEAN]
    BY <1>8, <1>t DEF HandlerUeInitialized, TypeOK
  <2>3. amfConn' \in [Ues -> Nat] /\ amfNext' \in Nat /\ st' \in [Ues -> States]
    <3>1. /\ amfConn \in [Ues -> Nat] /\ amfNext \in Nat /\ st \in [Ues -> States]
          /\ amfUeId \in [Ues -> Nat]
      BY <1>t DEF TypeOK
    <3>2. st' \in [Ues -> States]
      BY <1>8, <3>1 DEF HandlerUeInitialized, States
    <3>3. amfUeId[thr[h].ue] \in Nat /\ amfNext + 1 \in Nat
      BY <2>2, <3>1
    <3>4. \/ amfConn' = [amfConn EXCEPT ![thr[h].ue] = amfNext] /\ amfNext' = amfNext + 1
          \/ amfConn' = [amfConn EXCEPT ![thr[h].ue] = amfUeId[thr[h].ue]] /\ amfNext' = amfNext
      BY <1>8 DEF HandlerUeInitialized
    <3> QED
      BY <3>1, <3>2, <3>3, <3>4
  <2> QED
    BY <1>8, <1>t, <2>1, <2>3, <2>4 DEF HandlerUeInitialized, TypeInv, TypeOK
<1>9. ASSUME NEW h \in Threads, HandlerUeOngoing(h) PROVE TypeInv'
  <2>1. ThrOK
    BY <1>9, ReturnStep DEF HandlerUeOngoing
  <2> QED
    BY <1>9, <1>t, <2>1 DEF HandlerUeOngoing, TypeInv, TypeOK
<1>10. ASSUME NEW h \in Threads, HandlerDownlinkNasTransport(h) PROVE TypeInv'
  <2>1. ThrOK
    BY <1>10, ReturnStep DEF HandlerDownlinkNasTransport
  <2>2. amfUeId' \in [Ues -> Nat]
    BY <1>10, <1>t DEF HandlerDownlinkNasTransport, TypeOK, ThreadType
  <2> QED
    BY <1>10, <1>t, <2>1, <2>2 DEF HandlerDownlinkNasTransport, TypeInv, TypeOK
<1>11. ASSUME NEW h \in Threads, HandlerInitialContextSetupRequest(h) PROVE TypeInv'
  <2>1. ThrOK
    BY <1>11, <1>t, ReturnStep, SessionStep
       DEF HandlerInitialContextSetupRequest, At, ThreadType
  <2>2. nssai' \in [Ues -> BOOLEAN]
    BY <1>11, <1>t DEF HandlerInitialContextSetupRequest, TypeOK
  <2> QED
    BY <1>11, <1>t, <2>1, <2>2 DEF HandlerInitialContextSetupRequest, TypeInv, TypeOK
<1>12. ASSUME NEW h \in Threads, HandlerPduSessionResourceSetupRequest(h) PROVE TypeInv'
  <2>1. ThrOK
    BY <1>12, GotoStep, ReturnStep DEF HandlerPduSessionResourceSetupRequest, At, Pcs
  <2> QED
    BY <1>12, <1>t, <2>1 DEF HandlerPduSessionResourceSetupRequest, TypeInv, TypeOK
<1>13. ASSUME NEW h \in Threads, CreatePduSession(h) PROVE TypeInv'
  <2>1. ThrOK
    <3>1. CASE thr[h].kind = "ics"
      BY <1>13, <1>t, <3>1, SessionStep DEF CreatePduSession, At, ThreadType
    <3>2. CASE thr[h].kind # "ics"
      BY <1>13, <3>2, GotoStep DEF CreatePduSession, At, Pcs
    <3> QED
      BY <3>1, <3>2
  <2>2. [teid |-> thr[h].teid, ip |-> thr[h].ip] \in Tunnels
    BY <1>t DEF ThreadType, Tunnels
  <2>3. ctx' \in [Ues -> Tunnels] /\ sess' \in [Ues -> [Sessions -> Tunnels]]
    <3>1. ctx \in [Ues -> Tunnels] /\ sess \in [Ues -> [Sessions -> Tunnels]]
      BY <1>t DEF TypeOK
    <3>2. ctx' \in [Ues -> Tunnels]
      BY <1>13, <2>2, <3>1 DEF CreatePduSession
    <3> DEFINE tun == [teid |-> thr[h].teid, ip |-> thr[h].ip]
    <3>3. \/ UNCHANGED sess
          \/ sess' = [sess EXCEPT ![thr[h].ue][thr[h].sid] = tun]
      BY <1>13 DEF CreatePduSession
    <3>4. thr[h].ue \in Ues /\ tun \in Tunnels
      BY <1>13, <1>t, <2>2 DEF CreatePduSession, At, Shape
    <3> HIDE DEF tun
    <3>5. [sess[thr[h].ue] EXCEPT ![thr[h].sid] = tun] \in [Sessions -> Tunnels]
      BY <3>1, <3>4
    <3>6. sess' \in [Ues -> [Sessions -> Tunnels]]
      BY <3>1, <3>3, <3>5
    <3> QED
      BY <3>2, <3>6
  <2> QED
    BY <1>13, <1>t, <2>1, <2>3 DEF CreatePduSession, TypeInv, TypeOK
<1>14. ASSUME NEW h \in Threads, SendInitialContextSetupResponse(h) PROVE TypeInv'
  <2>1. ThrOK
    BY <1>14, ReturnStep DEF SendInitialContextSetupResponse
  <2>2. thr[h].ue \in Ues
    BY <1>14, <1>t DEF SendInitialContextSetupResponse, At, Shape
  <2>3. {sess[thr[h].ue][s].teid : s \in Sessions} \ {0} \in SUBSET ({0} \cup Teids)
    BY <1>t, <2>2 DEF TypeOK, Tunnels
  <2>4. told' \in [Ues -> SUBSET ({0} \cup Teids)]
    BY <1>14, <1>t, <2>3 DEF SendInitialContextSetupResponse, TypeOK
  <2>5. amfSetup' \in [Ues -> BOOLEAN]
    BY <1>14, <1>t DEF SendInitialContextSetupResponse, TypeOK
  <2> QED
    BY <1>14, <1>t, <2>1, <2>4, <2>5 DEF SendInitialContextSetupResponse, TypeInv, TypeOK
<1>15. ASSUME NEW h \in Threads, SendPduSessionResourceSetupResponse(h) PROVE TypeInv'
  <2>1. thr[h].pc = "resp" /\ thr[h].ue \in Ues /\ thr[h].sid \in Sessions
    BY <1>15, <1>t DEF SendPduSessionResourceSetupResponse, At, Shape
  <2>2. ThrOK
    BY <1>15, <2>1, GotoStep DEF SendPduSessionResourceSetupResponse, Pcs
  <2>3. sess[thr[h].ue][thr[h].sid].teid \in {0} \cup Teids
    BY <1>t, <2>1 DEF TypeOK, Tunnels
  <2>4. told' \in [Ues -> SUBSET ({0} \cup Teids)] /\ st' \in [Ues -> States]
    <3>1. CASE UNCHANGED <<st, told>>
      BY <1>t, <3>1 DEF TypeOK
    <3>2. CASE /\ st' = [st EXCEPT ![thr[h].ue] = "ready"]
               /\ told' = [told EXCEPT ![thr[h].ue] =
                             @ \cup {sess[thr[h].ue][thr[h].sid].teid}]
      <4>1. told \in [Ues -> SUBSET ({0} \cup Teids)] /\ st \in [Ues -> States]
        BY <1>t DEF TypeOK
      <4>2. told' \in [Ues -> SUBSET ({0} \cup Teids)]
        BY <4>1, <3>2, <2>3
      <4> QED
        BY <4>1, <4>2, <3>2 DEF States
    <3> QED
      BY <1>15, <3>1, <3>2 DEF SendPduSessionResourceSetupResponse
  <2> QED
    BY <1>15, <1>t, <2>2, <2>4 DEF SendPduSessionResourceSetupResponse, TypeInv, TypeOK
<1>16. ASSUME NEW h \in Threads, InitUserPlane(h) PROVE TypeInv'
  <2>1. ThrOK
    BY <1>16, ReturnStep DEF InitUserPlane
  <2>2. toldIp' \in [Ues -> SUBSET Ips]
    BY <1>16, <1>t DEF InitUserPlane, TypeOK, ThreadType
  <2> QED
    BY <1>16, <1>t, <2>1, <2>2 DEF InitUserPlane, TypeInv, TypeOK
<1>d. ASSUME NEW K, NEW pool \in [K -> Ues \cup {NoUe}], NEW keys
      PROVE  Delete(pool, keys) \in [K -> Ues \cup {NoUe}]
  BY DEF Delete
<1>17. ASSUME NEW h \in Threads, ReleaseContext(h) PROVE TypeInv'
  <2>1. CASE Named(h) = {} /\ Goto(h, "done") /\ UNCHANGED <<teidPool, ueIpPool, released>>
    <3>1. ThrOK
      BY <1>17, <2>1, GotoStep DEF ReleaseContext, At, Pcs
    <3> QED
      BY <1>17, <1>t, <2>1, <3>1 DEF ReleaseContext, TypeInv, TypeOK
  <2>2. ASSUME NEW u \in Named(h),
               teidPool' = Delete(teidPool, {ctx[u].teid}),
               ueIpPool' = Delete(ueIpPool, {ctx[u].ip}),
               released' = released \cup {u},
               thr' = [thr EXCEPT ![h].pc = "sess", ![h].ue = u]
        PROVE  TypeInv'
    <3> DEFINE y == [thr[h] EXCEPT !.pc = "sess", !.ue = u]
    <3>0. u \in Ues
      BY <1>t DEF Named, GetGnbUe, TypeOK
    <3>1. /\ y \in ThreadType /\ y.pc = "sess" /\ y.ue = u /\ y.kind = thr[h].kind
          /\ y.sid = thr[h].sid
      BY <1>t, <3>0 DEF ThreadType, Pcs
    <3>2. thr' = [thr EXCEPT ![h] = y]
      BY <2>2, <1>t DEF TypeOK
    <3>3. thr[h].kind \in {"ucr", "ucrAmf"} /\ Shape(h)
      BY <1>17, <1>t DEF ReleaseContext
    <3> HIDE DEF y
    <3>4. ThrOK
      BY <2>2, <3>0, <3>1, <3>2, <3>3, ThreadStep DEF Shape
    <3>5. teidPool' \in [Teids -> Ues \cup {NoUe}] /\ ueIpPool' \in [Ips -> Ues \cup {NoUe}]
      BY <2>2, <1>t, <1>d DEF TypeOK
    <3>6. released' \subseteq Ues
      BY <2>2, <1>t, <3>0 DEF TypeOK
    <3> QED
      BY <1>17, <1>t, <3>4, <3>5, <3>6 DEF ReleaseContext, TypeInv, TypeOK
  <2> QED
    BY <1>17, <2>1, <2>2 DEF ReleaseContext
<1>18. ASSUME NEW h \in Threads, ReleaseSessions(h) PROVE TypeInv'
  <2>1. ThrOK
    BY <1>18, GotoStep DEF ReleaseSessions, At, Pcs
  <2>2. teidPool' \in [Teids -> Ues \cup {NoUe}] /\ ueIpPool' \in [Ips -> Ues \cup {NoUe}]
    BY <1>18, <1>t, <1>d DEF ReleaseSessions, TypeOK
  <2>3. st' \in [Ues -> States]
    BY <1>18, <1>t DEF ReleaseSessions, TypeOK, States
  <2> QED
    BY <1>18, <1>t, <2>1, <2>2, <2>3 DEF ReleaseSessions, TypeInv, TypeOK
<1>19. ASSUME NEW h \in Threads, ReleaseComplete(h) PROVE TypeInv'
  <2>1. ThrOK
    BY <1>19, ReturnStep DEF ReleaseComplete
  <2>2. amfConn' \in [Ues -> Nat]
    BY <1>19, <1>t DEF ReleaseComplete, TypeOK
  <2>3. amfSetup' \in [Ues -> BOOLEAN] /\ amfRel' \in [Ues -> BOOLEAN]
    BY <1>19, <1>t DEF ReleaseComplete, TypeOK
  <2> QED
    BY <1>19, <1>t, <2>1, <2>2, <2>3 DEF ReleaseComplete, TypeInv, TypeOK
<1>20. ASSUME NEW h \in Threads, GetRanUeId(h) PROVE TypeInv'
  <2>1. ThrOK
    BY <1>20, GotoStep DEF GetRanUeId, At, Pcs
  <2>2. ran' \in [Ues -> Nat]
    BY <1>20, <1>t DEF GetRanUeId, TypeOK
  <2> QED
    BY <1>20, <1>t, <2>1, <2>2 DEF GetRanUeId, TypeInv, TypeOK
<1>21. ASSUME NEW h \in Threads, StepRanUeId(h) PROVE TypeInv'
  <2>1. ThrOK
    BY <1>21, GotoStep DEF StepRanUeId, At, Pcs
  <2>2. ranGen' \in Nat
    BY <1>21, <1>t DEF StepRanUeId, At, Shape, TypeOK
  <2> QED
    BY <1>21, <1>t, <2>1, <2>2 DEF StepRanUeId, TypeInv, TypeOK
<1>22. ASSUME NEW h \in Threads, HandlerHandoverRequest(h) PROVE TypeInv'
  <2>1. ThrOK
    BY <1>22, ReturnStep DEF HandlerHandoverRequest
  <2>2. thr[h].ue \in Ues /\ thr[h].id \in Nat
    BY <1>22, <1>t DEF HandlerHandoverRequest, At, Shape, ThreadType
  <2>3. amfUeId' \in [Ues -> Nat] /\ st' \in [Ues -> States]
    BY <1>22, <1>t, <2>2 DEF HandlerHandoverRequest, TypeOK, States
  <2>4. ctx' \in [Ues -> Tunnels]
    <3>1. ctx \in [Ues -> Tunnels]
      BY <1>t DEF TypeOK
    <3>2. [ctx[thr[h].ue] EXCEPT !.teid = 0] \in Tunnels
      BY <2>2, <3>1 DEF Tunnels
    <3> QED
      BY <1>22, <3>1, <3>2 DEF HandlerHandoverRequest
  <2>5. told' \in [Ues -> SUBSET ({0} \cup Teids)] /\ amfConn' \in [Ues -> Nat]
    <3>1. told \in [Ues -> SUBSET ({0} \cup Teids)] /\ amfConn \in [Ues -> Nat]
      BY <1>t DEF TypeOK
    <3>2. \/ UNCHANGED <<told, amfConn>>
          \/ /\ told' = [told EXCEPT ![thr[h].ue] = @ \cup {0}]
             /\ amfConn' = [amfConn EXCEPT ![thr[h].ue] = thr[h].id]
      BY <1>22 DEF HandlerHandoverRequest
    <3> QED
      BY <2>2, <3>1, <3>2
  <2>6. amfSetup' \in [Ues -> BOOLEAN]
    BY <1>22, <1>t DEF HandlerHandoverRequest, TypeOK
  <2> QED
    BY <1>22, <1>t, <2>1, <2>3, <2>4, <2>5, <2>6 DEF HandlerHandoverRequest, TypeInv, TypeOK
<1>23. ASSUME NEW h \in Threads, HandlePathSwitchTrigger(h) PROVE TypeInv'
  <2>1. ThrOK
    BY <1>23, ReturnStep DEF HandlePathSwitchTrigger
  <2>2. thr[h].ue \in Ues
    BY <1>23, <1>t DEF HandlePathSwitchTrigger, Shape
  <2>3. /\ amfUeId' \in [Ues -> Nat] /\ st' \in [Ues -> States]
        /\ amfConn' \in [Ues -> Nat] /\ amfNext' \in Nat
    BY <1>23, <1>t, <2>2 DEF HandlePathSwitchTrigger, TypeOK, States
  <2>4. told' \in [Ues -> SUBSET ({0} \cup Teids)]
    <3>1. ctx[thr[h].ue].teid \in {0} \cup Teids
      BY <1>t, <2>2 DEF TypeOK, Tunnels
    <3> QED
      BY <1>23, <1>t, <3>1 DEF HandlePathSwitchTrigger, TypeOK
  <2>5. /\ amfSetup' \in [Ues -> BOOLEAN] /\ amfRel' \in [Ues -> BOOLEAN]
        /\ amfSwitch' \in [Ues -> BOOLEAN]
    BY <1>23, <1>t DEF HandlePathSwitchTrigger, TypeOK
  <2> QED
    BY <1>23, <1>t, <2>1, <2>3, <2>4, <2>5 DEF HandlePathSwitchTrigger, TypeInv, TypeOK
<1>24. ASSUME NEW h \in Threads, HandleTargetAccessTrigger(h) PROVE TypeInv'
  <2>1. ThrOK
    BY <1>24, ReturnStep DEF HandleTargetAccessTrigger
  <2>2. st' \in [Ues -> States] /\ uePool' \subseteq Ues
    BY <1>24, <1>t DEF HandleTargetAccessTrigger, TypeOK, States
  <2> QED
    BY <1>24, <1>t, <2>1, <2>2 DEF HandleTargetAccessTrigger, TypeInv, TypeOK
<1>25. ASSUME NEW h \in Threads, SwitchSession(h) PROVE TypeInv'
  <2>1. PICK s \in thr[h].todo, t \in Teids :
          /\ thr' = [thr EXCEPT ![h].todo = @ \ {s}]
          /\ teidPool' = Store(teidPool, t, thr[h].ue)
          /\ switched' = switched \cup {t}
    BY <1>25 DEF SwitchSession
  <2> DEFINE y == [thr[h] EXCEPT !.todo = @ \ {s}]
  <2>2. /\ y \in ThreadType /\ y.pc = thr[h].pc /\ y.ue = thr[h].ue /\ y.kind = thr[h].kind
        /\ y.sid = thr[h].sid
    BY <1>t DEF ThreadType
  <2>3. thr' = [thr EXCEPT ![h] = y] /\ UNCHANGED released
    BY <1>25, <2>1 DEF SwitchSession
  <2>4. thr[h].pc = "start" /\ thr[h].kind = "psack" /\ thr[h].ue \in Ues
    BY <1>25, <1>t DEF SwitchSession, At, Shape
  <2> HIDE DEF y
  <2>5. ThrOK
    BY <2>2, <2>3, <2>4, ThreadStep
  <2>6. teidPool' \in [Teids -> Ues \cup {NoUe}] /\ switched' \subseteq Teids
    BY <2>1, <2>4, <1>t DEF Store, TypeOK
  <2> QED
    BY <1>25, <1>t, <2>5, <2>6 DEF SwitchSession, TypeInv, TypeOK
<1>26. ASSUME NEW h \in Threads, HandlerPathSwitchRequestAcknowledge(h) PROVE TypeInv'
  <2>1. ThrOK
    BY <1>26, ReturnStep DEF HandlerPathSwitchRequestAcknowledge
  <2>2. amfUeId' \in [Ues -> Nat]
    BY <1>26, <1>t DEF HandlerPathSwitchRequestAcknowledge, TypeOK, ThreadType
  <2> QED
    BY <1>26, <1>t, <2>1, <2>2 DEF HandlerPathSwitchRequestAcknowledge, TypeInv, TypeOK
<1>27. ASSUME NEW u \in Ues, XnContextRelease(u) PROVE TypeInv'
  BY <1>27, <1>t DEF XnContextRelease, TypeInv, TypeOK, ShapeInv, Shape
<1>28. CASE UNCHANGED vars
  BY <1>28, <1>t DEF vars, TypeInv, TypeOK, ShapeInv, Shape
<1> QED
  BY <1>1, <1>2, <1>3, <1>4, <1>5, <1>6, <1>7, <1>8, <1>9, <1>10, <1>11, <1>12, <1>13,
     <1>14, <1>15, <1>16, <1>17, <1>18, <1>19, <1>20, <1>21, <1>22, <1>23, <1>24, <1>25,
     <1>26, <1>27, <1>28 DEF Next, Run

(* Whatever the interleaving of the handler goroutines, the contexts and   *)
(* pools of a gNB keep their types; a pool never holds a UE that is not    *)
(* there, and the address generator stays within its width.                *)
THEOREM TypeCorrect == Spec => []TypeOK
<1>1. Spec => []TypeInv
  BY TypeInit, TypeNext, PTL DEF Spec
<1> QED
  BY <1>1, PTL DEF TypeInv

-----------------------------------------------------------------------------
(* Most steps take no number from a generator: the TEIDs and addresses     *)
(* that the contexts, the core and the UEs know afterwards are among those *)
(* that they, or the goroutines, had before.                               *)

Carriers == {"ip", "ip2", "create"}
HasIp(x) == x.pc \in {"create", "n3"} \/ (x.pc = "resp" /\ x.kind = "su")

(* TEIDs known for a UE, and carried by the goroutines that work for it.   *)
Known(u)    == {ctx[u].teid} \cup {sess[u][s].teid : s \in Sessions} \cup told[u]
ThrTeids(u) == {thr[x].teid : x \in {z \in Threads : thr[z].ue = u /\ thr[z].pc \in Carriers}}

(* The same for addresses.                                                 *)
KnownIps(u) == {ctx[u].ip} \cup {sess[u][s].ip : s \in Sessions} \cup toldIp[u]
ThrIps(u)   == {thr[x].ip : x \in {z \in Threads : thr[z].ue = u /\ HasIp(thr[z])}}

TeidThreads ==
  \A x \in Threads :
    /\ thr'[x].pc = "teid2" => thr'[x] = thr[x]
    /\ thr'[x].pc \in Carriers => /\ thr[x].pc \in Carriers
                                  /\ thr'[x].teid = thr[x].teid /\ thr'[x].ue = thr[x].ue
TeidData == \A u \in Ues : Known(u)' \subseteq Known(u) \cup ThrTeids(u) \cup {0}
TeidQuiet == TeidThreads /\ TeidData /\ UNCHANGED <<took, teidGen>>

AddrThreads ==
  \A x \in Threads :
    /\ thr'[x].pc = "ip2" => thr[x].pc = "ip2" /\ thr'[x].ip = thr[x].ip
    /\ HasIp(thr'[x]) => /\ HasIp(thr[x])
                         /\ thr'[x].ip = thr[x].ip /\ thr'[x].ue = thr[x].ue
AddrData ==
  \A u \in Ues : /\ KnownIps(u)' \subseteq KnownIps(u) \cup ThrIps(u)
                 /\ toldIp'[u] \subseteq toldIp[u] \cup ThrIps(u)
AddrQuiet == AddrThreads /\ AddrData /\ UNCHANGED <<ips, ipGen>>

(* A goroutine that begins, goes to a place where it carries nothing, or   *)
(* returns.                                                                *)
Light(y) ==
  \/ y.pc \in {"free", "start", "first", "later", "ran", "ran2", "teid", "ho", "sess", "done"}
  \/ y.pc = "resp" /\ y.kind = "ics"

LEMMA LightStep ==
  ASSUME TypeInv, NEW h \in Threads, NEW y, thr' = [thr EXCEPT ![h] = y], Light(y)
  PROVE  TeidThreads /\ AddrThreads
<1>1. \A x \in Threads : thr'[x] = IF x = h THEN y ELSE thr[x]
  BY DEF TypeInv, TypeOK
<1>2. y.pc \notin Carriers \cup {"teid2", "ip2"} /\ ~HasIp(y)
  BY DEF Light, Carriers, HasIp
<1>3. TeidThreads
  BY <1>1, <1>2 DEF TeidThreads
<1>4. AddrThreads
  BY <1>1, <1>2 DEF AddrThreads
<1> QED
  BY <1>3, <1>4

LEMMA LightGoto ==
  ASSUME TypeInv, NEW h \in Threads, NEW pc, Goto(h, pc),
         \/ pc \in {"first", "later", "ran2", "teid", "ho", "done"}
         \/ pc = "resp" /\ thr[h].kind = "ics"
  PROVE  TeidThreads /\ AddrThreads
<1> DEFINE y == [thr[h] EXCEPT !.pc = pc]
<1>1. thr[h] \in ThreadType
  BY DEF TypeInv, TypeOK
<1>2. y.pc = pc /\ y.kind = thr[h].kind
  BY <1>1 DEF ThreadType
<1>3. thr' = [thr EXCEPT ![h] = y]
  BY DEF Goto
<1> HIDE DEF y
<1> QED
  BY <1>2, <1>3, LightStep DEF Light

LEMMA LightReturn ==
  ASSUME TypeInv, NEW h \in Threads, Return(h)
  PROVE  TeidThreads /\ AddrThreads
<1>1. Free.pc = "free"
  BY DEF Free, Thread
<1> QED
  BY <1>1, LightStep DEF Return, Light

LEMMA LightBegin ==
  ASSUME TypeInv, NEW h \in Threads, NEW pc \in {"start", "ran"}, NEW k, NEW u, NEW id,
         NEW s, NEW todo, NEW ok, thr' = [thr EXCEPT ![h] = Thread(pc, k, u, id, s, todo, ok)]
  PROVE  TeidThreads /\ AddrThreads
<1> DEFINE m == Thread(pc, k, u, id, s, todo, ok)
<1>1. thr' = [thr EXCEPT ![h] = m] /\ m.pc = pc
  BY DEF Thread
<1> HIDE DEF m
<1> QED
  BY <1>1, LightStep DEF Light

LEMMA LightSession ==
  ASSUME TypeInv, NEW h \in Threads, NEW todo, NextSession(h, todo), thr[h].kind = "ics"
  PROVE  TeidThreads /\ AddrThreads
<1>1. CASE todo = {}
  BY <1>1, LightGoto DEF NextSession
<1>2. CASE todo # {}
  <2>1. PICK s \in todo : thr' = [thr EXCEPT ![h].pc = "teid", ![h].sid = s,
                                             ![h].todo = todo \ {s}]
    BY <1>2 DEF NextSession
  <2> DEFINE y == [thr[h] EXCEPT !.pc = "teid", !.sid = s, !.todo = todo \ {s}]
  <2>2. thr[h] \in ThreadType /\ thr \in [Threads -> ThreadType]
    BY DEF TypeInv, TypeOK
  <2>3. y.pc = "teid"
    BY <2>2 DEF ThreadType
  <2>4. thr' = [thr EXCEPT ![h] = y]
    BY <2>1, <2>2
  <2> HIDE DEF y
  <2> QED
    BY <2>3, <2>4, LightStep DEF Light
<1> QED
  BY <1>1, <1>2

LEMMA SameData ==
  ASSUME UNCHANGED <<ctx, sess, told, toldIp>>
  PROVE  TeidData /\ AddrData
BY DEF TeidData, AddrData, Known, KnownIps

(* Every step but those that load or store a number is quiet; a step on    *)
(* TEIDs is quiet for addresses and the other way round.                   *)
LEMMA QuietStep ==
  TypeInv /\ [Next]_vars =>
    /\ TeidQuiet \/ \E h \in Threads : GetUeTeid(h) \/ StoreTeid(h)
    /\ AddrQuiet \/ \E h \in Threads : GetRanUeIp(h) \/ StoreUeIp(h)
<1> SUFFICES ASSUME TypeInv, [Next]_vars
             PROVE  /\ TeidQuiet \/ \E h \in Threads : GetUeTeid(h) \/ StoreTeid(h)
                    /\ AddrQuiet \/ \E h \in Threads : GetRanUeIp(h) \/ StoreUeIp(h)
  OBVIOUS
<1> DEFINE Quiet == TeidQuiet /\ AddrQuiet
           Same  == UNCHANGED <<took, teidGen, ips, ipGen>>
<1>t. TypeOK /\ \A h \in Threads : Shape(h) /\ thr[h] \in ThreadType
  BY DEF TypeInv, ShapeInv, TypeOK
<1>q. ASSUME TeidThreads, AddrThreads, TeidData, AddrData, Same PROVE Quiet
  BY <1>q DEF TeidQuiet, AddrQuiet
<1>s. ASSUME TeidThreads, AddrThreads, Same, UNCHANGED <<ctx, sess, told, toldIp>> PROVE Quiet
  BY <1>s, SameData DEF TeidQuiet, AddrQuiet
<1> USE DEF ueVars, poolVars, genVars, amfVars, toldVars
<1>1. ASSUME NEW u \in Ues, AcceptUe(u) PROVE Quiet
  <2>1. TeidThreads /\ AddrThreads
    BY <1>1, LightBegin DEF AcceptUe, Threads
  <2> QED
    BY <1>1, <2>1, <1>s DEF AcceptUe
<1>2. ASSUME NEW h \in Handlers, Arrive(h) PROVE Quiet
  <2>0. /\ TeidThreads /\ AddrThreads /\ Same /\ UNCHANGED <<ctx, sess, told, toldIp>>
    <3>1. ASSUME NEW pc \in {"start", "ran"}, NEW k, NEW v, NEW id, NEW s, NEW todo, NEW ok,
                 Receive(h, Thread(pc, k, v, id, s, todo, ok))
          PROVE  /\ TeidThreads /\ AddrThreads /\ Same /\ UNCHANGED <<ctx, sess, told, toldIp>>
      <4>1. TeidThreads /\ AddrThreads
        BY <3>1, LightBegin DEF Receive, Threads
      <4> QED
        BY <3>1, <4>1 DEF Receive
    <3> HIDE DEF Same
    <3> QED
      BY <1>2, <3>1 DEF Arrive, UeSends, AmfSendsNas, AmfSetsUpContext, AmfSetsUpSession,
                        AmfReleases, AmfRequestsHandover, AmfSwitchesPath
  <2> QED
    BY <2>0, <1>s
<1>3. ASSUME NEW h \in Threads, GetRanUeId(h) \/ StepRanUeId(h) \/ DispatchNas(h) PROVE Quiet
  <2>1. TeidThreads /\ AddrThreads
    BY <1>3, LightGoto DEF GetRanUeId, StepRanUeId, DispatchNas
  <2> QED
    BY <1>3, <2>1, <1>s DEF GetRanUeId, StepRanUeId, DispatchNas
<1>4. ASSUME NEW h \in Threads, GetUeTeid(h) PROVE AddrQuiet
  <2>1. \A x \in Threads \ {h} : thr'[x] = thr[x]
    BY <1>4, <1>t DEF GetUeTeid, TypeOK
  <2>2. thr'[h].pc = "teid2"
    BY <1>4, <1>t DEF GetUeTeid, TypeOK, ThreadType
  <2>3. AddrThreads
    BY <2>1, <2>2 DEF AddrThreads, HasIp
  <2> QED
    BY <1>4, <2>3, SameData DEF GetUeTeid, AddrQuiet
<1>5. ASSUME NEW h \in Threads, StoreTeid(h) PROVE AddrQuiet
  <2>1. \A x \in Threads \ {h} : thr'[x] = thr[x]
    BY <1>5, <1>t DEF StoreTeid, Goto, TypeOK
  <2>2. thr'[h].pc = "ip"
    BY <1>5, <1>t DEF StoreTeid, Goto, TypeOK, ThreadType
  <2>3. AddrThreads
    BY <2>1, <2>2 DEF AddrThreads, HasIp
  <2>4. \A v \in Ues : ctx'[v].ip = ctx[v].ip
    <3>1. ctx \in [Ues -> Tunnels]
      BY <1>t DEF TypeOK
    <3>2. \A v \in Ues : [ctx[v] EXCEPT !.teid = thr[h].teid].ip = ctx[v].ip
      BY <3>1 DEF Tunnels
    <3>3. \/ UNCHANGED ctx
          \/ ctx' = [ctx EXCEPT ![thr[h].ue] = [ctx[thr[h].ue] EXCEPT !.teid = thr[h].teid]]
      BY <1>5 DEF StoreTeid
    <3> QED
      BY <3>1, <3>2, <3>3
  <2>5. AddrData
    BY <1>5, <2>4 DEF StoreTeid, AddrData, KnownIps
  <2> QED
    BY <1>5, <2>3, <2>5 DEF StoreTeid, AddrQuiet
<1>6. ASSUME NEW h \in Threads, GetRanUeIp(h) PROVE TeidQuiet
  <2>1. \A x \in Threads \ {h} : thr'[x] = thr[x]
    BY <1>6, <1>t DEF GetRanUeIp, TypeOK
  <2>2. /\ thr'[h].pc = "ip2" /\ thr[h].pc = "ip" /\ thr'[h].ue = thr[h].ue
        /\ thr'[h].teid = thr[h].teid
    BY <1>6, <1>t DEF GetRanUeIp, At, TypeOK, ThreadType
  <2>3. TeidThreads
    BY <2>1, <2>2 DEF TeidThreads, Carriers
  <2> QED
    BY <1>6, <2>3, SameData DEF GetRanUeIp, TeidQuiet
<1>7. ASSUME NEW h \in Threads, StoreUeIp(h) PROVE TeidQuiet
  <2>1. TeidThreads
    <3>1. ASSUME Goto(h, "create") PROVE TeidThreads
      <4>1. \A x \in Threads \ {h} : thr'[x] = thr[x]
        BY <1>t, <3>1 DEF Goto, TypeOK
      <4>2. /\ thr'[h].pc = "create" /\ thr[h].pc = "ip2" /\ thr'[h].ue = thr[h].ue
            /\ thr'[h].teid = thr[h].teid
        BY <1>7, <1>t, <3>1 DEF StoreUeIp, Goto, At, TypeOK, ThreadType
      <4> QED
        BY <4>1, <4>2 DEF TeidThreads, Carriers
    <3> QED
      BY <1>7, <3>1, LightGoto, LightReturn DEF StoreUeIp
  <2>2. \A v \in Ues : ctx'[v].teid = ctx[v].teid
    <3>1. ctx \in [Ues -> Tunnels]
      BY <1>t DEF TypeOK
    <3>2. \A v \in Ues : [ctx[v] EXCEPT !.ip = thr[h].ip].teid = ctx[v].teid
      BY <3>1 DEF Tunnels
    <3>3. \/ UNCHANGED ctx
          \/ ctx' = [ctx EXCEPT ![thr[h].ue] = [ctx[thr[h].ue] EXCEPT !.ip = thr[h].ip]]
      BY <1>7 DEF StoreUeIp
    <3> QED
      BY <3>1, <3>2, <3>3
  <2>3. TeidData
    BY <1>7, <2>2 DEF StoreUeIp, TeidData, Known
  <2> QED
    BY <1>7, <2>1, <2>3 DEF StoreUeIp, TeidQuiet
<1>8. ASSUME NEW h \in Threads, \/ HandlerUeInitialized(h) \/ HandlerUeOngoing(h)
                                \/ HandleTargetAccessTrigger(h)
                                \/ HandlerDownlinkNasTransport(h)
                                \/ HandlerPathSwitchRequestAcknowledge(h)
                                \/ ReleaseComplete(h)
      PROVE  Quiet
  <2>1. /\ Return(h) /\ Same /\ UNCHANGED <<ctx, sess, told, toldIp>>
    BY <1>8 DEF HandlerUeInitialized, HandlerUeOngoing, HandleTargetAccessTrigger,
                HandlerDownlinkNasTransport, HandlerPathSwitchRequestAcknowledge,
                ReleaseComplete
  <2> QED
    BY <2>1, <1>s, LightReturn
<1>9. ASSUME NEW h \in Threads, HandlerHandoverRequest(h) PROVE Quiet
  <2>1. TeidThreads /\ AddrThreads
    BY <1>9, LightReturn DEF HandlerHandoverRequest
  <2>2. ctx \in [Ues -> Tunnels] /\ told \in [Ues -> SUBSET ({0} \cup Teids)]
        /\ thr[h].ue \in Ues
    BY <1>9, <1>t DEF HandlerHandoverRequest, At, Shape, TypeOK
  <2>3. \A v \in Ues : ctx'[v].teid \in {ctx[v].teid, 0} /\ ctx'[v].ip = ctx[v].ip
    <3>1. \A v \in Ues : /\ [ctx[v] EXCEPT !.teid = 0].teid = 0
                         /\ [ctx[v] EXCEPT !.teid = 0].ip = ctx[v].ip
      BY <2>2 DEF Tunnels
    <3>2. ctx' = [ctx EXCEPT ![thr[h].ue] = [ctx[thr[h].ue] EXCEPT !.teid = 0]]
      BY <1>9 DEF HandlerHandoverRequest
    <3> QED
      BY <2>2, <3>1, <3>2
  <2>4. \A v \in Ues : told'[v] \subseteq told[v] \cup {0}
    <3>1. told' = told \/ told' = [told EXCEPT ![thr[h].ue] = @ \cup {0}]
      BY <1>9 DEF HandlerHandoverRequest
    <3> QED
      BY <2>2, <3>1
  <2>5. UNCHANGED <<sess, toldIp, took, teidGen, ips, ipGen>>
    BY <1>9 DEF HandlerHandoverRequest
  <2>6. TeidData
    BY <2>3, <2>4, <2>5 DEF TeidData, Known
  <2>7. AddrData
    BY <2>3, <2>5 DEF AddrData, KnownIps
  <2> QED
    BY <2>1, <2>5, <2>6, <2>7, <1>q
<1>10. ASSUME NEW h \in Threads, HandlePathSwitchTrigger(h) PROVE Quiet
  <2>1. TeidThreads /\ AddrThreads
    BY <1>10, LightReturn DEF HandlePathSwitchTrigger
  <2>2. \A v \in Ues : told'[v] \subseteq told[v] \cup {ctx[v].teid}
    BY <1>10, <1>t DEF HandlePathSwitchTrigger, TypeOK
  <2>3. UNCHANGED <<ctx, sess, toldIp, took, teidGen, ips, ipGen>>
    BY <1>10 DEF HandlePathSwitchTrigger
  <2>4. TeidData
    BY <2>2, <2>3 DEF TeidData, Known
  <2>5. AddrData
    BY <2>3 DEF AddrData, KnownIps
  <2> QED
    BY <2>1, <2>3, <2>4, <2>5, <1>q
<1>11. ASSUME NEW h \in Threads, SwitchSession(h) PROVE Quiet
  <2>1. PICK s \in thr[h].todo : thr' = [thr EXCEPT ![h].todo = @ \ {s}]
    BY <1>11 DEF SwitchSession
  <2> DEFINE y == [thr[h] EXCEPT !.todo = @ \ {s}]
  <2>2. y.pc = "start" /\ thr' = [thr EXCEPT ![h] = y]
    BY <1>11, <1>t, <2>1 DEF SwitchSession, At, ThreadType
  <2> HIDE DEF y
  <2>3. TeidThreads /\ AddrThreads
    BY <2>2, LightStep DEF Light
  <2> QED
    BY <1>11, <2>3, <1>s DEF SwitchSession
<1>12. ASSUME NEW h \in Threads, HandlerInitialContextSetupRequest(h) PROVE Quiet
  <2>1. TeidThreads /\ AddrThreads
    BY <1>12, LightReturn, LightSession DEF HandlerInitialContextSetupRequest
  <2> QED
    BY <1>12, <2>1, <1>s DEF HandlerInitialContextSetupRequest
<1>13. ASSUME NEW h \in Threads, HandlerPduSessionResourceSetupRequest(h) PROVE Quiet
  <2>1. TeidThreads /\ AddrThreads
    BY <1>13, LightReturn, LightGoto DEF HandlerPduSessionResourceSetupRequest
  <2> QED
    BY <1>13, <2>1, <1>s DEF HandlerPduSessionResourceSetupRequest
<1>14. ASSUME NEW h \in Threads, CreatePduSession(h) PROVE Quiet
  <2>1. thr[h].pc = "create" /\ thr[h].ue \in Ues
    BY <1>14, <1>t DEF CreatePduSession, At, Shape
  <2>2. TeidThreads /\ AddrThreads
    <3>1. CASE thr[h].kind = "ics"
      BY <1>14, <3>1, LightSession DEF CreatePduSession
    <3>2. CASE thr[h].kind # "ics"
      <4>1. Goto(h, "resp")
        BY <1>14, <3>2 DEF CreatePduSession
      <4>2. \A x \in Threads \ {h} : thr'[x] = thr[x]
        BY <1>t, <4>1 DEF Goto, TypeOK
      <4>3. thr'[h].pc = "resp" /\ thr'[h].ue = thr[h].ue /\ thr'[h].ip = thr[h].ip
        BY <1>t, <4>1 DEF Goto, TypeOK, ThreadType
      <4>4. TeidThreads
        BY <4>2, <4>3 DEF TeidThreads, Carriers
      <4>5. AddrThreads
        BY <2>1, <4>2, <4>3 DEF AddrThreads, HasIp
      <4> QED
        BY <4>4, <4>5
    <3> QED
      BY <3>1, <3>2
  <2>3. \A v \in Ues : ctx'[v] = IF v = thr[h].ue
                                 THEN [teid |-> thr[h].teid, ip |-> thr[h].ip] ELSE ctx[v]
    BY <1>14, <1>t DEF CreatePduSession, TypeOK
  <2>4. \A v \in Ues, s \in Sessions :
          \/ sess'[v][s] = sess[v][s]
          \/ v = thr[h].ue /\ sess'[v][s] = [teid |-> thr[h].teid, ip |-> thr[h].ip]
    <3> DEFINE tun == [teid |-> thr[h].teid, ip |-> thr[h].ip]
    <3>1. sess' = sess \/ sess' = [sess EXCEPT ![thr[h].ue] =
                                     [sess[thr[h].ue] EXCEPT ![thr[h].sid] = tun]]
      BY <1>14 DEF CreatePduSession
    <3>2. sess \in [Ues -> [Sessions -> Tunnels]]
      BY <1>t DEF TypeOK
    <3> HIDE DEF tun
    <3>3. \A v \in Ues, s \in Sessions :
            sess'[v][s] = sess[v][s] \/ (v = thr[h].ue /\ sess'[v][s] = tun)
      BY <3>1, <3>2
    <3> QED
      BY <3>3 DEF tun
  <2>5. thr[h].teid \in ThrTeids(thr[h].ue) /\ thr[h].ip \in ThrIps(thr[h].ue)
    BY <2>1 DEF ThrTeids, ThrIps, Carriers, HasIp
  <2>6. UNCHANGED <<told, toldIp, took, teidGen, ips, ipGen>>
    BY <1>14 DEF CreatePduSession
  <2>7. \A v \in Ues : /\ ctx'[v].teid \in Known(v) \cup ThrTeids(v)
                       /\ ctx'[v].ip \in KnownIps(v) \cup ThrIps(v)
    BY <2>3, <2>5 DEF Known, KnownIps
  <2>8. \A v \in Ues, s \in Sessions : /\ sess'[v][s].teid \in Known(v) \cup ThrTeids(v)
                                       /\ sess'[v][s].ip \in KnownIps(v) \cup ThrIps(v)
    BY <2>4, <2>5 DEF Known, KnownIps
  <2>9. TeidData
    <3>1. \A v \in Ues : told'[v] \subseteq Known(v)
      BY <2>6 DEF Known
    <3> QED
      BY <2>7, <2>8, <3>1 DEF TeidData, Known
  <2>10. AddrData
    <3>1. \A v \in Ues : toldIp'[v] \subseteq KnownIps(v) /\ toldIp'[v] \subseteq toldIp[v]
      BY <2>6 DEF KnownIps
    <3> QED
      BY <2>7, <2>8, <3>1 DEF AddrData, KnownIps
  <2> QED
    BY <2>2, <2>6, <2>9, <2>10, <1>q
<1>15. ASSUME NEW h \in Threads, SendInitialContextSetupResponse(h) PROVE Quiet
  <2>1. TeidThreads /\ AddrThreads
    BY <1>15, LightReturn DEF SendInitialContextSetupResponse
  <2>2. \A v \in Ues : \A t \in told'[v] :
          t \in told[v] \/ \E s \in Sessions : t = sess[v][s].teid
    BY <1>15, <1>t DEF SendInitialContextSetupResponse, TypeOK
  <2>3. UNCHANGED <<ctx, sess, toldIp, took, teidGen, ips, ipGen>>
    BY <1>15 DEF SendInitialContextSetupResponse
  <2>4. TeidData
    BY <2>2, <2>3 DEF TeidData, Known
  <2>5. AddrData
    BY <2>3 DEF AddrData, KnownIps
  <2> QED
    BY <2>1, <2>3, <2>4, <2>5, <1>q
<1>16. ASSUME NEW h \in Threads, SendPduSessionResourceSetupResponse(h) PROVE Quiet
  <2>1. /\ thr[h].pc = "resp" /\ thr[h].kind = "su" /\ thr[h].ue \in Ues
        /\ thr[h].sid \in Sessions /\ Goto(h, "n3")
    BY <1>16, <1>t DEF SendPduSessionResourceSetupResponse, At, Shape
  <2>2. \A x \in Threads \ {h} : thr'[x] = thr[x]
    BY <1>t, <2>1 DEF Goto, TypeOK
  <2>3. thr'[h].pc = "n3" /\ thr'[h].ue = thr[h].ue /\ thr'[h].ip = thr[h].ip
    BY <1>t, <2>1 DEF Goto, TypeOK, ThreadType
  <2>4. TeidThreads
    BY <2>2, <2>3 DEF TeidThreads, Carriers
  <2>5. AddrThreads
    BY <2>1, <2>2, <2>3 DEF AddrThreads, HasIp
  <2>6. \A v \in Ues : \A t \in told'[v] :
          t \in told[v] \/ \E s \in Sessions : t = sess[v][s].teid
    <3>1. told \in [Ues -> SUBSET ({0} \cup Teids)]
      BY <1>t DEF TypeOK
    <3>2. \/ UNCHANGED told
          \/ told' = [told EXCEPT ![thr[h].ue] =
                        @ \cup {sess[thr[h].ue][thr[h].sid].teid}]
      BY <1>16 DEF SendPduSessionResourceSetupResponse
    <3> QED
      BY <2>1, <3>1, <3>2
  <2>7. UNCHANGED <<ctx, sess, toldIp, took, teidGen, ips, ipGen>>
    BY <1>16 DEF SendPduSessionResourceSetupResponse
  <2>8. TeidData
    BY <2>6, <2>7 DEF TeidData, Known
  <2>9. AddrData
    BY <2>7 DEF AddrData, KnownIps
  <2> QED
    BY <2>4, <2>5, <2>7, <2>8, <2>9, <1>q
<1>17. ASSUME NEW h \in Threads, InitUserPlane(h) PROVE Quiet
  <2>1. TeidThreads /\ AddrThreads
    BY <1>17, LightReturn DEF InitUserPlane
  <2>2. thr[h].ip \in ThrIps(thr[h].ue)
    BY <1>17 DEF InitUserPlane, At, ThrIps, HasIp
  <2>3. \A v \in Ues : toldIp'[v] \subseteq toldIp[v] \cup ThrIps(v)
    BY <1>17, <1>t, <2>2 DEF InitUserPlane, TypeOK
  <2>4. UNCHANGED <<ctx, sess, told, took, teidGen, ips, ipGen>>
    BY <1>17 DEF InitUserPlane
  <2>5. TeidData
    BY <2>4 DEF TeidData, Known
  <2>6. AddrData
    BY <2>3, <2>4 DEF AddrData, KnownIps
  <2> QED
    BY <2>1, <2>4, <2>5, <2>6, <1>q
<1>18. ASSUME NEW h \in Threads, ReleaseContext(h) PROVE Quiet
  <2>1. TeidThreads /\ AddrThreads
    <3>1. ASSUME NEW u \in Named(h), thr' = [thr EXCEPT ![h].pc = "sess", ![h].ue = u]
          PROVE  TeidThreads /\ AddrThreads
      <4> DEFINE y == [thr[h] EXCEPT !.pc = "sess", !.ue = u]
      <4>1. thr' = [thr EXCEPT ![h] = y] /\ y.pc = "sess"
        BY <1>t, <3>1 DEF TypeOK, ThreadType
      <4> HIDE DEF y
      <4> QED
        BY <4>1, LightStep DEF Light
    <3> QED
      BY <1>18, <3>1, LightGoto DEF ReleaseContext
  <2> QED
    BY <1>18, <2>1, <1>s DEF ReleaseContext
<1>19. ASSUME NEW h \in Threads, ReleaseSessions(h) PROVE Quiet
  <2>1. TeidThreads /\ AddrThreads
    BY <1>19, LightGoto DEF ReleaseSessions
  <2> QED
    BY <1>19, <2>1, <1>s DEF ReleaseSessions
<1>20. ASSUME UNCHANGED <<thr, ctx, sess, told, toldIp, took, teidGen, ips, ipGen>> PROVE Quiet
  <2>1. TeidThreads /\ AddrThreads
    BY <1>20 DEF TeidThreads, AddrThreads
  <2> QED
    BY <1>20, <2>1, <1>s
<1>21. (\E u \in Ues : XnContextRelease(u)) \/ UNCHANGED vars => Quiet
  BY <1>20 DEF XnContextRelease, vars
<1> QED
  BY <1>1, <1>2, <1>3, <1>4, <1>5, <1>6, <1>7, <1>8, <1>9, <1>10, <1>11, <1>12, <1>13,
     <1>14, <1>15, <1>16, <1>17, <1>18, <1>19, <1>21 DEF Next, Run

-----------------------------------------------------------------------------
(* Who owns a TEID, as long as no allocations have overlapped.             *)

(* A TEID that has been taken is taken for one UE and is below the         *)
(* generator; one that is being taken is the generator's value.            *)
Taken ==
  /\ \A u \in Ues : \A t \in took[u] : t < teidGen
  /\ \A u, v \in Ues : u # v => took[u] \cap took[v] = {}

Allocating ==
  /\ \A x, y \in Threads : thr[x].pc = "teid2" /\ thr[y].pc = "teid2" => x = y
  /\ \A x \in Threads : thr[x].pc = "teid2" => thr[x].teid = teidGen

(* But for the TEIDs that a path switch has stored, the pool names for a   *)
(* UE only TEIDs that were taken for it, and so do contexts, core and      *)
(* goroutines.                                                             *)
Held ==
  /\ \A t \in Teids : teidPool[t] # NoUe => t \in took[teidPool[t]] \/ t \in switched
  /\ \A u \in Ues : Known(u) \cup ThrTeids(u) \subseteq took[u] \cup {0}

(* Those of a UE whose context has not been released are in the pool.      *)
Mine(u, t) == t = 0 \/ t \in switched \/ (t \in Teids /\ teidPool[t] = u)
Placed == \A u \in Ues \ released : \A t \in Known(u) \cup ThrTeids(u) : Mine(u, t)

OwnerInv == Taken /\ Allocating /\ Held /\ Placed

LEMMA OwnerInit == Init => OwnerInv
<1> SUFFICES ASSUME Init PROVE OwnerInv
  OBVIOUS
<1>1. Taken
  BY DEF Init, Taken
<1>2. Allocating
  BY DEF Init, Allocating, Free, Thread
<1>3. \A u \in Ues : Known(u) \cup ThrTeids(u) \subseteq {0}
  <2>1. \A u \in Ues : Known(u) \subseteq {0}
    BY DEF Init, Known, NoTunnel
  <2>2. \A x \in Threads : thr[x].pc \notin Carriers
    BY DEF Init, Free, Thread, Carriers
  <2>3. \A u \in Ues : ThrTeids(u) = {}
    BY <2>2 DEF ThrTeids
  <2> QED
    BY <2>1, <2>3
<1>4. Held
  BY <1>3 DEF Init, Held
<1>5. Placed
  BY <1>3 DEF Placed, Mine
<1> QED
  BY <1>1, <1>2, <1>4, <1>5 DEF OwnerInv

(* What a step of Next other than those on TEIDs, addresses and pools      *)
(* leaves alone.                                                           *)
LEMMA PoolsAlone ==
  ASSUME [Next]_vars
  PROVE  \/ UNCHANGED <<teidPool, ueIpPool, switched, released>>
         \/ \E h \in Threads : \/ StoreTeid(h) \/ StoreUeIp(h) \/ SwitchSession(h)
                               \/ ReleaseContext(h) \/ ReleaseSessions(h)
<1> DEFINE Alone == UNCHANGED <<teidPool, ueIpPool, switched, released>>
<1> USE DEF poolVars
<1>1. ASSUME NEW h \in Threads, Run(h),
             ~StoreTeid(h), ~StoreUeIp(h), ~SwitchSession(h), ~ReleaseContext(h),
             ~ReleaseSessions(h)
      PROVE  Alone
  BY <1>1
     DEF Run, GetRanUeId, StepRanUeId, GetUeTeid, GetRanUeIp, HandlerHandoverRequest,
         HandlePathSwitchTrigger, HandleTargetAccessTrigger,
         HandlerPathSwitchRequestAcknowledge, DispatchNas, HandlerUeInitialized,
         HandlerUeOngoing, HandlerDownlinkNasTransport, HandlerInitialContextSetupRequest,
         HandlerPduSessionResourceSetupRequest, CreatePduSession,
         SendInitialContextSetupResponse, SendPduSessionResourceSetupResponse, InitUserPlane,
         ReleaseComplete
<1>2. ASSUME NEW h \in Handlers, Arrive(h) PROVE Alone
  BY <1>2 DEF Arrive, UeSends, AmfSendsNas, AmfSetsUpContext, AmfSetsUpSession, AmfReleases,
              AmfRequestsHandover, AmfSwitchesPath, Receive
<1>3. (\E u \in Ues : AcceptUe(u) \/ XnContextRelease(u)) \/ UNCHANGED vars => Alone
  BY DEF AcceptUe, XnContextRelease, vars
<1> QED
  BY <1>1, <1>2, <1>3 DEF Next

LEMMA HistoryGrows ==
  ASSUME [Next]_vars PROVE switched \subseteq switched' /\ released \subseteq released'
BY PoolsAlone DEF StoreTeid, StoreUeIp, SwitchSession, ReleaseContext, ReleaseSessions, poolVars

(* A UE loses an entry of a pool to its own release.                       *)
LosesTo(u) ==
  \E h \in Handlers : /\ thr'[h].ue = u /\ u \in released'
                      /\ thr[h].kind \in {"ucr", "ucrAmf"}
                      /\ thr'[h] # thr[h]

(* The goroutine of a release before and after it deletes.                 *)
LEMMA ReleaseStep ==
  ASSUME TypeInv, NEW h \in Threads, ReleaseContext(h) \/ ReleaseSessions(h)
  PROVE  \/ UNCHANGED <<teidPool, ueIpPool, released>>
         \/ \E u \in Ues :
              /\ LosesTo(u)
              /\ \A t \in Teids : teidPool'[t] # teidPool[t] => t \in Known(u) /\ teidPool'[t] = NoUe
              /\ \A i \in Ips : ueIpPool'[i] # ueIpPool[i] => i \in KnownIps(u) /\ ueIpPool'[i] = NoUe
<1> DEFINE Loses(u) ==
      /\ \A t \in Teids : teidPool'[t] # teidPool[t] => t \in Known(u) /\ teidPool'[t] = NoUe
      /\ \A i \in Ips : ueIpPool'[i] # ueIpPool[i] => i \in KnownIps(u) /\ ueIpPool'[i] = NoUe
<1>t. TypeOK /\ Shape(h) /\ thr[h] \in ThreadType
  BY DEF TypeInv, ShapeInv, TypeOK
<1>1. ASSUME NEW u \in Named(h), ReleaseContext(h),
             teidPool' = Delete(teidPool, {ctx[u].teid}),
             ueIpPool' = Delete(ueIpPool, {ctx[u].ip}), released' = released \cup {u},
             thr' = [thr EXCEPT ![h].pc = "sess", ![h].ue = u]
      PROVE  u \in Ues /\ LosesTo(u) /\ Loses(u)
  <2>1. thr[h].pc = "start" /\ thr[h].kind \in {"ucr", "ucrAmf"} /\ h \in Handlers
    BY <1>1, <1>t DEF ReleaseContext, At, Shape
  <2>2. thr'[h].pc = "sess" /\ thr'[h].ue = u
    BY <1>1, <1>t DEF TypeOK, ThreadType
  <2>3. u \in Ues
    BY <1>t DEF Named, GetGnbUe, TypeOK
  <2>4. LosesTo(u)
    BY <1>1, <2>1, <2>2 DEF LosesTo
  <2>5. \A t \in Teids : teidPool'[t] # teidPool[t] => t \in Known(u) /\ teidPool'[t] = NoUe
    BY <1>1, <1>t DEF Delete, TypeOK, Known
  <2>6. \A i \in Ips : ueIpPool'[i] # ueIpPool[i] => i \in KnownIps(u) /\ ueIpPool'[i] = NoUe
    BY <1>1, <1>t DEF Delete, TypeOK, KnownIps
  <2> QED
    BY <2>3, <2>4, <2>5, <2>6
<1>2. ASSUME ReleaseSessions(h) PROVE \E u \in Ues : LosesTo(u) /\ Loses(u)
  <2> DEFINE u == thr[h].ue
  <2>1. /\ thr[h].pc = "sess" /\ thr[h].kind \in {"ucr", "ucrAmf"} /\ h \in Handlers
        /\ u \in Ues /\ u \in released
    BY <1>2, <1>t DEF ReleaseSessions, At, Shape
  <2>2. thr'[h].pc = "done" /\ thr'[h].ue = u
    BY <1>2, <1>t DEF ReleaseSessions, Goto, TypeOK, ThreadType
  <2>3. LosesTo(u)
    BY <1>2, <2>1, <2>2 DEF LosesTo, ReleaseSessions
  <2>4. \A t \in Teids : teidPool'[t] # teidPool[t] => t \in Known(u) /\ teidPool'[t] = NoUe
    BY <1>2, <1>t DEF ReleaseSessions, Delete, TypeOK, Known
  <2>5. \A i \in Ips : ueIpPool'[i] # ueIpPool[i] => i \in KnownIps(u) /\ ueIpPool'[i] = NoUe
    BY <1>2, <1>t DEF ReleaseSessions, Delete, TypeOK, KnownIps
  <2> QED
    BY <2>1, <2>3, <2>4, <2>5
<1>3. ReleaseContext(h) => \/ UNCHANGED <<teidPool, ueIpPool, released>>
                           \/ \E u \in Ues : LosesTo(u) /\ Loses(u)
  BY <1>1 DEF ReleaseContext
<1> QED
  BY <1>2, <1>3

(* An entry of teidPool changes to a TEID of the UPF, or goes in the       *)
(* release of its owner, or is a TEID that is being taken.                 *)
LEMMA TeidPoolStep ==
  ASSUME TypeInv, OwnerInv, [Next]_vars, NEW t \in Teids, teidPool'[t] # teidPool[t]
  PROVE  \/ t \in switched'
         \/ teidPool'[t] = NoUe /\ LosesTo(teidPool[t])
         \/ \E h \in Threads : StoreTeid(h) /\ t = thr[h].teid
<1> DEFINE Goal == \/ t \in switched'
                   \/ teidPool'[t] = NoUe /\ LosesTo(teidPool[t])
                   \/ \E h \in Threads : StoreTeid(h) /\ t = thr[h].teid
<1>t. TypeOK
  BY DEF TypeInv
<1>1. ASSUME NEW h \in Threads, StoreTeid(h) PROVE Goal
  BY <1>1, <1>t DEF StoreTeid, Store, TypeOK
<1>2. ASSUME NEW h \in Threads, SwitchSession(h) PROVE Goal
  BY <1>2, <1>t DEF SwitchSession, Store, TypeOK
<1>3. ASSUME NEW h \in Threads, ReleaseContext(h) \/ ReleaseSessions(h) PROVE Goal
  <2>1. PICK u \in Ues : LosesTo(u) /\ t \in Known(u) /\ teidPool'[t] = NoUe
    BY <1>3, ReleaseStep
  <2>2. t \in took[u]
    BY <2>1 DEF OwnerInv, Held, Teids
  <2>3. teidPool[t] \in Ues /\ (t \in took[teidPool[t]] \/ t \in switched)
    BY <1>t, <2>1 DEF TypeOK, OwnerInv, Held
  <2>4. teidPool[t] = u \/ t \in switched
    BY <2>2, <2>3 DEF OwnerInv, Taken
  <2> QED
    BY <2>1, <2>4, HistoryGrows
<1>4. ASSUME NEW h \in Threads, StoreUeIp(h) PROVE FALSE
  BY <1>4 DEF StoreUeIp
<1> QED
  BY <1>1, <1>2, <1>3, <1>4, PoolsAlone

LEMMA OwnerQuiet ==
  ASSUME TypeInv, OwnerInv, [Next]_vars, TeidThreads, TeidData, UNCHANGED took,
         \A h \in Threads : ~StoreTeid(h)
  PROVE  Held' /\ Placed'
<1>t. TypeOK /\ switched \subseteq switched' /\ released \subseteq released'
  BY HistoryGrows DEF TypeInv
<1>1. \A u \in Ues : ThrTeids(u)' \subseteq ThrTeids(u)
  BY DEF ThrTeids, TeidThreads
<1>2. \A u \in Ues : (Known(u) \cup ThrTeids(u))' \subseteq Known(u) \cup ThrTeids(u) \cup {0}
  BY <1>1 DEF TeidData
<1>3. \A t \in Teids : teidPool'[t] # teidPool[t] =>
        \/ t \in switched'
        \/ teidPool'[t] = NoUe /\ LosesTo(teidPool[t])
  BY TeidPoolStep
<1>4. Held'
  <2>1. \A t \in Teids : teidPool'[t] # NoUe => t \in took'[teidPool'[t]] \/ t \in switched'
    BY <1>t, <1>3 DEF OwnerInv, Held
  <2>2. \A u \in Ues : (Known(u) \cup ThrTeids(u))' \subseteq took'[u] \cup {0}
    BY <1>2 DEF OwnerInv, Held
  <2> QED
    BY <2>1, <2>2 DEF Held
<1>5. Placed'
  <2> SUFFICES ASSUME NEW u \in Ues \ released', NEW t \in (Known(u) \cup ThrTeids(u))'
               PROVE  Mine(u, t)'
    BY DEF Placed
  <2>1. u \in Ues \ released
    BY <1>t
  <2>2. Mine(u, t)
    BY <1>2, <2>1 DEF OwnerInv, Placed, Mine
  <2>3. ASSUME t \in Teids, teidPool[t] = u PROVE teidPool'[t] = u \/ t \in switched'
    BY <1>3, <2>3 DEF LosesTo
  <2> QED
    BY <1>t, <2>2, <2>3 DEF Mine
<1> QED
  BY <1>4, <1>5

LEMMA OwnerNext == ~teidOver' /\ TypeInv /\ OwnerInv /\ [Next]_vars => OwnerInv'
<1> SUFFICES ASSUME ~teidOver', TypeInv, OwnerInv, [Next]_vars PROVE OwnerInv'
  OBVIOUS
<1>t. TypeOK /\ \A h \in Threads : Shape(h) /\ thr[h] \in ThreadType
  BY DEF TypeInv, ShapeInv, TypeOK
<1>1. ASSUME TeidQuiet, \A h \in Threads : ~StoreTeid(h) PROVE OwnerInv'
  <2>1. TeidThreads /\ TeidData /\ UNCHANGED <<took, teidGen>>
    BY <1>1 DEF TeidQuiet
  <2>2. Taken'
    BY <2>1 DEF OwnerInv, Taken
  <2>3. Allocating'
    BY <2>1 DEF OwnerInv, Allocating, TeidThreads
  <2> QED
    BY <1>1, <2>1, <2>2, <2>3, OwnerQuiet DEF OwnerInv
<1>2. ASSUME NEW h \in Threads, GetUeTeid(h) PROVE OwnerInv'
  <2>1. \A x \in Threads \ {h} : thr[x].pc # "teid2"
    BY <1>2, Zenon DEF GetUeTeid, At
  <2>2. thr'[h].pc = "teid2" /\ thr'[h].teid = teidGen
    BY <1>2, <1>t DEF GetUeTeid, TypeOK, ThreadType
  <2>3. \A x \in Threads \ {h} : thr'[x] = thr[x]
    BY <1>2, <1>t DEF GetUeTeid, TypeOK
  <2>4. UNCHANGED <<took, teidGen, ctx, sess, teidPool, told, switched, released>>
    BY <1>2 DEF GetUeTeid, ueVars, poolVars, toldVars
  <2>5. Allocating'
    BY <2>1, <2>2, <2>3, <2>4 DEF Allocating
  <2>6. Taken'
    BY <2>4 DEF OwnerInv, Taken
  <2>7. \A u \in Ues : (Known(u) \cup ThrTeids(u))' \subseteq Known(u) \cup ThrTeids(u)
    <3>1. \A u \in Ues : ThrTeids(u)' \subseteq ThrTeids(u)
      BY <2>2, <2>3 DEF ThrTeids, Carriers
    <3>2. \A u \in Ues : Known(u)' = Known(u)
      BY <2>4 DEF Known
    <3> QED
      BY <3>1, <3>2
  <2>8. Held'
    BY <2>4, <2>7 DEF OwnerInv, Held
  <2>9. Placed'
    BY <2>4, <2>7 DEF OwnerInv, Placed, Mine
  <2> QED
    BY <2>5, <2>6, <2>8, <2>9 DEF OwnerInv
<1>3. ASSUME NEW h \in Threads, StoreTeid(h) PROVE OwnerInv'
  <2> DEFINE u == thr[h].ue
             t == thr[h].teid
  <2>1. thr[h].pc = "teid2" /\ u \in Ues /\ t \in Teids /\ t = teidGen
    BY <1>3, <1>t DEF StoreTeid, At, Shape, OwnerInv, Allocating
  <2>2. \A v \in Ues : took'[v] = IF v = u THEN took[v] \cup {t} ELSE took[v]
    BY <1>3, <1>t, <2>1 DEF StoreTeid, TypeOK
  <2>3. teidGen' = t + 1
    BY <1>3 DEF StoreTeid, AfterTeid
  <2>4. \A v \in Ues : \A x \in took[v] : x \in Nat /\ x < t
    BY <1>t, <2>1 DEF OwnerInv, Taken, TypeOK, Teids
  <2>5. \A v \in Ues : t \notin took[v]
    BY <2>1, <2>4 DEF Teids
  <2>6. Taken'
    <3> HIDE DEF u, t
    <3>1. ASSUME NEW v \in Ues, NEW x \in took'[v] PROVE x < teidGen'
      <4>1. x \in took[v] \/ x = t
        BY <2>2
      <4> QED
        BY <2>1, <2>3, <2>4, <4>1 DEF Teids
    <3>2. ASSUME NEW v \in Ues, NEW w \in Ues, v # w PROVE took'[v] \cap took'[w] = {}
      <4>1. took[v] \cap took[w] = {}
        BY <3>2 DEF OwnerInv, Taken
      <4> QED
        BY <2>2, <2>5, <3>2, <4>1
    <3> QED
      BY <3>1, <3>2 DEF Taken
  <2>7. \A x \in Threads \ {h} : thr'[x] = thr[x] /\ thr[x].pc # "teid2"
    BY <1>3, <1>t, <2>1 DEF StoreTeid, Goto, TypeOK, OwnerInv, Allocating
  <2>8. thr'[h].pc = "ip" /\ thr'[h].teid = t /\ thr'[h].ue = u
    BY <1>3, <1>t DEF StoreTeid, Goto, TypeOK, ThreadType
  <2>9. Allocating'
    BY <2>7, <2>8 DEF Allocating
  <2>10. \A x \in Teids : teidPool'[x] = IF x = t THEN u ELSE teidPool[x]
    BY <1>3, <1>t DEF StoreTeid, Store, TypeOK
  <2>11. \A v \in Ues : ctx'[v].teid = ctx[v].teid \/ (v = u /\ ctx'[v].teid = t)
    BY <1>3, <1>t, <2>1 DEF StoreTeid, TypeOK, Tunnels
  <2>12. UNCHANGED <<sess, told, switched, released>>
    BY <1>3 DEF StoreTeid, toldVars
  <2> HIDE DEF u, t
  <2>13. \A v \in Ues : \A x \in (Known(v) \cup ThrTeids(v))' :
           x \in Known(v) \cup ThrTeids(v) \/ (v = u /\ x = t)
    <3>1. \A v \in Ues : \A x \in Known(v)' : x \in Known(v) \/ (v = u /\ x = t)
      BY <2>11, <2>12 DEF Known
    <3>2. \A v \in Ues : \A x \in ThrTeids(v)' : x \in ThrTeids(v) \/ (v = u /\ x = t)
      BY <2>7, <2>8 DEF ThrTeids
    <3> QED
      BY <3>1, <3>2
  <2>14. Held'
    <3>1. \A x \in Teids : teidPool[x] # NoUe =>
            teidPool[x] \in Ues /\ (x \in took[teidPool[x]] \/ x \in switched)
      BY <1>t DEF OwnerInv, Held, TypeOK
    <3>2. \A x \in Teids : teidPool'[x] # NoUe => x \in took'[teidPool'[x]] \/ x \in switched'
      BY <2>1, <2>2, <2>10, <2>12, <3>1
    <3>3. ASSUME NEW v \in Ues, NEW x \in (Known(v) \cup ThrTeids(v))'
          PROVE  x \in took'[v] \cup {0}
      BY <2>2, <2>13 DEF OwnerInv, Held
    <3> QED
      BY <3>2, <3>3 DEF Held
  <2>15. Placed'
    <3> SUFFICES ASSUME NEW v \in Ues \ released', NEW x \in (Known(v) \cup ThrTeids(v))'
                 PROVE  Mine(v, x)'
      BY DEF Placed
    <3>1. CASE v = u /\ x = t
      BY <2>1, <2>10, <3>1 DEF Mine
    <3>2. CASE x \in Known(v) \cup ThrTeids(v)
      <4>1. Mine(v, x) /\ (x \in took[v] \/ x = 0)
        BY <2>12, <3>2 DEF OwnerInv, Placed, Held
      <4>2. x # t
        BY <2>1, <2>5, <4>1 DEF Teids
      <4> QED
        BY <2>10, <2>12, <4>1, <4>2 DEF Mine
    <3> QED
      BY <2>13, <3>1, <3>2
  <2> QED
    BY <2>6, <2>9, <2>14, <2>15 DEF OwnerInv
<1> QED
  BY <1>1, <1>2, <1>3, QuietStep

LEMMA OverlapStays ==
  [Next]_vars => (teidOver => teidOver') /\ (ipOver => ipOver')
<1> SUFFICES ASSUME [Next]_vars PROVE (teidOver => teidOver') /\ (ipOver => ipOver')
  OBVIOUS
<1>1. ASSUME NEW h \in Threads, GetUeTeid(h)
      PROVE  (teidOver => teidOver') /\ UNCHANGED ipOver
  BY <1>1, Zenon DEF GetUeTeid
<1>2. ASSUME NEW h \in Threads, GetRanUeIp(h)
      PROVE  (ipOver => ipOver') /\ UNCHANGED teidOver
  BY <1>2, Zenon DEF GetRanUeIp
<1>3. ASSUME NEW h \in Threads, Run(h), ~GetUeTeid(h), ~GetRanUeIp(h)
      PROVE  UNCHANGED <<teidOver, ipOver>>
  BY <1>3
     DEF Run, genVars, GetRanUeId, StepRanUeId, StoreTeid, StoreUeIp, HandlerHandoverRequest,
         HandlePathSwitchTrigger, HandleTargetAccessTrigger, SwitchSession,
         HandlerPathSwitchRequestAcknowledge, DispatchNas, HandlerUeInitialized,
         HandlerUeOngoing, HandlerDownlinkNasTransport, HandlerInitialContextSetupRequest,
         HandlerPduSessionResourceSetupRequest, CreatePduSession,
         SendInitialContextSetupResponse, SendPduSessionResourceSetupResponse, InitUserPlane,
         ReleaseContext, ReleaseSessions, ReleaseComplete
<1>4. ASSUME NEW h \in Handlers, Arrive(h) PROVE UNCHANGED <<teidOver, ipOver>>
  BY <1>4 DEF Arrive, UeSends, AmfSendsNas, AmfSetsUpContext, AmfSetsUpSession, AmfReleases,
              AmfRequestsHandover, AmfSwitchesPath, Receive, genVars
<1>5. (\E u \in Ues : AcceptUe(u) \/ XnContextRelease(u)) \/ UNCHANGED vars
        => UNCHANGED <<teidOver, ipOver>>
  BY DEF AcceptUe, XnContextRelease, vars, genVars
<1> QED
  BY <1>1, <1>2, <1>3, <1>4, <1>5 DEF Next

LEMMA Ownership == Spec => [](TypeInv /\ (teidOver \/ OwnerInv))
<1> DEFINE Inv == teidOver \/ OwnerInv
<1>1. Init => Inv
  BY OwnerInit
<1>2. TypeInv /\ Inv /\ [Next]_vars => Inv'
  <2> SUFFICES ASSUME TypeInv, Inv, [Next]_vars, ~teidOver' PROVE OwnerInv'
    OBVIOUS
  <2>1. ~teidOver
    BY OverlapStays
  <2> QED
    BY <2>1, OwnerNext
<1> QED
  BY <1>1, <1>2, TypeInit, TypeNext, PTL DEF Spec

(* For any number of UEs, sessions and goroutines, and however set-ups,    *)
(* handovers and releases are interleaved, a TEID that the core has been   *)
(* told for a UE never leads gtpListen to another UE, unless GetUeTeid was *)
(* overlapped or a path switch stored the same number.                     *)
THEOREM Downlink == Spec => []DownlinkToOwner
<1>1. TypeInv /\ (teidOver \/ OwnerInv) => DownlinkToOwner
  <2> SUFFICES ASSUME TypeInv, OwnerInv, NEW u \in Ues, NEW t \in told[u] \ {0}
               PROVE  GetGnbUeByTeid(t) \in {u, NoUe} \/ t \in switched
    BY DEF DownlinkToOwner
  <2>1. t \in Known(u)
    BY DEF Known
  <2>2. t \in Teids /\ t \in took[u]
    BY <2>1 DEF TypeInv, TypeOK, OwnerInv, Held
  <2>3. teidPool[t] \in Ues \cup {NoUe}
    BY <2>2 DEF TypeInv, TypeOK
  <2>4. teidPool[t] # NoUe => t \in took[teidPool[t]] \/ t \in switched
    BY <2>2 DEF OwnerInv, Held
  <2> QED
    BY <2>2, <2>3, <2>4 DEF OwnerInv, Taken, GetGnbUeByTeid
<1> QED
  BY <1>1, Ownership, PTL

(* For any number of UEs, sessions and goroutines, a UE loses a downlink   *)
(* tunnel only to a UE Context Release Command of its own or to a path     *)
(* switch that stores the same number, unless GetUeTeid was overlapped.    *)
THEOREM Kept == Spec => TunnelKept
<1> DEFINE Inv == TypeInv /\ (teidOver \/ OwnerInv)
           Keep == ~teidOver' =>
                     \A t \in Teids : teidPool[t] # NoUe /\ teidPool'[t] # teidPool[t] =>
                       \/ t \in switched'
                       \/ \E h \in Handlers : /\ thr'[h].ue = teidPool[t]
                                              /\ thr[h].kind \in {"ucr", "ucrAmf"}
                                              /\ thr'[h] # thr[h]
<1>1. Inv /\ Inv' /\ [Next]_vars => Keep
  <2> SUFFICES ASSUME Inv, Inv', [Next]_vars, ~teidOver', NEW t \in Teids,
                      teidPool[t] # NoUe, teidPool'[t] # teidPool[t]
               PROVE  \/ t \in switched'
                      \/ \E h \in Handlers : /\ thr'[h].ue = teidPool[t]
                                             /\ thr[h].kind \in {"ucr", "ucrAmf"}
                                             /\ thr'[h] # thr[h]
    OBVIOUS
  <2>1. TypeInv /\ OwnerInv
    BY OverlapStays
  <2>2. ASSUME NEW h \in Threads, StoreTeid(h), t = thr[h].teid PROVE t \in switched'
    <3>1. t = teidGen /\ UNCHANGED switched
      BY <2>1, <2>2 DEF StoreTeid, At, OwnerInv, Allocating
    <3>2. teidPool[t] \in Ues /\ (t \in took[teidPool[t]] \/ t \in switched)
      BY <2>1 DEF TypeInv, TypeOK, OwnerInv, Held
    <3>3. t \in took[teidPool[t]] => t < teidGen
      BY <2>1, <3>2 DEF OwnerInv, Taken
    <3> QED
      BY <3>1, <3>2, <3>3 DEF Teids
  <2> QED
    BY <2>1, <2>2, TeidPoolStep DEF LosesTo
<1>2. Inv /\ Inv' /\ [Next]_vars => [Keep]_vars
  BY <1>1
<1> QED
  BY <1>2, Ownership, PTL DEF Spec, TunnelKept

-----------------------------------------------------------------------------
(* Who owns an address, as long as no allocations have overlapped and the  *)
(* generator has not gone round.  Off counts the addresses from FirstIp;   *)
(* those below ips have been taken.  own gives each of them its UE.        *)
Off(i) == IF i >= FirstIp THEN i - FirstIp ELSE (i + IpMod) - FirstIp

Loading ==
  /\ ips < IpMod => Off(ipGen) = ips
  /\ \A x, y \in Threads : thr[x].pc = "ip2" /\ thr[y].pc = "ip2" => x = y
  /\ \A x \in Threads : thr[x].pc = "ip2" => thr[x].ip = ipGen

(* Contexts, UEs and goroutines know of a UE's own addresses only, and     *)
(* those of a UE that has not been released are in the pool.               *)
Owned(own) ==
  /\ \A i \in Ips : own[i] # NoUe => Off(i) < ips
  /\ \A i \in Ips : ueIpPool[i] # NoUe => ueIpPool[i] = own[i]
  /\ \A u \in Ues : \A i \in KnownIps(u) \cup ThrIps(u) : i = NoIp \/ (i \in Ips /\ own[i] = u)
  /\ \A u \in Ues \ released : \A i \in toldIp[u] \cup ThrIps(u) : ueIpPool[i] = u

Owners == [Ips -> Ues \cup {NoUe}]

AddrInv == Loading /\ \E own \in Owners : Owned(own)

LEMMA OffType ==
  ASSUME NEW i \in Ips
  PROVE  Off(i) \in Nat /\ Off(i) < IpMod
BY IpAssumption DEF Off, Ips

LEMMA AfterIpOff ==
  ASSUME NEW i \in Ips, Off(i) + 1 < IpMod
  PROVE  Off(AfterIp(i)) = Off(i) + 1
<1>1. CASE i + 1 = IpMod
  <2>1. AfterIp(i) = 0
    BY <1>1, IpAssumption DEF AfterIp, Ips
  <2> QED
    BY <1>1, <2>1, IpAssumption DEF Off, Ips
<1>2. CASE i + 1 # IpMod
  <2>1. AfterIp(i) = i + 1
    BY <1>2, IpAssumption DEF AfterIp, Ips
  <2> QED
    BY <1>2, <2>1, IpAssumption DEF Off, Ips
<1> QED
  BY <1>1, <1>2

LEMMA NoIpNotIp == NoIp \notin Ips
BY IpAssumption DEF NoIp, Ips

LEMMA AddrInit == Init => AddrInv
<1> SUFFICES ASSUME Init PROVE AddrInv
  OBVIOUS
<1>1. Loading
  BY IpAssumption DEF Init, Loading, Off, Free, Thread
<1>2. PICK own \in Owners : own = [i \in Ips |-> NoUe]
  BY DEF Owners
<1>3. \A u \in Ues : KnownIps(u) \subseteq {NoIp} /\ toldIp[u] = {}
  BY DEF Init, KnownIps, NoTunnel
<1>4. \A u \in Ues : ThrIps(u) = {}
  <2>1. \A x \in Threads : ~HasIp(thr[x])
    BY DEF Init, Free, Thread, HasIp
  <2> QED
    BY <2>1 DEF ThrIps
<1>5. \A i \in Ips : own[i] = NoUe /\ ueIpPool[i] = NoUe
  BY <1>2 DEF Init
<1>6. Owned(own)
  BY <1>3, <1>4, <1>5 DEF Owned
<1> QED
  BY <1>1, <1>6 DEF AddrInv

LEMMA ThrIpsType == TypeInv => \A u \in Ues : ThrIps(u) \subseteq Ips
BY DEF TypeInv, TypeOK, ThreadType, ThrIps

(* A step that takes no address keeps every owner.                         *)
LEMMA OwnedQuiet ==
  ASSUME TypeInv, [Next]_vars, NEW own \in Owners, Owned(own), UNCHANGED ips,
         \A h \in Threads : ~StoreUeIp(h),
         \A u \in Ues : ThrIps(u)' \subseteq ThrIps(u), AddrData
  PROVE  Owned(own)'
<1>t. TypeOK /\ released \subseteq released'
  BY HistoryGrows DEF TypeInv
<1>1. \A i \in Ips : ueIpPool'[i] # ueIpPool[i] =>
        /\ ueIpPool'[i] = NoUe
        /\ ueIpPool[i] \in released'
  <2> SUFFICES ASSUME NEW i \in Ips, ueIpPool'[i] # ueIpPool[i]
               PROVE  ueIpPool'[i] = NoUe /\ ueIpPool[i] \in released'
    OBVIOUS
  <2>1. PICK h \in Threads : ReleaseContext(h) \/ ReleaseSessions(h)
    BY PoolsAlone DEF StoreTeid, SwitchSession
  <2>2. PICK u \in Ues : LosesTo(u) /\ i \in KnownIps(u) /\ ueIpPool'[i] = NoUe
    BY <2>1, ReleaseStep
  <2>3. own[i] = u
    BY <2>2, NoIpNotIp DEF Owned
  <2>4. ueIpPool[i] = u
    BY <2>2, <2>3 DEF Owned
  <2> QED
    BY <2>2, <2>4 DEF LosesTo
<1>2. \A i \in Ips : own[i] # NoUe => Off(i) < ips'
  BY DEF Owned
<1>3. \A i \in Ips : ueIpPool'[i] # NoUe => ueIpPool'[i] = own[i]
  BY <1>1 DEF Owned
<1>4. \A u \in Ues : \A i \in (KnownIps(u) \cup ThrIps(u))' :
        i = NoIp \/ (i \in Ips /\ own[i] = u)
  BY DEF Owned, AddrData
<1>5. ASSUME NEW u \in Ues \ released', NEW i \in toldIp'[u] \cup ThrIps(u)'
      PROVE  ueIpPool'[i] = u
  <2>1. u \in Ues \ released /\ i \in toldIp[u] \cup ThrIps(u)
    BY <1>t, <1>5 DEF AddrData
  <2>2. ueIpPool[i] = u /\ i \in Ips
    BY <1>t, <2>1, ThrIpsType DEF Owned, TypeOK
  <2> QED
    BY <1>1, <2>2
<1> QED
  BY <1>2, <1>3, <1>4, <1>5 DEF Owned, Off, NoIp

LEMMA AddrNext == ~ipOver' /\ ips' <= IpMod /\ TypeInv /\ AddrInv /\ [Next]_vars => AddrInv'
<1> SUFFICES ASSUME ~ipOver', ips' <= IpMod, TypeInv, AddrInv, [Next]_vars PROVE AddrInv'
  OBVIOUS
<1>t. TypeOK /\ \A h \in Threads : Shape(h) /\ thr[h] \in ThreadType
  BY DEF TypeInv, ShapeInv, TypeOK
<1>0. PICK own \in Owners : Owned(own)
  BY DEF AddrInv
<1>1. ASSUME AddrQuiet, \A h \in Threads : ~StoreUeIp(h) PROVE AddrInv'
  <2>1. Loading'
    BY <1>1 DEF AddrQuiet, AddrThreads, AddrInv, Loading, Off
  <2>2. \A u \in Ues : ThrIps(u)' \subseteq ThrIps(u)
    BY <1>1 DEF AddrQuiet, AddrThreads, ThrIps
  <2>3. Owned(own)'
    BY <1>0, <1>1, <2>2, OwnedQuiet DEF AddrQuiet
  <2> QED
    BY <2>1, <2>3 DEF AddrInv, Owners
<1>2. ASSUME NEW h \in Threads, GetRanUeIp(h), \A x \in Threads : ~StoreUeIp(x) PROVE AddrInv'
  <2>1. \A x \in Threads \ {h} : thr[x].pc # "ip2"
    BY <1>2, Zenon DEF GetRanUeIp, At
  <2>2. thr'[h].pc = "ip2" /\ thr'[h].ip = ipGen
    BY <1>2, <1>t DEF GetRanUeIp, TypeOK, ThreadType
  <2>3. \A x \in Threads \ {h} : thr'[x] = thr[x]
    BY <1>2, <1>t DEF GetRanUeIp, TypeOK
  <2>4. UNCHANGED <<ipGen, ips, ctx, sess, told, toldIp>>
    BY <1>2 DEF GetRanUeIp, ueVars, toldVars
  <2>5. Loading'
    BY <2>1, <2>2, <2>3, <2>4 DEF AddrInv, Loading, Off
  <2>6. \A u \in Ues : ThrIps(u)' \subseteq ThrIps(u)
    BY <2>2, <2>3 DEF ThrIps, HasIp
  <2>7. AddrData
    BY <2>4, SameData
  <2>8. Owned(own)'
    BY <1>0, <1>2, <2>4, <2>6, <2>7, OwnedQuiet
  <2> QED
    BY <2>5, <2>8 DEF AddrInv, Owners
<1>3. ASSUME NEW h \in Threads, StoreUeIp(h) PROVE AddrInv'
  <2> DEFINE u == thr[h].ue
             i == thr[h].ip
  <2>1. thr[h].pc = "ip2" /\ u \in Ues /\ i \in Ips /\ i = ipGen
    BY <1>3, <1>t DEF StoreUeIp, At, Shape, ThreadType, AddrInv, Loading
  <2>2. ips \in Nat /\ ips' = ips + 1 /\ ips < IpMod
    BY <1>3, <1>t, IpAssumption DEF StoreUeIp, TypeOK
  <2>3. Off(i) = ips
    BY <2>1, <2>2 DEF AddrInv, Loading
  <2>4. /\ ipGen' = AfterIp(i) /\ UNCHANGED <<sess, toldIp, released>>
        /\ \A j \in Ips : ueIpPool'[j] = IF j = i THEN u ELSE ueIpPool[j]
    BY <1>3, <1>t DEF StoreUeIp, Store, TypeOK, toldVars
  <2>5. /\ \A x \in Threads \ {h} : thr'[x] = thr[x] /\ thr[x].pc # "ip2"
        /\ thr'[h].pc # "ip2"
        /\ HasIp(thr'[h]) => thr'[h].ip = i /\ thr'[h].ue = u
    <3>1. \A x \in Threads \ {h} : thr[x].pc # "ip2"
      BY <2>1 DEF AddrInv, Loading
    <3>2. thr \in [Threads -> ThreadType]
      BY <1>t DEF TypeOK
    <3>3. CASE Return(h)
      BY <3>1, <3>2, <3>3 DEF Return, Free, Thread, HasIp
    <3>4. CASE Goto(h, "create")
      BY <3>1, <3>2, <3>4 DEF Goto, ThreadType
    <3>5. CASE Goto(h, "ho")
      BY <3>1, <3>2, <3>5 DEF Goto, ThreadType, HasIp
    <3> QED
      BY <1>3, <3>3, <3>4, <3>5 DEF StoreUeIp
  <2>6. Loading'
    <3>1. ips' < IpMod => Off(ipGen') = ips'
      BY <2>1, <2>2, <2>3, <2>4, AfterIpOff
    <3>2. Off(ipGen)' = Off(ipGen')
      BY DEF Off
    <3> QED
      BY <2>5, <3>1, <3>2 DEF Loading
  <2>7. own[i] = NoUe
    BY <1>0, <2>1, <2>2, <2>3 DEF Owned, Owners
  <2>8. PICK new \in Owners : \A j \in Ips : new[j] = IF j = i THEN u ELSE own[j]
    <3> DEFINE f == [j \in Ips |-> IF j = i THEN u ELSE own[j]]
    <3>1. f \in Owners
      BY <2>1 DEF Owners
    <3> QED
      BY <3>1
  <2>9. \A v \in Ues : ctx'[v].ip = ctx[v].ip \/ (v = u /\ ctx'[v].ip = i)
    <3>1. ctx \in [Ues -> Tunnels]
      BY <1>t DEF TypeOK
    <3>2. \A v \in Ues : [ctx[v] EXCEPT !.ip = thr[h].ip].ip = thr[h].ip
      BY <3>1 DEF Tunnels
    <3>3. \/ UNCHANGED ctx
          \/ ctx' = [ctx EXCEPT ![thr[h].ue] = [ctx[thr[h].ue] EXCEPT !.ip = thr[h].ip]]
      BY <1>3 DEF StoreUeIp
    <3> QED
      BY <3>1, <3>2, <3>3
  <2> HIDE DEF u, i
  <2>10. \A v \in Ues : \A j \in (KnownIps(v) \cup ThrIps(v))' :
           j \in KnownIps(v) \cup ThrIps(v) \/ (v = u /\ j = i)
    <3>1. \A v \in Ues : \A j \in KnownIps(v)' : j \in KnownIps(v) \/ (v = u /\ j = i)
      BY <2>4, <2>9 DEF KnownIps
    <3>2. \A v \in Ues : \A j \in ThrIps(v)' : j \in ThrIps(v) \/ (v = u /\ j = i)
      BY <2>5 DEF ThrIps
    <3> QED
      BY <3>1, <3>2
  <2>11. Owned(new)'
    <3>1. ASSUME NEW j \in Ips, new[j] # NoUe PROVE Off(j) < ips'
      <4>1. j = i \/ (own[j] # NoUe /\ Off(j) < ips)
        BY <1>0, <2>8, <3>1 DEF Owned
      <4> QED
        BY <2>2, <2>3, <4>1, OffType
    <3>2. \A j \in Ips : ueIpPool'[j] # NoUe => ueIpPool'[j] = new[j]
      BY <1>0, <2>4, <2>8 DEF Owned
    <3>3. ASSUME NEW v \in Ues, NEW j \in (KnownIps(v) \cup ThrIps(v))'
          PROVE  j = NoIp \/ (j \in Ips /\ new[j] = v)
      <4>1. CASE v = u /\ j = i
        BY <2>1, <2>8, <4>1
      <4>2. CASE j \in KnownIps(v) \cup ThrIps(v)
        <5>1. j = NoIp \/ (j \in Ips /\ own[j] = v)
          BY <1>0, <4>2 DEF Owned
        <5> QED
          BY <2>7, <2>8, <5>1, UesAssumption
      <4> QED
        BY <2>10, <4>1, <4>2
    <3>4. ASSUME NEW v \in Ues \ released', NEW j \in toldIp'[v] \cup ThrIps(v)'
          PROVE  ueIpPool'[j] = v
      <4>1. CASE v = u /\ j = i
        BY <2>1, <2>4, <4>1
      <4>2. CASE ~(v = u /\ j = i)
        <5>1. j \in toldIp[v] \cup ThrIps(v) /\ v \in Ues \ released
          <6>1. \A x \in ThrIps(v)' : x \in ThrIps(v) \/ (v = u /\ x = i)
            BY <2>5 DEF ThrIps
          <6> QED
            BY <2>4, <3>4, <4>2, <6>1
        <5>2. j \in Ips /\ ueIpPool[j] = v
          BY <1>0, <1>t, <5>1, ThrIpsType DEF Owned, TypeOK
        <5>3. own[j] = v
          BY <1>0, <5>2, UesAssumption DEF Owned
        <5> QED
          BY <2>4, <2>7, <5>2, <5>3, UesAssumption
      <4> QED
        BY <4>1, <4>2
    <3> QED
      BY <3>1, <3>2, <3>3, <3>4 DEF Owned, Off, NoIp
  <2> QED
    BY <2>6, <2>11 DEF AddrInv, Owners
<1> QED
  BY <1>1, <1>2, <1>3, QuietStep

LEMMA AddrGuardStays ==
  TypeInv /\ [Next]_vars /\ ~ipOver' /\ ips' <= IpMod => ~ipOver /\ ips <= IpMod
<1> SUFFICES ASSUME TypeInv, [Next]_vars, ~ipOver', ips' <= IpMod PROVE ~ipOver /\ ips <= IpMod
  OBVIOUS
<1>1. ips \in Nat /\ IpMod \in Nat
  BY IpAssumption DEF TypeInv, TypeOK
<1>2. ips' = ips \/ ips' = ips + 1
  BY QuietStep DEF AddrQuiet, GetRanUeIp, StoreUeIp
<1> QED
  BY <1>1, <1>2, OverlapStays

LEMMA Addresses == Spec => [](TypeInv /\ (~ipOver /\ ips <= IpMod => AddrInv))
<1> DEFINE Inv == ~ipOver /\ ips <= IpMod => AddrInv
<1>1. Init => Inv
  BY AddrInit
<1>2. TypeInv /\ Inv /\ [Next]_vars => Inv'
  BY AddrGuardStays, AddrNext
<1> QED
  BY <1>1, <1>2, TypeInit, TypeNext, PTL DEF Spec

(* For any number of UEs, sessions and goroutines and any width of the     *)
(* generator, an address that a UE has been told never leads gatewayListen *)
(* to another UE, unless the generator has gone round or getRanUeIp was    *)
(* overlapped.                                                             *)
THEOREM Uplink == Spec => []UplinkFromOwner
<1>1. TypeInv /\ (~ipOver /\ ips <= IpMod => AddrInv) => UplinkFromOwner
  <2> SUFFICES ASSUME TypeInv, AddrInv, NEW u \in Ues, NEW i \in toldIp[u]
               PROVE  ueIpPool[i] \in {u, NoUe}
    BY DEF UplinkFromOwner, GetGnbUeByIp
  <2>1. i \in Ips /\ i \in KnownIps(u)
    BY DEF TypeInv, TypeOK, KnownIps
  <2> QED
    BY <2>1, NoIpNotIp DEF AddrInv, Owned
<1> QED
  BY <1>1, Addresses, PTL

(* For any number of UEs, sessions and goroutines, and whatever becomes of *)
(* the other UEs, what core and UE have been told of a UE whose context    *)
(* has not been released is found by the readers: neither pool loses it.   *)
THEOREM ToldFound == Spec => []ToldPlaced
<1> DEFINE Teid == TypeInv /\ (teidOver \/ OwnerInv)
           Addr == TypeInv /\ (~ipOver /\ ips <= IpMod => AddrInv)
<1>1. Teid /\ Addr => ToldPlaced
  <2> SUFFICES ASSUME Teid, Addr, NEW u \in Ues \ released
               PROVE  /\ ~teidOver => \A t \in told[u] \ {0} : GetGnbUeByTeid(t) = u \/ t \in switched
                      /\ ~ipOver /\ ips <= IpMod => \A i \in toldIp[u] : GetGnbUeByIp(i) = u
    BY DEF ToldPlaced
  <2>1. ASSUME ~teidOver, NEW t \in told[u] \ {0} PROVE GetGnbUeByTeid(t) = u \/ t \in switched
    <3>1. t \in Known(u) /\ OwnerInv
      BY <2>1 DEF Known
    <3> QED
      BY <3>1 DEF OwnerInv, Placed, Mine, GetGnbUeByTeid
  <2>2. ASSUME ~ipOver, ips <= IpMod, NEW i \in toldIp[u] PROVE GetGnbUeByIp(i) = u
    BY <2>2 DEF AddrInv, Owned, GetGnbUeByIp
  <2> QED
    BY <2>1, <2>2
<1> HIDE DEF Teid, Addr
<1>2. Spec => []Teid /\ []Addr
  BY Ownership, Addresses DEF Teid, Addr
<1> QED
  BY <1>1, <1>2, PTL

============================================================================
