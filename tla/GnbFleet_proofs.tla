-------------------------- MODULE GnbFleet_proofs --------------------------
(***************************************************************************)
(* Proofs about GnbFleet, for any number of profiles, launches and GnbIds: *)
(* type correctness, that a gNB that runs can be stopped, that its socket  *)
(* path is its own, that ActiveGNBs has it, and that the fleet implements  *)
(* GnbSlots.                                                               *)
(***************************************************************************)
EXTENDS GnbFleet, TLAPS

LEMMA AllType == \A S : \A v \in S : All(v) \in [Gnbs -> S]
  BY DEF All

LEMMA NoListType == NoList \in [Profiles -> Gnbs \cup {NoGnb}]
  BY DEF NoList

LEMMA TypeInit == Init => TypeOK
<1> SUFFICES ASSUME Init PROVE TypeOK
    OBVIOUS
<1>1. (CHOOSE p \in Profiles : TRUE) \in Profiles /\ (CHOOSE i \in GnbIds : TRUE) \in GnbIds
    BY IdsAssumption
<1> QED BY <1>1 DEF Init, TypeOK, All, NoList, Reqs, Pcs, Mons

(* Terminate touches the gNB's own connections and the two registries.     *)
LEMMA TerminateType ==
  ASSUME TypeOK, NEW g \in Gnbs, Terminate(g)
  PROVE  /\ listening' \in [Gnbs -> BOOLEAN] /\ assoc' \in [Gnbs -> BOOLEAN]
         /\ lost' \in [Gnbs -> BOOLEAN] /\ active' \in [GnbIds -> Gnbs \cup {NoGnb}]
         /\ sock' \in [Profiles -> Gnbs \cup {NoGnb}]
  BY DEF Terminate, TypeOK

LEMMA TypeNext == TypeOK /\ [Next]_vars => TypeOK'
<1> SUFFICES ASSUME TypeOK, [Next]_vars PROVE TypeOK'
    OBVIOUS
<1> USE DEF Reqs, Pcs, Mons
<1>1. ASSUME NEW p \in Profiles, StopGNBProfile(p) PROVE TypeOK'
    BY <1>1 DEF StopGNBProfile, TypeOK, gnbVars
<1>2. ASSUME NEW g \in Gnbs, NEW p \in Profiles, NEW i \in GnbIds, GetGNBProfile(g, p, i)
      PROVE TypeOK'
    BY <1>2 DEF GetGNBProfile, TypeOK, gnbVars
<1>3. ASSUME NEW g \in Gnbs, LaunchStep(g) PROVE TypeOK'
  <2>1. CASE LaunchGNBProfile(g)
      BY <2>1 DEF LaunchGNBProfile, TypeOK
  <2>2. CASE LaunchFails(g)
      BY <2>2 DEF LaunchFails, TypeOK
  <2>3. CASE LaunchReturns(g)
      BY <2>3 DEF LaunchReturns, TypeOK
  <2> QED BY <1>3, <2>1, <2>2, <2>3 DEF LaunchStep
<1>4. ASSUME NEW g \in Gnbs, MonitorStep(g) PROVE TypeOK'
  <2>1. CASE MonitorWakes(g)
      BY <2>1 DEF MonitorWakes, TypeOK
  <2>2. CASE MonitorDeletes(g)
      BY <2>2 DEF MonitorDeletes, TypeOK, gnbVars
  <2> QED BY <1>4, <2>1, <2>2 DEF MonitorStep
<1>5. ASSUME NEW g \in Gnbs, GnbStep(g) PROVE TypeOK'
  <2> USE DEF Goto, Exit, listVars
  <2>1. CASE NewRanGnbContext(g)
      BY <2>1 DEF NewRanGnbContext, TypeOK
  <2>2. CASE InitConn(g)
      BY <2>2 DEF InitConn, TypeOK
  <2>3. CASE InitConnFails(g)
      BY <2>3 DEF InitConnFails, TypeOK
  <2>4. CASE InitServer(g)
      BY <2>4 DEF InitServer, TypeOK
  <2>5. CASE InitServerFails(g)
      BY <2>5 DEF InitServerFails, TypeOK
  <2>6. CASE SetupRejected(g)
      BY <2>6, TerminateType DEF SetupRejected, TypeOK
  <2>7. CASE SetupQuiet(g)
      BY <2>7 DEF SetupQuiet, TypeOK
  <2>8. CASE Stopped(g)
      BY <2>8, TerminateType DEF Stopped, TypeOK
  <2>9. CASE GnbExits(g)
      BY <2>9 DEF GnbExits, TypeOK
  <2> QED BY <1>5, <2>1, <2>2, <2>3, <2>4, <2>5, <2>6, <2>7, <2>8, <2>9 DEF GnbStep
<1>6. ASSUME NEW g \in Gnbs, HandlerNgSetupFailure(g) \/ GnbListenEnds(g) PROVE TypeOK'
  <2>1. /\ lost' = [lost EXCEPT ![g] = TRUE]
        /\ assoc' = assoc \/ assoc' = [assoc EXCEPT ![g] = FALSE]
        /\ UNCHANGED <<proc, listVars, pc, errCh, listening, active, sock>>
      BY <1>6 DEF HandlerNgSetupFailure, GnbListenEnds
  <2> QED BY <2>1 DEF TypeOK, listVars
<1>7. CASE CleanUpAll
    BY <1>7, NoListType DEF CleanUpAll, TypeOK, gnbVars
<1>8. CASE Crash
  <2>1. (CHOOSE p \in Profiles : TRUE) \in Profiles /\ (CHOOSE i \in GnbIds : TRUE) \in GnbIds
      BY IdsAssumption
  <2> QED BY <1>8, <2>1, NoListType, AllType DEF Crash, TypeOK
<1>9. CASE StartServer
    BY <1>9, NoListType DEF StartServer, TypeOK, listVars
<1>10. CASE UNCHANGED vars
    BY <1>10 DEF vars, gnbVars, listVars, TypeOK
<1> QED BY <1>1, <1>2, <1>3, <1>4, <1>5, <1>6, <1>7, <1>8, <1>9, <1>10 DEF Next

(* Every variable keeps its type (GnbFleet TypeOK).                        *)
THEOREM TypeCorrect == Spec => []TypeOK
  BY TypeInit, TypeNext, PTL DEF Spec

-----------------------------------------------------------------------------
(* The inductive invariant.  While the process is up: the lock belongs to  *)
(* the launch that waits, and a profile whose launch waits is not listed;  *)
(* an entry has a monitor that has not deleted it, and the monitor wakes   *)
(* only after its gNB.                                                     *)
LaunchInv ==
  \A g \in Gnbs :
    /\ lock = g <=> req[g] = "wait"
    /\ req[g] \in {"new", "want"} => pc[g] = "off"
    /\ req[g] = "wait" => running[prof[g]] = NoGnb /\ pc[g] # "off"
    /\ req[g] = "failed" => pc[g] \in {"off", "exit"}
    /\ req[g] = "ok" <=> mon[g] # "off"
    /\ mon[g] \in {"wait", "got"} => running[prof[g]] = g /\ pc[g] # "off"
    /\ mon[g] \in {"got", "done"} => pc[g] = "exit"
    /\ errCh[g] # "none" => pc[g] = "exit"

ListInv ==
  \A p \in Profiles : running[p] # NoGnb =>
    prof[running[p]] = p /\ mon[running[p]] \in {"wait", "got"}

(* A socket file is there while its gNB listens, and is that gNB's.        *)
SockInv ==
  /\ \A g \in Gnbs : listening[g] <=> pc[g] \in {"check", "run"}
  /\ \A p \in Profiles : sock[p] # NoGnb =>
       Link[p] # "tcp" /\ listening[sock[p]] /\ prof[sock[p]] = p
  /\ \A g \in Gnbs : listening[g] /\ Link[prof[g]] # "tcp" => sock[prof[g]] = g

ActiveInv ==
  \A g \in Gnbs :
    /\ pc[g] \in {"dial", "serve", "check", "run"}
    /\ \A h \in Gnbs : pc[h] # "off" /\ gid[h] = gid[g] => prof[h] = prof[g]
    => active[gid[g]] = g

(* A process that is down has nothing but files.                           *)
DownInv ==
  proc = "down" =>
    /\ lock = NoGnb /\ running = NoList
    /\ req = All("new") /\ pc = All("off") /\ mon = All("off") /\ errCh = All("none")
    /\ listening = All(FALSE) /\ assoc = All(FALSE)

IInv ==
  /\ TypeOK /\ DownInv
  /\ proc = "up" => LaunchInv /\ ListInv /\ SockInv /\ ActiveInv

(* Two live gNBs are of different profiles (LaunchGNBProfile's check).     *)
LEMMA OneAlive ==
  ASSUME TypeOK, LaunchInv, NEW g \in Gnbs, NEW h \in Gnbs,
         Alive(g), Alive(h), prof[g] = prof[h]
  PROVE  g = h
<1>1. \A k \in Gnbs : Alive(k) => req[k] = "wait" \/ (mon[k] = "wait" /\ running[prof[k]] = k)
    BY DEF TypeOK, LaunchInv, Alive, Reqs, Mons
<1> QED BY <1>1, NoGnbAssumption DEF LaunchInv

LEMMA InitIInv == Init => IInv
<1> SUFFICES ASSUME Init PROVE IInv
    OBVIOUS
<1>1. TypeOK
    BY TypeInit
<1>2. LaunchInv /\ ListInv /\ SockInv /\ ActiveInv
    BY NoGnbAssumption DEF Init, All, NoList, LaunchInv, ListInv, SockInv, ActiveInv
<1> QED BY <1>1, <1>2 DEF Init, IInv, DownInv

(* A step of the gNB's goroutine moves its own pc on, and sends only as it *)
(* ends.                                                                   *)
LEMMA GnbStepMoves ==
  ASSUME TypeOK, NEW g \in Gnbs, GnbStep(g)
  PROVE  /\ Alive(g) /\ pc' = [pc EXCEPT ![g] = pc'[g]] /\ pc'[g] \in Pcs \ {"off", "boot"}
         /\ \/ pc'[g] # "exit" /\ errCh' = errCh
            \/ pc'[g] = "exit" /\ \E v \in {"err", "nil"} : errCh' = [errCh EXCEPT ![g] = v]
         /\ UNCHANGED <<proc, listVars>>
<1> USE DEF Alive, Goto, Exit, TypeOK, Pcs
<1>1. CASE NewRanGnbContext(g)
    BY <1>1 DEF NewRanGnbContext
<1>2. CASE InitConn(g)
    BY <1>2 DEF InitConn
<1>3. CASE InitConnFails(g)
    BY <1>3 DEF InitConnFails
<1>4. CASE InitServer(g)
    BY <1>4 DEF InitServer
<1>5. CASE InitServerFails(g)
    BY <1>5 DEF InitServerFails
<1>6. CASE SetupRejected(g)
    BY <1>6 DEF SetupRejected
<1>7. CASE SetupQuiet(g)
    BY <1>7 DEF SetupQuiet
<1>8. CASE Stopped(g)
    BY <1>8 DEF Stopped
<1>9. CASE GnbExits(g)
    BY <1>9 DEF GnbExits
<1> QED BY <1>1, <1>2, <1>3, <1>4, <1>5, <1>6, <1>7, <1>8, <1>9 DEF GnbStep

LEMMA LaunchNext ==
  ASSUME TypeOK, LaunchInv, ListInv, Next, proc = "up", proc' = "up"
  PROVE  LaunchInv' /\ ListInv'
<1> USE NoGnbAssumption
<1>1. ASSUME NEW p \in Profiles, StopGNBProfile(p) PROVE LaunchInv' /\ ListInv'
    BY <1>1 DEF StopGNBProfile, LaunchInv, ListInv, gnbVars
<1>2. ASSUME NEW g \in Gnbs, NEW p \in Profiles, NEW i \in GnbIds, GetGNBProfile(g, p, i)
      PROVE LaunchInv' /\ ListInv'
  <2>1. LaunchInv'
      BY <1>2 DEF GetGNBProfile, LaunchInv, TypeOK, gnbVars, Reqs, Mons
  <2>2. ListInv'
      BY <1>2 DEF GetGNBProfile, ListInv, LaunchInv, TypeOK, Reqs, Mons
  <2> QED BY <2>1, <2>2
<1>3. ASSUME NEW g \in Gnbs, LaunchGNBProfile(g) PROVE LaunchInv' /\ ListInv'
    BY <1>3 DEF LaunchGNBProfile, LaunchInv, ListInv, TypeOK, Reqs, Mons
<1>4. ASSUME NEW g \in Gnbs, LaunchFails(g) PROVE LaunchInv' /\ ListInv'
    BY <1>4 DEF LaunchFails, LaunchInv, ListInv, TypeOK, Reqs, Mons
<1>5. ASSUME NEW g \in Gnbs, LaunchReturns(g) PROVE LaunchInv' /\ ListInv'
  <2>1. LaunchInv'
      BY <1>5 DEF LaunchReturns, LaunchInv, TypeOK, Reqs, Mons
  <2>2. ListInv'
      BY <1>5 DEF LaunchReturns, ListInv, LaunchInv, TypeOK, Reqs, Mons
  <2> QED BY <2>1, <2>2
<1>6. ASSUME NEW g \in Gnbs, MonitorWakes(g) PROVE LaunchInv' /\ ListInv'
    BY <1>6 DEF MonitorWakes, LaunchInv, ListInv, TypeOK, Reqs, Mons
<1>7. ASSUME NEW g \in Gnbs, MonitorDeletes(g) PROVE LaunchInv' /\ ListInv'
  <2>1. LaunchInv'
      BY <1>7 DEF MonitorDeletes, LaunchInv, TypeOK, gnbVars, Reqs, Mons
  <2>2. ListInv'
      BY <1>7 DEF MonitorDeletes, ListInv, LaunchInv, TypeOK, Reqs, Mons
  <2> QED BY <2>1, <2>2
<1>8. ASSUME NEW g \in Gnbs, GnbStep(g) PROVE LaunchInv' /\ ListInv'
  <2>1. /\ Alive(g) /\ pc' = [pc EXCEPT ![g] = pc'[g]] /\ pc'[g] \in Pcs \ {"off", "boot"}
        /\ \/ pc'[g] # "exit" /\ errCh' = errCh
           \/ pc'[g] = "exit" /\ \E v \in {"err", "nil"} : errCh' = [errCh EXCEPT ![g] = v]
        /\ UNCHANGED <<lock, running, req, prof, mon>>
      BY <1>8, GnbStepMoves DEF listVars
  <2>2. req[g] \in {"wait", "ok"} /\ mon[g] \in {"off", "wait"}
      BY <2>1 DEF Alive, LaunchInv, TypeOK, Reqs, Mons
  <2>3. LaunchInv'
      BY <2>1, <2>2 DEF LaunchInv, Alive, TypeOK
  <2>4. ListInv'
      BY <2>1 DEF ListInv
  <2> QED BY <2>3, <2>4
<1>9. ASSUME NEW g \in Gnbs, HandlerNgSetupFailure(g) \/ GnbListenEnds(g)
      PROVE LaunchInv' /\ ListInv'
    BY <1>9 DEF HandlerNgSetupFailure, GnbListenEnds, LaunchInv, ListInv, listVars
<1>10. ~CleanUpAll /\ ~Crash /\ ~StartServer
    BY DEF CleanUpAll, Crash, StartServer
<1> QED BY <1>1, <1>2, <1>3, <1>4, <1>5, <1>6, <1>7, <1>8, <1>9, <1>10
        DEF Next, LaunchStep, MonitorStep

(* Terminate of the gNB in a profile's slot frees the profile's path only. *)
LEMMA SockTerminate ==
  ASSUME TypeOK, LaunchInv, SockInv, NEW g \in Gnbs, NEW l \in {"rejected", "gone"},
         pc[g] \in {"check", "run"}, Terminate(g), pc' = [pc EXCEPT ![g] = l],
         UNCHANGED <<prof, gid>>
  PROVE  SockInv'
<1>1. listening' = [listening EXCEPT ![g] = FALSE]
    BY DEF Terminate
<1>2. listening[g]
    BY DEF SockInv
<1>3. \A h \in Gnbs : h # g /\ listening[h] => prof[h] # prof[g]
    BY <1>2, OneAlive DEF SockInv, Alive
<1>4. \A p \in Profiles : sock'[p] = IF p = prof[g] THEN NoGnb ELSE sock[p]
  <2>1. CASE Link[prof[g]] # "tcp"
      BY <1>2, <2>1 DEF Terminate, TypeOK
  <2>2. CASE Link[prof[g]] = "tcp"
      BY <2>2 DEF Terminate, SockInv, TypeOK
  <2> QED BY <2>1, <2>2
<1>5. \A h \in Gnbs : listening'[h] <=> pc'[h] \in {"check", "run"}
    BY <1>1 DEF SockInv, TypeOK
<1>6. \A p \in Profiles : sock'[p] # NoGnb =>
        Link[p] # "tcp" /\ listening'[sock'[p]] /\ prof'[sock'[p]] = p
    BY <1>1, <1>4 DEF SockInv, TypeOK
<1>7. \A h \in Gnbs : listening'[h] /\ Link[prof'[h]] # "tcp" => sock'[prof'[h]] = h
    BY <1>1, <1>3, <1>4 DEF SockInv, TypeOK
<1> QED BY <1>5, <1>6, <1>7 DEF SockInv

(* Steps that leave pc, the listeners and the files alone; prof changes    *)
(* only before a gNB is started.                                           *)
LEMMA SockSame ==
  ASSUME TypeOK, LaunchInv, SockInv, UNCHANGED <<listening, sock>>,
         \A h \in Gnbs : (pc'[h] \in {"check", "run"}) = (pc[h] \in {"check", "run"}),
         \A h \in Gnbs : pc[h] # "off" => prof'[h] = prof[h]
  PROVE  SockInv'
<1>1. \A h \in Gnbs : listening[h] => prof'[h] = prof[h]
    BY DEF SockInv
<1> QED BY <1>1, NoGnbAssumption DEF SockInv, TypeOK

LEMMA SockNext ==
  ASSUME TypeOK, LaunchInv, SockInv, Next, proc = "up", proc' = "up"
  PROVE  SockInv'
<1> USE DEF gnbVars, listVars
<1>1. ASSUME NEW p \in Profiles, StopGNBProfile(p) PROVE SockInv'
    BY <1>1, SockSame DEF StopGNBProfile
<1>2. ASSUME NEW g \in Gnbs, NEW p \in Profiles, NEW i \in GnbIds, GetGNBProfile(g, p, i)
      PROVE SockInv'
  <2>1. \A h \in Gnbs : pc[h] # "off" => prof'[h] = prof[h]
      BY <1>2 DEF GetGNBProfile, LaunchInv, TypeOK
  <2> QED BY <1>2, <2>1, SockSame DEF GetGNBProfile
<1>3. ASSUME NEW g \in Gnbs, LaunchStep(g) PROVE SockInv'
  <2>1. CASE LaunchGNBProfile(g)
    <3>1. pc[g] = "off" /\ (UNCHANGED pc \/ pc' = [pc EXCEPT ![g] = "boot"])
        BY <2>1 DEF LaunchGNBProfile, LaunchInv
    <3> QED BY <2>1, <3>1, SockSame DEF LaunchGNBProfile, TypeOK
  <2>2. CASE LaunchFails(g)
      BY <2>2, SockSame DEF LaunchFails
  <2>3. CASE LaunchReturns(g)
      BY <2>3, SockSame DEF LaunchReturns
  <2> QED BY <1>3, <2>1, <2>2, <2>3 DEF LaunchStep
<1>4. ASSUME NEW g \in Gnbs, MonitorStep(g) PROVE SockInv'
    BY <1>4, SockSame DEF MonitorStep, MonitorWakes, MonitorDeletes
<1>5. ASSUME NEW g \in Gnbs, GnbStep(g) PROVE SockInv'
  <2> USE DEF Goto, Exit
  <2>0. UNCHANGED <<prof, gid>> /\ Alive(g)
      BY <1>5, GnbStepMoves
  <2>1. CASE NewRanGnbContext(g)
    <3>1. sock[prof[g]] = NoGnb
        BY <2>0, <2>1, OneAlive DEF SockInv, TypeOK, Alive, NewRanGnbContext
    <3>2. sock' = sock
        BY <2>1, <3>1 DEF NewRanGnbContext, TypeOK
    <3> QED BY <2>0, <2>1, <3>2, SockSame DEF NewRanGnbContext, TypeOK
  <2>2. CASE InitConn(g) \/ InitConnFails(g) \/ InitServerFails(g)
      BY <2>0, <2>2, SockSame DEF InitConn, InitConnFails, InitServerFails, TypeOK
  <2>3. CASE InitServer(g)
    <3>1. listening' = [listening EXCEPT ![g] = TRUE] /\ pc' = [pc EXCEPT ![g] = "check"]
        BY <2>3 DEF InitServer
    <3>2. \/ Link[prof[g]] = "tcp" /\ sock' = sock
          \/ Link[prof[g]] # "tcp" /\ sock' = [sock EXCEPT ![prof[g]] = g]
        BY <2>3 DEF InitServer
    <3>3. \A h \in Gnbs : h # g /\ listening[h] => prof[h] # prof[g]
        BY <2>0, OneAlive DEF SockInv, Alive
    <3>4. \A h \in Gnbs : listening'[h] <=> pc'[h] \in {"check", "run"}
        BY <3>1 DEF SockInv, TypeOK
    <3>5. \A p \in Profiles : sock'[p] # NoGnb =>
            Link[p] # "tcp" /\ listening'[sock'[p]] /\ prof'[sock'[p]] = p
        BY <2>0, <3>1, <3>2 DEF SockInv, TypeOK
    <3>6. \A h \in Gnbs : listening'[h] /\ Link[prof'[h]] # "tcp" => sock'[prof'[h]] = h
        BY <2>0, <3>1, <3>2, <3>3 DEF SockInv, TypeOK
    <3> QED BY <3>4, <3>5, <3>6 DEF SockInv
  <2>4. CASE SetupRejected(g)
      BY <2>0, <2>4, SockTerminate DEF SetupRejected
  <2>5. CASE SetupQuiet(g)
      BY <2>0, <2>5, SockSame DEF SetupQuiet, TypeOK
  <2>6. CASE Stopped(g)
      BY <2>0, <2>6, SockTerminate DEF Stopped
  <2>7. CASE GnbExits(g)
    <3>1. sock[prof[g]] = NoGnb
        BY <2>0, <2>7, OneAlive DEF SockInv, TypeOK, Alive, GnbExits
    <3>2. sock' = sock
        BY <2>7, <3>1 DEF GnbExits, TypeOK
    <3> QED BY <2>0, <2>7, <3>2, SockSame DEF GnbExits, TypeOK
  <2> QED BY <1>5, <2>1, <2>2, <2>3, <2>4, <2>5, <2>6, <2>7 DEF GnbStep
<1>6. ASSUME NEW g \in Gnbs, HandlerNgSetupFailure(g) \/ GnbListenEnds(g) PROVE SockInv'
    BY <1>6, SockSame DEF HandlerNgSetupFailure, GnbListenEnds
<1>7. ~CleanUpAll /\ ~Crash /\ ~StartServer
    BY DEF CleanUpAll, Crash, StartServer
<1> QED BY <1>1, <1>2, <1>3, <1>4, <1>5, <1>6, <1>7 DEF Next

(* A gNB that is registered stays so while no entry changes.               *)
LEMMA ActiveSame ==
  ASSUME TypeOK, ActiveInv, UNCHANGED active,
         \A h \in Gnbs : pc[h] # "off" => pc'[h] # "off" /\ prof'[h] = prof[h] /\ gid'[h] = gid[h],
         \A h \in Gnbs : pc'[h] \in {"dial", "serve", "check", "run"} =>
                         pc[h] \in {"dial", "serve", "check", "run"}
  PROVE  ActiveInv'
<1> SUFFICES ASSUME NEW g \in Gnbs, pc'[g] \in {"dial", "serve", "check", "run"},
                    \A h \in Gnbs : pc'[h] # "off" /\ gid'[h] = gid'[g] => prof'[h] = prof'[g]
             PROVE  active'[gid'[g]] = g
    BY DEF ActiveInv
<1>1. pc[g] \in {"dial", "serve", "check", "run"} /\ gid'[g] = gid[g] /\ prof'[g] = prof[g]
    OBVIOUS
<1>2. \A h \in Gnbs : pc[h] # "off" /\ gid[h] = gid[g] => prof[h] = prof[g]
    BY <1>1
<1> QED BY <1>1, <1>2 DEF ActiveInv

(* A step of g that writes the entry of its GnbId: any other live gNB with *)
(* that GnbId is of another profile.                                       *)
LEMMA ActiveWrite ==
  ASSUME TypeOK, LaunchInv, ActiveInv, NEW g \in Gnbs, NEW v \in Gnbs \cup {NoGnb},
         NEW l \in Pcs \ {"off"}, Alive(g),
         l \in {"dial", "serve", "check", "run"} => v = g,
         pc' = [pc EXCEPT ![g] = l], active' = [active EXCEPT ![gid[g]] = v],
         UNCHANGED <<prof, gid>>
  PROVE  ActiveInv'
<1> SUFFICES ASSUME NEW k \in Gnbs, pc'[k] \in {"dial", "serve", "check", "run"},
                    \A h \in Gnbs : pc'[h] # "off" /\ gid[h] = gid[k] => prof[h] = prof[k]
             PROVE  active'[gid[k]] = k
    BY DEF ActiveInv
<1>1. CASE k = g
    BY <1>1 DEF TypeOK
<1>2. CASE k # g
  <2>1. Alive(k) /\ pc[k] \in {"dial", "serve", "check", "run"}
      BY <1>2 DEF TypeOK, Alive
  <2>2. \A h \in Gnbs : pc[h] # "off" /\ gid[h] = gid[k] => prof[h] = prof[k]
      BY DEF TypeOK
  <2>3. gid[g] # gid[k]
      BY <1>2, <2>1, <2>2, OneAlive DEF Alive
  <2> QED BY <2>1, <2>2, <2>3 DEF ActiveInv, TypeOK
<1> QED BY <1>1, <1>2

LEMMA ActiveNext ==
  ASSUME TypeOK, LaunchInv, ActiveInv, Next, proc = "up", proc' = "up"
  PROVE  ActiveInv'
<1> USE DEF gnbVars, listVars
<1>1. ASSUME NEW p \in Profiles, StopGNBProfile(p) PROVE ActiveInv'
    BY <1>1, ActiveSame DEF StopGNBProfile
<1>2. ASSUME NEW g \in Gnbs, NEW p \in Profiles, NEW i \in GnbIds, GetGNBProfile(g, p, i)
      PROVE ActiveInv'
  <2>1. \A h \in Gnbs : pc[h] # "off" => prof'[h] = prof[h] /\ gid'[h] = gid[h]
      BY <1>2 DEF GetGNBProfile, LaunchInv, TypeOK
  <2> QED BY <1>2, <2>1, ActiveSame DEF GetGNBProfile
<1>3. ASSUME NEW g \in Gnbs, LaunchStep(g) PROVE ActiveInv'
  <2>1. CASE LaunchGNBProfile(g)
    <3>1. pc[g] = "off" /\ (UNCHANGED pc \/ pc' = [pc EXCEPT ![g] = "boot"])
        BY <2>1 DEF LaunchGNBProfile, LaunchInv
    <3> QED BY <2>1, <3>1, ActiveSame DEF LaunchGNBProfile, TypeOK
  <2>2. CASE LaunchFails(g)
      BY <2>2, ActiveSame DEF LaunchFails
  <2>3. CASE LaunchReturns(g)
      BY <2>3, ActiveSame DEF LaunchReturns
  <2> QED BY <1>3, <2>1, <2>2, <2>3 DEF LaunchStep
<1>4. ASSUME NEW g \in Gnbs, MonitorStep(g) PROVE ActiveInv'
    BY <1>4, ActiveSame DEF MonitorStep, MonitorWakes, MonitorDeletes
<1>5. ASSUME NEW g \in Gnbs, GnbStep(g) PROVE ActiveInv'
  <2> USE DEF Goto, Exit, Pcs
  <2>0. UNCHANGED <<prof, gid>> /\ Alive(g)
      BY <1>5, GnbStepMoves
  <2>1. CASE NewRanGnbContext(g)
      BY <2>0, <2>1, ActiveWrite DEF NewRanGnbContext
  <2>2. CASE InitConn(g) \/ InitConnFails(g) \/ InitServer(g) \/ InitServerFails(g)
             \/ SetupQuiet(g) \/ GnbExits(g)
    <3>1. UNCHANGED active /\ \E l \in Pcs \ {"off", "boot"} :
            /\ pc' = [pc EXCEPT ![g] = l]
            /\ l \in {"serve", "check", "run"} => pc[g] \in {"dial", "serve", "check"}
        BY <2>2 DEF InitConn, InitConnFails, InitServer, InitServerFails, SetupQuiet, GnbExits
    <3>2. pc'[g] # "dial"
        BY <2>2 DEF InitConn, InitConnFails, InitServer, InitServerFails, SetupQuiet, GnbExits,
                    TypeOK
    <3> QED BY <2>0, <3>1, <3>2, ActiveSame DEF TypeOK
  <2>3. CASE SetupRejected(g)
      BY <2>0, <2>3, ActiveWrite DEF SetupRejected, Terminate
  <2>4. CASE Stopped(g)
      BY <2>0, <2>4, ActiveWrite DEF Stopped, Terminate
  <2> QED BY <1>5, <2>1, <2>2, <2>3, <2>4 DEF GnbStep
<1>6. ASSUME NEW g \in Gnbs, HandlerNgSetupFailure(g) \/ GnbListenEnds(g) PROVE ActiveInv'
    BY <1>6, ActiveSame DEF HandlerNgSetupFailure, GnbListenEnds
<1>7. ~CleanUpAll /\ ~Crash /\ ~StartServer
    BY DEF CleanUpAll, Crash, StartServer
<1> QED BY <1>1, <1>2, <1>3, <1>4, <1>5, <1>6, <1>7 DEF Next

(* The process goes down with nothing, and what runs needs a process.      *)
LEMMA DownNext ==
  ASSUME TypeOK, DownInv, Next
  PROVE  DownInv'
<1>1. CASE Crash
    BY <1>1 DEF Crash, DownInv
<1>2. CASE StartServer \/ CleanUpAll
    BY <1>2 DEF StartServer, CleanUpAll, DownInv
<1>3. CASE ~Crash /\ ~StartServer /\ ~CleanUpAll
  <2>1. proc' = proc
    <3>1. ASSUME NEW g \in Gnbs, LaunchStep(g) \/ MonitorStep(g) PROVE proc' = proc
        BY <3>1 DEF LaunchStep, LaunchGNBProfile, LaunchFails, LaunchReturns, MonitorStep,
                    MonitorWakes, MonitorDeletes
    <3>2. ASSUME NEW g \in Gnbs, GnbStep(g) PROVE proc' = proc
        BY <3>2, GnbStepMoves
    <3> QED BY <1>3, <3>1, <3>2
            DEF Next, StopGNBProfile, GetGNBProfile, HandlerNgSetupFailure, GnbListenEnds
  <2>2. ASSUME proc = "down" PROVE FALSE
    <3>1. \A g \in Gnbs : req[g] = "new" /\ pc[g] = "off" /\ mon[g] = "off"
        BY <2>2 DEF DownInv, All
    <3>2. \A p \in Profiles : running[p] = NoGnb
        BY <2>2 DEF DownInv, NoList
    <3>3. ASSUME NEW g \in Gnbs, GnbStep(g) PROVE FALSE
        BY <3>1, <3>3, GnbStepMoves DEF Alive
    <3>4. ASSUME NEW g \in Gnbs, LaunchStep(g) \/ MonitorStep(g) PROVE FALSE
        BY <3>1, <3>4 DEF LaunchStep, LaunchGNBProfile, LaunchFails, LaunchReturns, MonitorStep,
                          MonitorWakes, MonitorDeletes
    <3>5. ASSUME NEW g \in Gnbs, GnbListenEnds(g) PROVE FALSE
        BY <2>2, <3>5 DEF GnbListenEnds, DownInv, All
    <3> QED BY <1>3, <2>2, <3>1, <3>2, <3>3, <3>4, <3>5
            DEF Next, StopGNBProfile, GetGNBProfile, HandlerNgSetupFailure
  <2> QED BY <2>1, <2>2 DEF DownInv
<1> QED BY <1>1, <1>2, <1>3

LEMMA IInvNext == IInv /\ [Next]_vars => IInv'
<1> SUFFICES ASSUME IInv, [Next]_vars PROVE IInv'
    OBVIOUS
<1>1. CASE UNCHANGED vars
  <2> USE <1>1 DEF vars, gnbVars, listVars
  <2>1. TypeOK'
      BY TypeNext DEF IInv
  <2>2. DownInv' /\ (LaunchInv => LaunchInv') /\ (ListInv => ListInv')
      BY DEF IInv, DownInv, LaunchInv, ListInv
  <2>3. (SockInv => SockInv') /\ (ActiveInv => ActiveInv')
      BY DEF SockInv, ActiveInv
  <2> QED BY <2>1, <2>2, <2>3 DEF IInv
<1>2. CASE Next
  <2>1. TypeOK' /\ DownInv'
      BY <1>2, TypeNext, DownNext DEF IInv
  <2>2. CASE proc = "up" /\ proc' = "up"
      BY <1>2, <2>1, <2>2, LaunchNext, SockNext, ActiveNext DEF IInv
  <2>3. CASE proc # "up" /\ proc' = "up"
    <3>1. StartServer
      <4>1. ASSUME NEW g \in Gnbs, GnbStep(g) PROVE proc' = proc
          BY <4>1, GnbStepMoves DEF IInv
      <4>2. ASSUME NEW g \in Gnbs, LaunchStep(g) \/ MonitorStep(g) PROVE proc' = proc
          BY <4>2 DEF LaunchStep, LaunchGNBProfile, LaunchFails, LaunchReturns, MonitorStep,
                      MonitorWakes, MonitorDeletes
      <4> QED BY <1>2, <2>3, <4>1, <4>2
              DEF Next, StopGNBProfile, GetGNBProfile, HandlerNgSetupFailure, GnbListenEnds,
                  CleanUpAll, Crash
    <3>2. DownInv /\ proc = "down" /\ sock' = NoList
          /\ UNCHANGED <<lock, running, req, pc, mon, errCh, listening, prof, gid>>
        BY <3>1 DEF StartServer, IInv, listVars
    <3>3. LaunchInv' /\ ListInv'
        BY <3>2, NoGnbAssumption DEF DownInv, LaunchInv, ListInv, All, NoList
    <3>4. SockInv' /\ ActiveInv'
        BY <3>2 DEF DownInv, SockInv, ActiveInv, All, NoList
    <3> QED BY <2>1, <3>3, <3>4 DEF IInv
  <2>4. CASE proc' # "up"
      BY <2>1, <2>4 DEF IInv
  <2> QED BY <2>2, <2>3, <2>4
<1> QED BY <1>1, <1>2

LEMMA IInvHolds == Spec => []IInv
  BY InitIInv, IInvNext, PTL DEF Spec

-----------------------------------------------------------------------------
(* A gNB that runs can be stopped: it is listed, or its launch still holds *)
(* the lock (LaunchGNBProfile, and the monitor that unlists).              *)
THEOREM StoppableCorrect == Spec => []RunningStoppable
<1>1. IInv => RunningStoppable
    BY DEF IInv, LaunchInv, RunningStoppable, Alive, TypeOK, Reqs, Mons
<1> QED BY <1>1, IInvHolds, PTL

(* A gNB's socket path is free when it binds it and is not removed under   *)
(* its listener (InitServer, os.Remove in InitGnbFleet and StartServer).   *)
THEOREM SocketCorrect == Spec => []SocketOwned
<1>1. ASSUME IInv, proc = "up", NEW g \in Gnbs, Link[prof[g]] # "tcp"
      PROVE  (pc[g] = "serve" => sock[prof[g]] = NoGnb) /\ (listening[g] => sock[prof[g]] = g)
  <2>1. TypeOK /\ LaunchInv /\ SockInv
      BY <1>1 DEF IInv
  <2>2. ASSUME pc[g] = "serve", sock[prof[g]] # NoGnb PROVE FALSE
    <3> DEFINE h == sock[prof[g]]
    <3>1. h \in Gnbs /\ listening[h] /\ prof[h] = prof[g]
        BY <2>1, <2>2 DEF SockInv, TypeOK
    <3>2. Alive(g) /\ Alive(h) /\ ~listening[g]
        BY <2>1, <2>2, <3>1 DEF SockInv, Alive
    <3> QED BY <2>1, <3>1, <3>2, OneAlive
  <2> QED BY <1>1, <2>1, <2>2 DEF SockInv
<1>2. IInv => SocketOwned
    BY <1>1 DEF SocketOwned
<1> QED BY <1>2, IInvHolds, PTL

(* A gNB that serves is the entry of its GnbId in ActiveGNBs, if its GnbId *)
(* is its profile's own (NewRanGnbContext, Terminate).                     *)
THEOREM RegisteredCorrect == Spec => []RunningRegistered
<1>1. IInv => RunningRegistered
    BY DEF IInv, ActiveInv, RunningRegistered
<1> QED BY <1>1, IInvHolds, PTL

-----------------------------------------------------------------------------
(* The refinement mapping of Slots.                                        *)
SlotAlive ==
  [p \in Profiles |-> IF proc = "up" THEN {g \in Gnbs : Alive(g) /\ prof[g] = p} ELSE {}]
SlotListed == [p \in Profiles |-> IF proc = "up" THEN running[p] ELSE NoGnb]

(* What leaves the process up, the list and who is alive as they are is a  *)
(* stuttering step of Slots.                                               *)
LEMMA SlotStutter ==
  ASSUME TypeOK, UNCHANGED <<proc, running>>,
         \A h \in Gnbs : Alive(h)' = Alive(h) /\ (Alive(h) => prof'[h] = prof[h])
  PROVE  UNCHANGED Slots!slotVars
<1>1. \A p \in Profiles : {g \in Gnbs : Alive(g)' /\ prof'[g] = p}
                        = {g \in Gnbs : Alive(g) /\ prof[g] = p}
    OBVIOUS
<1>2. SlotAlive' = SlotAlive
    BY <1>1 DEF SlotAlive
<1>3. SlotListed' = SlotListed
    BY DEF SlotListed
<1> QED BY <1>2, <1>3 DEF Slots!slotVars, SlotAlive, SlotListed

LEMMA SlotStart ==
  ASSUME IInv, proc = "up", NEW g \in Gnbs, LaunchGNBProfile(g),
         NEW q \in Profiles, q = prof[g]
  PROVE  Slots!Start(q, g) \/ UNCHANGED Slots!slotVars
<1>1. CASE running[prof[g]] # NoGnb
  <2>1. UNCHANGED <<proc, running, pc, prof>>
      BY <1>1 DEF LaunchGNBProfile
  <2> QED BY <2>1, SlotStutter DEF IInv, Alive
<1>2. CASE running[prof[g]] = NoGnb
  <2>1. /\ TypeOK /\ LaunchInv /\ pc[g] = "off" /\ lock = NoGnb
        /\ pc' = [pc EXCEPT ![g] = "boot"] /\ UNCHANGED <<proc, running, prof>>
      BY <1>2 DEF LaunchGNBProfile, IInv, LaunchInv
  <2>2. \A h \in Gnbs : ~(Alive(h) /\ prof[h] = prof[g])
      BY <1>2, <2>1, NoGnbAssumption DEF LaunchInv, Alive, TypeOK, Reqs, Mons
  <2>3. SlotAlive[prof[g]] = {} /\ SlotListed[prof[g]] = NoGnb
      BY <1>2, <2>1, <2>2 DEF SlotAlive, SlotListed, TypeOK
  <2>4. \A h \in Gnbs : Alive(h)' <=> (Alive(h) \/ h = g)
      BY <2>1 DEF Alive, TypeOK
  <2>5. \A p \in Profiles : SlotAlive'[p] = IF p = prof[g] THEN {g} ELSE SlotAlive[p]
    <3> SUFFICES ASSUME NEW p \in Profiles
                 PROVE  SlotAlive'[p] = IF p = prof[g] THEN {g} ELSE SlotAlive[p]
        OBVIOUS
    <3>1. SlotAlive'[p] = {h \in Gnbs : Alive(h)' /\ prof[h] = p}
        BY <2>1 DEF SlotAlive
    <3>2. SlotAlive[p] = {h \in Gnbs : Alive(h) /\ prof[h] = p}
        BY DEF SlotAlive
    <3>3. CASE p = prof[g]
        BY <2>2, <2>4, <3>1, <3>3
    <3>4. CASE p # prof[g]
        BY <2>4, <3>1, <3>2, <3>4
    <3> QED BY <3>3, <3>4
  <2>6. SlotAlive' = [SlotAlive EXCEPT ![prof[g]] = {g}] /\ SlotListed' = SlotListed
      BY <2>1, <2>5 DEF SlotAlive, SlotListed
  <2> QED BY <2>3, <2>6 DEF Slots!Start, SlotAlive, SlotListed
<1> QED BY <1>1, <1>2

LEMMA SlotEnter ==
  ASSUME IInv, proc = "up", NEW g \in Gnbs, LaunchReturns(g),
         NEW q \in Profiles, q = prof[g]
  PROVE  Slots!Enter(q, g)
<1>1. /\ TypeOK /\ LaunchInv /\ req[g] = "wait" /\ running[prof[g]] = NoGnb
      /\ running' = [running EXCEPT ![prof[g]] = g] /\ UNCHANGED <<proc, pc, prof>>
    BY DEF LaunchReturns, IInv, LaunchInv
<1>2. \A h \in Gnbs : Alive(h) /\ prof[h] = prof[g] => h = g
    BY <1>1, NoGnbAssumption DEF LaunchInv, Alive, TypeOK, Reqs, Mons
<1>3. SlotAlive' = SlotAlive
    BY <1>1 DEF SlotAlive, Alive
<1>4. SlotListed[prof[g]] = NoGnb /\ SlotAlive[prof[g]] \subseteq {g}
    BY <1>1, <1>2 DEF SlotListed, SlotAlive, TypeOK
<1>5. SlotListed' = [SlotListed EXCEPT ![prof[g]] = g]
    BY <1>1 DEF SlotListed, TypeOK
<1> QED BY <1>3, <1>4, <1>5 DEF Slots!Enter, SlotAlive, SlotListed

LEMMA SlotRemove ==
  ASSUME IInv, proc = "up", NEW g \in Gnbs, MonitorDeletes(g),
         NEW q \in Profiles, q = prof[g]
  PROVE  Slots!Remove(q)
<1>1. /\ TypeOK /\ LaunchInv /\ mon[g] = "got" /\ lock = NoGnb /\ pc[g] = "exit"
      /\ running[prof[g]] = g
      /\ running' = [running EXCEPT ![prof[g]] = NoGnb] /\ UNCHANGED <<proc, pc, prof>>
    BY DEF MonitorDeletes, IInv, LaunchInv, gnbVars
<1>2. \A h \in Gnbs : ~(Alive(h) /\ prof[h] = prof[g])
    BY <1>1, NoGnbAssumption DEF LaunchInv, Alive, TypeOK, Reqs, Mons
<1>3. SlotAlive' = SlotAlive
    BY <1>1 DEF SlotAlive, Alive
<1>4. SlotListed[prof[g]] \in Gnbs /\ SlotAlive[prof[g]] = {}
    BY <1>1, <1>2 DEF SlotListed, SlotAlive, TypeOK
<1>5. SlotListed' = [SlotListed EXCEPT ![prof[g]] = NoGnb]
    BY <1>1 DEF SlotListed, TypeOK
<1> QED BY <1>3, <1>4, <1>5 DEF Slots!Remove, SlotAlive, SlotListed

LEMMA SlotEnd ==
  ASSUME IInv, proc = "up", NEW g \in Gnbs, GnbStep(g),
         NEW q \in Profiles, q = prof[g]
  PROVE  Slots!End(q, g) \/ UNCHANGED Slots!slotVars
<1>1. /\ TypeOK /\ Alive(g) /\ pc' = [pc EXCEPT ![g] = pc'[g]] /\ pc'[g] # "off"
      /\ UNCHANGED <<proc, running, prof>>
    BY GnbStepMoves DEF IInv, listVars
<1>2. CASE pc'[g] # "exit"
    BY <1>1, <1>2, SlotStutter DEF Alive, TypeOK
<1>3. CASE pc'[g] = "exit"
  <2>1. \A h \in Gnbs : Alive(h)' <=> (Alive(h) /\ h # g)
      BY <1>1, <1>3 DEF Alive, TypeOK
  <2>2. \A p \in Profiles : SlotAlive'[p] = IF p = prof[g] THEN SlotAlive[p] \ {g} ELSE SlotAlive[p]
    <3> SUFFICES ASSUME NEW p \in Profiles
                 PROVE  SlotAlive'[p] = IF p = prof[g] THEN SlotAlive[p] \ {g} ELSE SlotAlive[p]
        OBVIOUS
    <3>1. SlotAlive'[p] = {h \in Gnbs : Alive(h)' /\ prof[h] = p}
        BY <1>1 DEF SlotAlive
    <3>2. SlotAlive[p] = {h \in Gnbs : Alive(h) /\ prof[h] = p}
        BY DEF SlotAlive
    <3> QED BY <2>1, <3>1, <3>2
  <2>3. SlotAlive' = [SlotAlive EXCEPT ![prof[g]] = SlotAlive[prof[g]] \ {g}]
    <3>1. SlotAlive' = [p \in Profiles |-> SlotAlive'[p]] /\ SlotAlive = [p \in Profiles |-> SlotAlive[p]]
        BY DEF SlotAlive
    <3> QED BY <2>2, <3>1
  <2>4. g \in SlotAlive[prof[g]] /\ SlotListed' = SlotListed
      BY <1>1 DEF SlotAlive, SlotListed, TypeOK
  <2> QED BY <2>3, <2>4 DEF Slots!End, SlotAlive, SlotListed
<1> QED BY <1>2, <1>3

LEMMA SlotIdle ==
  ASSUME proc' # "up"
  PROVE  Slots!Shutdown
  BY DEF Slots!Shutdown, Slots!Idle

LEMMA SlotsStep == IInv /\ [Next]_vars => [Slots!SlotNext]_(Slots!slotVars)
<1> SUFFICES ASSUME IInv, [Next]_vars PROVE [Slots!SlotNext]_(Slots!slotVars)
    OBVIOUS
<1>0. TypeOK
    BY DEF IInv
<1>1. CASE proc' # "up"
    BY <1>1, SlotIdle DEF Slots!SlotNext
<1>2. CASE proc' = "up" /\ proc # "up" /\ Next
  <2>1. IInv'
      BY IInvNext
  <2>2. StartServer
    <3>1. ASSUME NEW g \in Gnbs, GnbStep(g) PROVE proc' = proc
        BY <1>0, <3>1, GnbStepMoves
    <3>2. ASSUME NEW g \in Gnbs, LaunchStep(g) \/ MonitorStep(g) PROVE proc' = proc
        BY <3>2 DEF LaunchStep, LaunchGNBProfile, LaunchFails, LaunchReturns, MonitorStep,
                    MonitorWakes, MonitorDeletes
    <3> QED BY <1>2, <3>1, <3>2
            DEF Next, StopGNBProfile, GetGNBProfile, HandlerNgSetupFailure, GnbListenEnds,
                CleanUpAll, Crash
  <2>3. pc' = All("off") /\ running' = NoList
      BY <2>2 DEF StartServer, IInv, DownInv, listVars
  <2>4. \A g \in Gnbs : ~Alive(g)'
      BY <2>3 DEF All, Alive
  <2>5. Slots!Shutdown
      BY <2>3, <2>4 DEF Slots!Shutdown, Slots!Idle, NoList
  <2> QED BY <2>5 DEF Slots!SlotNext
<1>3. CASE proc = "up" /\ proc' = "up" /\ Next
  <2> USE DEF gnbVars, listVars
  <2>1. ASSUME NEW p \in Profiles, StopGNBProfile(p) PROVE UNCHANGED Slots!slotVars
      BY <1>0, <2>1, SlotStutter DEF StopGNBProfile, Alive
  <2>2. ASSUME NEW g \in Gnbs, NEW p \in Profiles, NEW i \in GnbIds, GetGNBProfile(g, p, i)
        PROVE UNCHANGED Slots!slotVars
    <3>1. \A h \in Gnbs : pc[h] # "off" => prof'[h] = prof[h]
        BY <1>3, <2>2 DEF GetGNBProfile, IInv, LaunchInv, TypeOK
    <3> QED BY <1>0, <2>2, <3>1, SlotStutter DEF GetGNBProfile, Alive
  <2>3. ASSUME NEW g \in Gnbs, LaunchFails(g) \/ MonitorWakes(g) \/ HandlerNgSetupFailure(g)
                              \/ GnbListenEnds(g)
        PROVE UNCHANGED Slots!slotVars
      BY <1>0, <2>3, SlotStutter
         DEF LaunchFails, MonitorWakes, HandlerNgSetupFailure, GnbListenEnds, Alive
  <2>4. ASSUME NEW g \in Gnbs, GnbStep(g) \/ LaunchGNBProfile(g) \/ LaunchReturns(g)
                              \/ MonitorDeletes(g)
        PROVE [Slots!SlotNext]_(Slots!slotVars)
    <3>1. PICK q \in Profiles : q = prof[g]
        BY <1>0 DEF TypeOK
    <3>2. \/ Slots!End(q, g) \/ Slots!Start(q, g) \/ Slots!Enter(q, g) \/ Slots!Remove(q)
          \/ UNCHANGED Slots!slotVars
        BY <1>3, <2>4, <3>1, SlotEnd, SlotStart, SlotEnter, SlotRemove
    <3> QED BY <3>2 DEF Slots!SlotNext
  <2>5. ~CleanUpAll /\ ~Crash /\ ~StartServer
      BY <1>3 DEF CleanUpAll, Crash, StartServer
  <2> QED BY <1>3, <2>1, <2>2, <2>3, <2>4, <2>5 DEF Next, LaunchStep, MonitorStep
<1>4. CASE UNCHANGED vars
    BY <1>0, <1>4, SlotStutter DEF vars, gnbVars, listVars, Alive
<1> QED BY <1>1, <1>2, <1>3, <1>4

(* The fleet implements GnbSlots: a profile has one gNB at a time, and an  *)
(* entry goes only after its gNB (LaunchGNBProfile and its monitor).       *)
THEOREM SlotsCorrect == Spec => SlotsKept
<1>1. ASSUME Init PROVE Slots!Idle
  <2>1. \A g \in Gnbs : ~Alive(g)
      BY <1>1 DEF Init, All, Alive
  <2>2. running = NoList
      BY <1>1 DEF Init
  <2> QED BY <2>1, <2>2 DEF Slots!Idle, NoList
<1> QED BY <1>1, SlotsStep, IInvHolds, PTL DEF Spec, SlotsKept, Slots!SlotSpec

=============================================================================
