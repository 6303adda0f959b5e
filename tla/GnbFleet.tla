------------------------------ MODULE GnbFleet ------------------------------
(***************************************************************************)
(* The life of fleet gNBs: LaunchGNBProfile, StopGNBProfile and the list   *)
(* runningGNBs (webserver/fleet_runner.go), the goroutine of a gNB         *)
(* (InitGnbFleet, gnb.go), the ActiveGNBs registry (gnb/context), the unix *)
(* socket files, and the crash, the shutdown and the start of the server.  *)
(*                                                                         *)
(* A launch request and the gNB it may start share a name.  A launch holds *)
(* runningGNBsMu while it waits up to 600 ms for an early error, so that   *)
(* other launches, stops and monitors wait for it.  Timers may fire at any *)
(* time after they are set.                                                *)
(***************************************************************************)
EXTENDS Naturals

CONSTANTS
  Profiles,   \* gNB profile names
  Gnbs,       \* launch requests, and the gNBs they start
  GnbIds,     \* values of GnbId in a profile
  Link,       \* link type of each profile: anything but "tcp" is served on a unix socket
  NoGnb       \* no entry

ASSUME NoGnbAssumption == NoGnb \notin Gnbs
ASSUME LinkAssumption  == Link \in [Profiles -> {"unix", "tcp", "other"}]
ASSUME IdsAssumption   == GnbIds # {} /\ Profiles # {}

VARIABLES
  proc,       \* the server process: "up", "exiting" after a signal, "down"
  lock,       \* the launch that holds runningGNBsMu
  running,    \* runningGNBs
  req,        \* where each launch request is
  prof, gid,  \* the profile it read, and its GnbId then
  pc,         \* where the goroutine of its gNB is
  errCh,      \* buffer of its errCh: "none", "err" or "nil"
  cancelled,  \* its context is cancelled
  lost,       \* its connLossChan is closed
  assoc,      \* its SCTP association is open
  listening,  \* its NAS listener is open
  mon,        \* its monitor goroutine
  active,     \* ActiveGNBs
  sock        \* the gNB that created each profile's socket file

gnbVars  == <<pc, errCh, lost, assoc, listening, active, sock>>
listVars == <<lock, running, req, prof, gid, cancelled, mon>>
vars     == <<proc, gnbVars, listVars>>

Reqs == {"new", "want", "wait", "ok", "failed"}
Pcs  == {"off", "boot", "dial", "serve", "check", "run", "rejected", "gone", "exit"}
Mons == {"off", "wait", "got", "done"}

(* The goroutine has been started and has not returned.                    *)
Alive(g) == pc[g] \notin {"off", "exit"}

(* prof and gid mean nothing before GetGNBProfile.                         *)
All(v) == [g \in Gnbs |-> v]
NoList == [p \in Profiles |-> NoGnb]

Init ==
  /\ proc = "up" /\ sock = NoList
  /\ lock = NoGnb /\ running = NoList
  /\ req = All("new") /\ prof = All(CHOOSE p \in Profiles : TRUE)
  /\ gid = All(CHOOSE i \in GnbIds : TRUE)
  /\ pc = All("off") /\ errCh = All("none") /\ cancelled = All(FALSE)
  /\ lost = All(FALSE) /\ assoc = All(FALSE) /\ listening = All(FALSE) /\ mon = All("off")
  /\ active = [i \in GnbIds |-> NoGnb]

-----------------------------------------------------------------------------
(* The launch                                                              *)

(* Mutant: the lookup's ok is ignored, and a profile that is not stored is *)
(* launched with the zero value's GnbId.                                   *)
GetGNBProfile_OkIgnored(g, p, i) ==
  /\ proc # "down" /\ req[g] = "new"
  /\ req' = [req EXCEPT ![g] = "want"]
  /\ prof' = [prof EXCEPT ![g] = p]
  /\ \E id \in {i, ""} : gid' = [gid EXCEPT ![g] = id]
  /\ UNCHANGED <<gnbVars, proc, lock, running, cancelled, mon>>

(* The profile is read before the lock is taken.  What the store has for   *)
(* its name, if anything, is ProfileStore's matter: any GnbId may come,    *)
(* also one that another profile has.                                      *)
GetGNBProfile(g, p, i) ==
  /\ proc # "down" /\ req[g] = "new"
  /\ req' = [req EXCEPT ![g] = "want"]
  /\ prof' = [prof EXCEPT ![g] = p] /\ gid' = [gid EXCEPT ![g] = i]
  /\ UNCHANGED <<gnbVars, proc, lock, running, cancelled, mon>>

(* Mutant: whether the profile runs is not asked under the lock.           *)
LaunchGNBProfile_Unchecked(g) ==
  /\ req[g] = "want" /\ lock = NoGnb
  /\ lock' = g
  /\ req' = [req EXCEPT ![g] = "wait"]
  /\ pc' = [pc EXCEPT ![g] = "boot"]
  /\ UNCHANGED <<proc, running, prof, gid, cancelled, mon, errCh, lost, assoc, listening,
                 active, sock>>

(* Under the lock: refused if the profile is listed, or else the goroutine *)
(* is started and the launch waits, the lock still held.                   *)
LaunchGNBProfile(g) ==
  /\ req[g] = "want" /\ lock = NoGnb
  /\ IF running[prof[g]] # NoGnb
       THEN req' = [req EXCEPT ![g] = "failed"] /\ UNCHANGED <<lock, pc>>
       ELSE /\ lock' = g
            /\ req' = [req EXCEPT ![g] = "wait"]
            /\ pc' = [pc EXCEPT ![g] = "boot"]
  /\ UNCHANGED <<proc, running, prof, gid, cancelled, mon, errCh, lost, assoc, listening,
                 active, sock>>

(* An error within 600 ms: the context is cancelled and nothing is listed. *)
LaunchFails(g) ==
  /\ req[g] = "wait" /\ errCh[g] = "err"
  /\ errCh' = [errCh EXCEPT ![g] = "none"]
  /\ cancelled' = [cancelled EXCEPT ![g] = TRUE]
  /\ req' = [req EXCEPT ![g] = "failed"] /\ lock' = NoGnb
  /\ UNCHANGED <<proc, running, prof, gid, mon, pc, lost, assoc, listening, active, sock>>

(* Mutant: no monitor is started for a gNB whose nil the launch received.  *)
LaunchReturns_MonitorIfUp(g) ==
  /\ req[g] = "wait"
  /\ errCh' = [errCh EXCEPT ![g] = IF @ = "nil" THEN "none" ELSE @]
  /\ running' = [running EXCEPT ![prof[g]] = g]
  /\ mon' = [mon EXCEPT ![g] = IF errCh[g] = "nil" THEN @ ELSE "wait"]
  /\ req' = [req EXCEPT ![g] = "ok"] /\ lock' = NoGnb
  /\ UNCHANGED <<proc, prof, gid, cancelled, pc, lost, assoc, listening, active, sock>>

(* 600 ms have passed, or the gNB has ended and its nil is taken for no    *)
(* error.  The gNB is listed and its monitor started either way.           *)
LaunchReturns(g) ==
  /\ req[g] = "wait"
  /\ \/ errCh[g] = "nil" /\ errCh' = [errCh EXCEPT ![g] = "none"]
     \/ UNCHANGED errCh
  /\ running' = [running EXCEPT ![prof[g]] = g]
  /\ mon' = [mon EXCEPT ![g] = "wait"]
  /\ req' = [req EXCEPT ![g] = "ok"] /\ lock' = NoGnb
  /\ UNCHANGED <<proc, prof, gid, cancelled, pc, lost, assoc, listening, active, sock>>

(* StopGNBProfile looks the profile up and cancels; QuickStopAllGNBs and   *)
(* the stop_gnb step of a scenario do this for one profile after another.  *)
StopGNBProfile(p) ==
  /\ lock = NoGnb /\ running[p] # NoGnb
  /\ cancelled' = [cancelled EXCEPT ![running[p]] = TRUE]
  /\ UNCHANGED <<gnbVars, proc, lock, running, req, prof, gid, mon>>

(* Mutant: the monitor also wakes when the gNB is told to stop.            *)
MonitorWakes_OnCancel(g) ==
  /\ mon[g] = "wait" /\ (pc[g] = "exit" \/ cancelled[g])
  /\ mon' = [mon EXCEPT ![g] = "got"]
  /\ errCh' = [errCh EXCEPT ![g] = "none"]
  /\ UNCHANGED <<proc, lock, running, req, prof, gid, cancelled, pc, lost, assoc, listening,
                 active, sock>>

(* The monitor waits for a value or for the close of errCh ...             *)
MonitorWakes(g) ==
  /\ mon[g] = "wait" /\ pc[g] = "exit"
  /\ mon' = [mon EXCEPT ![g] = "got"]
  /\ errCh' = [errCh EXCEPT ![g] = "none"]
  /\ UNCHANGED <<proc, lock, running, req, prof, gid, cancelled, pc, lost, assoc, listening,
                 active, sock>>

(* ... and deletes the entry of its profile's name.                        *)
MonitorDeletes(g) ==
  /\ mon[g] = "got" /\ lock = NoGnb
  /\ running' = [running EXCEPT ![prof[g]] = NoGnb]
  /\ mon' = [mon EXCEPT ![g] = "done"]
  /\ UNCHANGED <<gnbVars, proc, lock, req, prof, gid, cancelled>>

-----------------------------------------------------------------------------
(* The goroutine of the gNB                                                *)

Goto(g, l) == pc' = [pc EXCEPT ![g] = l]

(* A return: the value is sent, and the channel closed as the last step.   *)
Exit(g, v) == Goto(g, "exit") /\ errCh' = [errCh EXCEPT ![g] = v]

(* Mutant: the context is registered only if its GnbId is free.            *)
NewRanGnbContext_IfAbsent(g) ==
  /\ pc[g] = "boot"
  /\ Goto(g, "dial")
  /\ sock' = IF Link[prof[g]] = "unix" THEN [sock EXCEPT ![prof[g]] = NoGnb] ELSE sock
  /\ active' = [active EXCEPT ![gid[g]] = IF @ = NoGnb THEN g ELSE @]
  /\ UNCHANGED <<proc, listVars, errCh, lost, assoc, listening>>

(* An old socket file is removed for the link type "unix" only, and the    *)
(* context takes the place of its GnbId in ActiveGNBs.                     *)
NewRanGnbContext(g) ==
  /\ pc[g] = "boot"
  /\ Goto(g, "dial")
  /\ sock' = IF Link[prof[g]] = "unix" THEN [sock EXCEPT ![prof[g]] = NoGnb] ELSE sock
  /\ active' = [active EXCEPT ![gid[g]] = g]
  /\ UNCHANGED <<proc, listVars, errCh, lost, assoc, listening>>

InitConn(g) ==
  /\ pc[g] = "dial"
  /\ Goto(g, "serve")
  /\ assoc' = [assoc EXCEPT ![g] = TRUE]
  /\ UNCHANGED <<proc, listVars, errCh, lost, listening, active, sock>>

(* The entry in ActiveGNBs stays.                                          *)
InitConnFails(g) ==
  /\ pc[g] = "dial"
  /\ Exit(g, "err")
  /\ UNCHANGED <<proc, listVars, lost, assoc, listening, active, sock>>

(* A unix socket is bound only if no file is in its place.  The Xn         *)
(* listener, whose failure is ignored, and the NG setup request follow.    *)
InitServer(g) ==
  /\ pc[g] = "serve"
  /\ IF Link[prof[g]] = "tcp"
       THEN UNCHANGED sock
       ELSE sock[prof[g]] = NoGnb /\ sock' = [sock EXCEPT ![prof[g]] = g]
  /\ listening' = [listening EXCEPT ![g] = TRUE]
  /\ Goto(g, "check")
  /\ UNCHANGED <<proc, listVars, errCh, lost, assoc, active>>

(* The goroutine returns; the association and the entry in ActiveGNBs      *)
(* stay.                                                                   *)
InitServerFails(g) ==
  /\ pc[g] = "serve"
  /\ Exit(g, "err")
  /\ UNCHANGED <<proc, listVars, lost, assoc, listening, active, sock>>

(* The AMF answers NG setup with a failure (HandlerNgSetupFailure).        *)
HandlerNgSetupFailure(g) ==
  /\ pc[g] \in {"check", "run"} /\ assoc[g]
  /\ lost' = [lost EXCEPT ![g] = TRUE]
  /\ UNCHANGED <<proc, listVars, pc, errCh, assoc, listening, active, sock>>

(* GnbListen reads an error: the association is gone.                      *)
GnbListenEnds(g) ==
  /\ assoc[g]
  /\ assoc' = [assoc EXCEPT ![g] = FALSE] /\ lost' = [lost EXCEPT ![g] = TRUE]
  /\ UNCHANGED <<proc, listVars, pc, errCh, listening, active, sock>>

(* Terminate closes the listener, whose close unlinks its socket path, and *)
(* the association, whose reader then signals the loss, and deletes the    *)
(* entry of the GnbId, whoever is in it.                                   *)
Terminate(g) ==
  /\ listening' = [listening EXCEPT ![g] = FALSE]
  /\ sock' = IF listening[g] /\ Link[prof[g]] # "tcp" THEN [sock EXCEPT ![prof[g]] = NoGnb]
                                                      ELSE sock
  /\ assoc' = [assoc EXCEPT ![g] = FALSE] /\ lost' = [lost EXCEPT ![g] = TRUE]
  /\ active' = [active EXCEPT ![gid[g]] = NoGnb]

(* The loss is seen within 400 ms of the NG setup request: an error.       *)
SetupRejected(g) ==
  /\ pc[g] = "check" /\ lost[g]
  /\ Goto(g, "rejected")
  /\ Terminate(g)
  /\ UNCHANGED <<proc, listVars, errCh>>

(* The 400 ms have passed; the loss may be there too.                      *)
SetupQuiet(g) ==
  /\ pc[g] = "check"
  /\ Goto(g, "run")
  /\ UNCHANGED <<proc, listVars, errCh, lost, assoc, listening, active, sock>>

(* The main select: cancelled, or the association lost.                    *)
Stopped(g) ==
  /\ pc[g] = "run" /\ (cancelled[g] \/ lost[g])
  /\ Goto(g, "gone")
  /\ Terminate(g)
  /\ UNCHANGED <<proc, listVars, errCh>>

(* Whatever is at the socket path is removed, and the goroutine returns.   *)
GnbExits(g) ==
  /\ pc[g] \in {"rejected", "gone"}
  /\ sock' = [sock EXCEPT ![prof[g]] = NoGnb]
  /\ Exit(g, IF pc[g] = "rejected" THEN "err" ELSE "nil")
  /\ UNCHANGED <<proc, listVars, lost, assoc, listening, active>>

-----------------------------------------------------------------------------
(* The process                                                             *)

(* SIGINT or SIGTERM: all listed gNBs are cancelled and the list cleared;  *)
(* os.Exit follows, while goroutines and handlers run on.                  *)
CleanUpAll ==
  /\ proc = "up" /\ lock = NoGnb
  /\ proc' = "exiting"
  /\ cancelled' = [g \in Gnbs |-> cancelled[g] \/ \E p \in Profiles : running[p] = g]
  /\ running' = NoList
  /\ UNCHANGED <<gnbVars, lock, req, prof, gid, mon>>

(* os.Exit, a kill or a crash, such as a panic in a gNB's goroutine, whose *)
(* deferred close runs before the recover that then sends on errCh.  The   *)
(* kernel closes sockets and associations; socket files stay.              *)
Crash ==
  /\ proc # "down"
  /\ proc' = "down"
  /\ lock' = NoGnb /\ running' = NoList
  /\ req' = All("new") /\ pc' = All("off") /\ errCh' = All("none") /\ cancelled' = All(FALSE)
  /\ lost' = All(FALSE) /\ assoc' = All(FALSE) /\ listening' = All(FALSE) /\ mon' = All("off")
  /\ prof' = All(CHOOSE p \in Profiles : TRUE) /\ gid' = All(CHOOSE i \in GnbIds : TRUE)
  /\ active' = [i \in GnbIds |-> NoGnb]
  /\ UNCHANGED sock

(* Mutant: only the default socket is removed at the start.                *)
StartServer_KeepsSockets ==
  /\ proc = "down"
  /\ proc' = "up"
  /\ UNCHANGED <<gnbVars, listVars>>

(* Stale /tmp/gnb_*.sock files are removed first.                          *)
StartServer ==
  /\ proc = "down"
  /\ proc' = "up"
  /\ sock' = NoList
  /\ UNCHANGED <<listVars, pc, errCh, lost, assoc, listening, active>>

-----------------------------------------------------------------------------

(* Steps of the launch, once it has the lock, and of the gNB's goroutines. *)
GnbStep(g) ==
  \/ NewRanGnbContext(g) \/ InitConn(g) \/ InitConnFails(g)
  \/ InitServer(g) \/ InitServerFails(g)
  \/ SetupRejected(g) \/ SetupQuiet(g) \/ Stopped(g) \/ GnbExits(g)

LaunchStep(g) == LaunchGNBProfile(g) \/ LaunchFails(g) \/ LaunchReturns(g)

MonitorStep(g) == MonitorWakes(g) \/ MonitorDeletes(g)

Next ==
  \/ \E p \in Profiles : StopGNBProfile(p)
  \/ \E g \in Gnbs :
       \/ \E p \in Profiles, i \in GnbIds : GetGNBProfile(g, p, i)
       \/ LaunchStep(g) \/ MonitorStep(g) \/ GnbStep(g)
       \/ HandlerNgSetupFailure(g) \/ GnbListenEnds(g)
  \/ CleanUpAll \/ Crash \/ StartServer

Spec == Init /\ [][Next]_vars

(* Goroutines make progress: the dial and the timers end.                  *)
FairSpec ==
  /\ Spec
  /\ \A g \in Gnbs : WF_vars(GnbStep(g)) /\ WF_vars(LaunchStep(g)) /\ WF_vars(MonitorStep(g))

-----------------------------------------------------------------------------
(* Properties                                                              *)

TypeOK ==
  /\ proc \in {"up", "exiting", "down"}
  /\ lock \in Gnbs \cup {NoGnb} /\ running \in [Profiles -> Gnbs \cup {NoGnb}]
  /\ req \in [Gnbs -> Reqs] /\ prof \in [Gnbs -> Profiles] /\ gid \in [Gnbs -> GnbIds]
  /\ pc \in [Gnbs -> Pcs] /\ errCh \in [Gnbs -> {"none", "err", "nil"}]
  /\ cancelled \in [Gnbs -> BOOLEAN] /\ lost \in [Gnbs -> BOOLEAN]
  /\ assoc \in [Gnbs -> BOOLEAN] /\ listening \in [Gnbs -> BOOLEAN]
  /\ mon \in [Gnbs -> Mons]
  /\ active \in [GnbIds -> Gnbs \cup {NoGnb}] /\ sock \in [Profiles -> Gnbs \cup {NoGnb}]

(* The socket path of a gNB (fleet_runner.go, socketPath) is its own: it   *)
(* is free when the gNB comes to bind it, though file removal and Listen   *)
(* know only the path, and is not removed under an open listener by the    *)
(* end of another gNB, a launch or a restart of the server.                *)
SocketOwned ==
  proc = "up" => \A g \in Gnbs : Link[prof[g]] # "tcp" =>
    /\ pc[g] = "serve" => sock[prof[g]] = NoGnb
    /\ listening[g] => sock[prof[g]] = g

(* A gNB that serves its cell is the one ActiveGNBs has for its GnbId, so  *)
(* that handovers, releases and paging find it, unless a gNB of another    *)
(* profile was given the same GnbId.  The registry is keyed by GnbId:      *)
(* Terminate deletes whatever entry has it (gnb/context Terminate).        *)
RunningRegistered ==
  proc = "up" => \A g \in Gnbs :
    /\ pc[g] \in {"check", "run"}
    /\ \A h \in Gnbs : pc[h] # "off" /\ gid[h] = gid[g] => prof[h] = prof[g]
    => active[gid[g]] = g

(* No orphan: a gNB that runs can be stopped.  Either it is listed, or its *)
(* launch still holds the lock and will list it (LaunchGNBProfile).        *)
RunningStoppable ==
  proc = "up" => \A g \in Gnbs : Alive(g) => running[prof[g]] = g \/ lock = g

(* What the fleet promises: GnbSlots.  After CleanUpAll has cleared the    *)
(* list nothing is promised any more.                                      *)
Slots == INSTANCE GnbSlots WITH
  alive  <- [p \in Profiles |->
               IF proc = "up" THEN {g \in Gnbs : Alive(g) /\ prof[g] = p} ELSE {}],
  listed <- [p \in Profiles |-> IF proc = "up" THEN running[p] ELSE NoGnb]

(* One gNB at a time per profile; an entry goes only after its gNB.        *)
SlotsKept == Slots!SlotSpec

(* A gNB told to stop, or whose association is lost, ends and frees its    *)
(* entry, unless the process goes first: the monitor is started even when  *)
(* the launch has taken the value it waits for, and then sees the close.   *)
StoppedEnds ==
  \A g \in Gnbs :
    (proc = "up" /\ running[prof[g]] = g /\ (cancelled[g] \/ lost[g]))
      ~> (proc # "up" \/ running[prof[g]] # g)

(* "exited and cleaned up" (fleet_runner.go, the monitor's last line): the *)
(* association of a gNB that has exited is closed.                         *)
ExitedCleanedUp == \A g \in Gnbs : mon[g] = "done" => ~assoc[g]

=============================================================================
