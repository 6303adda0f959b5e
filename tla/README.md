# OmniRAN-Emulator: TLA+ verification project

OmniRAN-Emulator plays the radio side of a 5G network against a real core: it
runs emulated UEs and gNBs as goroutines of one process, drives them through
scenarios and a web console, and injects faults.  This project models its core
logic in TLA+, checks it with TLC on small instances and proves the central
invariants with TLAPS.  Paths below are relative to `src/`; `ue/` and `gnb/`
stand for `internal/control_test_engine/ue/` and `.../gnb/`, `web/` for
`internal/webserver/`.

## 1. The system

| Part | State | Operations | Interacts with |
|---|---|---|---|
| UE NAS state machine (`ue/nas/handler`, `ue/state`, `ue/context`) | `StateMM`, `StateSM`, `PduSessions` (state, error, time of request), `mmErr`, `smErr`, ngKSI, connection | one handler per downlink NAS message, gNB control messages, web actions, `Terminate` | gNB over a unix or TCP link; web handlers call it directly; the status poll writes it |
| NAS security (`ue/nas/dispatcher.go`, `ue/nas/message/nas_control`, `lib/nas/security/counter.go`) | uplink and downlink COUNT | estimate and check on receipt, read and step on sending | handlers of the UE, one goroutine per message |
| Scenario control (`web/server.go`, `web/custom_scenario_runner.go`, `internal/templates/scenarios.go`) | `runningState`, the custom runner's mutex, status, context, `activeUes` | start requests, stop requests, custom steps, polling by built-in scenarios | UE registry, fleet |
| Fleet UEs (`web/fleet_runner.go`, `ue/context/context.go`) | `fleetUEIDCounter`, `ActiveUEs` | `LaunchUEFromProfile`, `handleFleetStopUE`, `GetFleetRunningSummary` | UE NAS, gNB link |
| Fleet gNBs (`web/fleet_runner.go`, `gnb/gnb.go`) | running gNBs, `ActiveGNBs` | launch, start-all, stop, stop-all | AMF over SCTP |
| gNB context (`gnb/context`) | id, TEID and address generators, UE pools, AMF pool | create, look up and remove UEs, select an AMF | NGAP and NAS handlers |
| gNB NGAP and NAS (`gnb/ngap`, `gnb/nas`) | per-UE state of the gNB | NG setup, context setup, resource setup, release, paging | AMF, UE |
| Handover (`ue/ue.go`, `ue/state/dispatch.go`, `gnb/ngap/service`) | connection and target gNB of the UE, Xn requests | Xn and N2 handover | two gNBs, AMF |
| User plane (`ue/data`, `gnb/gtp`, `gnb/data`) | tunnel interfaces, routes, TEIDs | set up and tear down, forward packets | kernel |
| Chaos engine (`internal/chaos`) | rules by UE and gNB, counters, fuzz rule | configure, reset, decide for a message | every sender |
| Web users and sessions (`web/server.go`) | users file, session table | login, logout, janitor, user management | all web handlers |
| Stores (`config/fleet.go`, `web/server.go`) | `fleet.json`, `users.json`, `scenarios.json`, each with its lists in memory under a lock | load, upsert, delete, update, import, save; batch launch uses a temporary profile | web handlers, fleet launches |
| Others | load tests, traffic, healer, diagnostics, command line, codecs (`lib`) | | |

What makes it hard: `UeListen` starts a goroutine for every message and nothing
locks the UE; web handlers, scenarios and the status poll write the same
context; `Terminate` runs beside handlers that still hold the UE; requests check
and then act; cancellation is a polled flag or a context; the network may lose
messages or stay silent; counters wrap.

Correctness, per part: *UE NAS*: registered implies a security context, nothing
is sent after termination, no request vanishes without an error, nothing stays
pending for ever.  *Security*: genuine messages are accepted in both directions,
uplink COUNTs are not reused, a new security context puts things right.  *Scenario control*: the
status tells the truth, no UE is leaked, stopping stops.  *Fleet UEs*: a failed
launch leaves nothing, a launched UE can be found, every launch returns, ids are
unique.  *Fleet gNBs*: a profile has one gNB at a time, which owns its socket and
its registry entry, can be stopped while it runs and frees its entry when it
ends.  *gNB
context*: a tunnel or address leads to the UE it was given to and to no other,
and goes away only with that UE.  *Handover*: UE, gNBs and AMF agree on who
serves the UE, no handover deletes the serving context or costs the tunnels, and
each comes to an end.  *Stores*: an acknowledged change lasts, file and memory
agree after a save, temporary profiles do not stay.

`PROJECT.json` lists every part with its status, and under "hazards" the places
in the code where these can go wrong.

## 2. Modules

Each `MC…` module only instantiates constants for TLC; each `…_proofs` module
holds theorems.

### UeNas – one UE

State: the fields named in the table, `tasks` (a bag of running goroutines by
what they still have to do), `up` (uplink messages in flight) and `amf` (the
external AMF's view).  One action per handler of `ue/nas/handler/handler.go`
and of `DispatchState`; a handler is split where it sleeps or writes the context
after a send (`InitRegistration`, the wait after Registration Accept,
the deregistration that sleeps and then terminates, `Terminate` between
unregistering and closing).  DL NAS Transport has one action per 5GSM payload.
A Handover Command, an Xn handover and a switch of the gNB close the connection,
dial and store the new one in separate steps that do not look at `Terminate`
(`DispatchHandoverCommand`, `ActionHandover`, `ActionXnHandover`,
`XnHandoverClose`, `SwitchGnb`, `Reconnect`, all ending in `SetUnixConn` or a
failed dial).  The history `raced` records whether such a redial was under way
when `Terminate` last closed the connection.
`Act…` are the web actions and custom scenario steps; `GetFleetRunningSummary`
is the poll, which times sessions out.  Time is the class of `RequestedAt`:
never stamped, within 2.5 s, older.  A MAC failure (`DispatchNasMacFailure`)
drops a protected message at any time, which covers every desynchronisation of
the COUNT; NasCount says when that happens.  The AMF (external) answers what it
receives in protocol order, and may send its commands and rejects at any time.

### NasCount – the NAS COUNT

`SqnMod` and `OverflowMod` are the widths (2^8 and 2^16 in the code).  A
dispatch goes through the program points header (for a new context), overflow,
SQN, MAC; an encode through SQN, MAC, load, store, send, and restarts the counts
first when it answers a Security Mode Command.  A MAC verifies exactly when both
ends used the same keys and the same COUNT, so a message is its COUNT and the
number of its key set.  Authentication replaces the keys at once
(`HandlerAuthenticationRequest`), the counts restart with the Security Mode
Complete; neither waits for a goroutine, so that messages of the old context are
dispatched and encoded across both.  The AMF (external) authenticates, commands a
new context once the challenge is answered, completes the SQN of an uplink
message with the COUNT it accepted last and checks the MAC; during its security
mode procedure it listens to the Complete alone.  `dlOver` and `ulOver` are
history variables that record whether two goroutines of one kind have overlapped
since the context began; `used` and `reused` belong to the keys, `rejected` and
`refused` to the context, `early` says that a message was encoded with new keys
before the count had restarted.

### ScenarioControl – who runs, who stops

A request is checked, claimed and started in separate steps, as in
`handleScenarioRun` and `handleCustomScenarioRun`.  The custom runner's mutex is
explicit (`mu`), so that a call of `AddLog` by its holder is a goroutine
that is stuck for ever with the mutex held.  A built-in scenario builds its UE,
polls `runningState` and ends; what it does in between is not modelled.
`cancelFunc` is the context stored last, which is the one `Stop` cancels.  A
`start_ue` step builds the UE, which registers it, connects it and inserts it in the
map in separate steps; `ues` are the registered ones, `orphaned` those that
nobody can find any more: the UE of a step that could not connect, and those in
a map that the next `Run` replaces.

### FleetUe – launching UEs

One launch per request, through id allocation, registration in `ActiveUEs`,
connection, `InitRegistration`, the wait and the verdict, with every error
return.  The UE's own NAS is cut down to the answers the wait can see (UeNas has
the detail).  `opens` and `closes` count the `Terminate` goroutines of a UE
before and after they have deleted the registry entry.  `IdMod` and `Tries` are
256 and 155 in the code; the counter starts at 100 there and anywhere here,
where earlier launches left it.

### GnbContext – the UEs of one gNB

State: per UE context its `GNBUe` (state, RAN and AMF id, whether the slices are
known, the single `context.pduSession` and the map `pduSessions`, both as TEID and
address), the pools `uePool`, `teidPool` and `ueIpPool`, the three generators, and
the goroutines `thr`: the one that accepts links and one per message of a UE or of
the AMF, each with its program counter and local variables.  `NewGnBUe` is called
by the accepting goroutine and by every Handover Request in a goroutine of its
own.  A generator is loaded in one step and stored, with the pool entry that
follows, in the next; two contexts with one RAN id replace each other in `uePool`.
A set-up allocates, creates the session, answers, starts the readers and sends the
address in separate steps; a release deletes what `context.pduSession` names, then
what `pduSessions` names.  A Handover Request answers with TEID 0, since the new
context has no session; a Path Switch Acknowledge stores, per session, a TEID
that the UPF has chosen in `teidPool`, over whatever is there (`SwitchSession`); an
arriving UE's link and the XN UE CONTEXT RELEASE take contexts out of `uePool`
and leave the other pools alone.  The readers of the user plane are the look-ups
`GetGnbUeByTeid` and `GetGnbUeByIp`.  `told`, `toldIp`, `took`, `teidOver`, `ipOver`,
`ips`, `switched` and `released` are histories.  The AMF (external) gives ids, sends
its messages in the order NGAP prescribes per connection, and does not wait for
the gNB otherwise.  The N2 association is up; a set-up response may fail to be
built.  A Resource Setup Request has one session (the code keeps the last of
several).

### GnbFleet and GnbSlots – the life of fleet gNBs

A launch request and the gNB it may start share a name.  `lock` is
`runningGNBsMu`, which a launch holds while it waits up to 600 ms for an early
error; `running` is `runningGNBs`, `active` is `ActiveGNBs` (keyed by GnbId),
`sock` says which gNB made the socket file of each profile.  The goroutine of
`InitGnbFleet` goes through `pc`: context and registry, dial, NAS server, 400 ms
check of the NG setup, main select, `Terminate`, removal of the socket file; each
start step has its failure.  `errCh` is the buffered channel that launch and
monitor both read; its close is the exit.  `Crash` is `os.Exit`, a kill or a
fatal panic: everything goes except the socket files, which `StartServer`
removes.  Start-all and stop-all are single requests one after the other.

`GnbSlots` is what the fleet promises: per profile a set of running gNBs and an
entry; a gNB is started only where there is neither, the entry names the gNB that
was started and goes only when that one has ended.  `GnbFleet` refines it
(`SlotsKept`): the mapping takes the live goroutines of a profile and `running`
while the process is up, and the idle state otherwise.

### Handover – one UE, several gNBs, the AMF

State: the UE's connection, AMF id and gNB parameters, its tunnels; the
connections, which of them are open and read; the UE contexts of the gNBs (AMF
id, source id, socket, state, in the pool or not); the messages and goroutines
under way; the caller of `TriggerHandover`; the AMF's view (external).  A message
is a record of its kind, place, connection or context, id and gNB, and becomes a
goroutine when it is read, so messages overtake each other as in the code.  An
N2 call returns after its trigger; an Xn call sleeps, closes and dials.  Look-ups
that stop at the first match of a `sync.Map` (`RangeUePool`,
`FindUeInOtherGnb`) may take any match.  `SetAmfUeId` of a context also writes the
id to the UE (`Update`), in the handlers of both triggers, of the target access
and of the Path Switch Acknowledge; the UE takes these updates in any order.  The
AMF prepares one handover at a time, gives the UE a new id for it, and may refuse,
give up or answer late.  The histories `hurried` (a call before the last handover
was over), `misnamed` (an N2 handover asked for with an id that is not the AMF's),
`faulty` (a failed dial or write, a refusal, a loss) and `released` (the web
action) say what a property excludes.  One goroutine at a time calls
`TriggerHandover`, as a scenario does (`CanCall`); two web requests could call it
side by side, which only adds overlaps to those that `hurried` already excludes.
A handover to the gNB where the UE is and means to be is left out: over N2 the
AMF refuses it, over Xn it leaves two contexts in state Ready at one gNB.

### ProfileStore – what is kept on disk

The three stores are alike and are modelled once: lists of named entries in
memory, a lock, a file.  A list is, for each name, the sequence of its entries
(an import may bring several of one name, and every look-up takes the first).  A
change is made in memory with the lock held, then saved in the two steps of
`os.WriteFile`, truncation and write, each of which may fail.  `Stop` may come at
any step; `StartServer` loads what is there: a missing fleet file gives the
defaults, which are saved, a file that does not parse leaves the store empty, and
an empty list of AMFs, slices or security profiles is refilled.
`BatchLaunchUE` is a process of its own that saves a profile, launches from it
and deletes it.  A login that fails reads the users again from their file, if it
is whole (`HandleAuthLogin`), and so takes back a change whose save failed.  `due` is the history of what the last acknowledged request on a
name made of it, `saved` the stores whose last save or load succeeded, `cut` the
temporary profiles that were on disk at a stop.

### How the modules fit together

UeNas is one UE, FleetUe the launches of UEs with the NAS cut down to the
answers a launch can see, NasCount the COUNT below both.  GnbContext is one gNB's
UEs, with what handovers do to the pools; Handover is one UE across gNBs (connection and
context only; tunnels and addresses are GnbContext's), GnbFleet the gNBs themselves.  ProfileStore supplies
the profiles that FleetUe and GnbFleet launch from: they take any profile, so
that nothing they show depends on what the store holds.

## 3. Runs

Passing runs, one per component:

| Run | Instance | Shows |
|---|---|---|
| `ue_nas` | 2 sessions, 4 downlink messages, 2 operator actions (handovers and gNB switches among them), chaos may drop uplink messages | `TypeOK`, `RegisteredHasContext`, `SilentAfterTerminate`, `RejectReported`, `PendingResolves` |
| `nas_count` | 3 sequence numbers, 2 overflow values, 2 handlers, 2 encoders, up to 6 downlink and 4 uplink messages, 6 in all, 1 loss in a row | `TypeOK`, `InOrderAccepted`, `UlCountFresh`, `NewContextAccepted`, `UplinkAccepted` |
| `scenario` | 2 start requests of any kind, 3 steps, 3 stop requests | `TypeOK`, `RunningStatusAlive`, `NoUeLeftInRunner`, `StoppedUeGone` |
| `fleet_ue` | 2 launches, 2 ids, any start of the counter, 1 try, 1 stop request | `TypeOK`, `FailedLaunchClean`, `LaunchedListed`, `LaunchReturns` |
| `gnb_context` | 2 UEs, 1 session each, 2 handlers beside the accepting goroutine, 3 addresses, 5 TEIDs, 4 messages | `TypeOK`, `DownlinkToOwner`, `UplinkFromOwner`, `ToldPlaced`, `TunnelKept` |
| `gnb_fleet` | 2 profiles (one "unix", one of another link type), 2 launches, 2 GnbIds, any number of crashes and restarts | `TypeOK`, `SocketOwned`, `RunningRegistered`, `RunningStoppable`, `SlotsKept` (refinement of GnbSlots), `StoppedEnds` |
| `handover` | 2 gNBs on unix links, 3 handovers of either kind, the first 2 may overlap | `TypeOK`, `TunnelsKept`, `ServedWhenQuiet`, `DownlinkHasSocket`, `ServingInPool`, `HandoverEnds` |
| `profile_store` | 4 lists in 3 stores, 2 changes, failed logins, 2 batches of up to 2 UEs under one clock value, 1 stop | `TypeOK`, `AckedKept`, `SavedAgrees`, `TempsGone`, `BatchLaunchesOwn` |

`HandoverThreeGnbs.cfg` is `handover` with three gNBs and handovers that do not
overlap; it passes.

Runs that find the code differing from what it says of itself ("findings" in
`PROJECT.json` quotes the lines):

| Run | What happens |
|---|---|
| `scenario_stop` | a stopped scenario lives on because the next start sets the flag back before it polls (under fairness) |
| `scenario_success` | `AddLog` under the runner's mutex: a successful run locks the runner for ever |
| `gnb_fleet_cleaned_up` | a gNB whose NAS server does not start is reported as "exited and cleaned up" with its association open |
| `handover_serving_kept` | a Path Switch Acknowledge handled after the next handover releases the context that serves the UE |

Further configurations, kept beside the runs, each of which TLC refutes on the
same modules (`tlc -config X.cfg MC…`):

| Configuration | Formula | What happens |
|---|---|---|
| `UeNasTimeoutNotEarly.cfg` | `TimeoutNotEarly` | `web/fleet_runner.go:391` times a session out "at 2.5s"; three of the four requesters do not stamp `RequestedAt`, and the first poll times their session out |
| `ScenarioOneScenario.cfg` | `OneScenario` | `web/server.go:654` answers "Another scenario is already executing"; two start requests pass the check before either claims the flag |
| `FleetUeIdNotInUse.cfg` | `IdNotInUse` | `web/fleet_runner.go:192` promises an id "not currently in use"; two launches get the same one |
| `FleetUeTerminated.cfg` | `TerminatedStaysDown` | a UE stopped between registration and connection connects afterwards, and is not listed |
| `FleetUeVerdict.cfg` | `LaunchReportsRegistration` | the launch takes 0x01 for REGISTERED (`web/fleet_runner.go:313`); it is DEREGISTERED |
| `HandoverPollResolvesOwn.cfg` | `PollResolvesOwn` | "stable comparison" (`web/fleet_runner.go:474`): on a unix link all connections of a UE to one gNB have the same addresses, and the poll takes the id of an earlier context |
| `ProfileStoreDeletedGone.cfg` | `DeletedGone` | "removes an AMF profile by name" (`config/fleet.go:391`): when the last one is deleted, the next start refills the defaults |

### Bounds

*ue_nas*: four downlink messages are authentication, security mode,
registration accept and one more, or any four of the messages the network may
send unprompted; two operator actions are the ones that conflict (a request and
a stop, two requests, a request and a deregistration, a handover and a stop).
An Xn handover or a gNB switch meets a stop within the bounds.  For an N2 handover,
registration, trigger and stop are three operator actions, so the case that its
Handover Command meets `Terminate` is left to the theorem `Silence`, which has no
bounds.
*nas_count*: six messages are an SQN cycle and its wrap in one direction, or a
challenge, a command and its Complete with messages of the old context before,
beside and after them; with six values of the COUNT, the overflow wraps too.  One
loss in a row is the most that three sequence numbers allow (`LossAssumption`), as
254 is in the code.
*scenario*: a conflict is between a run and its successor or between two
requests; three stops allow one before, between and after them.  *fleet_ue*:
the counter values that collide are 0 and 1, so among the starts of the counter
are one that collides and two that do not; with one try per launch, two launches
are enough to run out of ids.  *gnb_context*: starts from an empty gNB or from
one where some UEs have been accepted and had their context set up (`Start` = 1
of the 4 messages counts as spent), so that three messages, two of them at a
time, are left for set-ups, path switches, handovers and releases; two UEs and a
session each take four addresses, one more than there are, and up to four TEIDs
plus a repeated set-up.
*gnb_fleet*: the conflicts are between a gNB and its successor in
the same profile, or two gNBs under one GnbId; two launches give both, and a
crash gives the launches back.  The link type that is neither unix nor tcp is
there because `InitGnbFleet` removes an old file only for "unix" and binds one for
everything but "tcp".  *handover*: with two gNBs and three handovers the UE goes,
comes back to a gNB that may still have a context of it, and goes again; unix
links are the default and the harder case, since a status poll can confuse the
connections of a UE to one gNB.  Overlapping is limited to the first two calls
(`MaxHurried`) to keep the run short.  What needs a third gNB is in
`HandoverThreeGnbs.cfg` and `handover_serving_kept`.  *profile_store*: one change to be
kept and one to disturb it; one stop and restart, after which a batch can meet
the temporary profile that a batch before the stop left under the same name (one
clock value, the worst case of `UnixNano() % 1000`); two UEs make the batch
repeat.  The proved properties (section 4) do not depend
on the bounds.  Deadlock checking is off in every run because the
bounded environment stops by itself; where waiting for ever is the question, a
liveness property asks it.

### Fairness

*UeNas*: the poll of the status page (every few seconds while a browser is
connected) and the passing of time.  The network and the operator are not fair.
*ScenarioControl*: a goroutine that is not blocked runs, as the Go scheduler
guarantees; a custom step ends (its waits are bounded and select on the
context); a built-in scenario polls, but need not run out.  *FleetUe*: the
launch goroutine and `Terminate` run, and the 3.5 s wait passes.  *GnbFleet*: the
goroutines of launch, gNB and monitor run, so the dial, the 600 ms and the 400 ms
end; nobody has to stop a gNB and no association has to be lost.  *Handover*:
some step that is possible is taken, one of the UE, a gNB or the AMF; calls and
faults need not happen, and `HandoverEnds` asks nothing of a handover that met a
fault.

## 4. Proofs

For every value of the constants that the named `ASSUME`s allow:

| Module | Theorem | Statement |
|---|---|---|
| `UeNas_proofs` | `TypeCorrect` | `Spec => []TypeOK` |
| | `RegisteredContext` | `Spec => []RegisteredHasContext` |
| | `Silence` | `Spec => SilentAfterTerminate` |
| | `Reporting` | `Spec => RejectReported` |
| `NasCount_proofs` | `TypeCorrect` | `Spec => []TypeOK` |
| | `InOrder` | `Spec => []InOrderAccepted` |
| | `NewContext` | `Spec => []NewContextAccepted` |
| | `Uplinks` | `Spec => []UplinkAccepted` |
| | `Fresh` | `Spec => []UlCountFresh` |
| `FleetUe_proofs` | `TypeCorrect` | `Spec => []TypeOK` |
| | `FailedLaunch` | `Spec => []FailedLaunchClean` |
| | `LaunchListed` | `Spec => []LaunchedListed` |
| `ScenarioControl_proofs` | `TypeCorrect` | `Spec => []TypeOK` |
| | `StatusAlive` | `Spec => []RunningStatusAlive` |
| | `NoUeLeft` | `Spec => []NoUeLeftInRunner` |
| | `UeGone` | a custom scenario that has ended has no UE in the registry, but for orphaned ones: the safe half of `StoppedUeGone` |
| `GnbContext_proofs` | `TypeCorrect` | `Spec => []TypeOK` |
| | `Downlink` | `Spec => []DownlinkToOwner` |
| | `Kept` | `Spec => TunnelKept` |
| | `ToldFound` | `Spec => []ToldPlaced` |
| | `Uplink` | `Spec => []UplinkFromOwner` |
| `GnbFleet_proofs` | `TypeCorrect` | `Spec => []TypeOK` |
| | `StoppableCorrect` | `Spec => []RunningStoppable` |
| | `SocketCorrect` | `Spec => []SocketOwned` |
| | `RegisteredCorrect` | `Spec => []RunningRegistered` |
| | `SlotsCorrect` | `Spec => SlotsKept`, that is, GnbFleet implements GnbSlots |
| `Handover_proofs` | `TypeCorrect` | `Spec => []TypeOK` |
| | `DownlinkCorrect` | `Spec => []DownlinkHasSocket` |
| | `TunnelsCorrect` | `Spec => []TunnelsKept` |
| | `ServingCorrect` | `Spec => []ServingInPool` |
| | `ServedCorrect` | `Spec => []ServedWhenQuiet` |
| | `RoomCorrect` | `Spec => []RoomLeft` |
| | `NeverStuckCorrect` | `Spec => []NeverStuck` |
| | `NearerCorrect` | `Spec => [][Steps => Nearer]_vars` |
| `ProfileStore_proofs` | `TypeCorrect` | `Spec => []TypeOK` |
| | `SavedCorrect` | `Spec => []SavedAgrees` |
| | `AckedCorrect` | `Spec => []AckedKept` |
| | `TempsCorrect` | `Spec => []TempsGone` |
| | `LaunchesCorrect` | `Spec => BatchLaunchesOwn` |

*RegisteredContext* needs `ContextInv`: the UE cannot see that a Registration
Accept is genuine, so the argument goes through the AMF.  An Accept, or a
goroutine that will set REGISTERED, exists only when the AMF has completed
security mode, which it does only on a Security Mode Complete, which is sent only
by a handler that has set ngKSI.

*Silence* needs `TerminatedInv`: when a UE is out of the registry, all goroutines in
`Terminate` are through, and no redial was under way at the last close, the
connection is closed and nothing that could open one is running.  Neither can it
start any more: operator actions need the UE in the registry, a Handover Command
needs the link.  `SendToGnb` sends nothing on a closed connection.

*Reporting* is an action property; it follows from the actions one by one with
`TypeOK`.

*InOrder* and *NewContext* need `SyncInv`: one dispatch at a time, and the message it
holds, or the next one on the link, is ahead of the stored COUNT by the number of
messages lost plus one (`Ahead`), which is less than a turn of the SQN
(`LossAssumption`), so that a smaller SQN means exactly one wrap.  The invariant is
`dlOver \/ SyncInv`.  A new context sets `dlOver` to whether a dispatch is under way
at that moment, so `SyncInv` has to hold from there on whatever the count was: the
header step restarts it, and what the old context's messages leave is overwritten.

*Uplinks* needs `ProcInv`, which holds whatever overlaps: a procedure has one command
and one answer, and the counts restart once for a set of keys.  On top of it
`UlInv` (under `~ulOver`) follows the one encoder from point to point, and says that
when the AMF listens the stored count is ahead of the COUNT it accepted last by
the messages lost plus one.

*Fresh* needs `FreshInv` beside `UlInv`.  `Val` reads a COUNT as one number.  The
COUNTs used with the keys are below the stored one, or up to it while the encoder
that used it has not stepped it (`UsedInv`, unless `early`), and the stored one is at
most the number of messages plus one (`CountInv`), so that by `UpAssumption` it does
not wrap.

*FailedLaunch* needs `CleanInv`: a UE is in the registry only under its own id
and only between registration and the deletion that its failing launch performs
(`Home`, `Absent`), a launch that has not dialled has no connection
(`Unconnected`), and a failed launch has returned (`FailedDone`).  It does not need
ids to be different.

*LaunchListed* needs `ListedInv`: from the step that registers it, a UE stays in
its entry while it is `Untouched` (no stop request, no other launch with its
id), because other goroutines write the entries of their own ids only and a UE
can be stopped only once it has been registered (`StopSeen`).

*StatusAlive*, *NoUeLeft* and *UeGone* need `RunnerInv`: the scenario behind a readable
status "running" is a custom one before or in its deferred function (`Owner`),
a UE is in the map only while its own scenario runs (`Kept`), and a registered UE
is in the map, on its way there or orphaned (`Accounted`).  Even type
correctness needs `Owner`: `Stop` calls `cancelFunc`, which is nil before the
first run.

*Downlink*, *Kept* and *ToldFound* need `OwnerInv`, in four parts: a TEID taken for a
UE is below the generator and was taken for no other (`Taken`); the one goroutine
between load and store holds the generator's value, later ones hold a TEID of
their UE (`Allocating`); pool, contexts and what the core was told name only TEIDs of
their UE, but for the ones that a path switch has stored (`Held`); those of a UE
that has not been released are in the pool (`Placed`).  The invariant is
`teidOver \/ OwnerInv`; even type correctness needs `ShapeInv` (what a goroutine holds
at each program point).

*Uplink*, and *ToldFound* for addresses, need `AddrInv`.  The addresses taken so far
are the first `ips` from `FirstIp` on, counted round the end (`Off`), so the next one
is new until all `IpMod` are taken; a function `own`, which exists in every state
and grows with each address, agrees with the pool, with what the UEs were told and
with what the goroutines hold, and the pool has those of every UE that has not been
released (`Owned`).

*StoppableCorrect*, *SocketCorrect* and *RegisteredCorrect* share one invariant:
the launch lock belongs to the launch that waits, a profile whose launch waits is
not listed, and a listed gNB has a monitor that has not deleted its entry, which
it does only after the gNB has ended (`LaunchInv`, `ListInv`); the socket file of a
profile belongs to the gNB of the profile that listens (`SockInv`); from its
registration to its end a gNB has the entry of its GnbId, if no other profile
uses that id (`ActiveInv`); nothing but files is left when the process is down
(`DownInv`).  *SlotsCorrect* uses it for the refinement: `SlotAlive` and `SlotListed`
map a state of GnbFleet to one of GnbSlots, the initial state goes to an empty
table and every step to one of launching, ending, freeing and crashing, or to
a stutter.

*DownlinkCorrect* needs that a message to the UE is only caused by a context with
a connection.  A context that has not been created has none (`CtxInv`), the
context a connection is looked up to has one (`OwnerInv`), and so have the context
the AMF takes for serving and the source of a handover it prepares (`AmfInv`).
`MsgInv` carries this over the messages under way: only a context with a
connection sends to the AMF or is commanded to hand over.  The lemmas `FieldStep`, `PoolStep` and
`StateStep` show once for every shape of update that connections are kept.

*TunnelsCorrect* and *ServingCorrect* are about handovers that do not overlap and
need `OneInv`.  There is at most one message that is the handover itself, and
none while the caller sleeps (`LoneInv`); the UE has one connection, or none
between closing and dialling (`ConnInv`); `StageOK` says for each kind of message
what the handover has done by then: the old connection is closed before the UE
accesses the target, so that the release of the source meets a closed
connection, and nothing that deletes a context names the one that serves.
`PlaceInv`, which holds for overlapping handovers too, puts a connection and the
contexts that have it at one gNB.  Faults and lost messages are allowed: they
only end a handover early.

*ServedCorrect* needs `SrvInv` on top.  It describes a handover that is `Fine` (it met
no fault and, over N2, named the AMF's id) at each of its messages (`SrvOK`), at rest
(`AtRest`) and during an Xn call (`InCall`): which context has the connection, and
that no other looks as if it served the UE (`LiveIn`).  The UE's id is not part of it,
because the updates that `SetAmfUeId` sends cross each other: the theorem needs the
UE to have the AMF's id only from an N2 trigger until the UE accesses the target
(`Named`), and there is nothing else to be told then.  A path switch asked for with
another id is refused and counts as a fault.  Each step of the handover leads from
one description to the next, and every other step leaves it alone (`Frame`); the
status poll, which on unix links may take the id of an earlier context, writes
nothing but the UE's id.

*RoomCorrect*, *NeverStuckCorrect* and *NearerCorrect* are the safety half of
`HandoverEnds`.  `CountInv` counts: each call makes one connection, two contexts and
one id at most, so what exists plus what is still due is within the bounds.
`WholeInv` says that a message is where its handler is, on a connection that exists,
and that the UE's open connection is read or about to be.  Together they give
`NeverStuck`: while something is under way and handovers do not overlap, some guard
of `Steps` holds (`CanStep`).  The hypothesis is needed: when handovers overlap, a
message can wait on an old connection that nobody reads.  `Nearer` is a
lexicographic measure over the stages of a handover, the number of messages in each,
what the caller has left and the connections to accept; every step decreases
it, overlapping or not.  That fairness then ends every handover is the one
conclusion that is left to TLC.

*SavedCorrect* and *AckedCorrect* rest on `StoreInv`: whoever holds a store's lock
saves what is in memory, with the value it will promise (`LockInv`), and what has
been acknowledged is in the memory of a server that runs and in a file that is
whole (`MemAck`, `DiskAck`).  *TempsCorrect* adds `BatchInv`: a batch that is busy has
a temporary name (`Named`), one that deletes has removed its profile from the
memory and holds the lock (`Deleting`), a temporary name occurs at most once, in
memory and on disk (`Single`), so that one delete is enough, and what is on disk
while the server is down is left from a batch that was cut off (`DiskCut`).

*LaunchesCorrect* is an action property and needs `OwnInv`: a batch that is about to
launch (`ToLaunch`) finds its own profile or none under its temporary name, unless
another batch is busy with that name (`Finds`).  It is inductive because a batch
lets go of a name only when memory has nothing under it.

Only model-checked: `PendingResolves`, `StoppedUeGone` (its safe half is `UeGone`),
`LaunchReturns`, `StoppedEnds` and `HandoverEnds`: liveness, out of the prover's reach.  Every
invariant and action property of the passing runs has a theorem.

## 5. Observations outside the runs

Seen while modelling and faithful in the modules; most are plain sequences of
one actor that need no model checker:

* `ue/nas/handler/handler.go:391` terminates the UE before line 400 sends the
  Deregistration Accept, which therefore is never sent.
* `handler.go:329-343`: a PDU Session Modification Command is answered and then
  falls through to the fallback for undecodable payloads, which fails every
  PENDING session.
* `web/server.go:663` claims `runningState` for a stored custom scenario, and
  nothing releases it when the id is unknown or the run ends.
* `integrity-ciphering-nas.go:119` reads the SQN and lines 128-136 the COUNT: when
  two encoders overlap, a message carries the SQN of one COUNT and the MAC of
  another (`UplinkAccepted` has `ulOver` for that reason).
* `DeriveRESstarAndSetKey` replaces the keys in use while the counts go on: until
  the Security Mode Complete restarts them, an uplink message is protected with
  the new keys and a COUNT that comes again afterwards (`UlCountFresh` has `early`).
* `ue/state/dispatch.go:40-103` and `ue/ue.go`: a goroutine that redials for a
  handover does not look at `Terminate`; it puts a new connection in the context
  of a terminated UE and sends on it (`SilentAfterTerminate` has `raced`).
* `gnb/ngap/handler/handler.go:1117-1132` logs "tunnels released", but
  `CreatePduSession` has overwritten the TEID and address that `NewGnBUe` stored,
  so these two entries of the pools stay for ever; so does the pair of a
  session that is set up a second time.
* `handler.go:78` gives a UE its AMF id once and a release keeps it: if the AMF
  chooses a new id for the next connection, lines 242 and 498 refuse every set-up.
* `initial-context-setup-response.go` lists every session in `pduSessions`, those
  whose tunnels a release has deleted included.
* `handler.go:516` only logs that a slice was not found; the response then names
  TEID 0.  So does every Handover Request Acknowledge, whose new context has no
  session.
* `handler.go:899` stores the UPF's uplink TEID, a number of another space, among
  the downlink TEIDs of the gNB: it can take the entry of another UE, and the
  release of the UE it was stored for does not look for it.
* `gnb/gtp/service/service.go:77` and `gnb/data/service/service.go:61` end the
  reader for all UEs at the first packet they cannot place, and the N3 plane
  stays set, so that nothing starts it again.  `ToldPlaced` is about packets of UEs
  that have not been released; TEID 0, packets of another gNB on the same
  loopback address and read errors end a reader as well.
* `web/fleet_runner.go:383` says a DEREGISTERED UE has no pending session; line
  384 asks for a recorded error as well.
* `gnb/gnb.go:274-280`: the deferred `close(errCh)` runs before the deferred
  recover, which then sends on a closed channel, so that a panic in a gNB ends
  the process instead of being reported.
* `gnb/gnb.go`: a gNB whose AMF connection or NAS server does not start stays in
  `ActiveGNBs` until another gNB takes its GnbId.
* `web/server.go:1414` checks that no running gNB uses a profile and deletes it
  afterwards; a launch in between runs a gNB whose profile is gone.
* `config/fleet.go`: a change whose save fails is answered with an error and stays
  in memory, where the next successful save of any list writes it out.
* `os.WriteFile` truncates the file in place: a stop between truncation and
  write leaves a file that does not parse, and the next start begins with the
  defaults.  `AckedKept` excludes exactly this case.
* An import takes lists over as they are, two profiles of one name included;
  look-ups and deletes take the first, so that a deleted profile is back with
  the contents of the second.
* The temporary profile of a batch is named after `UnixNano() % 1000`: two
  batches may use the same one, and a batch may find the one a stopped server
  left.
* An N2 handover that the target or the AMF refuses leaves the UE's gNB
  parameters set to the target.
* After one N2 handover without any fault the UE can be left with the old id: the
  trigger's own id update (`gnb/nas/handler/handler.go:118`) and the one of the
  target are dispatched by two goroutines.  The next N2 handover is then asked
  for with an id the AMF does not have (`ServedWhenQuiet` has `misnamed`).
* Nothing refuses an Xn handover to the gNB where the UE is; it leaves the old
  context there in state Ready.
* `chaos/chaos.go:70`: `Reset` clears the drop and delay rules and keeps the
  fuzzing rule.

## 6. What is not modelled

* *Chaos engine*: its effect, an uplink message that is lost or late, is in UeNas
  and NasCount for all rules at once; the rules themselves are a table under a
  lock and a random draw.
* *Sessions, passwords, tokens*: a table in memory whose entries expire; the
  users file, and its reload by a failed login, is in ProfileStore.
* *Scenario templates*: their bodies are sequences of the operations that UeNas,
  FleetUe and GnbFleet model, cut down in ScenarioControl to cancellable waits.
* *User plane of the UE*: `uetun` interfaces, routes and rules belong to the
  kernel, whose answers the code ignores; the gNB's readers are in GnbContext.
* *gNB*: AMF selection, the contents of the NG Setup Response, paging, session
  modification and the mock AMF's loops.
* *Traffic, healer, diagnostics, command line, monitoring*: nothing of what they
  write is read by the parts above.
* *Message builders, codecs, cryptography*: messages are model values; `lib/` is
  third-party code of which only the COUNT type is modelled.  `go_sdk/` is a
  copy of the Go distribution, not a part of the emulator.
* A data race on a Go map (`PduSessions` of the UE, `pduSessions` of the gNB) may abort
  the process; the modules interleave whole map operations instead.

## 7. Plan

1. For the other liveness properties what `NeverStuckCorrect` and `NearerCorrect`
   are for `HandoverEnds`: a launch, a stop or a pending request can go on, and every
   step of it is nearer to its end.
2. An abstract specification of a UE session (requested, then established,
   failed or released) that UeNas implements, and the cut-down NAS of FleetUe
   shown to allow what UeNas does.
3. The rest of the gNB's NGAP: paging, session modification, AMF selection with
   several AMFs.
4. **PerfTester**: the worker pool of the load tests.
