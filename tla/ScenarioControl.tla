-------------------------- MODULE ScenarioControl --------------------------
(***************************************************************************)
(* Who may run a scenario: the web handlers that start and stop scenarios  *)
(* (server.go), the flag runningState they share, and the runner of custom *)
(* scenarios (custom_scenario_runner.go) with its mutex.                   *)
(*                                                                         *)
(* Each HTTP request that starts a scenario is served in a goroutine of    *)
(* its own and starts at most one scenario goroutine, so both are named by *)
(* the request.  A scenario owns one UE, named likewise: two scenarios use *)
(* different UE ids.  gNBs are left out of the registry test.  A critical  *)
(* section of the runner's mutex is one step; only a goroutine that locks  *)
(* the mutex again while it holds it keeps it beyond a step.               *)
(***************************************************************************)
EXTENDS Naturals

CONSTANTS
  Requests,    \* requests that start a scenario
  NoOne,       \* no holder, no owner
  MaxSteps,    \* bound: steps of a scenario
  MaxStops     \* bound: requests that stop one

ASSUME NoOneAssumption == NoOne \notin Requests
ASSUME BoundAssumption == MaxSteps \in Nat /\ MaxStops \in Nat

VARIABLES
  runningState,  \* 0 idle, 1 running
  status,        \* CustomRunnerState.Status
  mu,            \* the goroutine that holds CustomRunnerState.mu for ever
  activeUes,     \* CustomRunnerState.activeUes: scenarios whose UE is in it
  cancelFunc,    \* the scenario whose context cancelFunc cancels
  cancelled,     \* scenarios whose context has been cancelled
  ues,           \* scenarios whose UE is in the ActiveUEs registry
  orphaned,      \* custom scenarios whose UE the runner has lost sight of
  kind,          \* what each request asks for
  req,           \* where each request is
  run,           \* where the scenario goroutine of each request is
  steps,         \* steps it has done
  stopped,       \* built-in scenarios that a stop request was meant for
  stops

vars == <<runningState, status, mu, activeUes, cancelFunc, cancelled, ues,
          orphaned, kind, req, run, steps, stopped, stops>>

(* "builtin": a scenario of templates/; "saved": a stored custom scenario; *)
(* "missing": a custom id that is not stored, the last three through       *)
(* handleScenarioRun.  "custom": handleCustomScenarioRun.  "perf":         *)
(* handlePerformanceTest.                                                  *)
Kinds    == {"builtin", "saved", "missing", "custom", "perf"}
Statuses == {"idle", "running", "success", "failed"}
ReqPcs   == {"new", "checked", "claimed", "done"}
RunPcs   == {"none", "step", "building", "start_ue", "connected", "ending", "stuck", "done"}

CustomKinds == {"saved", "custom"}
Running(r)  == run[r] \notin {"none", "done"}

Init ==
  /\ runningState = 0 /\ status = "idle" /\ mu = NoOne
  /\ activeUes = {} /\ cancelFunc = NoOne /\ cancelled = {} /\ ues = {}
  /\ orphaned = {}
  /\ kind \in [Requests -> Kinds]
  /\ req = [r \in Requests |-> "new"]
  /\ run = [r \in Requests |-> "none"]
  /\ steps = [r \in Requests |-> 0]
  /\ stopped = {} /\ stops = 0

-----------------------------------------------------------------------------
(* Requests that start a scenario                                          *)

(* isScenarioOrCustomRunning: the mutex is taken only if the flag is 0.    *)
isScenarioOrCustomRunning == runningState = 1 \/ status = "running"
isAnyFleetGNBOrUERunning  == ues # {}

(* A request that finds another scenario or an active UE is refused.       *)
Refuse(r) ==
  /\ req[r] = "new"
  /\ runningState = 1 \/ mu = NoOne
  /\ isScenarioOrCustomRunning \/ isAnyFleetGNBOrUERunning
  /\ req' = [req EXCEPT ![r] = "done"]
  /\ UNCHANGED <<runningState, status, mu, activeUes, cancelFunc, cancelled, ues,
                 orphaned, kind, run, steps, stopped, stops>>

Check(r) ==
  /\ req[r] = "new"
  /\ mu = NoOne
  /\ ~isScenarioOrCustomRunning /\ ~isAnyFleetGNBOrUERunning
  /\ req' = [req EXCEPT ![r] = IF kind[r] = "custom" THEN "claimed" ELSE "checked"]
  /\ UNCHANGED <<runningState, status, mu, activeUes, cancelFunc, cancelled, ues,
                 orphaned, kind, run, steps, stopped, stops>>

(* The flag is set after the check, by a plain store.                      *)
Claim(r) ==
  /\ req[r] = "checked"
  /\ runningState' = 1
  /\ req' = [req EXCEPT ![r] = "claimed"]
  /\ UNCHANGED <<status, mu, activeUes, cancelFunc, cancelled, ues, orphaned, kind, run, steps,
                 stopped, stops>>

(* A built-in scenario starts a goroutine; the performance test runs in    *)
(* the request itself.                                                     *)
StartBuiltin(r) ==
  /\ req[r] = "claimed" /\ kind[r] \in {"builtin", "perf"}
  /\ req' = [req EXCEPT ![r] = "done"]
  /\ run' = [run EXCEPT ![r] = "step"]
  /\ UNCHANGED <<runningState, status, mu, activeUes, cancelFunc, cancelled, ues, orphaned, kind,
                 steps, stopped, stops>>

(* "Custom scenario not found": the request returns and the flag stays 1.  *)
NotFound(r) ==
  /\ req[r] = "claimed" /\ kind[r] = "missing"
  /\ req' = [req EXCEPT ![r] = "done"]
  /\ UNCHANGED <<runningState, status, mu, activeUes, cancelFunc, cancelled, ues, orphaned, kind,
                 run, steps, stopped, stops>>

(* CustomRunnerState.Run takes over the runner whatever its state is; UEs  *)
(* in the map of an earlier run are forgotten.                             *)
Run(r) ==
  /\ req[r] = "claimed" /\ kind[r] \in CustomKinds
  /\ mu = NoOne
  /\ status' = "running" /\ activeUes' = {} /\ cancelFunc' = r
  /\ orphaned' = orphaned \cup activeUes
  /\ req' = [req EXCEPT ![r] = "done"]
  /\ run' = [run EXCEPT ![r] = "step"]
  /\ UNCHANGED <<runningState, mu, cancelled, ues, kind, steps, stopped, stops>>

-----------------------------------------------------------------------------
(* The goroutine of a custom scenario                                      *)

CustomStep(r) == run[r] = "step" /\ kind[r] \in CustomKinds

(* Between two steps: the context has been cancelled, or the scenario,     *)
(* whose length is an input, has no step left.                             *)
StepsEnd(r) ==
  /\ CustomStep(r)
  /\ run' = [run EXCEPT ![r] = "ending"]
  /\ UNCHANGED <<runningState, status, mu, activeUes, cancelFunc, cancelled, ues, orphaned, kind,
                 req, steps, stopped, stops>>

(* Mutant: one step too many.                                              *)
DoStep_OffByOne(r) ==
  /\ CustomStep(r)
  /\ r \notin cancelled /\ steps[r] <= MaxSteps
  /\ mu = NoOne
  /\ steps' = [steps EXCEPT ![r] = @ + 1]

(* What every step begins with: the context is polled, and CurrentStep and *)
(* the log are written under the mutex.                                    *)
DoStep(r) ==
  /\ CustomStep(r)
  /\ r \notin cancelled /\ steps[r] < MaxSteps
  /\ mu = NoOne
  /\ steps' = [steps EXCEPT ![r] = @ + 1]

(* A step that sends, waits or sleeps and goes on.                         *)
StepPasses(r) ==
  /\ DoStep(r)
  /\ UNCHANGED <<runningState, status, mu, activeUes, cancelFunc, cancelled, ues, orphaned, kind,
                 req, run, stopped, stops>>

(* Mutant: a failing step only logs.                                       *)
StepFails_StatusKept(r) ==
  /\ DoStep(r)
  /\ run' = [run EXCEPT ![r] = "done"]
  /\ UNCHANGED <<runningState, status, mu, activeUes, cancelFunc, cancelled, ues, orphaned, kind,
                 req, stopped, stops>>

(* A step that calls SetError and returns.                                 *)
StepFails(r) ==
  /\ DoStep(r)
  /\ status' = "failed"
  /\ run' = [run EXCEPT ![r] = "ending"]
  /\ UNCHANGED <<runningState, mu, activeUes, cancelFunc, cancelled, ues, orphaned, kind, req,
                 stopped, stops>>

(* start_ue: the context is not looked at again in this step.              *)
StartUe(r) ==
  /\ DoStep(r)
  /\ run' = [run EXCEPT ![r] = "building"]
  /\ UNCHANGED <<runningState, status, mu, activeUes, cancelFunc, cancelled, ues,
                 orphaned, kind, req, stopped, stops>>

(* NewRanUeContext registers the UE ...                                    *)
StartUeRegister(r) ==
  /\ run[r] = "building"
  /\ ues' = ues \cup {r}
  /\ run' = [run EXCEPT ![r] = "start_ue"]
  /\ UNCHANGED <<runningState, status, mu, activeUes, cancelFunc, cancelled, orphaned,
                 kind, req, steps, stopped, stops>>

(* ... InitConn may fail, which leaves it in the registry ...              *)
StartUeNoConn(r) ==
  /\ run[r] = "start_ue" /\ kind[r] \in CustomKinds
  /\ mu = NoOne
  /\ status' = "failed" /\ orphaned' = orphaned \cup {r}
  /\ run' = [run EXCEPT ![r] = "ending"]
  /\ UNCHANGED <<runningState, mu, activeUes, cancelFunc, cancelled, ues, kind, req,
                 steps, stopped, stops>>

(* Mutant: a cancelled scenario gives up at once when it is connected.     *)
StartUeDone_CtxChecked(r) ==
  /\ run[r] = "start_ue" /\ kind[r] \in CustomKinds
  /\ mu = NoOne
  /\ activeUes' = IF r \in cancelled THEN activeUes ELSE activeUes \cup {r}
  /\ run' = [run EXCEPT ![r] = "step"]
  /\ UNCHANGED <<runningState, status, mu, cancelFunc, cancelled, ues, orphaned, kind,
                 req, steps, stopped, stops>>

(* ... and the runner's map of the moment gets it, cancelled or not.       *)
StartUeDone(r) ==
  /\ run[r] = "start_ue" /\ kind[r] \in CustomKinds
  /\ mu = NoOne
  /\ activeUes' = activeUes \cup {r}
  /\ run' = [run EXCEPT ![r] = "step"]
  /\ UNCHANGED <<runningState, status, mu, cancelFunc, cancelled, ues, orphaned, kind,
                 req, steps, stopped, stops>>

(* stop_ue terminates the UE under the mutex and then calls AddLog, which  *)
(* locks the mutex again; so does the branch without a UE.                 *)
StopUe(r) ==
  /\ DoStep(r)
  /\ mu' = r
  /\ ues' = ues \ (activeUes \cap {r}) /\ activeUes' = activeUes \ {r}
  /\ run' = [run EXCEPT ![r] = "stuck"]
  /\ UNCHANGED <<runningState, status, cancelFunc, cancelled, orphaned, kind, req, stopped, stops>>

(* The deferred function of Run.  The status may be that of a later run;   *)
(* AddLog locks the mutex that the function already holds.                 *)
CompleteSuccess(r) ==
  /\ run[r] = "ending" /\ kind[r] \in CustomKinds
  /\ mu = NoOne /\ status = "running"
  /\ status' = "success" /\ mu' = r
  /\ run' = [run EXCEPT ![r] = "stuck"]
  /\ UNCHANGED <<runningState, activeUes, cancelFunc, cancelled, ues, orphaned, kind, req, steps,
                 stopped, stops>>

(* Mutant: the UEs of the scenario are left running.                       *)
CompleteOther_NoCleanup(r) ==
  /\ run[r] = "ending" /\ kind[r] \in CustomKinds
  /\ mu = NoOne /\ status # "running"
  /\ cancelled' = cancelled \cup {r}
  /\ run' = [run EXCEPT ![r] = "done"]
  /\ UNCHANGED <<runningState, status, mu, activeUes, cancelFunc, ues, orphaned, kind, req, steps,
                 stopped, stops>>

CompleteOther(r) ==
  /\ run[r] = "ending" /\ kind[r] \in CustomKinds
  /\ mu = NoOne /\ status # "running"
  /\ cancelled' = cancelled \cup {r}
  /\ ues' = ues \ activeUes /\ activeUes' = {}
  /\ run' = [run EXCEPT ![r] = "done"]
  /\ UNCHANGED <<runningState, status, mu, cancelFunc, orphaned, kind, req, steps, stopped, stops>>

-----------------------------------------------------------------------------
(* The goroutine of a built-in scenario or performance test                *)

BuiltinStep(r) == run[r] = "step" /\ kind[r] \in {"builtin", "perf"}

(* buildUE: the UE is registered; without a connection the scenario ends   *)
(* and leaves it in the registry.                                          *)
BuildUe(r) ==
  /\ BuiltinStep(r)
  /\ ues' = ues \cup {r}
  /\ \E pc \in {"connected", "ending"} : run' = [run EXCEPT ![r] = pc]
  /\ UNCHANGED <<runningState, status, mu, activeUes, cancelFunc, cancelled, orphaned, kind, req,
                 steps, stopped, stops>>

(* The scenario with its UE polls shouldExit, and ends when the flag is 0  *)
(* or when it has nothing left to do; "defer u.Terminate()".  The          *)
(* interactive scenario ends for no other reason than the flag.            *)
ShouldExit(r) ==
  /\ run[r] = "connected"
  /\ kind[r] = "builtin" /\ runningState = 0
  /\ ues' = ues \ {r}
  /\ run' = [run EXCEPT ![r] = "ending"]
  /\ UNCHANGED <<runningState, status, mu, activeUes, cancelFunc, cancelled, orphaned, kind, req,
                 steps, stopped, stops>>

RunsOut(r) ==
  /\ run[r] \in {"connected", "step"} /\ kind[r] \in {"builtin", "perf"}
  /\ ues' = ues \ {r}
  /\ run' = [run EXCEPT ![r] = "ending"]
  /\ UNCHANGED <<runningState, status, mu, activeUes, cancelFunc, cancelled, orphaned, kind, req,
                 steps, stopped, stops>>

(* The deferred store of 0.                                                *)
BuiltinEnds(r) ==
  /\ run[r] = "ending" /\ kind[r] \in {"builtin", "perf"}
  /\ runningState' = 0
  /\ run' = [run EXCEPT ![r] = "done"]
  /\ UNCHANGED <<status, mu, activeUes, cancelFunc, cancelled, ues, orphaned, kind, req, steps,
                 stopped, stops>>

-----------------------------------------------------------------------------
(* Requests that stop a scenario                                           *)

(* handleScenarioStop: the flag, and every UE in the registry.             *)
handleScenarioStop ==
  /\ stops < MaxStops /\ stops' = stops + 1
  /\ runningState = 1
  /\ runningState' = 0 /\ ues' = {}
  /\ stopped' = stopped \cup {r \in Requests : kind[r] = "builtin" /\ Running(r)}
  /\ UNCHANGED <<status, mu, activeUes, cancelFunc, cancelled, orphaned, kind, req, run, steps>>

(* CustomRunnerState.Stop                                                  *)
Stop ==
  /\ stops < MaxStops /\ stops' = stops + 1
  /\ mu = NoOne /\ status = "running"
  /\ status' = "failed"
  /\ cancelled' = cancelled \cup {cancelFunc}
  /\ ues' = ues \ activeUes /\ activeUes' = {}
  /\ UNCHANGED <<runningState, mu, cancelFunc, orphaned, kind, req, run, steps, stopped>>

-----------------------------------------------------------------------------
Request(r) ==
  Refuse(r) \/ Check(r) \/ Claim(r) \/ StartBuiltin(r) \/ NotFound(r) \/ Run(r)

Custom(r) ==
  \/ StepsEnd(r) \/ StepPasses(r) \/ StepFails(r)
  \/ StartUe(r) \/ StartUeRegister(r) \/ StartUeNoConn(r) \/ StartUeDone(r) \/ StopUe(r)
  \/ CompleteSuccess(r) \/ CompleteOther(r)

Builtin(r) == BuildUe(r) \/ ShouldExit(r) \/ RunsOut(r) \/ BuiltinEnds(r)

Next ==
  \/ \E r \in Requests : Request(r) \/ Custom(r) \/ Builtin(r)
  \/ handleScenarioStop
  \/ Stop

Spec == Init /\ [][Next]_vars

(* The Go scheduler runs every goroutine that is not blocked.  A built-in  *)
(* scenario need not run out by itself, but it polls shouldExit.           *)
Fairness ==
  \A r \in Requests : /\ WF_vars(Custom(r))
                      /\ WF_vars(ShouldExit(r) \/ BuildUe(r) \/ BuiltinEnds(r))

FairSpec == Spec /\ Fairness

-----------------------------------------------------------------------------
(* Properties                                                              *)

(* Every variable keeps its type.                                          *)
TypeOK ==
  /\ runningState \in {0, 1} /\ status \in Statuses
  /\ mu \in Requests \cup {NoOne} /\ cancelFunc \in Requests \cup {NoOne}
  /\ activeUes \subseteq Requests /\ ues \subseteq Requests /\ orphaned \subseteq Requests
  /\ cancelled \subseteq Requests /\ stopped \subseteq Requests
  /\ kind \in [Requests -> Kinds] /\ req \in [Requests -> ReqPcs]
  /\ run \in [Requests -> RunPcs] /\ steps \in [Requests -> 0 .. MaxSteps]
  /\ stops \in 0 .. MaxStops

(* The status page never shows a dead custom scenario as running: while    *)
(* the status can be read (the mutex is not lost) and is "running", the    *)
(* goroutine of the last Run is still going, however its end races with    *)
(* Stop, with SetError and with the end of an earlier run.                 *)
RunningStatusAlive ==
  status = "running" /\ mu = NoOne =>
    cancelFunc # NoOne /\ run[cancelFunc] \notin {"none", "stuck", "done"}

(* When no goroutine of a custom scenario is left, the runner holds no UE: *)
(* a start_ue that races with Stop is cleaned up by the deferred function. *)
NoUeLeftInRunner ==
  (\A r \in Requests : kind[r] \in CustomKinds => ~Running(r)) => activeUes = {}

(* A cancelled custom scenario takes its UE with it: it ends, and the UE   *)
(* is out of the registry by then, also when Stop emptied the map while    *)
(* start_ue was building or connecting the UE and only the deferred        *)
(* function of Run can find it.  Lost are a UE that could not connect, one *)
(* whose map a later Run has replaced, and everything when the mutex is.   *)
StoppedUeGone ==
  \A r \in Requests :
    r \in cancelled ~> \/ run[r] = "done" /\ (r \notin ues \/ r \in orphaned)
                      \/ mu # NoOne

(* The rest state what the code says of itself; it behaves differently.    *)

(* "Another scenario is already executing": a second one is refused.       *)
OneScenario == \A r, q \in Requests : Running(r) /\ Running(q) => r = q

(* "Stop request received. Terminating running scenario...": the scenario  *)
(* that was running ends.                                                  *)
StopTerminates == \A r \in Requests : r \in stopped ~> run[r] = "done"

(* "idle", "running", "success", "failed": a scenario that has completed   *)
(* successfully can be seen to have, and the runner can be used again; so  *)
(* the mutex is not held by a goroutine that waits for it.                 *)
SuccessReadable == status = "success" => mu = NoOne

=============================================================================
