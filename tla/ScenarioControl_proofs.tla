----------------------- MODULE ScenarioControl_proofs -----------------------
(***************************************************************************)
(* Proofs about ScenarioControl, for any number of requests of any kind,   *)
(* any length of the scenarios and any number of stop requests: type       *)
(* correctness, the status of the custom runner tells the truth, the       *)
(* runner keeps no UE once its goroutines have ended, and a UE outlives    *)
(* its scenario only if the runner has lost sight of it.                   *)
(***************************************************************************)
EXTENDS ScenarioControl, TLAPS

(***************************************************************************)
(* The inductive invariant.  Owner strengthens RunningStatusAlive: the     *)
(* scenario behind a status that can be read as "running" is a custom one  *)
(* that has yet to reach the deferred function of Run, or has reached it   *)
(* and will find the status "running" there.  No other goroutine can end   *)
(* it, and the deferred function never ends with the status "running".     *)
(* Kept strengthens NoUeLeftInRunner: a UE is in the map only while its    *)
(* own scenario runs, since only the deferred function ends a custom       *)
(* goroutine, and it empties the map.  Accounted: a registered UE is in    *)
(* the map, on its way there, or lost.  TypeOK needs Owner: Stop calls     *)
(* cancelFunc, which is nil before the first Run.                          *)
(***************************************************************************)
CustomRunning(r) == kind[r] \in CustomKinds /\ Running(r)

Owner ==
  status = "running" /\ mu = NoOne =>
    /\ cancelFunc \in Requests
    /\ kind[cancelFunc] \in CustomKinds
    /\ run[cancelFunc] \in {"step", "building", "start_ue", "ending"}

Kept == \A r \in activeUes : CustomRunning(r)

Accounted ==
  \A r \in ues : kind[r] \in CustomKinds =>
    r \in activeUes \/ r \in orphaned \/ run[r] = "start_ue"

Building ==
  \A r \in Requests : /\ run[r] \in {"building", "start_ue"} => kind[r] \in CustomKinds
                      /\ req[r] # "done" => run[r] = "none"

RunnerInv == TypeOK /\ Owner /\ Kept /\ Accounted /\ Building

LEMMA TypeInit == Init => TypeOK
  BY BoundAssumption DEF Init, TypeOK, Kinds, Statuses, ReqPcs, RunPcs

LEMMA TypeNext == TypeOK /\ Owner /\ [Next]_vars => TypeOK'
<1> SUFFICES ASSUME TypeOK, Owner, [Next]_vars PROVE TypeOK'
    OBVIOUS
<1> USE BoundAssumption DEF TypeOK, Statuses, ReqPcs, RunPcs
<1>1. ASSUME NEW r \in Requests, Request(r) PROVE TypeOK'
  <2>1. CASE Refuse(r)
      BY <2>1 DEF Refuse
  <2>2. CASE Check(r)
      BY <2>2 DEF Check
  <2>3. CASE Claim(r)
      BY <2>3 DEF Claim
  <2>4. CASE StartBuiltin(r)
      BY <2>4 DEF StartBuiltin
  <2>5. CASE NotFound(r)
      BY <2>5 DEF NotFound
  <2>6. CASE Run(r)
      BY <2>6 DEF Run
  <2> QED BY <1>1, <2>1, <2>2, <2>3, <2>4, <2>5, <2>6 DEF Request
<1>2. ASSUME NEW r \in Requests, Custom(r) PROVE TypeOK'
  <2>0. ASSUME DoStep(r) PROVE steps' \in [Requests -> 0 .. MaxSteps]
      BY <2>0 DEF DoStep
  <2>1. CASE StepsEnd(r)
      BY <2>1 DEF StepsEnd
  <2>2. CASE StepPasses(r)
      BY <2>0, <2>2 DEF StepPasses
  <2>3. CASE StepFails(r)
      BY <2>0, <2>3 DEF StepFails
  <2>4. CASE StartUe(r)
      BY <2>0, <2>4 DEF StartUe
  <2>10. CASE StartUeRegister(r)
      BY <2>10 DEF StartUeRegister
  <2>5. CASE StartUeNoConn(r)
      BY <2>5 DEF StartUeNoConn
  <2>6. CASE StartUeDone(r)
      BY <2>6 DEF StartUeDone
  <2>7. CASE StopUe(r)
      BY <2>0, <2>7 DEF StopUe
  <2>8. CASE CompleteSuccess(r)
      BY <2>8 DEF CompleteSuccess
  <2>9. CASE CompleteOther(r)
      BY <2>9 DEF CompleteOther
  <2> QED BY <1>2, <2>1, <2>2, <2>3, <2>4, <2>5, <2>6, <2>7, <2>8, <2>9, <2>10
         DEF Custom
<1>3. ASSUME NEW r \in Requests, Builtin(r) PROVE TypeOK'
  <2>1. CASE BuildUe(r)
      BY <2>1 DEF BuildUe
  <2>2. CASE ShouldExit(r)
      BY <2>2 DEF ShouldExit
  <2>3. CASE RunsOut(r)
      BY <2>3 DEF RunsOut
  <2>4. CASE BuiltinEnds(r)
      BY <2>4 DEF BuiltinEnds
  <2> QED BY <1>3, <2>1, <2>2, <2>3, <2>4 DEF Builtin
<1>4. CASE handleScenarioStop
    BY <1>4 DEF handleScenarioStop
<1>5. CASE Stop
    BY <1>5 DEF Stop, Owner
<1>6. CASE UNCHANGED vars
    BY <1>6 DEF vars
<1> QED BY <1>1, <1>2, <1>3, <1>4, <1>5, <1>6 DEF Next

LEMMA RunnerInit == Init => RunnerInv
  BY TypeInit DEF RunnerInv, Owner, Kept, Accounted, Building, Init

LEMMA RunnerNext == RunnerInv /\ [Next]_vars => RunnerInv'
<1> SUFFICES ASSUME RunnerInv, [Next]_vars PROVE RunnerInv'
    OBVIOUS
<1>0. TypeOK'
    BY TypeNext DEF RunnerInv
<1>n. \A r \in Requests : r # NoOne
    BY NoOneAssumption
<1> DEFINE Parts == Owner /\ Kept /\ Accounted /\ Building
<1> SUFFICES Parts'
    BY <1>0 DEF RunnerInv
<1> USE <1>n DEF RunnerInv, TypeOK, Owner, Kept, Accounted, Building, CustomRunning, Running,
              CustomKinds
<1>1. ASSUME NEW r \in Requests, Request(r) PROVE Parts'
  <2>1. CASE Refuse(r)
      BY <2>1 DEF Refuse
  <2>2. CASE Check(r)
      BY <2>2 DEF Check
  <2>3. CASE Claim(r)
      BY <2>3 DEF Claim
  <2>4. CASE StartBuiltin(r)
      BY <2>4 DEF StartBuiltin
  <2>5. CASE NotFound(r)
      BY <2>5 DEF NotFound
  <2>6. CASE Run(r)
      BY <2>6 DEF Run
  <2> QED BY <1>1, <2>1, <2>2, <2>3, <2>4, <2>5, <2>6 DEF Request
<1>2. ASSUME NEW r \in Requests, Custom(r) PROVE Parts'
  <2> USE DEF DoStep, CustomStep
  <2>1. CASE StepsEnd(r)
      BY <2>1 DEF StepsEnd
  <2>2. CASE StepPasses(r)
      BY <2>2 DEF StepPasses
  <2>3. CASE StepFails(r)
      BY <2>3 DEF StepFails
  <2>4. CASE StartUe(r)
      BY <2>4 DEF StartUe
  <2>10. CASE StartUeRegister(r)
      BY <2>10 DEF StartUeRegister
  <2>5. CASE StartUeNoConn(r)
      BY <2>5 DEF StartUeNoConn
  <2>6. CASE StartUeDone(r)
      BY <2>6 DEF StartUeDone
  <2>7. CASE StopUe(r)
      BY <2>7 DEF StopUe
  <2>8. CASE CompleteSuccess(r)
      BY <2>8 DEF CompleteSuccess
  <2>9. CASE CompleteOther(r)
      BY <2>9 DEF CompleteOther
  <2> QED BY <1>2, <2>1, <2>2, <2>3, <2>4, <2>5, <2>6, <2>7, <2>8, <2>9, <2>10
         DEF Custom
<1>3. ASSUME NEW r \in Requests, Builtin(r) PROVE Parts'
  <2>1. CASE BuildUe(r)
      BY <2>1 DEF BuildUe, BuiltinStep
  <2>2. CASE ShouldExit(r)
      BY <2>2 DEF ShouldExit
  <2>3. CASE RunsOut(r)
      BY <2>3 DEF RunsOut
  <2>4. CASE BuiltinEnds(r)
      BY <2>4 DEF BuiltinEnds
  <2> QED BY <1>3, <2>1, <2>2, <2>3, <2>4 DEF Builtin
<1>4. CASE handleScenarioStop
    BY <1>4 DEF handleScenarioStop
<1>5. CASE Stop
    BY <1>5 DEF Stop
<1>6. CASE UNCHANGED vars
    BY <1>6 DEF vars
<1> QED BY <1>1, <1>2, <1>3, <1>4, <1>5, <1>6 DEF Next

(* Every variable keeps its type, for any number of requests and stops; in *)
(* particular Stop never calls a nil cancelFunc.                           *)
THEOREM TypeCorrect == Spec => []TypeOK
<1>1. RunnerInv => TypeOK
    BY DEF RunnerInv
<1> QED BY RunnerInit, RunnerNext, <1>1, PTL DEF Spec

(* While the mutex is not lost, a status "running" belongs to a custom     *)
(* scenario that is still going (RunningStatusAlive), whatever runs, stops *)
(* and errors race for it.                                                 *)
THEOREM StatusAlive == Spec => []RunningStatusAlive
<1>1. RunnerInv => RunningStatusAlive
    BY NoOneAssumption DEF RunnerInv, Owner, RunningStatusAlive
<1> QED BY RunnerInit, RunnerNext, <1>1, PTL DEF Spec

(* When the last custom goroutine has ended, the runner holds no UE        *)
(* (NoUeLeftInRunner), also for a start_ue that Stop overtook.             *)
THEOREM NoUeLeft == Spec => []NoUeLeftInRunner
<1>1. RunnerInv => NoUeLeftInRunner
    BY DEF RunnerInv, TypeOK, Kept, CustomRunning, NoUeLeftInRunner
<1> QED BY RunnerInit, RunnerNext, <1>1, PTL DEF Spec

(* The safe half of StoppedUeGone: when the goroutine of a custom scenario *)
(* has ended, its UE is out of the registry unless it could not connect or *)
(* a later Run had replaced the map it was in.                             *)
THEOREM UeGone ==
  Spec => [](\A r \in Requests : kind[r] \in CustomKinds /\ run[r] = "done" =>
               r \notin ues \/ r \in orphaned)
<1> DEFINE Gone == \A r \in Requests : kind[r] \in CustomKinds /\ run[r] = "done" =>
                     r \notin ues \/ r \in orphaned
<1>1. RunnerInv => Gone
    BY DEF RunnerInv, Kept, Accounted, CustomRunning, Running
<1> QED BY RunnerInit, RunnerNext, <1>1, PTL DEF Spec

=============================================================================
