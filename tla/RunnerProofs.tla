---------------------------- MODULE RunnerProofs ----------------------------
(***************************************************************************)
(* What holds of Runner for every set of modules, of planner goroutines    *)
(* and of faults, and for every bound.                                     *)
(***************************************************************************)
EXTENDS Runner, TLAPS

-----------------------------------------------------------------------------
(* Facts about the constants and the types.                                *)

LEMMA ModTyped == \A c \in Calls : Mod(c) \in Modules
  BY RunnerAssumption DEF Calls, Mod

LEMMA NoRunTyped == NoRun \in RunRecord
  BY DEF NoRun, RunRecord, RunMode, ModePlanOnly, NoCommit

LEMMA NoLocalsTyped == NoLocals \in Locals /\ NoStatus \in ModuleStatus
  BY DEF NoLocals, Locals, NoStatus, ModuleStatus, ModuleSpec, OptBool, State,
         Reason, NoCommit

LEMMA RunUpdates ==
  ASSUME NEW r \in RunRecord
  PROVE  /\ \A result \in {"Running", "Ok", "Errored"} : [r EXCEPT !.status = result] \in RunRecord
         /\ \A n \in Nat : [r EXCEPT !.commit = n] \in RunRecord
         /\ \A d \in BOOLEAN : [r EXCEPT !.diff = d] \in RunRecord
         /\ [r EXCEPT !.applied = TRUE] \in RunRecord
         /\ [r EXCEPT !.applied = TRUE].type = r.type
         /\ [r EXCEPT !.applied = TRUE].mode = r.mode
  BY DEF RunRecord

LEMMA StatusUpdates ==
  ASSUME NEW st \in ModuleStatus
  PROVE  /\ \A s \in State, reason \in Reason :
              /\ [st EXCEPT !.state = s, !.reason = reason] \in ModuleStatus
              /\ [st EXCEPT !.reason = reason, !.state = s] \in ModuleStatus
              /\ \A n \in Nat :
                   [st EXCEPT !.state = s, !.reason = reason, !.commit = n] \in ModuleStatus
         /\ \A n \in Nat : [st EXCEPT !.lastApplied = n] \in ModuleStatus
  BY DEF ModuleStatus

LEMMA CallTypes ==
  ASSUME TypeOK, NEW c \in Calls
  PROVE  /\ run[c] \in RunRecord /\ loc[c] \in Locals
         /\ loc[c].status \in ModuleStatus /\ loc[c].spec \in ModuleSpec
         /\ loc[c].hash \in Nat /\ loc[c].cloned \in Nat
         /\ head[c] \in Nat /\ run[c].req \in Nat
         /\ pc[c] \in Outside \cup Inside
         /\ run[c].type \in RequestType \cup {""} /\ run[c].mode \in RunMode
<1>1. run[c] \in RunRecord /\ loc[c] \in Locals /\ head[c] \in Nat /\ pc[c] \in Outside \cup Inside
  BY DEF TypeOK
<1> QED BY <1>1 DEF Locals, RunRecord

LEMMA TypeInit == Init => TypeOK
<1> SUFFICES ASSUME Init PROVE TypeOK
  OBVIOUS
<1>1. /\ status \in [Modules -> ModuleStatus]
      /\ loc \in [Calls -> Locals]
  BY NoLocalsTyped DEF Init
<1>2. /\ lastRun \in [Modules -> RunRecord]
      /\ lastApply \in [Modules -> RunRecord]
      /\ prRun \in [PRCalls -> RunRecord]
      /\ run \in [Calls -> RunRecord]
  BY NoRunTyped DEF Init
<1>3. spec \in [Modules -> ModuleSpec]
  BY RunnerAssumption DEF Init
<1>4. request \in [Modules -> [id : Nat, type : RequestType \cup {""}]]
  BY DEF Init, NoRequest
<1>5. /\ issued \in [Modules -> Nat]
      /\ head \in [Calls -> Nat]
      /\ infra \in [Modules -> Nat]
      /\ pc \in [Calls -> Outside \cup Inside]
      /\ mon \in [Calls -> {"off", "watch", "grace", "cancelled"}]
      /\ runStatus \in SUBSET Modules
      /\ closed \in SUBSET Modules
      /\ term \in BOOLEAN
      /\ stops \in Nat
      /\ started \in Nat
  BY DEF Init, NoCommit, Outside
<1> QED BY <1>1, <1>2, <1>3, <1>4, <1>5 DEF TypeOK

\* Helper: the two forms in which an ended run is left.
LEMMA EndTyped ==
  ASSUME TypeOK, NEW c \in Calls, NEW r \in RunRecord,
         NEW result \in {"Running", "Ok", "Errored"}, NEW st \in ModuleStatus,
         End(c, r, result, st)
  PROVE  /\ run' \in [Calls -> RunRecord]
         /\ loc' \in [Calls -> Locals]
         /\ pc' \in [Calls -> Outside \cup Inside]
<1>1. [r EXCEPT !.status = result] \in RunRecord
  BY DEF RunRecord
<1>2. [loc[c] EXCEPT !.status = st] \in Locals
  BY DEF TypeOK, Locals
<1>3. run' \in [Calls -> RunRecord]
  BY <1>1 DEF End, TypeOK
<1>4. loc' \in [Calls -> Locals]
  BY <1>2 DEF End, TypeOK
<1>5. pc' \in [Calls -> Outside \cup Inside]
  BY DEF End, TypeOK, Goto, Inside, Outside
<1> QED BY <1>3, <1>4, <1>5

LEMMA FailTyped ==
  ASSUME TypeOK, NEW c \in Calls, NEW r \in RunRecord, NEW reason \in Reason,
         Fail(c, r, reason)
  PROVE  /\ run' \in [Calls -> RunRecord]
         /\ loc' \in [Calls -> Locals]
         /\ pc' \in [Calls -> Outside \cup Inside]
<1>1. [loc[c].status EXCEPT !.state = "Errored", !.reason = reason] \in ModuleStatus
  BY CallTypes, StatusUpdates DEF State
<1> QED BY <1>1, EndTyped DEF Fail

LEMMA FinishTyped ==
  ASSUME TypeOK, NEW c \in Calls, NEW r \in RunRecord, NEW reason \in Reason,
         NEW st \in ModuleStatus, Finish(c, r, reason, st)
  PROVE  /\ run' \in [Calls -> RunRecord]
         /\ loc' \in [Calls -> Locals]
         /\ pc' \in [Calls -> Outside \cup Inside]
<1>1. [st EXCEPT !.reason = reason,
                 !.state = IF reason = "PlanOnlyDriftDetected"
                             THEN "Drift_Detected" ELSE "Ok"] \in ModuleStatus
  BY DEF ModuleStatus, State
<1> QED BY <1>1, EndTyped DEF Finish

-----------------------------------------------------------------------------
(* Type correctness, one lemma for each group of actions.                  *)

LEMMA TypeTrigger == ASSUME TypeOK, NEW c \in Calls, Trigger(c) PROVE TypeOK'
<1>1. PICK t \in TypesOf(c), q \in Nat, md \in RunMode :
        run' = [run EXCEPT ![c] = [NoRun EXCEPT !.type = t, !.req = q, !.mode = md]]
  BY ModTyped DEF Trigger, TypeOK, GetRunMode, RunMode
<1>2. t \in RequestType
  BY RunnerAssumption DEF TypesOf, RequestType
<1>3. [NoRun EXCEPT !.type = t, !.req = q, !.mode = md] \in RunRecord
  BY <1>2, NoRunTyped DEF RunRecord
<1>4. run' \in [Calls -> RunRecord]
  BY <1>1, <1>3 DEF TypeOK
<1>5. pc' \in [Calls -> Outside \cup Inside]
  BY DEF Trigger, TypeOK, Outside
<1>6. started' \in Nat
  <2>1. started \in Nat
    BY DEF TypeOK
  <2>2. started' = started + 1
    BY DEF Trigger
  <2> QED BY <2>1, <2>2
<1> QED BY <1>4, <1>5, <1>6 DEF Trigger, TypeOK, crd, world, redis

LEMMA TypeStart == ASSUME TypeOK, NEW c \in Calls, Start(c) PROVE TypeOK'
<1>1. [NoLocals EXCEPT !.spec = spec[Mod(c)], !.status = status[Mod(c)]] \in Locals
  BY ModTyped, NoLocalsTyped DEF TypeOK, Locals
<1>2. loc' \in [Calls -> Locals]
  BY <1>1 DEF Start, TypeOK
<1>3. pc' \in [Calls -> Outside \cup Inside]
  BY DEF Start, TypeOK, Goto, Outside
<1> QED BY <1>2, <1>3 DEF Start, TypeOK, crd, world, redis, signals

LEMMA TypeRunStatus ==
  ASSUME TypeOK, NEW c \in Calls, LoadRunStatus(c) \/ StoreRunStatus(c) \/ Release(c)
  PROVE  TypeOK'
<1>1. pc' \in [Calls -> Outside \cup Inside]
  <2>1. \E s \in Outside \cup Inside : pc' = [pc EXCEPT ![c] = s]
    BY DEF LoadRunStatus, StoreRunStatus, Release, Goto, Outside, Inside
  <2> QED BY <2>1 DEF TypeOK
<1>2. [run[c] EXCEPT !.status = "Running"] \in RunRecord
  BY CallTypes, RunUpdates
<1>3. run' \in [Calls -> RunRecord]
  BY <1>2 DEF LoadRunStatus, StoreRunStatus, Release, TypeOK
<1>4. runStatus' \in SUBSET Modules
  <2>1. Mod(c) \in Modules /\ runStatus \subseteq Modules
    BY ModTyped DEF TypeOK
  <2>2. runStatus' \subseteq runStatus \cup {Mod(c)}
    BY DEF LoadRunStatus, StoreRunStatus, Release, Unmarked
  <2> QED BY <2>1, <2>2
<1>5. mon' \in [Calls -> {"off", "watch", "grace", "cancelled"}]
  BY DEF LoadRunStatus, StoreRunStatus, Release, TypeOK
<1> QED BY <1>1, <1>3, <1>4, <1>5
        DEF LoadRunStatus, StoreRunStatus, Release, TypeOK, crd, world, redis, signals

LEMMA TypeRecordStart == ASSUME TypeOK, NEW c \in Calls, RecordStart(c) PROVE TypeOK'
<1> DEFINE r  == [run[c] EXCEPT !.commit = loc[c].hash]
           st == [loc[c].status EXCEPT !.state = "Running", !.reason = "RunTriggered",
                                       !.commit = loc[c].hash]
<1>1. r \in RunRecord /\ st \in ModuleStatus
  BY CallTypes, RunUpdates, StatusUpdates DEF State, Reason
<1>2. [loc[c] EXCEPT !.status = st] \in Locals
  BY <1>1 DEF TypeOK, Locals
<1>3. /\ run' \in [Calls -> RunRecord]
      /\ loc' \in [Calls -> Locals]
      /\ pc' \in [Calls -> Outside \cup Inside]
  <2>1. CASE Shutdown(c, run[c])
    BY <2>1, FailTyped, CallTypes DEF Shutdown, Reason
  <2>2. CASE ~ Shutdown(c, run[c])
    <3>1. run' = [run EXCEPT ![c] = r] /\ loc' \in {loc, [loc EXCEPT ![c].status = st]}
      BY <2>2 DEF RecordStart, StartedStatus
    <3>2. pc' \in {[pc EXCEPT ![c] = "prepare"], [pc EXCEPT ![c] = "redis"]}
      BY <2>2 DEF RecordStart, Goto
    <3>3. run \in [Calls -> RunRecord] /\ loc \in [Calls -> Locals]
          /\ pc \in [Calls -> Outside \cup Inside]
      BY DEF TypeOK
    <3>4. run' \in [Calls -> RunRecord] /\ loc' \in [Calls -> Locals]
      BY <1>1, <1>2, <3>1, <3>3
    <3>5. pc' \in [Calls -> Outside \cup Inside]
      BY <3>2, <3>3 DEF Inside
    <3> QED BY <3>4, <3>5
  <2> QED BY <2>1, <2>2
<1>4. status' \in [Modules -> ModuleStatus]
  <2>1. status \in [Modules -> ModuleStatus]
    BY DEF TypeOK
  <2> QED BY <1>1, <2>1 DEF RecordStart, StartedStatus
<1> QED BY <1>3, <1>4 DEF RecordStart, TypeOK, world, redis, signals

LEMMA TypeStage == ASSUME TypeOK, NEW c \in Calls, Stage(c) PROVE TypeOK'
<1>1. [loc[c] EXCEPT !.hash = head[c]] \in Locals /\ [loc[c] EXCEPT !.cloned = head[c]] \in Locals
  BY DEF TypeOK, Locals
<1>2. \A d \in BOOLEAN : [run[c] EXCEPT !.diff = d] \in RunRecord
  BY CallTypes, RunUpdates
<1>3. /\ run' \in [Calls -> RunRecord]
      /\ loc' \in [Calls -> Locals]
      /\ pc' \in [Calls -> Outside \cup Inside]
  <2> USE DEF Reason
  <2>0. run[c] \in RunRecord /\ loc[c].status \in ModuleStatus
    BY CallTypes
  <2>1. CASE HashCommit(c)
    <3>1. CASE Fail(c, run[c], "DelegationFailed")
      BY <2>0, <3>1, FailTyped
    <3>2. CASE loc' = [loc EXCEPT ![c].hash = head[c]] /\ Goto(c, "record") /\ UNCHANGED run
      BY <3>2, <1>1 DEF TypeOK, Goto, Inside
    <3> QED BY <2>1, <3>1, <3>2 DEF HashCommit
  <2>2. CASE Prepare(c)
    <3>1. CASE \E reason \in {"DelegationFailed", "RunPreparationFailed"} : Fail(c, run[c], reason)
      BY <2>0, <3>1, FailTyped
    <3>2. CASE loc' = [loc EXCEPT ![c].cloned = head[c]] /\ Goto(c, "init") /\ UNCHANGED run
      BY <3>2, <1>1 DEF TypeOK, Goto, Inside
    <3> QED BY <2>2, <3>1, <3>2 DEF Prepare
  <2>3. CASE InitModule(c)
    <3>1. CASE Fail(c, run[c], "InitialiseFailed") \/ Fail(c, run[c], "ControllerShutdown")
      BY <2>0, <3>1, FailTyped
    <3>2. CASE Goto(c, "plan") /\ UNCHANGED <<run, loc>>
      BY <3>2 DEF TypeOK, Goto, Inside
    <3> QED BY <2>3, <3>1, <3>2 DEF InitModule, Shutdown
  <2>4. CASE Plan(c)
    <3>1. CASE Fail(c, run[c], "PlanFailed")
      BY <2>0, <3>1, FailTyped
    <3>2. CASE /\ \E d \in BOOLEAN : run' = [run EXCEPT ![c].diff = d]
               /\ Goto(c, "show") /\ UNCHANGED loc
      <4>1. pc' \in [Calls -> Outside \cup Inside] /\ loc' \in [Calls -> Locals]
        BY <3>2 DEF TypeOK, Goto, Inside
      <4>2. run' \in [Calls -> RunRecord]
        <5>1. PICK d \in BOOLEAN : run' = [run EXCEPT ![c].diff = d]
          BY <3>2
        <5> QED BY <5>1, <1>2 DEF TypeOK
      <4> QED BY <4>1, <4>2
    <3> QED BY <2>4, <3>1, <3>2 DEF Plan
  <2>5. CASE ShowPlan(c)
    <3>1. CASE Fail(c, run[c], "PlanFailed") \/ Fail(c, run[c], "ControllerShutdown")
      BY <2>0, <3>1, FailTyped
    <3>2. CASE Finish(c, run[c], IF run[c].diff THEN "PlanOnlyDriftDetected"
                                                ELSE "NoDriftDetected", loc[c].status)
      BY <2>0, <3>2, FinishTyped
    <3>3. CASE Goto(c, "apply") /\ UNCHANGED <<run, loc>>
      BY <3>3 DEF TypeOK, Goto, Inside
    <3> QED BY <2>5, <3>1, <3>2, <3>3 DEF ShowPlan, Shutdown
  <2>6. CASE Apply(c)
    <3>1. CASE Fail(c, run[c], "ApplyFailed")
      BY <2>0, <3>1, FailTyped
    <3>2. CASE Finish(c, [run[c] EXCEPT !.applied = TRUE], "Applied",
                      [loc[c].status EXCEPT !.lastApplied = AppliedCommit(c)])
      <4>1. /\ [run[c] EXCEPT !.applied = TRUE] \in RunRecord
            /\ [loc[c].status EXCEPT !.lastApplied = AppliedCommit(c)] \in ModuleStatus
        BY CallTypes, RunUpdates, StatusUpdates DEF AppliedCommit
      <4> QED BY <3>2, <4>1, FinishTyped
    <3> QED BY <2>6, <3>1, <3>2 DEF Apply
  <2> QED BY <2>1, <2>2, <2>3, <2>4, <2>5, <2>6 DEF Stage
<1>4. infra' \in [Modules -> Nat] /\ head' \in [Calls -> Nat]
  BY DEF Stage, HashCommit, Prepare, InitModule, Plan, ShowPlan, Apply, world, TypeOK, Locals
<1>5. UNCHANGED <<crd, redis, runStatus, mon, signals>>
  BY DEF Stage, HashCommit, Prepare, InitModule, Plan, ShowPlan, Apply, StageFrame
<1> QED BY <1>3, <1>4, <1>5 DEF TypeOK, crd, redis, signals

LEMMA TypeEnd ==
  ASSUME TypeOK, NEW c \in Calls, PatchStatus(c) \/ UpdateRedis(c) \/ Return(c)
  PROVE  TypeOK'
<1>1. pc' \in [Calls -> Outside \cup Inside]
  BY DEF PatchStatus, UpdateRedis, Return, TypeOK, Goto, Outside, Inside
<1>2. CASE PatchStatus(c)
  BY <1>1, <1>2, ModTyped
     DEF PatchStatus, TypeOK, Locals, world, redis, signals
<1>3. CASE UpdateRedis(c)
  <2>1. /\ prRun' \in [PRCalls -> RunRecord]
        /\ lastRun' \in [Modules -> RunRecord]
        /\ lastApply' \in [Modules -> RunRecord]
    BY <1>3 DEF UpdateRedis, TypeOK
  <2> QED BY <1>1, <1>3, <2>1 DEF UpdateRedis, TypeOK, crd, world, signals
<1>4. CASE Return(c)
  <2>1. request' \in [Modules -> [id : Nat, type : RequestType \cup {""}]]
    <3>1. NoRequest \in [id : Nat, type : RequestType \cup {""}]
      BY DEF NoRequest
    <3>2. request \in [Modules -> [id : Nat, type : RequestType \cup {""}]]
      BY DEF TypeOK
    <3> QED BY <1>4, <3>1, <3>2 DEF Return
  <2>2. run' \in [Calls -> RunRecord] /\ loc' \in [Calls -> Locals]
    BY <1>4, NoRunTyped, NoLocalsTyped DEF Return, TypeOK
  <2> QED BY <1>1, <1>4, <2>1, <2>2 DEF Return, TypeOK, world, redis
<1> QED BY <1>2, <1>3, <1>4

LEMMA TypeWatch == ASSUME TypeOK, NEW c \in Calls, Watch(c) PROVE TypeOK'
<1>1. mon' \in [Calls -> {"off", "watch", "grace", "cancelled"}]
  BY DEF Watch, TimeOut, SeeClosed, GraceOver, OnTimer, TypeOK
<1> QED BY <1>1 DEF Watch, TimeOut, SeeClosed, GraceOver, TypeOK, crd, world, redis,
                    calls, signals

LEMMA TypeEnvironment == ASSUME TypeOK, Environment PROVE TypeOK'
<1>1. CASE Terminate
  <2>1. stops \in Nat /\ stops' = stops + 1
    BY <1>1 DEF Terminate, TypeOK
  <2>2. stops' \in Nat
    BY <2>1
  <2> QED BY <1>1, <2>2 DEF Terminate, TypeOK, crd, world, redis, calls
<1>2. CASE Restart
  <2>1. stops \in Nat /\ (stops' = stops \/ stops' = stops + 1)
    BY <1>2 DEF Restart, TypeOK
  <2>2. stops' \in Nat
    BY <2>1
  <2> QED BY <1>2, <2>2, NoRunTyped, NoLocalsTyped
          DEF Restart, TypeOK, crd, world, redis, Outside
<1>3. ASSUME NEW m \in Modules, CloseChan(m) PROVE TypeOK'
  BY <1>3 DEF CloseChan, TypeOK, crd, world, redis, calls
<1>4. ASSUME NEW m \in Modules, RepairStatus(m) PROVE TypeOK'
  <2>1. Repaired(status[m]) \in ModuleStatus
    <3>1. status[m] \in ModuleStatus
      BY DEF TypeOK
    <3> QED BY <3>1, StatusUpdates DEF Repaired, State, Reason
  <2> QED BY <1>4, <2>1 DEF RepairStatus, TypeOK, world, redis, process, calls, signals
<1>5. ASSUME NEW m \in Modules, DropInvalidRequest(m) PROVE TypeOK'
  <2>1. [status[m] EXCEPT !.state = "Errored", !.reason = "InvalidRequest"] \in ModuleStatus
    <3>1. status[m] \in ModuleStatus
      BY DEF TypeOK
    <3> QED BY <3>1, StatusUpdates DEF State, Reason
  <2>2. status' \in [Modules -> ModuleStatus]
    BY <1>5, <2>1 DEF DropInvalidRequest, TypeOK
  <2>3. request' \in [Modules -> [id : Nat, type : RequestType \cup {""}]]
    <3>1. NoRequest \in [id : Nat, type : RequestType \cup {""}]
      BY DEF NoRequest
    <3>2. request \in [Modules -> [id : Nat, type : RequestType \cup {""}]]
      BY DEF TypeOK
    <3>3. request' = request \/ request' = [request EXCEPT ![m] = NoRequest]
      BY <1>5 DEF DropInvalidRequest
    <3> QED BY <3>1, <3>2, <3>3
  <2> QED BY <1>5, <2>2, <2>3 DEF DropInvalidRequest, TypeOK, world, redis, process, calls, signals
<1>6. ASSUME NEW m \in Modules, SubmitRequest(m) PROVE TypeOK'
  <2>1. request' \in [Modules -> [id : Nat, type : RequestType \cup {""}]]
    <3>1. \A t \in {ForcedPlan, ForcedApply} :
            [id |-> issued[m] + 1, type |-> t] \in [id : Nat, type : RequestType \cup {""}]
      <4>1. issued[m] \in Nat
        BY DEF TypeOK
      <4>2. issued[m] + 1 \in Nat
        BY <4>1
      <4> QED BY <4>2 DEF RequestType
    <3>2. request \in [Modules -> [id : Nat, type : RequestType \cup {""}]]
      BY DEF TypeOK
    <3>3. PICK t \in {ForcedPlan, ForcedApply} :
            request' = [request EXCEPT ![m] = [id |-> issued[m] + 1, type |-> t]]
      BY <1>6 DEF SubmitRequest
    <3> QED BY <3>1, <3>2, <3>3
  <2>2. issued' \in [Modules -> Nat]
    <3>1. issued \in [Modules -> Nat]
      BY DEF TypeOK
    <3>2. issued' = [issued EXCEPT ![m] = @ + 1]
      BY <1>6 DEF SubmitRequest
    <3> QED BY <3>1, <3>2
  <2> QED BY <1>6, <2>1, <2>2 DEF SubmitRequest, TypeOK, world, redis, process, calls, signals
<1>7. ASSUME NEW m \in Modules, EditSpec(m) PROVE TypeOK'
  BY <1>7, RunnerAssumption DEF EditSpec, TypeOK, world, redis, process, calls, signals
<1>8. ASSUME NEW c \in Calls, Push(c) PROVE TypeOK'
  <2>1. head \in [Calls -> Nat] /\ head' = [head EXCEPT ![c] = @ + 1]
    BY <1>8 DEF Push, TypeOK
  <2>2. head' \in [Calls -> Nat]
    BY <2>1
  <2> QED BY <1>8, <2>2 DEF Push, TypeOK, crd, redis, process, calls, signals
<1> QED BY <1>1, <1>2, <1>3, <1>4, <1>5, <1>6, <1>7, <1>8 DEF Environment

LEMMA TypeNext == TypeOK /\ [Next]_vars => TypeOK'
<1> SUFFICES ASSUME TypeOK, [Next]_vars PROVE TypeOK'
  OBVIOUS
<1>1. ASSUME NEW c \in Calls, Local(c) PROVE TypeOK'
  BY <1>1, TypeStart, TypeRunStatus, TypeRecordStart, TypeEnd DEF Local
<1>2. ASSUME NEW c \in Calls, Trigger(c) \/ Stage(c) \/ Watch(c) PROVE TypeOK'
  BY <1>2, TypeTrigger, TypeStage, TypeWatch
<1>3. CASE Environment
  BY <1>3, TypeEnvironment
<1>4. CASE UNCHANGED vars
  BY <1>4 DEF vars, crd, world, redis, process, calls, signals, TypeOK
<1> QED BY <1>1, <1>2, <1>3, <1>4 DEF Next

\* Every variable keeps its type, whatever the constants.
THEOREM TypeCorrect == Spec => []TypeOK
  BY TypeInit, TypeNext, PTL DEF Spec

-----------------------------------------------------------------------------
(* The inductive invariant behind the safety properties.                   *)

Live(c) == pc[c] # "idle"

\* A call keeps the type it was made with, and a mode that fits the type.
TypeFitsCall(c) ==
  Live(c) => /\ run[c].type \in TypesOf(c)
             /\ run[c].mode = ModeApply =>
                  run[c].type \in {ScheduledRun, PollingRun, ForcedApply}

\* Validate ran against the module the run works on.
LockRespected(c) ==
  pc[c] \in Inside \cup {"load", "store"} =>
    (run[c].type = ForcedApply => ~ IsPlanOnly(loc[c].spec))

OnlyApplyModeApplies(c) == pc[c] = "apply" => run[c].mode = ModeApply

\* PR runs skip the patch.
PRRunsSkipPatch(c) == c \in PRCalls => pc[c] # "patch"

TrueStatus(m, st) ==
  /\ st.lastApplied <= infra[m]
  /\ st.reason = "Applied" => st.state = "Ok" /\ st.lastApplied = st.commit

\* The commit of a run, the code it cloned and what was applied before it, in
\* the order in which process reads them.
CommitsInOrder(m) ==
  /\ infra[m] <= head[m]
  /\ pc[m] \in {"record", "prepare", "init", "plan", "show", "apply"} =>
       loc[m].hash <= head[m]
  /\ pc[m] \in {"prepare", "init", "plan", "show", "apply"} =>
       loc[m].status.commit = loc[m].hash
  /\ pc[m] \in {"init", "plan", "show", "apply"} =>
       /\ loc[m].hash <= loc[m].cloned
       /\ infra[m] <= loc[m].cloned
       /\ loc[m].cloned <= head[m]

CallInv == \A c \in Calls : /\ TypeFitsCall(c) /\ LockRespected(c)
                            /\ OnlyApplyModeApplies(c) /\ PRRunsSkipPatch(c)

\* The status in the API server, and the copy a call works on.
TrueStatuses(m) ==
  /\ TrueStatus(m, status[m])
  /\ pc[m] \in Inside \cup {"load", "store"} => TrueStatus(m, loc[m].status)

StatusInv == \A m \in Modules : TrueStatuses(m) /\ CommitsInOrder(m)

RunnerInv == TypeOK /\ NoLeakedMark /\ CallInv /\ StatusInv

-----------------------------------------------------------------------------
(* What a step of a call leaves behind.                                    *)

LEMMA EndShape ==
  ASSUME TypeOK, NEW c \in Calls, NEW r \in RunRecord, NEW result, NEW st,
         End(c, r, result, st)
  PROVE  /\ pc'[c] = IF r.type = PRPlan THEN "redis" ELSE "patch"
         /\ run'[c].type = r.type /\ run'[c].mode = r.mode
         /\ loc'[c].spec = loc[c].spec /\ loc'[c].hash = loc[c].hash
         /\ loc'[c].status = IF r.type = PRPlan THEN loc[c].status ELSE st
<1>1. pc'[c] = IF r.type = PRPlan THEN "redis" ELSE "patch"
  BY DEF End, Goto, SkipStatusUpdate, TypeOK
<1>2. run'[c] = [r EXCEPT !.status = result]
  BY DEF End, TypeOK
<1>3. run'[c].type = r.type /\ run'[c].mode = r.mode
  BY <1>2 DEF RunRecord
<1>4. loc'[c] = IF r.type = PRPlan THEN loc[c] ELSE [loc[c] EXCEPT !.status = st]
  BY DEF End, SkipStatusUpdate, TypeOK
<1>5. /\ loc'[c].spec = loc[c].spec /\ loc'[c].hash = loc[c].hash
      /\ loc'[c].status = IF r.type = PRPlan THEN loc[c].status ELSE st
  BY <1>4, CallTypes DEF Locals
<1> QED BY <1>1, <1>3, <1>5

\* A call moves only its own program counter, Run and locals.
LEMMA OtherCalls ==
  ASSUME TypeOK, NEW c \in Calls, Trigger(c) \/ Local(c) \/ Stage(c) \/ Watch(c),
         NEW d \in Calls, d # c
  PROVE  pc'[d] = pc[d] /\ run'[d] = run[d] /\ loc'[d] = loc[d]
<1> USE DEF TypeOK, Goto
<1>1. CASE Trigger(c)
  BY <1>1 DEF Trigger
<1>2. CASE Local(c)
  <2>1. CASE RecordStart(c)
    BY <2>1 DEF RecordStart, Shutdown, Fail, End
  <2>2. CASE Start(c) \/ LoadRunStatus(c) \/ StoreRunStatus(c)
    BY <2>2 DEF Start, LoadRunStatus, StoreRunStatus
  <2>3. CASE PatchStatus(c) \/ UpdateRedis(c) \/ Release(c) \/ Return(c)
    BY <2>3 DEF PatchStatus, UpdateRedis, Release, Return
  <2> QED BY <1>2, <2>1, <2>2, <2>3 DEF Local
<1>3. CASE Stage(c)
  <2>1. CASE HashCommit(c) \/ Prepare(c) \/ InitModule(c) \/ Plan(c)
    BY <2>1 DEF HashCommit, Prepare, InitModule, Plan, Shutdown, Fail, End
  <2>2. CASE ShowPlan(c)
    BY <2>2 DEF ShowPlan, Shutdown, Fail, Finish, End
  <2>3. CASE Apply(c)
    <3>1. ASSUME NEW r, NEW result, NEW st, End(c, r, result, st)
          PROVE  pc'[d] = pc[d] /\ run'[d] = run[d] /\ loc'[d] = loc[d]
      BY <3>1 DEF End
    <3> QED BY <2>3, <3>1 DEF Apply, Fail, Finish
  <2> QED BY <1>3, <2>1, <2>2, <2>3 DEF Stage
<1>4. CASE Watch(c)
  BY <1>4 DEF Watch, TimeOut, SeeClosed, GraceOver, calls
<1> QED BY <1>1, <1>2, <1>3, <1>4

\* Only Restart among the steps of the environment touches the calls.
LEMMA EnvironmentCalls == Environment /\ ~ Restart => UNCHANGED calls
  BY DEF Environment, Terminate, CloseChan, RepairStatus, DropInvalidRequest,
         SubmitRequest, EditSpec, Push, process, calls

\* The ways a stage ends.
LEMMA StageShape ==
  ASSUME TypeOK, NEW c \in Calls, Stage(c)
  PROVE  /\ run'[c].type = run[c].type /\ run'[c].mode = run[c].mode
         /\ loc'[c].spec = loc[c].spec
         /\ pc[c] \in Inside /\ pc'[c] \in Inside \ {"hash", "release"}
         /\ pc'[c] = "apply" => run[c].mode = ModeApply /\ c \notin closed
         /\ pc'[c] = "plan" => c \notin closed
         /\ pc'[c] # "prepare"
         /\ pc'[c] = "patch" => run[c].type # PRPlan
<1>0. run[c] \in RunRecord
  BY CallTypes
<1>1. ASSUME NEW reason, Fail(c, run[c], reason)
      PROVE  /\ run'[c].type = run[c].type /\ run'[c].mode = run[c].mode
             /\ loc'[c].spec = loc[c].spec
             /\ pc'[c] = IF run[c].type = PRPlan THEN "redis" ELSE "patch"
  BY <1>0, <1>1, EndShape DEF Fail
<1>2. ASSUME NEW r \in RunRecord, NEW reason, NEW st, Finish(c, r, reason, st),
             r.type = run[c].type, r.mode = run[c].mode
      PROVE  /\ run'[c].type = run[c].type /\ run'[c].mode = run[c].mode
             /\ loc'[c].spec = loc[c].spec
             /\ pc'[c] = IF run[c].type = PRPlan THEN "redis" ELSE "patch"
  BY <1>2, EndShape DEF Finish
<1>3. ASSUME NEW label, Goto(c, label) PROVE pc'[c] = label
  BY <1>3 DEF Goto, TypeOK
<1> USE DEF Inside
<1>4. CASE HashCommit(c)
  <2>1. CASE Fail(c, run[c], "DelegationFailed")
    BY <1>4, <1>1, <2>1 DEF HashCommit
  <2>2. CASE loc' = [loc EXCEPT ![c].hash = head[c]] /\ Goto(c, "record") /\ UNCHANGED run
    BY <1>4, <1>3, <2>2, CallTypes DEF HashCommit, TypeOK, Locals
  <2> QED BY <1>4, <2>1, <2>2 DEF HashCommit
<1>5. CASE Prepare(c)
  <2>1. CASE \E reason \in {"DelegationFailed", "RunPreparationFailed"} : Fail(c, run[c], reason)
    BY <1>5, <1>1, <2>1 DEF Prepare
  <2>2. CASE loc' = [loc EXCEPT ![c].cloned = head[c]] /\ Goto(c, "init") /\ UNCHANGED run
    BY <1>5, <1>3, <2>2, CallTypes DEF Prepare, TypeOK, Locals
  <2> QED BY <1>5, <2>1, <2>2 DEF Prepare
<1>6. CASE InitModule(c)
  <2>1. CASE Fail(c, run[c], "InitialiseFailed") \/ Fail(c, run[c], "ControllerShutdown")
    BY <1>6, <1>1, <2>1 DEF InitModule
  <2>2. CASE ~ Interrupted(c) /\ Goto(c, "plan") /\ UNCHANGED <<run, loc>>
    BY <1>6, <1>3, <2>2 DEF InitModule, Interrupted
  <2> QED BY <1>6, <2>1, <2>2 DEF InitModule, Shutdown
<1>7. CASE Plan(c)
  <2>1. CASE Fail(c, run[c], "PlanFailed")
    BY <1>7, <1>1, <2>1 DEF Plan
  <2>2. CASE /\ \E d \in BOOLEAN : run' = [run EXCEPT ![c].diff = d]
             /\ Goto(c, "show") /\ UNCHANGED loc
    <3>1. PICK d \in BOOLEAN : run' = [run EXCEPT ![c].diff = d]
      BY <2>2
    <3>2. run'[c] = [run[c] EXCEPT !.diff = d]
      BY <3>1 DEF TypeOK
    <3>3. run'[c].type = run[c].type /\ run'[c].mode = run[c].mode
      BY <3>2, <1>0 DEF RunRecord
    <3> QED BY <1>7, <1>3, <2>2, <3>3 DEF Plan
  <2> QED BY <1>7, <2>1, <2>2 DEF Plan
<1>8. CASE ShowPlan(c)
  <2>1. CASE Fail(c, run[c], "PlanFailed") \/ Fail(c, run[c], "ControllerShutdown")
    BY <1>8, <1>1, <2>1 DEF ShowPlan
  <2>2. CASE Finish(c, run[c], IF run[c].diff THEN "PlanOnlyDriftDetected"
                                              ELSE "NoDriftDetected", loc[c].status)
    BY <1>8, <1>0, <1>2, <2>2 DEF ShowPlan
  <2>3. CASE /\ run[c].mode = ModeApply /\ ~ Interrupted(c) /\ Goto(c, "apply")
             /\ UNCHANGED <<run, loc>>
    BY <1>8, <1>3, <2>3 DEF ShowPlan, Interrupted
  <2> QED BY <1>8, <2>1, <2>2, <2>3 DEF ShowPlan, Shutdown
<1>9. CASE Apply(c)
  <2>1. CASE Fail(c, run[c], "ApplyFailed")
    BY <1>9, <1>1, <2>1 DEF Apply
  <2>2. CASE Finish(c, [run[c] EXCEPT !.applied = TRUE], "Applied",
                    [loc[c].status EXCEPT !.lastApplied = AppliedCommit(c)])
    <3>1. /\ [run[c] EXCEPT !.applied = TRUE] \in RunRecord
          /\ [run[c] EXCEPT !.applied = TRUE].type = run[c].type
          /\ [run[c] EXCEPT !.applied = TRUE].mode = run[c].mode
      BY <1>0, RunUpdates
    <3> QED BY <1>9, <1>2, <2>2, <3>1 DEF Apply
  <2> QED BY <1>9, <2>1, <2>2 DEF Apply
<1> QED BY <1>4, <1>5, <1>6, <1>7, <1>8, <1>9 DEF Stage

LEMMA RecordShape ==
  ASSUME TypeOK, NEW c \in Calls, RecordStart(c)
  PROVE  /\ run'[c].type = run[c].type /\ run'[c].mode = run[c].mode
         /\ loc'[c].spec = loc[c].spec /\ loc'[c].hash = loc[c].hash
         /\ pc[c] = "record" /\ pc'[c] \in {"prepare", "redis", "patch"}
         /\ pc'[c] = "prepare" => c \notin closed
         /\ pc'[c] = "patch" => run[c].type # PRPlan
<1>0. run[c] \in RunRecord
  BY CallTypes
<1>1. CASE Fail(c, run[c], "ControllerShutdown")
  BY <1>0, <1>1, EndShape DEF Fail, RecordStart
<1>2. CASE ~ Shutdown(c, run[c])
  <2>1. run' = [run EXCEPT ![c] = [run[c] EXCEPT !.commit = loc[c].hash]] /\ c \notin closed
    BY <1>2 DEF RecordStart, Interrupted
  <2>2. run'[c].type = run[c].type /\ run'[c].mode = run[c].mode
    BY <2>1, <1>0 DEF TypeOK, RunRecord
  <2>3. \/ loc' = loc
        \/ \E st : loc' = [loc EXCEPT ![c].status = st]
    BY <1>2 DEF RecordStart
  <2>4. loc'[c].spec = loc[c].spec /\ loc'[c].hash = loc[c].hash
    <3>1. CASE loc' = loc
      BY <3>1
    <3>2. ASSUME NEW st, loc' = [loc EXCEPT ![c].status = st]
          PROVE  loc'[c].spec = loc[c].spec /\ loc'[c].hash = loc[c].hash
      <4>1. loc'[c] = [loc[c] EXCEPT !.status = st]
        BY <3>2 DEF TypeOK
      <4> QED BY <4>1, CallTypes DEF Locals
    <3> QED BY <2>3, <3>1, <3>2
  <2>5. pc'[c] \in {"prepare", "redis"}
    BY <1>2 DEF RecordStart, Goto, TypeOK
  <2> QED BY <2>1, <2>2, <2>4, <2>5 DEF RecordStart
<1> QED BY <1>1, <1>2 DEF Shutdown

-----------------------------------------------------------------------------
(* CallInv and NoLeakedMark are preserved.                                 *)

CallStep(c) == Trigger(c) \/ Local(c) \/ Stage(c) \/ Watch(c)

\* The conjuncts of CallInv for the call that moves.
LEMMA OwnCall ==
  ASSUME RunnerAssumption, TypeOK, CallInv, NEW c \in Calls, CallStep(c)
  PROVE  TypeFitsCall(c)' /\ LockRespected(c)' /\ OnlyApplyModeApplies(c)'
         /\ PRRunsSkipPatch(c)'
<1> USE DEF TypeFitsCall, LockRespected, OnlyApplyModeApplies, PRRunsSkipPatch,
            Live, Inside
<1>0. /\ TypeFitsCall(c) /\ LockRespected(c)
      /\ OnlyApplyModeApplies(c) /\ PRRunsSkipPatch(c)
  BY DEF CallInv
<1>p. c \in PRCalls => TypesOf(c) = {PRPlan}
  BY DEF TypesOf
<1>r. run[c] \in RunRecord
  BY CallTypes
<1>1. CASE Trigger(c)
  <2>1. PICK t \in TypesOf(c) :
           run' = [run EXCEPT ![c] =
             [NoRun EXCEPT !.type = t,
                           !.req = IF IsForced(t) THEN request[Mod(c)].id ELSE 0,
                           !.mode = GetRunMode(t, spec[Mod(c)])]]
    BY <1>1 DEF Trigger
  <2>2. run'[c].type = t /\ run'[c].mode = GetRunMode(t, spec[Mod(c)])
    BY <2>1 DEF TypeOK, NoRun
  <2>3. run'[c].mode = ModeApply => t \in {ScheduledRun, PollingRun, ForcedApply}
    BY <2>2 DEF GetRunMode, IsApply, ModeApply, ModePlanOnly
  <2>4. pc'[c] = "start"
    BY <1>1 DEF Trigger, TypeOK
  <2> QED BY <2>2, <2>3, <2>4
<1>2. CASE Start(c)
  <2>1. run' = run /\ pc[c] = "start"
    BY <1>2 DEF Start
  <2>2. CASE Goto(c, "remove")
    <3>1. pc'[c] = "remove"
      BY <2>2 DEF Goto, TypeOK
    <3> QED BY <1>0, <2>1, <3>1
  <2>3. CASE /\ Valid(run[c].type, TRUE, spec[Mod(c)]) /\ Goto(c, "load")
             /\ loc' = [loc EXCEPT ![c] = [NoLocals EXCEPT !.spec = spec[Mod(c)],
                                                           !.status = status[Mod(c)]]]
    <3>1. pc'[c] = "load" /\ loc'[c].spec = spec[Mod(c)]
      BY <2>3 DEF Goto, TypeOK, NoLocals
    <3>2. run[c].type = ForcedApply => ~ IsPlanOnly(spec[Mod(c)])
      BY <2>3 DEF Valid, IsApply
    <3> QED BY <1>0, <2>1, <3>1, <3>2
  <2> QED BY <1>2, <2>2, <2>3 DEF Start
<1>3. CASE LoadRunStatus(c)
  <2>1. run' = run /\ loc' = loc /\ pc[c] = "load" /\ pc'[c] \in {"remove", "store"}
    BY <1>3 DEF LoadRunStatus, Goto, TypeOK
  <2> QED BY <1>0, <2>1
<1>4. CASE StoreRunStatus(c)
  <2>1. loc' = loc /\ pc[c] = "store" /\ pc'[c] = "hash"
    BY <1>4 DEF StoreRunStatus, Goto, TypeOK
  <2>2. run'[c] = [run[c] EXCEPT !.status = "Running"]
    BY <1>4 DEF StoreRunStatus, TypeOK
  <2>3. run'[c].type = run[c].type /\ run'[c].mode = run[c].mode
    BY <1>r, <2>2 DEF RunRecord
  <2> QED BY <1>0, <2>1, <2>3
<1>5. CASE RecordStart(c)
  <2> HIDE DEF Inside
  <2>1. /\ run'[c].type = run[c].type /\ run'[c].mode = run[c].mode
        /\ loc'[c].spec = loc[c].spec
        /\ pc[c] = "record" /\ pc'[c] \in {"prepare", "redis", "patch"}
        /\ pc'[c] = "patch" => run[c].type # PRPlan
    BY <1>5, RecordShape
  <2> QED BY <1>0, <1>p, <2>1 DEF Inside
<1>6. CASE PatchStatus(c) \/ UpdateRedis(c) \/ Release(c)
  <2>1. /\ run' = run /\ loc' = loc /\ pc[c] \in Inside
        /\ pc'[c] \in {"redis", "release", "remove"}
    BY <1>6 DEF PatchStatus, UpdateRedis, Release, Goto, TypeOK
  <2> QED BY <1>0, <2>1
<1>7. CASE Return(c)
  <2>1. pc'[c] = "idle"
    BY <1>7 DEF Return, Goto, TypeOK
  <2> QED BY <2>1
<1>8. CASE Stage(c)
  <2> HIDE DEF Inside
  <2>1. /\ run'[c].type = run[c].type /\ run'[c].mode = run[c].mode
        /\ loc'[c].spec = loc[c].spec /\ pc[c] \in Inside /\ pc'[c] \in Inside
        /\ pc'[c] = "apply" => run[c].mode = ModeApply
        /\ pc'[c] = "patch" => run[c].type # PRPlan
    BY <1>8, StageShape
  <2> QED BY <1>0, <1>p, <2>1 DEF Inside
<1>9. CASE Watch(c)
  BY <1>0, <1>9 DEF Watch, TimeOut, SeeClosed, GraceOver, calls
<1> QED BY <1>1, <1>2, <1>3, <1>4, <1>5, <1>6, <1>7, <1>8, <1>9 DEF CallStep, Local

LEMMA CallInvStep ==
  ASSUME RunnerAssumption, TypeOK, CallInv, [Next]_vars
  PROVE  CallInv'
<1> USE DEF CallInv, TypeFitsCall, LockRespected, OnlyApplyModeApplies,
            PRRunsSkipPatch, Live
<1>1. ASSUME NEW c \in Calls, CallStep(c) PROVE CallInv'
  <2> SUFFICES ASSUME NEW d \in Calls
               PROVE  TypeFitsCall(d)' /\ LockRespected(d)'
                      /\ OnlyApplyModeApplies(d)' /\ PRRunsSkipPatch(d)'
    OBVIOUS
  <2>1. CASE d = c
    <3> HIDE DEF TypeFitsCall, LockRespected, OnlyApplyModeApplies, PRRunsSkipPatch
    <3> QED BY <1>1, <2>1, OwnCall
  <2>2. CASE d # c
    <3>1. pc'[d] = pc[d] /\ run'[d] = run[d] /\ loc'[d] = loc[d]
      BY <1>1, <2>2, OtherCalls DEF CallStep
    <3> QED BY <3>1
  <2> QED BY <2>1, <2>2
<1>2. CASE Restart
  BY <1>2 DEF Restart, Inside
<1>3. CASE UNCHANGED calls
  BY <1>3 DEF calls
<1> QED BY <1>1, <1>2, <1>3, EnvironmentCalls
        DEF Next, CallStep, vars, process

LEMMA NoLeakedMarkStep ==
  ASSUME RunnerAssumption, TypeOK, NoLeakedMark, [Next]_vars
  PROVE  NoLeakedMark'
<1> USE DEF NoLeakedMark, InProcess
<1>1. ASSUME NEW c \in Calls, CallStep(c) PROVE NoLeakedMark'
  <2>1. \A d \in Calls \ {c} : pc'[d] = pc[d]
    BY <1>1, OtherCalls DEF CallStep
  <2>2. CASE StoreRunStatus(c)
    <3>1. runStatus' = runStatus \cup {Mod(c)} /\ pc'[c] \in Inside
      BY <2>2 DEF StoreRunStatus, Goto, TypeOK, Inside
    <3> QED BY <2>1, <3>1
  <2>3. CASE Release(c)
    <3>1. runStatus' = runStatus \ {Mod(c)}
      BY <2>3 DEF Release, Unmarked
    <3> QED BY <2>1, <3>1
  <2>4. CASE ~ StoreRunStatus(c) /\ ~ Release(c)
    <3>1. runStatus' = runStatus
      <4>1. CASE Trigger(c) \/ Watch(c)
        BY <4>1 DEF Trigger, Watch, TimeOut, SeeClosed, GraceOver
      <4>2. CASE Local(c)
        BY <2>4, <4>2 DEF Local, Start, LoadRunStatus, RecordStart, PatchStatus,
                          UpdateRedis, Return
      <4>3. CASE Stage(c)
        BY <4>3 DEF Stage, StageFrame, HashCommit, Prepare, InitModule, Plan,
                    ShowPlan, Apply
      <4> QED BY <1>1, <4>1, <4>2, <4>3 DEF CallStep
    <3>2. pc[c] \in Inside => pc'[c] \in Inside
      <4>1. CASE Trigger(c) \/ Watch(c)
        BY <4>1 DEF Trigger, Watch, TimeOut, SeeClosed, GraceOver, calls, Inside
      <4>2. CASE Start(c) \/ LoadRunStatus(c) \/ Return(c)
        BY <4>2 DEF Start, LoadRunStatus, Return, Inside
      <4>3. CASE PatchStatus(c) \/ UpdateRedis(c)
        BY <4>3 DEF PatchStatus, UpdateRedis, Goto, TypeOK, Inside
      <4>4. CASE RecordStart(c)
        BY <4>4, RecordShape DEF Inside
      <4>5. CASE Stage(c)
        BY <4>5, StageShape
      <4> QED BY <1>1, <2>4, <4>1, <4>2, <4>3, <4>4, <4>5 DEF CallStep, Local
    <3> QED BY <2>1, <3>1, <3>2
  <2> QED BY <2>2, <2>3, <2>4
<1>2. CASE Restart
  BY <1>2 DEF Restart
<1>3. CASE Environment /\ ~ Restart
  <2>1. runStatus' = runStatus
    BY <1>3 DEF Environment, Terminate, CloseChan, RepairStatus,
                DropInvalidRequest, SubmitRequest, EditSpec, Push, process
  <2> QED BY <1>3, <2>1, EnvironmentCalls DEF calls
<1>4. CASE UNCHANGED vars
  BY <1>4 DEF vars, process, calls
<1> QED BY <1>1, <1>2, <1>3, <1>4 DEF Next, CallStep

-----------------------------------------------------------------------------
(* StatusInv is preserved.                                                 *)

\* A call works on no module but its own; a PR run changes none at all.
LEMMA OtherModules ==
  ASSUME RunnerAssumption, TypeOK, CallInv, NEW c \in Calls, CallStep(c),
         NEW m \in Modules, m # c
  PROVE  /\ status'[m] = status[m] /\ infra'[m] = infra[m]
         /\ head'[m] = head[m] /\ pc'[m] = pc[m] /\ loc'[m] = loc[m]
<1>1. pc'[m] = pc[m] /\ loc'[m] = loc[m]
  BY OtherCalls DEF CallStep, Calls
<1>2. c \in Modules => Mod(c) = c
  BY DEF Mod
<1>3. c \notin Modules => c \in PRCalls
  BY DEF Calls
<1>4. c \in PRCalls /\ pc[c] # "idle" => run[c].type = PRPlan
  BY DEF CallInv, TypeFitsCall, Live, TypesOf
<1>5. c \in PRCalls => pc[c] # "patch" /\ pc[c] # "apply"
  <2> SUFFICES ASSUME c \in PRCalls PROVE pc[c] # "patch" /\ pc[c] # "apply"
    OBVIOUS
  <2>1. PRRunsSkipPatch(c) /\ OnlyApplyModeApplies(c) /\ TypeFitsCall(c)
    BY DEF CallInv
  <2>2. PRPlan \notin {ScheduledRun, PollingRun, ForcedApply}
    BY DEF PRPlan, ScheduledRun, PollingRun, ForcedApply
  <2> QED BY <1>4, <2>1, <2>2
          DEF PRRunsSkipPatch, OnlyApplyModeApplies, TypeFitsCall, Live
<1>6. status'[m] = status[m]
  <2>1. CASE RecordStart(c)
    <3>1. CASE c \in Modules
      BY <1>2, <2>1, <3>1 DEF RecordStart, TypeOK
    <3>2. CASE c \in PRCalls
      <4>1. pc[c] = "record"
        BY <2>1 DEF RecordStart
      <4>2. [run[c] EXCEPT !.commit = loc[c].hash].type = PRPlan
        BY <1>4, <3>2, <4>1, CallTypes DEF RunRecord
      <4> QED BY <2>1, <4>2 DEF RecordStart, SkipStatusUpdate
    <3> QED BY <1>3, <3>1, <3>2
  <2>2. CASE PatchStatus(c)
    BY <1>2, <1>3, <1>5, <2>2 DEF PatchStatus, TypeOK
  <2>3. CASE Trigger(c) \/ Watch(c)
    BY <2>3 DEF Trigger, Watch, TimeOut, SeeClosed, GraceOver, crd
  <2>4. CASE Start(c) \/ LoadRunStatus(c) \/ StoreRunStatus(c) \/ UpdateRedis(c)
             \/ Release(c) \/ Return(c)
    BY <2>4 DEF Start, LoadRunStatus, StoreRunStatus, UpdateRedis, Release, Return, crd
  <2>5. CASE Stage(c)
    BY <2>5 DEF Stage, StageFrame, HashCommit, Prepare, InitModule, Plan,
                ShowPlan, Apply, crd
  <2> QED BY <2>1, <2>2, <2>3, <2>4, <2>5 DEF CallStep, Local
<1>7. infra'[m] = infra[m] /\ head'[m] = head[m]
  <2>1. CASE Trigger(c) \/ Watch(c)
    BY <2>1 DEF Trigger, Watch, TimeOut, SeeClosed, GraceOver, world
  <2>2. CASE Local(c)
    BY <2>2 DEF Local, Start, LoadRunStatus, StoreRunStatus, RecordStart,
                PatchStatus, UpdateRedis, Release, Return, world
  <2>3. CASE HashCommit(c) \/ Prepare(c) \/ InitModule(c) \/ Plan(c) \/ ShowPlan(c)
    BY <2>3 DEF HashCommit, Prepare, InitModule, Plan, ShowPlan, world
  <2>4. CASE Apply(c)
    BY <1>2, <1>3, <1>5, <2>4 DEF Apply, TypeOK
  <2> QED BY <2>1, <2>2, <2>3, <2>4 DEF CallStep, Stage
<1> QED BY <1>1, <1>6, <1>7

\* Ending a run with a result other than Applied keeps its status true.
LEMMA EndKeepsTruth ==
  ASSUME TypeOK, NEW m \in Modules, NEW r \in RunRecord, NEW result, NEW st,
         End(m, r, result, st), infra' = infra,
         TrueStatus(m, loc[m].status), TrueStatus(m, st)
  PROVE  pc'[m] \in {"redis", "patch"} /\ TrueStatus(m, loc[m].status)'
<1>1. m \in Calls
  BY DEF Calls
<1>2. /\ pc'[m] \in {"redis", "patch"}
      /\ loc'[m].status = loc[m].status \/ loc'[m].status = st
  BY <1>1, EndShape
<1> QED BY <1>2 DEF TrueStatus

LEMMA FailKeepsTruth ==
  ASSUME TypeOK, NEW m \in Modules, NEW reason, Fail(m, run[m], reason),
         reason # "Applied", infra' = infra, TrueStatus(m, loc[m].status)
  PROVE  pc'[m] \in {"redis", "patch"} /\ TrueStatus(m, loc[m].status)'
<1> DEFINE st == [loc[m].status EXCEPT !.state = "Errored", !.reason = reason]
<1>1. run[m] \in RunRecord /\ loc[m].status \in ModuleStatus
  BY CallTypes DEF Calls
<1>2. st.lastApplied = loc[m].status.lastApplied /\ st.reason = reason
  BY <1>1 DEF ModuleStatus
<1>3. TrueStatus(m, st)
  BY <1>2 DEF TrueStatus
<1>4. End(m, run[m], "Errored", st)
  BY DEF Fail
<1> HIDE DEF st
<1> QED BY <1>1, <1>3, <1>4, EndKeepsTruth

\* The commits, the types and the statuses a module's own call starts from.
LEMMA ModuleTypes ==
  ASSUME TypeOK, NEW m \in Modules
  PROVE  /\ m \in Calls /\ Mod(m) = m
         /\ head[m] \in Nat /\ infra[m] \in Nat
         /\ loc[m].hash \in Nat /\ loc[m].cloned \in Nat
         /\ status[m] \in ModuleStatus /\ loc[m].status \in ModuleStatus
         /\ status[m].lastApplied \in Nat /\ loc[m].status.lastApplied \in Nat
<1>1. m \in Calls /\ Mod(m) = m
  BY DEF Calls, Mod
<1>2. infra[m] \in Nat /\ status[m] \in ModuleStatus
  BY DEF TypeOK
<1>3. loc[m].status \in ModuleStatus
  BY <1>1, CallTypes
<1>4. status[m].lastApplied \in Nat /\ loc[m].status.lastApplied \in Nat
  BY <1>2, <1>3 DEF ModuleStatus
<1> QED BY <1>1, <1>2, <1>3, <1>4, CallTypes

\* The stages of a module's own call.
LEMMA StageStatus ==
  ASSUME TypeOK, NEW m \in Modules, TrueStatuses(m), CommitsInOrder(m), Stage(m)
  PROVE  TrueStatuses(m)' /\ CommitsInOrder(m)'
<1> USE DEF Inside
<1>t. /\ m \in Calls /\ Mod(m) = m
      /\ head[m] \in Nat /\ infra[m] \in Nat
      /\ loc[m].hash \in Nat /\ loc[m].cloned \in Nat
      /\ status[m] \in ModuleStatus /\ loc[m].status \in ModuleStatus
      /\ status[m].lastApplied \in Nat /\ loc[m].status.lastApplied \in Nat
  BY ModuleTypes
<1>s. pc[m] \in Inside
  BY <1>t, StageShape
<1>0. /\ TrueStatus(m, status[m]) /\ TrueStatus(m, loc[m].status)
      /\ infra[m] <= head[m]
  BY <1>s DEF TrueStatuses, CommitsInOrder
<1>1. status' = status
  BY DEF Stage, StageFrame, HashCommit, Prepare, InitModule, Plan, ShowPlan, Apply, crd
<1>2. ASSUME infra' = infra, head' = head, pc'[m] \in {"redis", "patch"},
             TrueStatus(m, loc[m].status)'
      PROVE  TrueStatuses(m)' /\ CommitsInOrder(m)'
  BY <1>0, <1>1, <1>2 DEF TrueStatuses, TrueStatus, CommitsInOrder
<1>3. ASSUME NEW reason, Fail(m, run[m], reason), reason # "Applied",
             infra' = infra, head' = head
      PROVE  TrueStatuses(m)' /\ CommitsInOrder(m)'
  BY <1>0, <1>2, <1>3, FailKeepsTruth
<1>4. CASE HashCommit(m)
  <2>1. infra' = infra /\ head' = head /\ pc[m] = "hash"
    BY <1>4 DEF HashCommit, world
  <2>2. CASE Fail(m, run[m], "DelegationFailed")
    BY <1>3, <2>1, <2>2
  <2>3. CASE loc' = [loc EXCEPT ![m].hash = head[m]] /\ Goto(m, "record")
    <3>1. loc'[m] = [loc[m] EXCEPT !.hash = head[m]] /\ pc'[m] = "record"
      BY <1>t, <2>3 DEF TypeOK, Goto
    <3>2. loc'[m].status = loc[m].status /\ loc'[m].hash = head[m]
      BY <1>t, <3>1, CallTypes DEF Locals
    <3>3. TrueStatuses(m)'
      BY <1>0, <1>1, <2>1, <3>2 DEF TrueStatuses, TrueStatus
    <3>4. CommitsInOrder(m)'
      BY <1>t, <1>0, <2>1, <3>1, <3>2 DEF CommitsInOrder
    <3> QED BY <3>3, <3>4
  <2> QED BY <1>4, <2>2, <2>3 DEF HashCommit
<1>5. CASE Prepare(m)
  <2>1. infra' = infra /\ head' = head /\ pc[m] = "prepare"
    BY <1>5 DEF Prepare, world
  <2>2. ASSUME NEW reason \in {"DelegationFailed", "RunPreparationFailed"},
               Fail(m, run[m], reason)
        PROVE  TrueStatuses(m)' /\ CommitsInOrder(m)'
    BY <1>3, <2>1, <2>2
  <2>3. CASE loc' = [loc EXCEPT ![m].cloned = head[m]] /\ Goto(m, "init")
    <3>1. loc'[m] = [loc[m] EXCEPT !.cloned = head[m]] /\ pc'[m] = "init"
      BY <1>t, <2>3 DEF TypeOK, Goto
    <3>2. /\ loc'[m].status = loc[m].status /\ loc'[m].cloned = head[m]
          /\ loc'[m].hash = loc[m].hash
      BY <1>t, <3>1, CallTypes DEF Locals
    <3>3. TrueStatuses(m)'
      BY <1>0, <1>1, <2>1, <3>2 DEF TrueStatuses, TrueStatus
    <3>4. loc[m].hash <= head[m] /\ loc[m].status.commit = loc[m].hash
      BY <2>1 DEF CommitsInOrder
    <3>5. CommitsInOrder(m)'
      BY <1>t, <1>0, <2>1, <3>1, <3>2, <3>4 DEF CommitsInOrder
    <3> QED BY <3>3, <3>5
  <2> QED BY <1>5, <2>2, <2>3 DEF Prepare
<1>6. ASSUME pc[m] \in {"init", "plan", "show"}, infra' = infra, head' = head,
             loc' = loc, pc'[m] \in {"plan", "show", "apply"}
      PROVE  TrueStatuses(m)' /\ CommitsInOrder(m)'
  BY <1>0, <1>1, <1>6 DEF TrueStatuses, TrueStatus, CommitsInOrder
<1>7. CASE InitModule(m)
  <2>1. infra' = infra /\ head' = head /\ pc[m] = "init"
    BY <1>7 DEF InitModule, world
  <2>2. CASE Fail(m, run[m], "InitialiseFailed") \/ Fail(m, run[m], "ControllerShutdown")
    BY <1>3, <2>1, <2>2
  <2>3. CASE Goto(m, "plan") /\ UNCHANGED loc
    BY <1>t, <1>6, <2>1, <2>3 DEF Goto, TypeOK
  <2> QED BY <1>7, <2>2, <2>3 DEF InitModule, Shutdown
<1>8. CASE Plan(m)
  <2>1. infra' = infra /\ head' = head /\ pc[m] = "plan"
    BY <1>8 DEF Plan, world
  <2>2. CASE Fail(m, run[m], "PlanFailed")
    BY <1>3, <2>1, <2>2
  <2>3. CASE Goto(m, "show") /\ UNCHANGED loc
    BY <1>t, <1>6, <2>1, <2>3 DEF Goto, TypeOK
  <2> QED BY <1>8, <2>2, <2>3 DEF Plan
<1>9. CASE ShowPlan(m)
  <2>1. infra' = infra /\ head' = head /\ pc[m] = "show"
    BY <1>9 DEF ShowPlan, world
  <2>2. CASE Fail(m, run[m], "PlanFailed") \/ Fail(m, run[m], "ControllerShutdown")
    BY <1>3, <2>1, <2>2
  <2>3. CASE \E reason \in {"PlanOnlyDriftDetected", "NoDriftDetected"} :
               Finish(m, run[m], reason, loc[m].status)
    <3>1. PICK reason \in {"PlanOnlyDriftDetected", "NoDriftDetected"} :
                 Finish(m, run[m], reason, loc[m].status)
      BY <2>3
    <3> DEFINE st == [loc[m].status EXCEPT !.reason = reason,
                        !.state = IF reason = "PlanOnlyDriftDetected"
                                    THEN "Drift_Detected" ELSE "Ok"]
    <3>2. st.lastApplied = loc[m].status.lastApplied /\ st.reason = reason
      BY <1>t DEF ModuleStatus
    <3>3. TrueStatus(m, st)
      BY <1>0, <3>2 DEF TrueStatus
    <3>4. End(m, run[m], "Ok", st) /\ run[m] \in RunRecord
      BY <1>t, <3>1, CallTypes DEF Finish
    <3> HIDE DEF st
    <3> QED BY <1>0, <1>2, <2>1, <3>3, <3>4, EndKeepsTruth
  <2>4. CASE Goto(m, "apply") /\ UNCHANGED loc
    BY <1>t, <1>6, <2>1, <2>4 DEF Goto, TypeOK
  <2> QED BY <1>9, <2>2, <2>3, <2>4 DEF ShowPlan, Shutdown
<1>10. CASE Apply(m)
  <2>1. head' = head /\ pc[m] = "apply"
    BY <1>10 DEF Apply
  <2>2. /\ loc[m].hash <= loc[m].cloned /\ infra[m] <= loc[m].cloned
        /\ loc[m].cloned <= head[m] /\ loc[m].status.commit = loc[m].hash
    BY <2>1 DEF CommitsInOrder
  <2>3. CASE Fail(m, run[m], "ApplyFailed") /\ UNCHANGED infra
    BY <1>3, <2>1, <2>3
  <2>4. CASE /\ infra' = [infra EXCEPT ![Mod(m)] = loc[m].cloned]
             /\ Finish(m, [run[m] EXCEPT !.applied = TRUE], "Applied",
                       [loc[m].status EXCEPT !.lastApplied = AppliedCommit(m)])
    <3> DEFINE r  == [run[m] EXCEPT !.applied = TRUE]
               st == [[loc[m].status EXCEPT !.lastApplied = AppliedCommit(m)]
                        EXCEPT !.reason = "Applied", !.state = "Ok"]
    <3>1. End(m, r, "Ok", st) /\ r \in RunRecord
      BY <1>t, <2>4, CallTypes, RunUpdates DEF Finish
    <3>2. /\ st.lastApplied = loc[m].hash /\ st.commit = loc[m].hash
          /\ st.state = "Ok" /\ st.reason = "Applied"
      BY <1>t, <2>2 DEF ModuleStatus, AppliedCommit
    <3>3. infra'[m] = loc[m].cloned
      BY <1>t, <2>4 DEF TypeOK
    <3> HIDE DEF r, st
    <3>4. /\ pc'[m] \in {"redis", "patch"}
          /\ loc'[m].status = loc[m].status \/ loc'[m].status = st
      BY <1>t, <3>1, EndShape
    <3>5. loc[m].status.lastApplied <= loc[m].cloned /\ status[m].lastApplied <= loc[m].cloned
      BY <1>t, <1>0, <2>2 DEF TrueStatus
    <3>6. TrueStatus(m, loc[m].status)' /\ TrueStatus(m, status[m])'
      BY <1>0, <1>1, <2>2, <3>2, <3>3, <3>4, <3>5 DEF TrueStatus
    <3> QED BY <2>1, <2>2, <3>3, <3>4, <3>6 DEF TrueStatuses, CommitsInOrder
  <2> QED BY <1>10, <2>3, <2>4 DEF Apply
<1> QED BY <1>4, <1>5, <1>7, <1>8, <1>9, <1>10 DEF Stage

\* The other steps of a module's own call.
LEMMA CallStatus ==
  ASSUME RunnerAssumption, TypeOK, CallInv, NEW m \in Modules, TrueStatuses(m), CommitsInOrder(m),
         CallStep(m)
  PROVE  TrueStatuses(m)' /\ CommitsInOrder(m)'
<1>t. /\ m \in Calls /\ Mod(m) = m
      /\ head[m] \in Nat /\ infra[m] \in Nat
      /\ loc[m].hash \in Nat /\ loc[m].cloned \in Nat
      /\ status[m] \in ModuleStatus /\ loc[m].status \in ModuleStatus
      /\ status[m].lastApplied \in Nat /\ loc[m].status.lastApplied \in Nat
  BY ModuleTypes
<1>0. TrueStatus(m, status[m]) /\ infra[m] <= head[m]
  BY DEF TrueStatuses, CommitsInOrder
<1>1. ASSUME pc'[m] \in {"idle", "start", "remove"}, UNCHANGED <<status, infra, head>>
      PROVE  TrueStatuses(m)' /\ CommitsInOrder(m)'
  BY <1>0, <1>1 DEF TrueStatuses, TrueStatus, CommitsInOrder, Inside
<1>2. CASE Trigger(m)
  BY <1>t, <1>1, <1>2 DEF Trigger, crd, world, TypeOK
<1>3. CASE Start(m)
  <2>1. UNCHANGED <<status, infra, head>>
    BY <1>3 DEF Start, crd, world
  <2>2. CASE Goto(m, "remove")
    BY <1>t, <1>1, <2>1, <2>2 DEF Goto, TypeOK
  <2>3. CASE /\ Goto(m, "load")
             /\ loc' = [loc EXCEPT ![m] = [NoLocals EXCEPT !.spec = spec[Mod(m)],
                                                           !.status = status[Mod(m)]]]
    <3>1. pc'[m] = "load" /\ loc'[m].status = status[m]
      BY <1>t, <2>3 DEF Goto, TypeOK, NoLocals
    <3> QED BY <1>0, <2>1, <3>1 DEF TrueStatuses, TrueStatus, CommitsInOrder
  <2> QED BY <1>3, <2>2, <2>3 DEF Start
<1>4. CASE LoadRunStatus(m) \/ StoreRunStatus(m)
  <2>1. /\ UNCHANGED <<status, infra, head, loc>>
        /\ pc[m] \in {"load", "store"} /\ pc'[m] \in {"remove", "store", "hash"}
    BY <1>t, <1>4 DEF LoadRunStatus, StoreRunStatus, crd, world, Goto, TypeOK
  <2>2. TrueStatus(m, loc[m].status)
    BY <2>1 DEF TrueStatuses
  <2> QED BY <1>0, <2>1, <2>2 DEF TrueStatuses, TrueStatus, CommitsInOrder
<1>5. CASE RecordStart(m)
  <2>1. /\ UNCHANGED <<infra, head>> /\ pc[m] = "record"
    BY <1>5 DEF RecordStart, world
  <2>2. TrueStatus(m, loc[m].status) /\ loc[m].hash <= head[m]
    BY <2>1 DEF TrueStatuses, CommitsInOrder, Inside
  <2>3. CASE Fail(m, run[m], "ControllerShutdown") /\ UNCHANGED status
    <3>1. pc'[m] \in {"redis", "patch"} /\ TrueStatus(m, loc[m].status)'
      BY <2>1, <2>2, <2>3, FailKeepsTruth
    <3> QED BY <1>0, <2>1, <2>3, <3>1 DEF TrueStatuses, TrueStatus, CommitsInOrder
  <2>4. ~ SkipStatusUpdate([run[m] EXCEPT !.commit = loc[m].hash].type)
    <3>1. run[m].type \in DefaultTypes
      BY <1>t, <2>1 DEF CallInv, TypeFitsCall, Live, TypesOf, RunnerAssumption
    <3>2. [run[m] EXCEPT !.commit = loc[m].hash].type = run[m].type
      BY <1>t, CallTypes DEF RunRecord
    <3> QED BY <3>1, <3>2 DEF SkipStatusUpdate, RunnerAssumption
  <2> DEFINE st == [loc[m].status EXCEPT !.state = "Running", !.reason = "RunTriggered",
                                         !.commit = loc[m].hash]
  <2>5. CASE /\ loc' = [loc EXCEPT ![m].status = st]
             /\ \/ Goto(m, "prepare") /\ status' = [status EXCEPT ![Mod(m)] = st]
                \/ Goto(m, "redis") /\ UNCHANGED status
    <3>1. /\ st.lastApplied = loc[m].status.lastApplied /\ st.reason = "RunTriggered"
          /\ st.commit = loc[m].hash
      BY <1>t DEF ModuleStatus
    <3> HIDE DEF st
    <3>2. TrueStatus(m, st)
      BY <2>2, <3>1 DEF TrueStatus
    <3>3. loc'[m] = [loc[m] EXCEPT !.status = st]
      BY <1>t, <2>5 DEF TypeOK
    <3>4. loc'[m].status = st /\ loc'[m].hash = loc[m].hash
      BY <1>t, <3>3, CallTypes DEF Locals
    <3>5. /\ pc'[m] \in {"prepare", "redis"}
          /\ status'[m] \in {st, status[m]}
      BY <1>t, <2>5 DEF Goto, TypeOK
    <3> QED BY <1>0, <2>1, <2>2, <3>1, <3>2, <3>4, <3>5
            DEF TrueStatuses, TrueStatus, CommitsInOrder
  <2> QED BY <1>5, <2>3, <2>4, <2>5 DEF RecordStart, StartedStatus, Shutdown
<1>6. CASE PatchStatus(m) \/ UpdateRedis(m)
  <2>1. /\ UNCHANGED <<infra, head, loc>>
        /\ pc[m] \in {"patch", "redis"} /\ pc'[m] \in {"redis", "release"}
        /\ status'[m] \in {status[m], loc[m].status}
    BY <1>t, <1>6 DEF PatchStatus, UpdateRedis, crd, world, Goto, TypeOK
  <2>2. TrueStatus(m, loc[m].status)
    BY <2>1 DEF TrueStatuses, Inside
  <2> QED BY <1>0, <2>1, <2>2 DEF TrueStatuses, TrueStatus, CommitsInOrder
<1>7. CASE Release(m) \/ Return(m)
  <2>1. UNCHANGED <<status, infra, head>> /\ pc'[m] \in {"remove", "idle"}
    BY <1>t, <1>7 DEF Release, Return, crd, world, Goto, TypeOK
  <2> QED BY <1>1, <2>1
<1>8. CASE Stage(m)
  BY <1>8, StageStatus
<1>9. CASE Watch(m)
  BY <1>9 DEF Watch, TimeOut, SeeClosed, GraceOver, crd, world, calls,
              TrueStatuses, TrueStatus, CommitsInOrder
<1> QED BY <1>2, <1>3, <1>4, <1>5, <1>6, <1>7, <1>8, <1>9 DEF CallStep, Local

\* The reconciler repairs a status without claiming an apply; a push only moves
\* the head of a ref forward.
LEMMA EnvironmentStatus ==
  ASSUME TypeOK, NEW m \in Modules, TrueStatuses(m), CommitsInOrder(m), Environment
  PROVE  TrueStatuses(m)' /\ CommitsInOrder(m)'
<1> USE DEF TrueStatuses, TrueStatus
<1>t. /\ m \in Calls /\ head[m] \in Nat /\ infra[m] \in Nat
      /\ loc[m].hash \in Nat /\ loc[m].cloned \in Nat /\ status[m] \in ModuleStatus
  BY ModuleTypes
<1>1. CASE Restart
  BY <1>1 DEF Restart, crd, world, CommitsInOrder, Calls, Inside
<1>2. ASSUME NEW n \in Modules, RepairStatus(n) \/ DropInvalidRequest(n)
      PROVE  TrueStatuses(m)' /\ CommitsInOrder(m)'
  <2>1. UNCHANGED <<infra, head, pc, loc>>
    BY <1>2 DEF RepairStatus, DropInvalidRequest, world, process, calls
  <2>2. \/ status'[m] = status[m]
        \/ \E reason \in {"Unknown", "InvalidRequest"} :
             status'[m] = [status[m] EXCEPT !.state = "Errored", !.reason = reason]
    <3>1. status \in [Modules -> ModuleStatus]
      BY DEF TypeOK
    <3> QED BY <1>2, <3>1 DEF RepairStatus, DropInvalidRequest, Repaired
  <2>3. /\ status'[m].lastApplied = status[m].lastApplied
        /\ status'[m] = status[m] \/ status'[m].reason # "Applied"
    BY <1>t, <2>2 DEF ModuleStatus
  <2> QED BY <2>1, <2>3 DEF CommitsInOrder
<1>3. ASSUME NEW d \in Calls, Push(d)
      PROVE  TrueStatuses(m)' /\ CommitsInOrder(m)'
  <2>1. UNCHANGED <<status, infra, pc, loc>> /\ head' = [head EXCEPT ![d] = @ + 1]
    BY <1>3 DEF Push, crd, process, calls
  <2>2. head'[m] \in {head[m], head[m] + 1}
    BY <1>t, <2>1 DEF TypeOK
  <2> QED BY <1>t, <2>1, <2>2 DEF CommitsInOrder
<1>4. ASSUME UNCHANGED <<status, infra, head, pc, loc>>
      PROVE  TrueStatuses(m)' /\ CommitsInOrder(m)'
  BY <1>4 DEF CommitsInOrder
<1>5. CASE \/ Terminate
           \/ \E n \in Modules : CloseChan(n) \/ SubmitRequest(n) \/ EditSpec(n)
  BY <1>4, <1>5 DEF Terminate, CloseChan, SubmitRequest, EditSpec, crd, world,
                    process, calls
<1> QED BY <1>1, <1>2, <1>3, <1>5 DEF Environment

LEMMA StatusInvStep ==
  ASSUME RunnerAssumption, TypeOK, CallInv, StatusInv, [Next]_vars
  PROVE  StatusInv'
<1> SUFFICES ASSUME NEW m \in Modules
             PROVE  TrueStatuses(m)' /\ CommitsInOrder(m)'
  BY DEF StatusInv
<1>0. TrueStatuses(m) /\ CommitsInOrder(m)
  BY DEF StatusInv
<1>1. ASSUME NEW c \in Calls, CallStep(c), c # m
      PROVE  TrueStatuses(m)' /\ CommitsInOrder(m)'
  BY <1>0, <1>1, OtherModules DEF TrueStatuses, TrueStatus, CommitsInOrder
<1>2. CASE CallStep(m)
  BY <1>0, <1>2, CallStatus
<1>3. CASE Environment
  BY <1>0, <1>3, EnvironmentStatus
<1>4. CASE UNCHANGED vars
  BY <1>0, <1>4 DEF vars, crd, world, process, calls, TrueStatuses, TrueStatus,
                    CommitsInOrder
<1> QED BY <1>1, <1>2, <1>3, <1>4 DEF Next, CallStep

-----------------------------------------------------------------------------
(* The invariants.                                                         *)

LEMMA InitInv == Init => RunnerInv
<1> SUFFICES ASSUME Init PROVE RunnerInv
  OBVIOUS
<1>1. TypeOK
  BY TypeInit
<1>2. NoLeakedMark
  BY DEF Init, NoLeakedMark
<1>3. CallInv
  BY DEF Init, CallInv, TypeFitsCall, LockRespected, OnlyApplyModeApplies,
         PRRunsSkipPatch, Live, Inside
<1>4. StatusInv
  <2> SUFFICES ASSUME NEW m \in Modules PROVE TrueStatuses(m) /\ CommitsInOrder(m)
    BY DEF StatusInv
  <2>1. status[m].lastApplied = 0 /\ status[m].reason = ""
    BY DEF Init, NoStatus, NoCommit
  <2>2. infra[m] = 0 /\ head[m] = 1 /\ pc[m] = "idle"
    BY DEF Init, Calls, NoCommit
  <2>3. TrueStatus(m, status[m])
    <3>1. infra[m] \in Nat
      BY <2>2
    <3>2. status[m].lastApplied = infra[m]
      BY <2>1, <2>2
    <3>3. status[m].reason # "Applied"
      BY <2>1
    <3> QED BY <3>1, <3>2, <3>3 DEF TrueStatus
  <2>4. pc[m] \notin Inside \cup {"load", "store"}
    BY <2>2 DEF Inside
  <2>5. CommitsInOrder(m)
    BY <2>2 DEF CommitsInOrder
  <2> QED BY <2>3, <2>4, <2>5 DEF TrueStatuses
<1> QED BY <1>1, <1>2, <1>3, <1>4 DEF RunnerInv

\* RunnerInv is inductive.
THEOREM RunnerInvariant == Spec => []RunnerInv
<1>1. RunnerInv /\ [Next]_vars => RunnerInv'
  BY RunnerAssumption, TypeNext, NoLeakedMarkStep, CallInvStep, StatusInvStep
     DEF RunnerInv
<1> QED BY <1>1, InitInv, PTL DEF Spec

\* No way out of process blocks a module for ever.
THEOREM MarksDoNotLeak == Spec => []NoLeakedMark
<1>1. RunnerInv => NoLeakedMark
  BY DEF RunnerInv
<1> QED BY <1>1, RunnerInvariant, PTL

\* Whatever runs next to it and whatever fails, a call that applies was meant to.
THEOREM AppliesAreIntended == Spec => []ApplyIsIntended
<1>1. RunnerInv => ApplyIsIntended
  BY DEF RunnerInv, CallInv, TypeFitsCall, LockRespected, OnlyApplyModeApplies,
         ApplyIsIntended, Live, Inside
<1> QED BY <1>1, RunnerInvariant, PTL

\* LastAppliedCommitHash and the reason Applied are never ahead of the facts.
THEOREM AppliedStatusesAreTrue == Spec => []AppliedStatusIsTrue
<1>1. RunnerInv => AppliedStatusIsTrue
  BY DEF RunnerInv, StatusInv, TrueStatuses, TrueStatus, AppliedStatusIsTrue
<1> QED BY <1>1, RunnerInvariant, PTL

-----------------------------------------------------------------------------
(* The action properties.                                                  *)

\* A call that is told to stop begins nothing more.
THEOREM ShutdownIsObeyed == Spec => NoStageAfterShutdown
<1> DEFINE Obeyed == \A c \in closed : pc'[c] # pc[c] =>
                       pc'[c] \notin {"prepare", "plan", "apply"}
<1>1. TypeOK /\ [Next]_vars => [Obeyed]_vars
  <2> SUFFICES ASSUME TypeOK, Next, NEW c \in closed, pc'[c] # pc[c]
               PROVE  pc'[c] \notin {"prepare", "plan", "apply"}
    OBVIOUS
  <2>0. c \in Calls
    BY DEF TypeOK, Calls
  <2>1. CASE Restart
    BY <2>0, <2>1 DEF Restart
  <2>2. CASE ~ Restart
    <3>1. CallStep(c)
      BY <2>0, <2>2, OtherCalls, EnvironmentCalls DEF Next, CallStep, calls
    <3>2. CASE Stage(c)
      BY <2>0, <3>2, StageShape
    <3>3. CASE RecordStart(c)
      BY <2>0, <3>3, RecordShape
    <3>4. CASE Trigger(c) \/ Watch(c)
      BY <2>0, <3>4 DEF Trigger, Watch, TimeOut, SeeClosed, GraceOver, calls, TypeOK
    <3>5. CASE Start(c) \/ LoadRunStatus(c) \/ StoreRunStatus(c) \/ PatchStatus(c)
               \/ UpdateRedis(c) \/ Release(c) \/ Return(c)
      BY <2>0, <3>5 DEF Start, LoadRunStatus, StoreRunStatus, PatchStatus,
                        UpdateRedis, Release, Return, Goto, TypeOK
    <3> QED BY <3>1, <3>2, <3>3, <3>4, <3>5 DEF CallStep, Local
  <2> QED BY <2>1, <2>2
<1> QED BY <1>1, TypeCorrect, PTL DEF Spec, NoStageAfterShutdown

\* The mark of a module is removed only by a run on it, or with the process.
THEOREM MarksAreOwned == Spec => OnlyARunUnmarks
<1> DEFINE Owned == \A m \in runStatus \ runStatus' :
                      \/ \E c \in Calls : Mod(c) = m /\ InProcess(c) /\ pc'[c] = "remove"
                      \/ \A c \in Calls : pc'[c] = "idle"
<1>1. TypeOK /\ [Next]_vars => [Owned]_vars
  <2> SUFFICES ASSUME TypeOK, Next, NEW m \in runStatus \ runStatus'
               PROVE  \/ \E c \in Calls : Mod(c) = m /\ InProcess(c) /\ pc'[c] = "remove"
                      \/ \A c \in Calls : pc'[c] = "idle"
    OBVIOUS
  <2>1. CASE Restart
    BY <2>1 DEF Restart
  <2>2. ASSUME NEW c \in Calls, Release(c)
        PROVE  Mod(c) = m /\ InProcess(c) /\ pc'[c] = "remove"
    BY <2>2 DEF Release, Unmarked, InProcess, Inside, Goto, TypeOK
  <2>3. ASSUME NEW c \in Calls, CallStep(c), ~ Release(c) PROVE FALSE
    <3>1. CASE Trigger(c) \/ Watch(c)
      BY <3>1 DEF Trigger, Watch, TimeOut, SeeClosed, GraceOver
    <3>2. CASE Local(c)
      BY <2>3, <3>2 DEF Local, Start, LoadRunStatus, StoreRunStatus, RecordStart,
                        PatchStatus, UpdateRedis, Return
    <3>3. CASE Stage(c)
      BY <3>3 DEF Stage, StageFrame, HashCommit, Prepare, InitModule, Plan,
                  ShowPlan, Apply
    <3> QED BY <2>3, <3>1, <3>2, <3>3 DEF CallStep
  <2>4. Environment => Restart
    BY DEF Environment, Terminate, CloseChan, RepairStatus, DropInvalidRequest,
           SubmitRequest, EditSpec, Push, process
  <2> QED BY <2>1, <2>2, <2>3, <2>4 DEF Next, CallStep
<1> QED BY <1>1, TypeCorrect, PTL DEF Spec, OnlyARunUnmarks

\* Only Start's deferred RemoveRequest and two steps of the environment touch
\* the request of a module, and only updateRedis the keys.
LEMMA RequestFrame ==
  ASSUME NEW c \in Calls, CallStep(c), ~ Return(c)
  PROVE  request' = request
<1>1. CASE Trigger(c) \/ Watch(c)
  BY <1>1 DEF Trigger, Watch, TimeOut, SeeClosed, GraceOver, crd
<1>2. CASE Local(c)
  BY <1>2 DEF Local, Start, LoadRunStatus, StoreRunStatus, RecordStart,
              PatchStatus, UpdateRedis, Release, crd
<1>3. CASE Stage(c)
  BY <1>3 DEF Stage, StageFrame, HashCommit, Prepare, InitModule, Plan,
              ShowPlan, Apply, crd
<1> QED BY <1>1, <1>2, <1>3 DEF CallStep

LEMMA KeyFrame ==
  ASSUME NEW c \in Calls, CallStep(c), ~ UpdateRedis(c)
  PROVE  lastRun' = lastRun /\ lastApply' = lastApply
<1>1. CASE Trigger(c) \/ Watch(c)
  BY <1>1 DEF Trigger, Watch, TimeOut, SeeClosed, GraceOver, redis
<1>2. CASE Local(c)
  BY <1>2 DEF Local, Start, LoadRunStatus, StoreRunStatus, RecordStart,
              PatchStatus, Release, Return, redis
<1>3. CASE Stage(c)
  BY <1>3 DEF Stage, StageFrame, HashCommit, Prepare, InitModule, Plan,
              ShowPlan, Apply, redis
<1> QED BY <1>1, <1>2, <1>3 DEF CallStep

\* The call that moves when the program counter of one does.
LEMMA WhoMoves ==
  ASSUME TypeOK, Next, ~ Restart, NEW c \in Calls, pc'[c] # pc[c]
  PROVE  CallStep(c)
  BY OtherCalls, EnvironmentCalls DEF Next, CallStep, calls

\* A plan for a pull request is invisible to the module it plans.
THEOREM PRRunsAreInvisible == Spec => PRRunsLeaveNoTrace
<1> DEFINE NoTrace == \A p \in PRCalls : pc[p] # "idle" /\ pc'[p] # pc[p] =>
                        UNCHANGED <<status, request, infra, lastRun, lastApply>>
<1>1. RunnerInv /\ RunnerInv' /\ [Next]_vars => [NoTrace]_vars
  <2> SUFFICES ASSUME RunnerInv, RunnerInv', Next, NEW p \in PRCalls,
                      pc[p] # "idle", pc'[p] # pc[p]
               PROVE  UNCHANGED <<status, request, infra, lastRun, lastApply>>
    OBVIOUS
  <2>0. /\ p \in Calls /\ p \notin Modules /\ TypeOK /\ CallInv
        /\ run[p].type = PRPlan
    BY RunnerAssumption DEF Calls, RunnerInv, CallInv, TypeFitsCall, Live, TypesOf
  <2>1. CASE Restart
    BY <2>1 DEF Restart, crd, world, redis
  <2>2. CASE ~ Restart
    <3>1. CallStep(p)
      BY <2>0, <2>2, WhoMoves
    <3>2. \A m \in Modules : status'[m] = status[m] /\ infra'[m] = infra[m]
      BY <2>0, <3>1, RunnerAssumption, OtherModules
    <3>3. status' = status /\ infra' = infra
      <4>1. /\ status \in [Modules -> ModuleStatus] /\ status' \in [Modules -> ModuleStatus]
            /\ infra \in [Modules -> Nat] /\ infra' \in [Modules -> Nat]
        BY DEF RunnerInv, TypeOK
      <4> QED BY <3>2, <4>1
    <3>4. request' = request
      <4>1. CASE Return(p)
        BY <2>0, <4>1 DEF Return, Removable, IsForced
      <4> QED BY <2>0, <3>1, <4>1, RequestFrame
    <3>5. lastRun' = lastRun /\ lastApply' = lastApply
      <4>1. CASE UpdateRedis(p)
        <5>1. KeysOf(run[p]) = <<"pr">>
          BY <2>0 DEF KeysOf
        <5> QED BY <4>1, <5>1 DEF UpdateRedis
      <4> QED BY <2>0, <3>1, <4>1, KeyFrame
    <3> QED BY <3>3, <3>4, <3>5
  <2> QED BY <2>1, <2>2
<1> QED BY <1>1, RunnerInvariant, PTL DEF Spec, PRRunsLeaveNoTrace

\* A request is taken away only for a reason.
THEOREM NewerRequestsSurvive == Spec => NewerRequestSurvives
<1> DEFINE Survive ==
      \A m \in Modules : request[m] # NoRequest /\ request'[m] = NoRequest =>
        \/ ~ Valid(request[m].type, TRUE, spec[m])
        \/ pc[m] = "remove" /\ run[m].req = request[m].id
<1>1. RunnerInv /\ [Next]_vars => [Survive]_vars
  <2> SUFFICES ASSUME RunnerInv, Next, NEW m \in Modules,
                      request[m] # NoRequest, request'[m] = NoRequest
               PROVE  \/ ~ Valid(request[m].type, TRUE, spec[m])
                      \/ pc[m] = "remove" /\ run[m].req = request[m].id
    OBVIOUS
  <2>0. TypeOK /\ CallInv
    BY DEF RunnerInv
  <2>1. ASSUME NEW c \in Calls, CallStep(c)
        PROVE  \/ ~ Valid(request[m].type, TRUE, spec[m])
               \/ pc[m] = "remove" /\ run[m].req = request[m].id
    <3>1. Return(c)
      BY <2>1, RequestFrame
    <3>2. Removable(c) /\ Mod(c) = m /\ pc[c] = "remove"
      BY <2>0, <3>1 DEF Return, TypeOK
    <3>3. c \in Modules
      <4>1. c \in PRCalls => run[c].type = PRPlan
        BY <2>0, <3>2 DEF CallInv, TypeFitsCall, Live, TypesOf
      <4> QED BY <3>2, <4>1 DEF Calls, Removable, IsForced
    <3>4. c = m
      BY <3>2, <3>3 DEF Mod
    <3> QED BY <3>2, <3>4 DEF Removable
  <2>2. CASE Environment
    <3>1. PICK n \in Modules : DropInvalidRequest(n) \/ SubmitRequest(n)
      BY <2>2 DEF Environment, Terminate, Restart, CloseChan, RepairStatus, EditSpec,
                  Push, crd
    <3>2. n = m
      BY <2>0, <3>1 DEF DropInvalidRequest, SubmitRequest, TypeOK
    <3>3. ~ SubmitRequest(m)
      <4>1. issued[m] \in Nat
        BY <2>0 DEF TypeOK
      <4>2. SubmitRequest(m) => \E t : request'[m] = [id |-> issued[m] + 1, type |-> t]
        <5>1. request \in [Modules -> [id : Nat, type : RequestType \cup {""}]]
          BY <2>0 DEF TypeOK
        <5> QED BY <2>0, <5>1 DEF SubmitRequest
      <4>3. \A t : [id |-> issued[m] + 1, type |-> t].id # 0
        BY <4>1
      <4>4. NoRequest.id = 0
        BY DEF NoRequest
      <4> QED BY <4>2, <4>3, <4>4
    <3> QED BY <3>1, <3>2, <3>3 DEF DropInvalidRequest
  <2> QED BY <2>1, <2>2 DEF Next, CallStep
<1> QED BY <1>1, RunnerInvariant, PTL DEF Spec, NewerRequestSurvives

\* Whichever write to Redis fails, the last apply is not ahead of the last run.
THEOREM ApplyKeyFollows == Spec => ApplyKeyFollowsLastRun
<1> DEFINE Follows == \A m \in Modules : lastApply'[m] # lastApply[m] =>
                                          lastRun'[m] = lastApply'[m]
<1>1. TypeOK /\ [Next]_vars => [Follows]_vars
  <2> SUFFICES ASSUME TypeOK, Next, NEW m \in Modules, lastApply'[m] # lastApply[m]
               PROVE  lastRun'[m] = lastApply'[m]
    OBVIOUS
  <2>1. ASSUME NEW c \in Calls, CallStep(c) PROVE lastRun'[m] = lastApply'[m]
    <3>1. UpdateRedis(c)
      BY <2>1, KeyFrame
    <3> DEFINE keys == KeysOf(run[c])
    <3>2. PICK n \in 0 .. Len(keys) :
            LET written == {keys[i] : i \in 1 .. n}
            IN  /\ lastRun' = IF "last" \in written
                                THEN [lastRun EXCEPT ![Mod(c)] = run[c]] ELSE lastRun
                /\ lastApply' = IF "apply" \in written
                                  THEN [lastApply EXCEPT ![Mod(c)] = run[c]] ELSE lastApply
      BY <3>1 DEF UpdateRedis
    <3> DEFINE written == {keys[i] : i \in 1 .. n}
    <3>3. "apply" \in written
      BY <3>2
    <3>4. keys = <<"last", "apply">>
      BY <3>3 DEF KeysOf
    <3>5. "last" \in written
      BY <3>3, <3>4
    <3> QED BY <3>2, <3>3, <3>5 DEF TypeOK
  <2>2. Environment => lastApply' = lastApply
    BY DEF Environment, Terminate, Restart, CloseChan, RepairStatus,
           DropInvalidRequest, SubmitRequest, EditSpec, Push, redis
  <2> QED BY <2>1, <2>2 DEF Next, CallStep
<1> QED BY <1>1, TypeCorrect, PTL DEF Spec, ApplyKeyFollowsLastRun

-----------------------------------------------------------------------------
(* What is stored has ended, while the API server takes every patch.       *)

\* A run on its way to Redis has a result.
ResultIsKnown(c) == pc[c] \in {"patch", "redis"} => run[c].status \in {"Ok", "Errored"}

EndedInv == StoredRunsHaveEnded /\ \A c \in Calls : ResultIsKnown(c)

LEMMA EndResult ==
  ASSUME TypeOK, NEW c \in Calls, NEW r \in RunRecord, NEW result, NEW st,
         End(c, r, result, st)
  PROVE  run'[c].status = result
<1>1. run'[c] = [r EXCEPT !.status = result]
  BY DEF End, TypeOK
<1> QED BY <1>1 DEF RunRecord

\* The stages lead to the end only through setFailedStatus or SetRunFinishedStatus.
LEMMA StageResult ==
  ASSUME TypeOK, NEW c \in Calls, Stage(c)
  PROVE  ResultIsKnown(c)'
<1>0. run[c] \in RunRecord
  BY CallTypes
<1>1. ASSUME NEW reason, Fail(c, run[c], reason) PROVE run'[c].status = "Errored"
  BY <1>0, <1>1, EndResult DEF Fail
<1>2. ASSUME NEW r \in RunRecord, NEW reason, NEW st, Finish(c, r, reason, st)
      PROVE  run'[c].status = "Ok"
  BY <1>2, EndResult DEF Finish
<1>3. ASSUME NEW label, Goto(c, label) PROVE pc'[c] = label
  BY <1>3 DEF Goto, TypeOK
<1> USE DEF ResultIsKnown
<1>4. CASE HashCommit(c)
  BY <1>1, <1>3, <1>4 DEF HashCommit
<1>5. CASE Prepare(c)
  BY <1>1, <1>3, <1>5 DEF Prepare
<1>6. CASE InitModule(c)
  BY <1>1, <1>3, <1>6 DEF InitModule, Shutdown
<1>7. CASE Plan(c)
  BY <1>1, <1>3, <1>7 DEF Plan
<1>8. CASE ShowPlan(c)
  <2>1. CASE Finish(c, run[c], IF run[c].diff THEN "PlanOnlyDriftDetected"
                                              ELSE "NoDriftDetected", loc[c].status)
    BY <1>0, <1>2, <2>1
  <2> QED BY <1>1, <1>3, <1>8, <2>1 DEF ShowPlan, Shutdown
<1>9. CASE Apply(c)
  <2>1. CASE Fail(c, run[c], "ApplyFailed")
    BY <1>1, <2>1
  <2>2. CASE Finish(c, [run[c] EXCEPT !.applied = TRUE], "Applied",
                    [loc[c].status EXCEPT !.lastApplied = AppliedCommit(c)])
    <3>1. [run[c] EXCEPT !.applied = TRUE] \in RunRecord
      BY <1>0, RunUpdates
    <3> QED BY <1>2, <2>2, <3>1
  <2> QED BY <1>9, <2>1, <2>2 DEF Apply
<1> QED BY <1>4, <1>5, <1>6, <1>7, <1>8, <1>9 DEF Stage

\* A failing patch of the start is the one way to Redis without a result.
LEMMA OwnResult ==
  ASSUME TypeOK, "api" \notin Faults, NEW c \in Calls, ResultIsKnown(c), CallStep(c)
  PROVE  ResultIsKnown(c)'
<1>0. run[c] \in RunRecord
  BY CallTypes
<1>1. CASE Trigger(c) \/ Start(c) \/ LoadRunStatus(c) \/ StoreRunStatus(c)
            \/ Release(c) \/ Return(c)
  <2>1. pc'[c] \notin {"patch", "redis"}
    BY <1>1 DEF Trigger, Start, LoadRunStatus, StoreRunStatus, Release, Return,
                Goto, TypeOK
  <2> QED BY <2>1 DEF ResultIsKnown
<1>2. CASE RecordStart(c)
  <2>1. CASE Shutdown(c, run[c])
    <3>1. run'[c].status = "Errored"
      BY <1>0, <2>1, EndResult DEF Shutdown, Fail
    <3> QED BY <3>1 DEF ResultIsKnown
  <2>2. CASE ~ Shutdown(c, run[c])
    <3>1. Goto(c, "prepare")
      BY <1>2, <2>2 DEF RecordStart
    <3>2. pc'[c] = "prepare"
      BY <3>1 DEF Goto, TypeOK
    <3> QED BY <3>2 DEF ResultIsKnown
  <2> QED BY <2>1, <2>2
<1>3. CASE PatchStatus(c) \/ UpdateRedis(c)
  <2>1. run' = run
    BY <1>3 DEF PatchStatus, UpdateRedis
  <2>2. pc[c] = "patch" \/ pc'[c] = "release"
    BY <1>3 DEF PatchStatus, UpdateRedis, Goto, TypeOK
  <2> QED BY <2>1, <2>2 DEF ResultIsKnown
<1>4. CASE Stage(c)
  BY <1>4, StageResult
<1>5. CASE Watch(c)
  BY <1>5 DEF Watch, TimeOut, SeeClosed, GraceOver, calls, ResultIsKnown
<1> QED BY <1>1, <1>2, <1>3, <1>4, <1>5 DEF CallStep, Local

LEMMA ResultsStep ==
  ASSUME TypeOK, "api" \notin Faults, EndedInv, [Next]_vars, NEW d \in Calls
  PROVE  ResultIsKnown(d)'
<1>0. ResultIsKnown(d)
  BY DEF EndedInv
<1>1. ASSUME NEW c \in Calls, CallStep(c) PROVE ResultIsKnown(d)'
  <2>1. CASE d = c
    BY <1>0, <1>1, <2>1, OwnResult
  <2>2. CASE d # c
    <3>1. pc'[d] = pc[d] /\ run'[d] = run[d]
      BY <1>1, <2>2, OtherCalls DEF CallStep
    <3> QED BY <1>0, <3>1 DEF ResultIsKnown
  <2> QED BY <2>1, <2>2
<1>2. CASE Restart
  <2>1. pc'[d] = "idle"
    BY <1>2 DEF Restart
  <2> QED BY <2>1 DEF ResultIsKnown
<1>3. CASE UNCHANGED calls
  BY <1>0, <1>3 DEF calls, ResultIsKnown
<1> QED BY <1>1, <1>2, <1>3, EnvironmentCalls DEF Next, CallStep, vars, process

LEMMA StoredStep ==
  ASSUME TypeOK, EndedInv, [Next]_vars
  PROVE  StoredRunsHaveEnded'
<1> SUFFICES ASSUME NEW m \in Modules, lastRun'[m] # NoRun
             PROVE  lastRun'[m].status \in {"Ok", "Errored"}
  BY DEF StoredRunsHaveEnded
<1>1. lastRun[m] # NoRun => lastRun[m].status \in {"Ok", "Errored"}
  BY DEF EndedInv, StoredRunsHaveEnded
<1>2. ASSUME NEW c \in Calls, UpdateRedis(c)
      PROVE  lastRun'[m].status \in {"Ok", "Errored"}
  <2>1. lastRun' \in {lastRun, [lastRun EXCEPT ![Mod(c)] = run[c]]}
    BY <1>2 DEF UpdateRedis
  <2>2. lastRun'[m] \in {lastRun[m], run[c]}
    BY <2>1 DEF TypeOK
  <2>3. run[c].status \in {"Ok", "Errored"}
    BY <1>2 DEF EndedInv, ResultIsKnown, UpdateRedis
  <2> QED BY <1>1, <2>2, <2>3
<1>3. Environment => lastRun' = lastRun
  BY DEF Environment, Terminate, Restart, CloseChan, RepairStatus,
         DropInvalidRequest, SubmitRequest, EditSpec, Push, redis
<1>4. CASE lastRun' = lastRun
  BY <1>1, <1>4
<1> QED BY <1>2, <1>3, <1>4, KeyFrame DEF Next, CallStep, vars, redis

\* What Redis has of a run is its result, though updateRedis is deferred and so
\* writes on every way out of process: only the failed patch of
\* SetRunStartedStatus lets a call get there without one.
THEOREM StoredRunsEnded ==
  ASSUME "api" \notin Faults
  PROVE  Spec => []StoredRunsHaveEnded
<1>1. Init => EndedInv
  BY DEF Init, EndedInv, StoredRunsHaveEnded, ResultIsKnown
<1>2. TypeOK /\ EndedInv /\ [Next]_vars => EndedInv'
  BY ResultsStep, StoredStep DEF EndedInv
<1>3. EndedInv => StoredRunsHaveEnded
  BY DEF EndedInv
<1> QED BY <1>1, <1>2, <1>3, TypeCorrect, PTL DEF Spec

=============================================================================
