-------------------------- MODULE ModuleRunsProofs --------------------------
(***************************************************************************)
(* Runner implements ModuleRuns, for every set of modules, of planner      *)
(* goroutines and of faults: the copy of the module that a run carries     *)
(* from one patch to the next is never out of date.                        *)
(***************************************************************************)
EXTENDS RunnerProofs

Begun    == {"hash", "record"}
Recorded == {"prepare", "init", "plan", "show", "apply"}

\* The status in the copy is that of the module, until the run ends ...
CopyIsFresh(m) ==
  pc[m] \in {"load", "store"} \cup Begun \cup Recorded => loc[m].status = status[m]

\* ... and then differs from it by what the run has to report.
ReportIsDue(m) ==
  pc[m] = "patch" => loc[m].status \in Runs!Reports(Brief(run[m]), status[m])

\* What there is to say about a run before it ends.
RunIsBrief(m) ==
  /\ pc[m] \in {"start", "load", "store"} => Brief(run[m]) = Brief(NoRun)
  /\ pc[m] \in Begun => Brief(run[m]) = [Brief(NoRun) EXCEPT !.status = "Running"]
  /\ pc[m] \in Recorded =>
       Brief(run[m]) = [status |-> "Running", commit |-> loc[m].hash, applied |-> FALSE]

\* The reconciler triggers no run while the status of the last one is open.
StatusIsSettled(m) ==
  "api" \notin Faults /\ pc[m] \in {"start", "load", "store"} =>
    status[m].state # "Running"

CopyInv(m) == CopyIsFresh(m) /\ ReportIsDue(m) /\ RunIsBrief(m) /\ StatusIsSettled(m)

ReportsInv == RunnerInv /\ \A m \in Modules : CopyInv(m)

-----------------------------------------------------------------------------
(* The variables of ModuleRuns, and its actions in terms of them.          *)

ViewOf(m) == IF Phase(m) = "none" THEN Brief(NoRun) ELSE Brief(run[m])

Phases == [m \in Modules |-> Phase(m)]
Views  == [m \in Modules |-> ViewOf(m)]
Kept   == [m \in Modules |-> Brief(lastRun[m])]

LEMMA RunsUnfold ==
  /\ Runs!runsVars = <<status, infra, Phases, Views, Kept>>
  /\ Runs!NoReport = Brief(NoRun)
  /\ Runs!Fresh = [Brief(NoRun) EXCEPT !.status = "Running"]
  /\ Runs!Init <=> /\ status = [m \in Modules |-> NoStatus]
                   /\ infra = [m \in Modules |-> 0]
                   /\ Phases = [m \in Modules |-> "none"]
                   /\ Views = [m \in Modules |-> Brief(NoRun)]
                   /\ Kept = [m \in Modules |-> Brief(NoRun)]
<1>1. Runs!NoReport = Brief(NoRun)
  BY DEF Runs!NoReport, Brief, NoRun, NoCommit
<1> QED BY <1>1 DEF Runs!runsVars, Runs!Fresh, Runs!Init, Phases, Views, Kept, ViewOf,
                    NoStatus, NoCommit

\* Of what ModuleRuns speaks of, only what concerns m changes.
Only(m) ==
  /\ Phases' = [Phases EXCEPT ![m] = Phase(m)']
  /\ Views' = [Views EXCEPT ![m] = ViewOf(m)']

LEMMA BeginUnfolds ==
  ASSUME NEW m \in Modules, Only(m), UNCHANGED <<status, infra, Kept>>,
         Phase(m) = "none", Phase(m)' = "begun",
         status[m].state = "Running" => "api" \in Faults,
         ViewOf(m)' = [Brief(NoRun) EXCEPT !.status = "Running"]
  PROVE  Runs!Begin(m)
  BY RunsUnfold DEF Only, Runs!Begin, Runs!Move, Phases, Views, ViewOf, Kept

LEMMA RecordUnfolds ==
  ASSUME NEW m \in Modules, Only(m), UNCHANGED <<infra, Kept>>, NEW c \in Nat,
         Phase(m) = "begun", ViewOf(m)' = [ViewOf(m) EXCEPT !.commit = c],
         ViewOf(m)'.commit = c,
         \/ /\ Phase(m)' = "recorded"
            /\ status' = [status EXCEPT ![m].state = "Running", ![m].reason = "RunTriggered",
                                        ![m].commit = c]
         \/ "api" \in Faults /\ Phase(m)' = "over" /\ status' = status
  PROVE  Runs!Record(m)
  BY DEF Only, Runs!Record, Runs!Move, Phases, Views, ViewOf, Kept

LEMMA FailUnfolds ==
  ASSUME NEW m \in Modules, Only(m), UNCHANGED <<status, infra, Kept>>,
         Phase(m) \in {"begun", "recorded"}, Phase(m)' = "ended",
         ViewOf(m)' = [ViewOf(m) EXCEPT !.status = "Errored"]
  PROVE  Runs!Fail(m)
  BY DEF Only, Runs!Fail, Runs!Move, Phases, Views, ViewOf, Kept

LEMMA PlanUnfolds ==
  ASSUME NEW m \in Modules, Only(m), UNCHANGED <<status, infra, Kept>>,
         Phase(m) = "recorded", Phase(m)' = "ended",
         ViewOf(m)' = [ViewOf(m) EXCEPT !.status = "Ok"]
  PROVE  Runs!Plan(m)
  BY DEF Only, Runs!Plan, Runs!Move, Phases, Views, ViewOf, Kept

LEMMA ApplyUnfolds ==
  ASSUME NEW m \in Modules, Only(m), UNCHANGED <<status, Kept>>,
         Phase(m) = "recorded", Phase(m)' = "ended",
         ViewOf(m)' = [ViewOf(m) EXCEPT !.status = "Ok", !.applied = TRUE],
         ViewOf(m).commit <= infra'[m], infra[m] <= infra'[m],
         infra' = [infra EXCEPT ![m] = infra'[m]]
  PROVE  Runs!Apply(m)
  BY DEF Only, Runs!Apply, Runs!Move, Phases, Views, ViewOf, Kept

LEMMA ReportUnfolds ==
  ASSUME NEW m \in Modules, Only(m), UNCHANGED <<infra, Kept>>,
         Phase(m) = "ended", Phase(m)' = "over", ViewOf(m)' = ViewOf(m),
         \/ \E st \in Runs!Reports(ViewOf(m), status[m]) : status' = [status EXCEPT ![m] = st]
         \/ "api" \in Faults /\ status' = status
  PROVE  Runs!Report(m)
<1>1. Views' = Views
  BY DEF Only, Views, ViewOf
<1> QED BY <1>1 DEF Only, Runs!Report, Runs!Move, Phases, Views, ViewOf, Kept

LEMMA StoreUnfolds ==
  ASSUME NEW m \in Modules, Only(m), UNCHANGED <<status, infra>>,
         Phase(m) = "over", Phase(m)' = "none",
         Kept' \in {Kept, [Kept EXCEPT ![m] = ViewOf(m)]}
  PROVE  Runs!Store(m)
<1>1. ViewOf(m)' = Brief(NoRun)
  BY DEF ViewOf
<1> QED BY <1>1, RunsUnfold DEF Only, Runs!Store, Runs!Move, Phases, Views, ViewOf, Kept

LEMMA Unseen ==
  ASSUME NEW m \in Modules, Only(m), UNCHANGED <<status, infra, Kept>>,
         Phase(m)' = Phase(m), ViewOf(m)' = ViewOf(m)
  PROVE  UNCHANGED Runs!runsVars
<1>1. Phases' = Phases /\ Views' = Views
  BY DEF Only, Phases, Views
<1> QED BY <1>1, RunsUnfold DEF Phases, Views, Kept, ViewOf, Runs!runsVars

-----------------------------------------------------------------------------
(* The run of a module: its steps.                                         *)

\* A call changes what there is to say about no run but its own.
LEMMA OnlyOwn ==
  ASSUME TypeOK, NEW m \in Modules, CallStep(m)
  PROVE  Only(m)
<1>1. ASSUME NEW n \in Modules, n # m
      PROVE  Phase(n)' = Phase(n) /\ ViewOf(n)' = ViewOf(n)
  <2>1. pc'[n] = pc[n] /\ run'[n] = run[n]
    BY <1>1, OtherCalls DEF CallStep, Calls
  <2> QED BY <2>1 DEF Phase, ViewOf, Brief
<1> QED BY <1>1 DEF Only, Phases, Views

\* Default runs are reported.
LEMMA DefaultRun ==
  ASSUME TypeOK, CallInv, NEW m \in Modules, pc[m] # "idle"
  PROVE  run[m].type # PRPlan
<1>1. run[m].type \in DefaultTypes
  BY RunnerAssumption DEF CallInv, TypeFitsCall, Live, TypesOf, Calls
<1> QED BY <1>1, RunnerAssumption

\* How an end of the run looks from outside.
LEMMA EndSeen ==
  ASSUME TypeOK, NEW m \in Modules, NEW r \in RunRecord, r.type # PRPlan,
         NEW result, NEW st, End(m, r, result, st)
  PROVE  /\ pc'[m] = "patch"
         /\ run'[m].type = r.type
         /\ Brief(run'[m]) = [Brief(r) EXCEPT !.status = result]
         /\ loc'[m].status = st
<1>1. run'[m] = [r EXCEPT !.status = result]
  BY DEF End, TypeOK, Calls
<1>2. /\ run'[m].status = result /\ run'[m].commit = r.commit
      /\ run'[m].applied = r.applied
  BY <1>1 DEF RunRecord
<1> QED BY <1>2, EndShape DEF Calls, Brief

LEMMA FailSeen ==
  ASSUME TypeOK, CallInv, NEW m \in Modules, CopyInv(m), CallStep(m),
         pc[m] \in Begun \cup Recorded, NEW reason \in Runs!Failures,
         Fail(m, run[m], reason), UNCHANGED <<status, infra, Kept>>
  PROVE  CopyInv(m)' /\ Runs!Fail(m)
<1> DEFINE st == [loc[m].status EXCEPT !.state = "Errored", !.reason = reason]
<1>1. run[m] \in RunRecord /\ run[m].type # PRPlan
  BY CallTypes, DefaultRun DEF Calls, Begun, Recorded
<1>2. /\ pc'[m] = "patch"
      /\ Brief(run'[m]) = [Brief(run[m]) EXCEPT !.status = "Errored"]
      /\ loc'[m].status = st
  BY <1>1, EndSeen DEF Fail
<1>3. loc[m].status = status[m]
  BY DEF CopyInv, CopyIsFresh
<1>4. Brief(run'[m]).status = "Errored"
  BY <1>2 DEF Brief
<1>5. st \in Runs!Reports(Brief(run'[m]), status[m])
  BY <1>3, <1>4 DEF Runs!Reports
<1>6. CopyInv(m)'
  BY <1>2, <1>5 DEF CopyInv, CopyIsFresh, ReportIsDue, RunIsBrief, StatusIsSettled,
                    Begun, Recorded
<1>7. /\ Phase(m) \in {"begun", "recorded"} /\ Phase(m)' = "ended"
      /\ ViewOf(m)' = [ViewOf(m) EXCEPT !.status = "Errored"]
  BY <1>2 DEF Phase, ViewOf, Begun, Recorded
<1>8. Runs!Fail(m)
  BY <1>7, OnlyOwn, FailUnfolds
<1> QED BY <1>6, <1>8

LEMMA BeforeSeen ==
  ASSUME TypeOK, CallInv, NEW m \in Modules, CopyInv(m),
         Trigger(m) \/ Start(m) \/ LoadRunStatus(m)
  PROVE  CopyInv(m)' /\ UNCHANGED Runs!runsVars
<1> USE DEF CopyInv, CopyIsFresh, ReportIsDue, RunIsBrief, StatusIsSettled, Begun, Recorded
<1>0. /\ UNCHANGED <<status, infra, lastRun>> /\ m \in Calls /\ Mod(m) = m
      /\ CallStep(m) /\ m \in DOMAIN pc /\ m \in DOMAIN run /\ m \in DOMAIN loc
  BY DEF Trigger, Start, LoadRunStatus, crd, world, redis, CallStep, Local, Calls, Mod, TypeOK
<1>1. CASE Trigger(m)
  <2>1. pc'[m] = "start" /\ pc[m] = "idle"
    BY <1>0, <1>1 DEF Trigger
  <2>2. Brief(run'[m]) = Brief(NoRun)
    <3>1. PICK t \in TypesOf(m) :
             run' = [run EXCEPT ![m] =
               [NoRun EXCEPT !.type = t,
                             !.req = IF IsForced(t) THEN request[Mod(m)].id ELSE 0,
                             !.mode = GetRunMode(t, spec[Mod(m)])]]
      BY <1>1 DEF Trigger
    <3> QED BY <1>0, <3>1 DEF Brief, NoRun
  <2>3. "api" \notin Faults => status[m].state # "Running"
    BY <1>1 DEF Trigger, Triggerable
  <2> QED BY <1>0, <2>1, <2>2, <2>3, OnlyOwn, Unseen DEF Phase, ViewOf, Kept
<1>2. CASE Start(m)
  <2>1. pc[m] = "start" /\ pc'[m] \in {"remove", "load"} /\ run' = run
    BY <1>0, <1>2 DEF Start, Goto
  <2>2. pc'[m] = "load" => loc'[m].status = status[m]
    <3>1. pc'[m] = "load" =>
            loc' = [loc EXCEPT ![m] = [NoLocals EXCEPT !.spec = spec[Mod(m)],
                                                       !.status = status[Mod(m)]]]
      BY <1>0, <1>2 DEF Start, Goto
    <3> HIDE DEF CopyInv, CopyIsFresh, ReportIsDue, RunIsBrief, StatusIsSettled
    <3>2. m \in DOMAIN loc /\ Mod(m) = m
      BY <1>0
    <3> QED BY <3>1, <3>2 DEF NoLocals
  <2> QED BY <1>0, <2>1, <2>2, OnlyOwn, Unseen DEF Phase, ViewOf, Kept
<1>3. CASE LoadRunStatus(m)
  <2>1. pc[m] = "load" /\ pc'[m] \in {"remove", "store"} /\ UNCHANGED <<run, loc>>
    BY <1>0, <1>3 DEF LoadRunStatus, Goto
  <2> QED BY <1>0, <2>1, OnlyOwn, Unseen DEF Phase, ViewOf, Kept
<1> QED BY <1>1, <1>2, <1>3

LEMMA BeginSeen ==
  ASSUME TypeOK, CallInv, NEW m \in Modules, CopyInv(m), StoreRunStatus(m)
  PROVE  CopyInv(m)' /\ Runs!Begin(m)
<1>0. /\ UNCHANGED <<status, infra, lastRun, loc>> /\ m \in Calls /\ CallStep(m)
      /\ pc[m] = "store" /\ pc'[m] = "hash"
      /\ run'[m] = [run[m] EXCEPT !.status = "Running"]
  BY DEF StoreRunStatus, crd, world, redis, CallStep, Local, Calls, TypeOK, Goto
<1>1. Brief(run'[m]) = [Brief(NoRun) EXCEPT !.status = "Running"]
  <2>1. Brief(run[m]) = Brief(NoRun)
    BY <1>0 DEF CopyInv, RunIsBrief
  <2>2. /\ run'[m].status = "Running" /\ run'[m].commit = run[m].commit
        /\ run'[m].applied = run[m].applied
    BY <1>0, CallTypes DEF RunRecord
  <2> QED BY <2>1, <2>2 DEF Brief
<1>2. CopyInv(m)'
  BY <1>0, <1>1 DEF CopyInv, CopyIsFresh, ReportIsDue, RunIsBrief, StatusIsSettled,
                    Begun, Recorded
<1>3. status[m].state = "Running" => "api" \in Faults
  BY <1>0 DEF CopyInv, StatusIsSettled
<1>4. /\ Phase(m) = "none" /\ Phase(m)' = "begun"
      /\ ViewOf(m)' = [Brief(NoRun) EXCEPT !.status = "Running"]
  BY <1>0, <1>1 DEF Phase, ViewOf
<1> QED BY <1>0, <1>2, <1>3, <1>4, OnlyOwn, BeginUnfolds DEF Kept

LEMMA RecordSeen ==
  ASSUME TypeOK, CallInv, NEW m \in Modules, CopyInv(m), RecordStart(m)
  PROVE  CopyInv(m)' /\ (Runs!Fail(m) \/ Runs!Record(m))
<1>0. /\ UNCHANGED <<infra, lastRun>> /\ m \in Calls /\ Mod(m) = m /\ CallStep(m)
      /\ pc[m] = "record" /\ loc[m].hash \in Nat /\ loc[m] \in Locals
      /\ run[m] \in RunRecord /\ run[m].type # PRPlan
      /\ m \in DOMAIN pc /\ m \in DOMAIN run /\ m \in DOMAIN loc /\ m \in DOMAIN status
  BY CallTypes, DefaultRun
     DEF RecordStart, world, redis, CallStep, Local, Calls, TypeOK, Mod
<1>1. CASE Shutdown(m, run[m]) /\ UNCHANGED status
  BY <1>0, <1>1, FailSeen DEF Shutdown, Begun, Kept, Runs!Failures
<1>2. CASE ~ (Shutdown(m, run[m]) /\ UNCHANGED status)
  <2> DEFINE st == StartedStatus(m)
             r  == [run[m] EXCEPT !.commit = loc[m].hash]
  <2>1. /\ run'[m] = r /\ loc'[m] = [loc[m] EXCEPT !.status = st]
        /\ \/ pc'[m] = "prepare" /\ status' = [status EXCEPT ![m] = st]
           \/ pc'[m] = "redis" /\ "api" \in Faults /\ status' = status
    <3>1. r.type = run[m].type
      BY <1>0 DEF RunRecord
    <3> QED BY <1>0, <1>2, <3>1 DEF RecordStart, SkipStatusUpdate, Goto
  <2>2. st = [status[m] EXCEPT !.state = "Running", !.reason = "RunTriggered",
                               !.commit = loc[m].hash]
    BY <1>0 DEF CopyInv, CopyIsFresh, StartedStatus, Begun
  <2>3. loc'[m].status = st /\ loc'[m].hash = loc[m].hash
    BY <1>0, <2>1 DEF Locals
  <2>4. /\ Brief(run[m]) = [Brief(NoRun) EXCEPT !.status = "Running"]
        /\ Brief(run'[m]) = [Brief(run[m]) EXCEPT !.commit = loc[m].hash]
    <3>1. Brief(run[m]) = [Brief(NoRun) EXCEPT !.status = "Running"]
      BY <1>0 DEF CopyInv, RunIsBrief, Begun
    <3>2. /\ run'[m].status = run[m].status /\ run'[m].commit = loc[m].hash
          /\ run'[m].applied = run[m].applied
      BY <1>0, <2>1 DEF RunRecord
    <3> QED BY <3>1, <3>2 DEF Brief
  <2>5. Brief(run'[m]) = [status |-> "Running", commit |-> loc[m].hash, applied |-> FALSE]
    BY <2>4 DEF Brief, NoRun
  <2>6. pc'[m] = "prepare" => status'[m] = st
    BY <1>0, <2>1
  <2> HIDE DEF st, r
  <2>7. CopyInv(m)'
    BY <2>1, <2>3, <2>5, <2>6
       DEF CopyInv, CopyIsFresh, ReportIsDue, RunIsBrief, StatusIsSettled, Begun, Recorded
  <2>8. /\ Phase(m) = "begun" /\ Phase(m)' \in {"recorded", "over"}
        /\ Phase(m)' = IF pc'[m] = "prepare" THEN "recorded" ELSE "over"
        /\ ViewOf(m)' = [ViewOf(m) EXCEPT !.commit = loc[m].hash]
        /\ ViewOf(m)'.commit = loc[m].hash
    BY <1>0, <2>1, <2>4, <2>5 DEF Phase, ViewOf
  <2>9. \/ /\ Phase(m)' = "recorded"
           /\ status' = [status EXCEPT ![m].state = "Running", ![m].reason = "RunTriggered",
                                       ![m].commit = loc[m].hash]
        \/ "api" \in Faults /\ Phase(m)' = "over" /\ status' = status
    BY <1>0, <2>1, <2>2, <2>8 DEF TypeOK
  <2> QED BY <1>0, <2>7, <2>8, <2>9, OnlyOwn, RecordUnfolds DEF Kept
<1> QED BY <1>1, <1>2

\* A stage that neither ends the run nor shows.
LEMMA StageUnseen ==
  ASSUME TypeOK, NEW m \in Modules, CopyInv(m), CallStep(m),
         UNCHANGED <<status, infra, Kept>>, Brief(run'[m]) = Brief(run[m]),
         loc'[m].status = loc[m].status,
         \/ pc[m] = "hash" /\ pc'[m] = "record"
         \/ pc[m] \in Recorded /\ pc'[m] \in Recorded /\ loc'[m].hash = loc[m].hash
  PROVE  CopyInv(m)' /\ UNCHANGED Runs!runsVars
<1>1. CopyInv(m)'
  BY DEF CopyInv, CopyIsFresh, ReportIsDue, RunIsBrief, StatusIsSettled, Begun, Recorded
<1>2. Phase(m)' = Phase(m) /\ ViewOf(m)' = ViewOf(m)
  BY DEF Phase, ViewOf, Recorded
<1> QED BY <1>1, <1>2, OnlyOwn, Unseen

\* A plan that is not applied.
LEMMA PlanSeen ==
  ASSUME TypeOK, CallInv, NEW m \in Modules, CopyInv(m), CallStep(m), pc[m] = "show",
         NEW reason \in {"PlanOnlyDriftDetected", "NoDriftDetected"},
         Finish(m, run[m], reason, loc[m].status), UNCHANGED <<status, infra, Kept>>
  PROVE  CopyInv(m)' /\ Runs!Plan(m)
<1> DEFINE st == [loc[m].status EXCEPT !.reason = reason,
                    !.state = IF reason = "PlanOnlyDriftDetected"
                                THEN "Drift_Detected" ELSE "Ok"]
<1>1. run[m] \in RunRecord /\ run[m].type # PRPlan /\ status[m] \in ModuleStatus
  BY CallTypes, DefaultRun, ModuleTypes
<1>2. /\ pc'[m] = "patch"
      /\ Brief(run'[m]) = [Brief(run[m]) EXCEPT !.status = "Ok"]
      /\ loc'[m].status = st
  BY <1>1, EndSeen DEF Finish
<1>3. /\ loc[m].status = status[m]
      /\ Brief(run[m]) = [status |-> "Running", commit |-> loc[m].hash, applied |-> FALSE]
  BY DEF CopyInv, CopyIsFresh, RunIsBrief, Recorded
<1>4. Brief(run'[m]) = [status |-> "Ok", commit |-> loc[m].hash, applied |-> FALSE]
  BY <1>2, <1>3 DEF Brief
<1>5. st \in {[status[m] EXCEPT !.state = "Ok", !.reason = "NoDriftDetected"],
              [status[m] EXCEPT !.state = "Drift_Detected",
                                !.reason = "PlanOnlyDriftDetected"]}
  BY <1>1, <1>3 DEF ModuleStatus
<1> HIDE DEF st
<1>6. st \in Runs!Reports(Brief(run'[m]), status[m])
  BY <1>4, <1>5 DEF Runs!Reports
<1>7. CopyInv(m)'
  BY <1>2, <1>6 DEF CopyInv, CopyIsFresh, ReportIsDue, RunIsBrief, StatusIsSettled,
                    Begun, Recorded
<1>8. /\ Phase(m) = "recorded" /\ Phase(m)' = "ended"
      /\ ViewOf(m)' = [ViewOf(m) EXCEPT !.status = "Ok"]
  BY <1>2 DEF Phase, ViewOf
<1> QED BY <1>7, <1>8, OnlyOwn, PlanUnfolds

\* The commit that is reported as applied is the one the run has said it is of.
LEMMA ApplySeen ==
  ASSUME TypeOK, CallInv, NEW m \in Modules, CopyInv(m), CommitsInOrder(m), CallStep(m),
         pc[m] = "apply", infra' = [infra EXCEPT ![m] = loc[m].cloned],
         Finish(m, [run[m] EXCEPT !.applied = TRUE], "Applied",
                [loc[m].status EXCEPT !.lastApplied = AppliedCommit(m)]),
         UNCHANGED <<status, Kept>>
  PROVE  CopyInv(m)' /\ Runs!Apply(m)
<1> DEFINE r  == [run[m] EXCEPT !.applied = TRUE]
           st == [[loc[m].status EXCEPT !.lastApplied = AppliedCommit(m)]
                    EXCEPT !.reason = "Applied", !.state = "Ok"]
<1>1. /\ run[m] \in RunRecord /\ run[m].type # PRPlan /\ status[m] \in ModuleStatus
      /\ r \in RunRecord /\ r.type = run[m].type
  BY CallTypes, DefaultRun, ModuleTypes, RunUpdates
<1>2. End(m, r, "Ok", st)
  BY DEF Finish
<1>3. Brief(r) = [Brief(run[m]) EXCEPT !.applied = TRUE]
  <2>1. r.applied = TRUE /\ r.status = run[m].status /\ r.commit = run[m].commit
    BY <1>1 DEF RunRecord
  <2> HIDE DEF r
  <2>2. Brief(r) = [status |-> run[m].status, commit |-> run[m].commit, applied |-> TRUE]
    BY <2>1 DEF Brief
  <2>3. \A yes : [Brief(run[m]) EXCEPT !.applied = yes] =
                  [status |-> run[m].status, commit |-> run[m].commit, applied |-> yes]
    BY DEF Brief
  <2> QED BY <2>2, <2>3
<1>4. st = [loc[m].status EXCEPT !.state = "Ok", !.reason = "Applied",
                                 !.lastApplied = loc[m].hash]
  BY ModuleTypes DEF AppliedCommit, ModuleStatus
<1> HIDE DEF r, st
<1>5. /\ pc'[m] = "patch"
      /\ Brief(run'[m]) = [Brief(run[m]) EXCEPT !.status = "Ok", !.applied = TRUE]
      /\ loc'[m].status = st
  <2>1. /\ pc'[m] = "patch"
        /\ Brief(run'[m]) = [Brief(r) EXCEPT !.status = "Ok"]
        /\ loc'[m].status = st
    <3>1. r.type # PRPlan
      BY <1>1
    <3> QED BY <1>1, <1>2, <3>1, EndSeen, Zenon
  <2>2. Brief(run'[m]) = [Brief(run[m]) EXCEPT !.status = "Ok", !.applied = TRUE]
    BY <1>3, <2>1 DEF Brief
  <2> QED BY <2>1, <2>2
<1>6. /\ loc[m].status = status[m]
      /\ Brief(run[m]) = [status |-> "Running", commit |-> loc[m].hash, applied |-> FALSE]
  BY DEF CopyInv, CopyIsFresh, RunIsBrief, Recorded
<1>7. Brief(run'[m]) = [status |-> "Ok", commit |-> loc[m].hash, applied |-> TRUE]
  BY <1>5, <1>6 DEF Brief
<1>8. st \in Runs!Reports(Brief(run'[m]), status[m])
  BY <1>4, <1>6, <1>7 DEF Runs!Reports
<1>9. CopyInv(m)'
  BY <1>5, <1>8 DEF CopyInv, CopyIsFresh, ReportIsDue, RunIsBrief, StatusIsSettled,
                    Begun, Recorded
<1>10. /\ Phase(m) = "recorded" /\ Phase(m)' = "ended"
       /\ ViewOf(m)' = [ViewOf(m) EXCEPT !.status = "Ok", !.applied = TRUE]
       /\ ViewOf(m).commit = loc[m].hash
  BY <1>5, <1>6 DEF Phase, ViewOf
<1>11. loc[m].hash <= loc[m].cloned /\ infra[m] <= loc[m].cloned
  BY DEF CommitsInOrder
<1>12. infra'[m] = loc[m].cloned
  BY DEF TypeOK
<1> QED BY <1>9, <1>10, <1>11, <1>12, OnlyOwn, ApplyUnfolds

LEMMA StageSeen ==
  ASSUME TypeOK, CallInv, NEW m \in Modules, CopyInv(m), CommitsInOrder(m), Stage(m)
  PROVE  CopyInv(m)' /\ [Runs!Fail(m) \/ Runs!Plan(m) \/ Runs!Apply(m)]_(Runs!runsVars)
<1>0. /\ UNCHANGED <<status, lastRun>> /\ m \in Calls /\ Mod(m) = m /\ CallStep(m)
      /\ loc[m] \in Locals /\ run[m] \in RunRecord
      /\ m \in DOMAIN pc /\ m \in DOMAIN run /\ m \in DOMAIN loc
  BY CallTypes
     DEF Stage, StageFrame, HashCommit, Prepare, InitModule, Plan, ShowPlan, Apply,
         crd, redis, CallStep, Calls, TypeOK, Mod
<1>1. UNCHANGED <<status, Kept>>
  BY <1>0 DEF Kept
<1>2. ASSUME NEW reason \in Runs!Failures, pc[m] \in Begun \cup Recorded,
             Fail(m, run[m], reason), infra' = infra
      PROVE  CopyInv(m)' /\ Runs!Fail(m)
  BY <1>0, <1>1, <1>2, FailSeen
<1>3. CASE HashCommit(m)
  <2>1. infra' = infra /\ pc[m] = "hash"
    BY <1>3 DEF HashCommit, world
  <2>2. CASE Fail(m, run[m], "DelegationFailed")
    BY <1>2, <2>1, <2>2 DEF Runs!Failures, Begun
  <2>3. CASE loc' = [loc EXCEPT ![m].hash = head[m]] /\ Goto(m, "record") /\ UNCHANGED run
    <3>1. pc'[m] = "record" /\ loc'[m].status = loc[m].status
      BY <1>0, <2>3 DEF Goto, Locals
    <3> QED BY <1>0, <1>1, <2>1, <2>3, <3>1, StageUnseen
  <2> QED BY <1>3, <2>2, <2>3 DEF HashCommit
<1>4. CASE Prepare(m)
  <2>1. infra' = infra /\ pc[m] = "prepare"
    BY <1>4 DEF Prepare, world
  <2>2. CASE \E reason \in {"DelegationFailed", "RunPreparationFailed"} : Fail(m, run[m], reason)
    BY <1>2, <2>1, <2>2 DEF Runs!Failures, Recorded
  <2>3. CASE loc' = [loc EXCEPT ![m].cloned = head[m]] /\ Goto(m, "init") /\ UNCHANGED run
    <3>1. /\ pc'[m] = "init" /\ loc'[m].status = loc[m].status
          /\ loc'[m].hash = loc[m].hash
      BY <1>0, <2>3 DEF Goto, Locals
    <3> QED BY <1>0, <1>1, <2>1, <2>3, <3>1, StageUnseen DEF Recorded
  <2> QED BY <1>4, <2>2, <2>3 DEF Prepare
<1>5. CASE InitModule(m)
  <2>1. infra' = infra /\ pc[m] = "init"
    BY <1>5 DEF InitModule, world
  <2>2. CASE Fail(m, run[m], "InitialiseFailed") \/ Fail(m, run[m], "ControllerShutdown")
    BY <1>2, <2>1, <2>2 DEF Runs!Failures, Recorded
  <2>3. CASE Goto(m, "plan") /\ UNCHANGED <<run, loc>>
    <3>1. pc'[m] = "plan"
      BY <1>0, <2>3 DEF Goto
    <3> QED BY <1>0, <1>1, <2>1, <2>3, <3>1, StageUnseen DEF Recorded
  <2> QED BY <1>5, <2>2, <2>3 DEF InitModule, Shutdown
<1>6. CASE Plan(m)
  <2>1. infra' = infra /\ pc[m] = "plan"
    BY <1>6 DEF Plan, world
  <2>2. CASE Fail(m, run[m], "PlanFailed")
    BY <1>2, <2>1, <2>2 DEF Runs!Failures, Recorded
  <2>3. CASE /\ \E d \in BOOLEAN : run' = [run EXCEPT ![m].diff = d]
             /\ Goto(m, "show") /\ UNCHANGED loc
    <3>1. PICK d \in BOOLEAN : run' = [run EXCEPT ![m].diff = d]
      BY <2>3
    <3>2. Brief(run'[m]) = Brief(run[m]) /\ pc'[m] = "show"
      BY <1>0, <2>3, <3>1 DEF Brief, RunRecord, Goto
    <3> QED BY <1>0, <1>1, <2>1, <2>3, <3>2, StageUnseen DEF Recorded
  <2> QED BY <1>6, <2>2, <2>3 DEF Plan
<1>7. CASE ShowPlan(m)
  <2>1. infra' = infra /\ pc[m] = "show"
    BY <1>7 DEF ShowPlan, world
  <2>2. CASE Fail(m, run[m], "PlanFailed") \/ Fail(m, run[m], "ControllerShutdown")
    BY <1>2, <2>1, <2>2 DEF Runs!Failures, Recorded
  <2>3. CASE Finish(m, run[m], IF run[m].diff THEN "PlanOnlyDriftDetected"
                                              ELSE "NoDriftDetected", loc[m].status)
    BY <1>0, <1>1, <2>1, <2>3, PlanSeen
  <2>4. CASE Goto(m, "apply") /\ UNCHANGED <<run, loc>>
    <3>1. pc'[m] = "apply"
      BY <1>0, <2>4 DEF Goto
    <3> QED BY <1>0, <1>1, <2>1, <2>4, <3>1, StageUnseen DEF Recorded
  <2> QED BY <1>7, <2>2, <2>3, <2>4 DEF ShowPlan, Shutdown
<1>8. CASE Apply(m)
  <2>1. pc[m] = "apply"
    BY <1>8 DEF Apply
  <2>2. CASE Fail(m, run[m], "ApplyFailed") /\ UNCHANGED infra
    BY <1>2, <2>1, <2>2 DEF Runs!Failures, Recorded
  <2>3. CASE /\ infra' = [infra EXCEPT ![Mod(m)] = loc[m].cloned]
             /\ Finish(m, [run[m] EXCEPT !.applied = TRUE], "Applied",
                       [loc[m].status EXCEPT !.lastApplied = AppliedCommit(m)])
    BY <1>0, <1>1, <2>1, <2>3, ApplySeen
  <2> QED BY <1>8, <2>2, <2>3 DEF Apply
<1> QED BY <1>3, <1>4, <1>5, <1>6, <1>7, <1>8 DEF Stage

LEMMA AfterSeen ==
  ASSUME TypeOK, NEW m \in Modules, CopyInv(m),
         PatchStatus(m) \/ UpdateRedis(m) \/ Release(m) \/ Return(m) \/ Watch(m)
  PROVE  CopyInv(m)' /\ [Runs!Report(m) \/ Runs!Store(m)]_(Runs!runsVars)
<1> USE DEF CopyInv, CopyIsFresh, ReportIsDue, RunIsBrief, StatusIsSettled, Begun, Recorded
<1>0. /\ m \in Calls /\ Mod(m) = m /\ CallStep(m)
      /\ m \in DOMAIN pc /\ m \in DOMAIN lastRun /\ m \in DOMAIN status
  BY DEF CallStep, Local, Calls, Mod, TypeOK
<1>1. CASE PatchStatus(m)
  <2>1. /\ pc[m] = "patch" /\ pc'[m] = "redis" /\ UNCHANGED <<infra, lastRun, run, loc>>
        /\ \/ status' = [status EXCEPT ![m] = loc[m].status]
           \/ "api" \in Faults /\ status' = status
    BY <1>0, <1>1 DEF PatchStatus, Goto, world, redis
  <2>2. loc[m].status \in Runs!Reports(Brief(run[m]), status[m])
    BY <2>1
  <2>3. CopyInv(m)'
    BY <2>1
  <2>4. /\ Phase(m) = "ended" /\ Phase(m)' = "over"
        /\ ViewOf(m) = Brief(run[m]) /\ ViewOf(m)' = ViewOf(m)
    BY <2>1 DEF Phase, ViewOf
  <2> HIDE DEF CopyInv
  <2> QED BY <1>0, <2>1, <2>2, <2>3, <2>4, OnlyOwn, ReportUnfolds DEF Kept
<1>2. CASE UpdateRedis(m)
  <2>1. /\ pc[m] = "redis" /\ pc'[m] = "release" /\ UNCHANGED <<status, infra>>
        /\ lastRun' \in {lastRun, [lastRun EXCEPT ![m] = run[m]]}
    BY <1>0, <1>2 DEF UpdateRedis, Goto, crd, world
  <2>2. CopyInv(m)'
    BY <2>1
  <2>3. /\ Phase(m) = "over" /\ Phase(m)' = "none" /\ ViewOf(m) = Brief(run[m])
    BY <2>1 DEF Phase, ViewOf
  <2>4. Kept' \in {Kept, [Kept EXCEPT ![m] = ViewOf(m)]}
    BY <1>0, <2>1, <2>3 DEF Kept, TypeOK
  <2> HIDE DEF CopyInv
  <2> QED BY <1>0, <2>1, <2>2, <2>3, <2>4, OnlyOwn, StoreUnfolds
<1>3. CASE Release(m) \/ Return(m)
  <2>1. /\ pc[m] \in {"release", "remove"} /\ pc'[m] \in {"remove", "idle"}
        /\ UNCHANGED <<status, infra, lastRun>>
    BY <1>0, <1>3 DEF Release, Return, Goto, crd, world, redis
  <2>2. CopyInv(m)'
    BY <2>1
  <2>3. Phase(m)' = Phase(m) /\ ViewOf(m)' = ViewOf(m)
    BY <2>1 DEF Phase, ViewOf
  <2> HIDE DEF CopyInv
  <2> QED BY <1>0, <2>1, <2>2, <2>3, OnlyOwn, Unseen DEF Kept
<1>4. CASE Watch(m)
  <2>1. UNCHANGED <<status, infra, lastRun, pc, run, loc>>
    BY <1>4 DEF Watch, TimeOut, SeeClosed, GraceOver, crd, world, redis, calls
  <2>2. CopyInv(m)'
    BY <2>1
  <2>3. Phase(m)' = Phase(m) /\ ViewOf(m)' = ViewOf(m)
    BY <2>1 DEF Phase, ViewOf
  <2> HIDE DEF CopyInv
  <2> QED BY <1>0, <2>1, <2>2, <2>3, OnlyOwn, Unseen DEF Kept
<1> QED BY <1>1, <1>2, <1>3, <1>4

-----------------------------------------------------------------------------
(* Everything else that happens.                                           *)

\* What CopyInv and ModuleRuns have to do with is the same as before.
Same(m) ==
  /\ status'[m] = status[m] /\ pc'[m] = pc[m] /\ run'[m] = run[m] /\ loc'[m] = loc[m]

LEMMA SameCopy ==
  ASSUME NEW m \in Modules, CopyInv(m), Same(m)
  PROVE  CopyInv(m)'
BY DEF Same, CopyInv, CopyIsFresh, ReportIsDue, RunIsBrief, StatusIsSettled

LEMMA SameRuns ==
  ASSUME UNCHANGED <<status, infra, lastRun>>,
         \A m \in Modules : pc'[m] = pc[m] /\ run'[m] = run[m]
  PROVE  UNCHANGED Runs!runsVars
<1>1. \A m \in Modules : Phase(m)' = Phase(m) /\ ViewOf(m)' = ViewOf(m)
  BY DEF Phase, ViewOf
<1>2. Phases' = Phases /\ Views' = Views /\ Kept' = Kept
  BY <1>1 DEF Phases, Views, Kept
<1> QED BY <1>2, RunsUnfold DEF Phases, Views, Kept, ViewOf, Runs!runsVars

\* The run of another module, or of the planner.
LEMMA OthersSeen ==
  ASSUME TypeOK, CallInv, NEW c \in Calls, CallStep(c), NEW m \in Modules, m # c
  PROVE  Same(m)
BY RunnerAssumption, OtherModules, OtherCalls DEF Same, CallStep, Calls

LEMMA PRRunUnseen ==
  ASSUME TypeOK, TypeOK', CallInv, NEW p \in PRCalls, CallStep(p)
  PROVE  UNCHANGED Runs!runsVars
<1>1. p \in Calls /\ \A m \in Modules : m # p
  BY RunnerAssumption DEF Calls
<1>2. \A m \in Modules : Same(m) /\ infra'[m] = infra[m]
  BY <1>1, RunnerAssumption, OthersSeen, OtherModules
<1>3. status' = status /\ infra' = infra
  <2>1. /\ status \in [Modules -> ModuleStatus] /\ status' \in [Modules -> ModuleStatus]
        /\ infra \in [Modules -> Nat] /\ infra' \in [Modules -> Nat]
    BY DEF TypeOK
  <2> QED BY <1>2, <2>1 DEF Same
<1>4. lastRun' = lastRun
  <2>1. CASE UpdateRedis(p)
    <3>1. run[p].type = PRPlan
      BY <1>1, <2>1 DEF UpdateRedis, CallInv, TypeFitsCall, Live, TypesOf
    <3>2. KeysOf(run[p]) = <<"pr">>
      BY <3>1 DEF KeysOf
    <3> QED BY <2>1, <3>2 DEF UpdateRedis
  <2> QED BY <1>1, <2>1, KeyFrame
<1> QED BY <1>2, <1>3, <1>4, SameRuns DEF Same

LEMMA EnvironmentSeen ==
  ASSUME TypeOK, \A m \in Modules : CopyInv(m), Environment
  PROVE  /\ \A m \in Modules : CopyInv(m)'
         /\ [Runs!Next]_(Runs!runsVars)
<1>1. CASE Restart
  <2>1. /\ \A m \in Modules : pc'[m] = "idle"
        /\ UNCHANGED <<status, infra, lastRun>>
    BY <1>1 DEF Restart, crd, world, redis, Calls
  <2>2. \A m \in Modules : CopyInv(m)'
    BY <2>1 DEF CopyInv, CopyIsFresh, ReportIsDue, RunIsBrief, StatusIsSettled,
                Begun, Recorded
  <2>3. \A m \in Modules : Phase(m)' = "none" /\ ViewOf(m)' = Brief(NoRun)
    BY <2>1 DEF Phase, ViewOf
  <2>4. Phases' = [m \in Modules |-> "none"] /\ Views' = [m \in Modules |-> Brief(NoRun)]
    BY <2>3 DEF Phases, Views
  <2>5. Runs!Crash
    BY <2>1, <2>4, RunsUnfold DEF Runs!Crash, Phases, Views, ViewOf, Kept
  <2> QED BY <2>2, <2>5 DEF Runs!Next
<1>2. ASSUME UNCHANGED <<status, infra, lastRun, pc, run, loc>>
      PROVE  /\ \A m \in Modules : CopyInv(m)'
             /\ [Runs!Next]_(Runs!runsVars)
  BY <1>2, SameCopy, SameRuns DEF Same
<1>3. ASSUME NEW n \in Modules, pc[n] = "idle", NEW st,
             \/ st = Repaired(status[n]) /\ status[n].state = "Running"
             \/ st = [status[n] EXCEPT !.state = "Errored", !.reason = "InvalidRequest"],
             status' = [status EXCEPT ![n] = st],
             UNCHANGED <<infra, lastRun, pc, run, loc>>
      PROVE  /\ \A m \in Modules : CopyInv(m)'
             /\ [Runs!Next]_(Runs!runsVars)
  <2>1. \A m \in Modules : CopyInv(m)'
    <3> SUFFICES ASSUME NEW m \in Modules PROVE CopyInv(m)'
      OBVIOUS
    <3>1. CASE m = n
      BY <1>3, <3>1 DEF CopyInv, CopyIsFresh, ReportIsDue, RunIsBrief, StatusIsSettled,
                        Begun, Recorded
    <3>2. CASE m # n
      <4>1. Same(m)
        BY <1>3, <3>2 DEF Same, TypeOK
      <4> QED BY <4>1, SameCopy
    <3> QED BY <3>1, <3>2
  <2>2. /\ Phases' = Phases /\ Views' = Views /\ Kept' = Kept
    BY <1>3 DEF Phases, Views, Kept, Phase, ViewOf
  <2>3. Phases[n] = "none"
    BY <1>3 DEF Phases, Phase
  <2>4. n \in DOMAIN status
    BY DEF TypeOK
  <2>5. Runs!Settle(n)
    BY <1>3, <2>2, <2>3, <2>4 DEF Runs!Settle, Repaired, Phases, Views, Kept, ViewOf
  <2> QED BY <2>1, <2>5 DEF Runs!Next
<1>4. ASSUME NEW n \in Modules, RepairStatus(n)
      PROVE  /\ \A m \in Modules : CopyInv(m)'
             /\ [Runs!Next]_(Runs!runsVars)
  <2>1. /\ pc[n] = "idle" /\ status[n].state = "Running"
        /\ status' = [status EXCEPT ![n] = Repaired(status[n])]
        /\ UNCHANGED <<infra, lastRun, pc, run, loc>>
    BY <1>4 DEF RepairStatus, Reconciling, world, redis, process, calls
  <2> QED BY <1>3, <2>1
<1>5. ASSUME NEW n \in Modules, DropInvalidRequest(n)
      PROVE  /\ \A m \in Modules : CopyInv(m)'
             /\ [Runs!Next]_(Runs!runsVars)
  <2>1. /\ pc[n] = "idle" /\ UNCHANGED <<infra, lastRun, pc, run, loc>>
        /\ \/ status' = [status EXCEPT ![n].state = "Errored", ![n].reason = "InvalidRequest"]
           \/ status' = status
    BY <1>5 DEF DropInvalidRequest, Reconciling, world, redis, process, calls
  <2>2. \/ status' = [status EXCEPT ![n] =
                        [status[n] EXCEPT !.state = "Errored", !.reason = "InvalidRequest"]]
        \/ status' = status
    BY <2>1 DEF TypeOK
  <2> QED BY <1>2, <1>3, <2>1, <2>2
<1>6. CASE \/ Terminate
           \/ \E m \in Modules : CloseChan(m) \/ SubmitRequest(m) \/ EditSpec(m)
           \/ \E c \in Calls : Push(c)
  <2>1. UNCHANGED <<status, infra, lastRun, pc, run, loc>>
    BY <1>6 DEF Terminate, CloseChan, SubmitRequest, EditSpec, Push, crd, world, redis,
                process, calls
  <2> QED BY <1>2, <2>1
<1> QED BY <1>1, <1>4, <1>5, <1>6 DEF Environment

-----------------------------------------------------------------------------
(* The refinement.                                                         *)

LEMMA ReportsStep ==
  ASSUME ReportsInv, RunnerInv', [Next]_vars
  PROVE  ReportsInv' /\ [Runs!Next]_(Runs!runsVars)
<1> DEFINE Goal == (\A m \in Modules : CopyInv(m)') /\ [Runs!Next]_(Runs!runsVars)
<1>0. /\ TypeOK /\ TypeOK' /\ CallInv
      /\ \A m \in Modules : CopyInv(m)
      /\ \A m \in Modules : CommitsInOrder(m)
  BY DEF ReportsInv, RunnerInv, StatusInv
<1>1. ASSUME NEW m \in Modules, CallStep(m) PROVE Goal
  <2>1. CopyInv(m)' /\ [Runs!Next]_(Runs!runsVars)
    <3>1. CASE Trigger(m) \/ Start(m) \/ LoadRunStatus(m)
      BY <1>0, <3>1, BeforeSeen
    <3>2. CASE StoreRunStatus(m)
      BY <1>0, <3>2, BeginSeen DEF Runs!Next
    <3>3. CASE RecordStart(m)
      BY <1>0, <3>3, RecordSeen DEF Runs!Next
    <3>4. CASE Stage(m)
      BY <1>0, <3>4, StageSeen DEF Runs!Next
    <3>5. CASE PatchStatus(m) \/ UpdateRedis(m) \/ Release(m) \/ Return(m) \/ Watch(m)
      BY <1>0, <3>5, AfterSeen DEF Runs!Next
    <3> QED BY <1>1, <3>1, <3>2, <3>3, <3>4, <3>5 DEF CallStep, Local
  <2>2. ASSUME NEW n \in Modules, n # m PROVE CopyInv(n)'
    BY <1>0, <1>1, <2>2, OthersSeen, SameCopy DEF Calls
  <2> QED BY <2>1, <2>2
<1>2. ASSUME NEW p \in PRCalls, CallStep(p) PROVE Goal
  <2>1. \A m \in Modules : m # p
    BY RunnerAssumption
  <2>2. \A m \in Modules : CopyInv(m)'
    BY <1>0, <1>2, <2>1, OthersSeen, SameCopy DEF Calls
  <2> QED BY <1>0, <1>2, <2>2, PRRunUnseen
<1>3. ASSUME Environment PROVE Goal
  BY <1>0, <1>3, EnvironmentSeen
<1>4. ASSUME UNCHANGED vars PROVE Goal
  <2>1. UNCHANGED <<status, infra, lastRun, pc, run, loc>>
    BY <1>4 DEF vars, crd, world, redis, process, calls
  <2>2. \A m \in Modules : CopyInv(m)'
    BY <1>0, <2>1, SameCopy DEF Same
  <2>3. UNCHANGED Runs!runsVars
    BY <2>1, SameRuns
  <2> QED BY <2>2, <2>3
<1>5. Goal
  <2> HIDE DEF Goal
  <2>1. ASSUME NEW c \in Calls, CallStep(c) PROVE Goal
    BY <1>1, <1>2, <2>1 DEF Calls
  <2> QED BY <1>3, <1>4, <2>1 DEF Next, CallStep
<1> QED BY <1>5 DEF ReportsInv

LEMMA ReportsInit == Init => ReportsInv /\ Runs!Init
<1> SUFFICES ASSUME Init PROVE ReportsInv /\ Runs!Init
  OBVIOUS
<1>1. \A m \in Modules : pc[m] = "idle" /\ lastRun[m] = NoRun
  BY DEF Init, Calls
<1>2. \A m \in Modules : CopyInv(m)
  BY <1>1 DEF CopyInv, CopyIsFresh, ReportIsDue, RunIsBrief, StatusIsSettled,
              Begun, Recorded
<1>3. /\ Phases = [m \in Modules |-> "none"]
      /\ Views = [m \in Modules |-> Brief(NoRun)]
      /\ Kept = [m \in Modules |-> Brief(NoRun)]
  BY <1>1 DEF Phases, Views, Kept, Phase, ViewOf
<1>4. Runs!Init
  BY <1>3, RunsUnfold DEF Init, NoCommit
<1> QED BY <1>2, <1>4, InitInv DEF ReportsInv

\* What a run works on is never out of date, though Start fetches it long
\* before its last patch (Start, process, setFailedStatus of runner.go).
THEOREM ReportsInvariant == Spec => []ReportsInv
<1> QED BY ReportsInit, ReportsStep, RunnerInvariant, PTL DEF Spec

\* Patching a copy of the status, several steps after it was read, is as good as
\* changing the status itself, and Redis and the status tell of the same run,
\* with any number of modules, planner goroutines, stops and faults.
THEOREM RunsReported == Spec => RunsAreReported
<1>1. Init => Runs!Init
  BY ReportsInit
<1>2. ReportsInv /\ RunnerInv' /\ [Next]_vars => [Runs!Next]_(Runs!runsVars)
  BY ReportsStep
<1> QED BY <1>1, <1>2, ReportsInvariant, RunnerInvariant, PTL
        DEF Spec, RunsAreReported, Runs!Spec

=============================================================================
