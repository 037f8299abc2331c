------------------------------- MODULE Runner -------------------------------
(***************************************************************************)
(* Concurrent calls of Runner.Start (runner/runner.go) in one controller   *)
(* process, the module objects they patch, the Redis keys they write, and  *)
(* the environment: pushes, spec edits, run requests, TERM and crashes.    *)
(*                                                                         *)
(* A call is one invocation of Start.  The reconciler makes at most one    *)
(* call per module at a time (its work queue never hands the same key to   *)
(* two workers), so the default call of a module is named by the module.   *)
(* The PR planner makes its calls from goroutines of its own: PRCalls.     *)
(***************************************************************************)
EXTENDS Naturals, Sequences, RunPolicy

CONSTANTS Modules,     \* module objects watched by the controller
          PRCalls,     \* goroutines of the PR planner that call Start
          PRModule,    \* the module each of them plans
          DefaultTypes, \* types of the runs the reconciler triggers
          Specs,       \* the values spec.planOnly/autoApply take
          Faults,      \* what may go wrong, a subset of Fault
          MaxCommit,   \* bound: commits on the ref of a call
          MaxRequests, \* bound: run requests submitted per module
          MaxStops,    \* bound: TERM signals and crashes together
          MaxRuns      \* bound: calls of Start made

Fault == {"api", "git", "prepare", "terraform", "redis", "timeout", "crash"}

ASSUME RunnerAssumption ==
  /\ PRModule \in [PRCalls -> Modules]
  /\ Modules \cap PRCalls = {}
  /\ DefaultTypes \subseteq RequestType \ {PRPlan}
  /\ Specs \subseteq ModuleSpec
  /\ Faults \subseteq Fault
  /\ MaxCommit \in Nat /\ MaxRequests \in Nat /\ MaxStops \in Nat /\ MaxRuns \in Nat

Calls == Modules \cup PRCalls

\* run.Module
Mod(c) == IF c \in Modules THEN c ELSE PRModule[c]

\* Types of the runs a call may make.
TypesOf(c) == IF c \in PRCalls THEN {PRPlan} ELSE DefaultTypes

VARIABLES
  \* the module objects in the API server
  status,     \* status[m]: the status subresource
  request,    \* request[m]: the run-request annotation
  issued,     \* issued[m]: number of requests submitted so far
  spec,       \* spec[m]: planOnly and autoApply
  \* git and terraform state
  head,       \* head[c]: last commit on the ref call c would run
  infra,      \* infra[m]: commit whose code was applied last
  \* Redis
  lastRun,    \* default last run of a module
  lastApply,  \* default last apply of a module
  prRun,      \* last stored PR run of a planner call
  \* the controller process
  runStatus,  \* RunStatus: the modules marked as running
  pc,         \* where each call is
  run,        \* the Run each call carries
  loc,        \* local variables of Start, process and runTF
  mon,        \* the goroutine that watches the run; "cancelled": so is ctx
  closed,     \* calls whose cancelChan is closed
  term,       \* TERM was received
  stops,      \* TERM signals and crashes so far
  started     \* calls of Start made so far

crd     == <<status, request, issued, spec>>
world   == <<head, infra>>
redis   == <<lastRun, lastApply, prRun>>
calls   == <<pc, run, loc>>
signals == <<closed, term, stops, started>>
process == <<runStatus, mon, calls, signals>>
vars    == <<crd, world, redis, process>>

-----------------------------------------------------------------------------
\* Data: commits are 1, 2, ... in the order they land; 0 is the empty hash.

NoCommit  == 0
NoRequest == [id |-> 0, type |-> ""]

RunRecord ==
  [type : RequestType \cup {""}, req : Nat, mode : RunMode,
   status : {"", "Running", "Ok", "Errored"}, commit : Nat,
   diff : BOOLEAN, applied : BOOLEAN]
NoRun ==
  [type |-> "", req |-> 0, mode |-> ModePlanOnly, status |-> "",
   commit |-> NoCommit, diff |-> FALSE, applied |-> FALSE]

State  == {"", "Running", "Ok", "Errored", "Drift_Detected"}
Reason == {"", "RunTriggered", "NoDriftDetected", "PlanOnlyDriftDetected",
           "Applied", "DelegationFailed", "RunPreparationFailed",
           "InitialiseFailed", "PlanFailed", "ApplyFailed",
           "ControllerShutdown", "Unknown", "InvalidRequest"}
ModuleStatus ==
  [state : State, reason : Reason, commit : Nat, lastApplied : Nat]
NoStatus ==
  [state |-> "", reason |-> "", commit |-> NoCommit, lastApplied |-> NoCommit]

\* The module Start fetched, the hash process resolved, the code it cloned.
Locals   == [spec : ModuleSpec, status : ModuleStatus, hash : Nat, cloned : Nat]
NoLocals ==
  [spec |-> [planOnly |-> "unset", autoApply |-> "unset"],
   status |-> NoStatus, hash |-> NoCommit, cloned |-> NoCommit]

\* Steps of Start before, inside and after process' critical section.
Outside == {"idle", "start", "load", "store", "remove"}
Inside  == {"hash", "record", "prepare", "init", "plan", "show", "apply",
            "patch", "redis", "release"}

InProcess(c) == pc[c] \in Inside
Cancelled(c) == mon[c] = "cancelled"
-----------------------------------------------------------------------------
Init ==
  /\ status = [m \in Modules |-> NoStatus]
  /\ request = [m \in Modules |-> NoRequest]
  /\ issued = [m \in Modules |-> 0]
  /\ spec \in [Modules -> Specs]
  /\ head = [c \in Calls |-> 1]
  /\ infra = [m \in Modules |-> NoCommit]
  /\ lastRun = [m \in Modules |-> NoRun]
  /\ lastApply = [m \in Modules |-> NoRun]
  /\ prRun = [p \in PRCalls |-> NoRun]
  /\ runStatus = {}
  /\ pc = [c \in Calls |-> "idle"]
  /\ run = [c \in Calls |-> NoRun]
  /\ loc = [c \in Calls |-> NoLocals]
  /\ mon = [c \in Calls |-> "off"]
  /\ closed = {}
  /\ term = FALSE
  /\ stops = 0
  /\ started = 0

-----------------------------------------------------------------------------
(* The callers: triggerRun of the reconciler, ensurePlanRequests of the PR *)
(* planner.                                                                *)

\* What Reconcile has established before it triggers a run: the module is not
\* marked as running and a status left at Running was patched first.
Triggerable(m) ==
  /\ m \notin runStatus
  /\ status[m].state = "Running" => "api" \in Faults

\* NewRun: mode is computed from the module as the caller saw it.
Trigger(c) ==
  /\ pc[c] = "idle" /\ ~ term
  /\ started < MaxRuns /\ started' = started + 1
  /\ c \in Modules => Triggerable(c)
  /\ \E t \in TypesOf(c) :
       LET req == IF IsForced(t) THEN request[Mod(c)].id ELSE 0
       IN  /\ IsForced(t) => request[Mod(c)].type = t
           /\ Valid(t, TRUE, spec[Mod(c)])
           /\ run' = [run EXCEPT ![c] =
                [NoRun EXCEPT !.type = t, !.req = req,
                              !.mode = GetRunMode(t, spec[Mod(c)])]]
  /\ pc' = [pc EXCEPT ![c] = "start"]
  /\ UNCHANGED <<crd, world, redis, runStatus, loc, mon, closed, term, stops>>

-----------------------------------------------------------------------------
(* Start and process, up to the mark in RunStatus.                         *)

Goto(c, label) == pc' = [pc EXCEPT ![c] = label]

\* Start fetches the module and validates the request against it.
Start(c) ==
  /\ pc[c] = "start"
  /\ \/ /\ "api" \in Faults
        /\ Goto(c, "remove")
        /\ UNCHANGED loc
     \/ /\ ~ Valid(run[c].type, TRUE, spec[Mod(c)])
        /\ Goto(c, "remove")
        /\ UNCHANGED loc
     \/ /\ Valid(run[c].type, TRUE, spec[Mod(c)])
        /\ Goto(c, "load")
        /\ loc' = [loc EXCEPT ![c] = [NoLocals EXCEPT !.spec = spec[Mod(c)],
                                                      !.status = status[Mod(c)]]]
  /\ UNCHANGED <<crd, world, redis, runStatus, run, mon, signals>>

\* (Bug: the deferred Delete is registered before the check.)
LoadAndUnmark(c) ==
  /\ pc[c] = "load"
  /\ Goto(c, IF Mod(c) \in runStatus THEN "remove" ELSE "store")
  /\ runStatus' = runStatus \ {Mod(c)}
  /\ UNCHANGED <<crd, world, redis, run, loc, mon, signals>>

\* process asks whether the module is running ...
LoadRunStatus(c) ==
  /\ pc[c] = "load"
  /\ Goto(c, IF Mod(c) \in runStatus THEN "remove" ELSE "store")
  /\ UNCHANGED <<crd, world, redis, runStatus, run, loc, mon, signals>>

\* ... and marks it in a second step, then starts the watching goroutine.
StoreRunStatus(c) ==
  /\ pc[c] = "store"
  /\ runStatus' = runStatus \cup {Mod(c)}
  /\ run' = [run EXCEPT ![c].status = "Running"]
  /\ mon' = [mon EXCEPT ![c] = "watch"]
  /\ Goto(c, "hash")
  /\ UNCHANGED <<crd, world, redis, loc, signals>>

-----------------------------------------------------------------------------
(* The stages.  A stage may fail by its own fault; with ctx cancelled it   *)
(* can only fail.                                                          *)

MayFail(c, fault) == fault \in Faults \/ Cancelled(c)
MayPass(c)        == ~ Cancelled(c)

\* What setFailedStatus and SetRunFinishedStatus share: the run ends with a
\* result and, unless it is a PR run, the module's status is to be patched.
End(c, r, result, st) ==
  /\ run' = [run EXCEPT ![c] = [r EXCEPT !.status = result]]
  /\ IF SkipStatusUpdate(r.type)
       THEN Goto(c, "redis") /\ UNCHANGED loc
       ELSE Goto(c, "patch") /\ loc' = [loc EXCEPT ![c].status = st]

\* setFailedStatus.
Fail(c, r, reason) ==
  End(c, r, "Errored",
      [loc[c].status EXCEPT !.state = "Errored", !.reason = reason])

Finish(c, r, reason, st) ==
  End(c, r, "Ok",
      [st EXCEPT !.reason = reason,
                 !.state = IF reason = "PlanOnlyDriftDetected"
                             THEN "Drift_Detected" ELSE "Ok"])

\* isChannelClosed.  (Bug: the channel is taken for closed only once the
\* watching goroutine has reacted to it.)
InterruptedLate(c) == mon[c] = "grace"
Interrupted(c) == c \in closed

Shutdown(c, r) == Interrupted(c) /\ Fail(c, r, "ControllerShutdown")

StageFrame == UNCHANGED <<crd, redis, runStatus, mon, signals>>

\* Repos.Hash and Repos.Subject: the last commit on the ref.
HashCommit(c) ==
  /\ pc[c] = "hash"
  /\ \/ MayFail(c, "git") /\ Fail(c, run[c], "DelegationFailed")
     \/ /\ MayPass(c)
        /\ loc' = [loc EXCEPT ![c].hash = head[c]]
        /\ Goto(c, "record")
        /\ UNCHANGED run
  /\ StageFrame /\ UNCHANGED world

\* (Bug: the status is made anew, and forgets what was applied last.)
StartedAnew(c) ==
  [NoStatus EXCEPT !.state = "Running", !.reason = "RunTriggered", !.commit = loc[c].hash]

StartedStatus(c) ==
  [loc[c].status EXCEPT !.state = "Running", !.reason = "RunTriggered",
                        !.commit = loc[c].hash]

\* The first look at cancelChan, then SetRunStartedStatus.  Its patch does not
\* use ctx; when it fails the run ends with no result of its own.
RecordStart(c) ==
  LET r  == [run[c] EXCEPT !.commit = loc[c].hash]
      st == StartedStatus(c)
  IN
  /\ pc[c] = "record"
  /\ \/ Shutdown(c, run[c]) /\ UNCHANGED status
     \/ /\ ~ Interrupted(c)
        /\ run' = [run EXCEPT ![c] = r]
        /\ \/ SkipStatusUpdate(r.type) /\ Goto(c, "prepare") /\ UNCHANGED <<loc, status>>
           \/ /\ ~ SkipStatusUpdate(r.type)
              /\ loc' = [loc EXCEPT ![c].status = st]
              /\ \/ Goto(c, "prepare") /\ status' = [status EXCEPT ![Mod(c)] = st]
                 \/ "api" \in Faults /\ Goto(c, "redis") /\ UNCHANGED status
  /\ UNCHANGED <<request, issued, spec, world, redis, runStatus, mon, signals>>

\* Delegation, variables, vault and NewTFRunner, which clones the ref again.
Prepare(c) ==
  /\ pc[c] = "prepare"
  /\ \/ /\ MayFail(c, "prepare")
        /\ \E reason \in {"DelegationFailed", "RunPreparationFailed"} :
             Fail(c, run[c], reason)
     \/ /\ MayPass(c)
        /\ loc' = [loc EXCEPT ![c].cloned = head[c]]
        /\ Goto(c, "init")
        /\ UNCHANGED run
  /\ StageFrame /\ UNCHANGED world

\* terraform init, force-unlock (its error is only logged), cancelChan again.
InitModule(c) ==
  /\ pc[c] = "init"
  /\ \/ MayFail(c, "terraform") /\ Fail(c, run[c], "InitialiseFailed")
     \/ MayPass(c) /\ Shutdown(c, run[c])
     \/ MayPass(c) /\ ~ Interrupted(c) /\ Goto(c, "plan") /\ UNCHANGED <<run, loc>>
  /\ StageFrame /\ UNCHANGED world

Plan(c) ==
  /\ pc[c] = "plan"
  /\ \/ MayFail(c, "terraform") /\ Fail(c, run[c], "PlanFailed")
     \/ /\ MayPass(c)
        /\ \E d \in BOOLEAN : run' = [run EXCEPT ![c].diff = d]
        /\ Goto(c, "show")
        /\ UNCHANGED loc
  /\ StageFrame /\ UNCHANGED world

\* terraform show of the saved plan, after which a plan-only run is finished
\* and another one looks at cancelChan for the last time.
ShowPlan(c) ==
  /\ pc[c] = "show"
  /\ \/ MayFail(c, "terraform") /\ Fail(c, run[c], "PlanFailed")
     \/ /\ MayPass(c) /\ run[c].mode # ModeApply
        /\ Finish(c, run[c], IF run[c].diff THEN "PlanOnlyDriftDetected"
                                            ELSE "NoDriftDetected",
                  loc[c].status)
     \/ MayPass(c) /\ run[c].mode = ModeApply /\ Shutdown(c, run[c])
     \/ /\ MayPass(c) /\ run[c].mode = ModeApply /\ ~ Interrupted(c)
        /\ Goto(c, "apply")
        /\ UNCHANGED <<run, loc>>
  /\ StageFrame /\ UNCHANGED world

\* LastAppliedCommitHash.  (Bug: the head of the ref at the time of the report.)
AppliedHead(c)   == head[c]
AppliedCommit(c) == loc[c].hash

\* terraform apply of the saved plan, whether or not it holds a change.
Apply(c) ==
  LET r  == [run[c] EXCEPT !.applied = TRUE]
      st == [loc[c].status EXCEPT !.lastApplied = AppliedCommit(c)]
  IN
  /\ pc[c] = "apply"
  /\ \/ MayFail(c, "terraform") /\ Fail(c, run[c], "ApplyFailed") /\ UNCHANGED infra
     \/ /\ MayPass(c)
        /\ infra' = [infra EXCEPT ![Mod(c)] = loc[c].cloned]
        /\ Finish(c, r, "Applied", st)
  /\ StageFrame /\ UNCHANGED head

-----------------------------------------------------------------------------
(* The end of a run: the status patch and the deferred calls, in order.    *)

\* The patch that reports the result; its error is only logged.
PatchStatus(c) ==
  /\ pc[c] = "patch"
  /\ \/ status' = [status EXCEPT ![Mod(c)] = loc[c].status]
     \/ "api" \in Faults /\ UNCHANGED status
  /\ Goto(c, "redis")
  /\ UNCHANGED <<request, issued, spec, world, redis, runStatus, run, loc, mon,
                 signals>>

\* The keys a run is written to, in order.  (Bug: the last apply goes first.)
KeysApplyFirst(r) ==
  IF r.type = PRPlan THEN <<"pr">>
  ELSE IF r.diff /\ r.mode = ModeApply THEN <<"apply", "last">> ELSE <<"last">>
KeysOf(r) ==
  IF r.type = PRPlan THEN <<"pr">>
  ELSE IF r.diff /\ r.mode = ModeApply THEN <<"last", "apply">> ELSE <<"last">>

\* updateRedis uses the run's ctx; its first failing write ends it.
UpdateRedis(c) ==
  /\ pc[c] = "redis"
  /\ LET keys == KeysOf(run[c])
     IN \E n \in 0 .. Len(keys) :
          LET written == {keys[i] : i \in 1 .. n}
          IN  /\ n < Len(keys) => MayFail(c, "redis")
              /\ n > 0 => MayPass(c)
              /\ prRun' = IF "pr" \in written THEN [prRun EXCEPT ![c] = run[c]] ELSE prRun
              /\ lastRun' = IF "last" \in written
                              THEN [lastRun EXCEPT ![Mod(c)] = run[c]] ELSE lastRun
              /\ lastApply' = IF "apply" \in written
                                THEN [lastApply EXCEPT ![Mod(c)] = run[c]] ELSE lastApply
  /\ Goto(c, "release")
  /\ UNCHANGED <<crd, world, runStatus, run, loc, mon, signals>>

\* (Bug: an errored run returns without unmarking the module.)
UnmarkedIfOk(c) == IF run[c].status = "Ok" THEN runStatus \ {Mod(c)} ELSE runStatus
Unmarked(c)     == runStatus \ {Mod(c)}

\* RunStatus.Delete and cancel, on which the watching goroutine returns.
Release(c) ==
  /\ pc[c] = "release"
  /\ runStatus' = Unmarked(c)
  /\ mon' = [mon EXCEPT ![c] = "off"]
  /\ Goto(c, "remove")
  /\ UNCHANGED <<crd, world, redis, run, loc, signals>>

\* (Bug: whatever request is pending is removed.)
RemovableAny(c) == IsForced(run[c].type) /\ request[Mod(c)] # NoRequest

\* RemoveRequest: only the request this run was made for, or an invalid one.
Removable(c) ==
  LET pending == request[Mod(c)]
  IN  /\ IsForced(run[c].type)
      /\ pending # NoRequest
      /\ \/ pending.id = run[c].req
         \/ ~ Valid(pending.type, TRUE, spec[Mod(c)])

\* Start returns and triggerRun drops the channel.
Return(c) ==
  /\ pc[c] = "remove"
  /\ \/ Removable(c) /\ request' = [request EXCEPT ![Mod(c)] = NoRequest]
     \/ (Removable(c) => "api" \in Faults) /\ UNCHANGED request
  /\ Goto(c, "idle")
  /\ run' = [run EXCEPT ![c] = NoRun]
  /\ loc' = [loc EXCEPT ![c] = NoLocals]
  /\ closed' = closed \ {c}
  /\ UNCHANGED <<status, issued, spec, world, redis, runStatus, mon, term, stops, started>>

-----------------------------------------------------------------------------
(* The goroutine that watches a run, and the signals it watches for.       *)

\* (Bug: the goroutine returns on the timer without cancelling ctx.)
OnTimerReturn == "off"
OnTimer       == "cancelled"

TimeOut(c) ==
  /\ "timeout" \in Faults
  /\ mon[c] = "watch"
  /\ mon' = [mon EXCEPT ![c] = OnTimer]
  /\ UNCHANGED <<crd, world, redis, runStatus, calls, signals>>

SeeClosed(c) ==
  /\ mon[c] = "watch" /\ c \in closed
  /\ mon' = [mon EXCEPT ![c] = "grace"]
  /\ UNCHANGED <<crd, world, redis, runStatus, calls, signals>>

GraceOver(c) ==
  /\ mon[c] = "grace"
  /\ mon' = [mon EXCEPT ![c] = "cancelled"]
  /\ UNCHANGED <<crd, world, redis, runStatus, calls, signals>>

Watch(c) == TimeOut(c) \/ SeeClosed(c) \/ GraceOver(c)

Terminate ==
  /\ ~ term /\ stops < MaxStops
  /\ term' = TRUE
  /\ stops' = stops + 1
  /\ UNCHANGED <<crd, world, redis, runStatus, pc, run, loc, mon, closed, started>>

\* triggerRun closes the channel of its run once the manager's context is
\* done.  Nothing closes the channel of a PR run.
CloseChan(m) ==
  /\ term /\ pc[m] # "idle" /\ m \notin closed
  /\ closed' = closed \cup {m}
  /\ UNCHANGED <<crd, world, redis, runStatus, pc, run, loc, mon, term, stops, started>>

\* The process ends, after TERM or in a crash, and a new one takes over: what
\* was in memory is gone, the module objects and Redis stay.
Restart ==
  /\ \/ term /\ UNCHANGED stops
     \/ /\ ~ term /\ "crash" \in Faults /\ stops < MaxStops
        /\ stops' = stops + 1
  /\ runStatus' = {}
  /\ pc' = [c \in Calls |-> "idle"]
  /\ run' = [c \in Calls |-> NoRun]
  /\ loc' = [c \in Calls |-> NoLocals]
  /\ mon' = [c \in Calls |-> "off"]
  /\ closed' = {}
  /\ term' = FALSE
  /\ UNCHANGED <<crd, world, redis, started>>

-----------------------------------------------------------------------------
(* What the reconciler does to the module besides triggering runs, in the  *)
(* worker that makes the default calls.                                    *)

Reconciling(m) == ~ term /\ pc[m] = "idle" /\ m \notin runStatus

\* (Bug: the reason is corrected and the state is not.)
RepairedReason(st) == [st EXCEPT !.reason = "Unknown"]
Repaired(st)       == [st EXCEPT !.state = "Errored", !.reason = "Unknown"]

\* A status left at Running by a killed process or a failed patch.
RepairStatus(m) ==
  /\ Reconciling(m) /\ status[m].state = "Running"
  /\ status' = [status EXCEPT ![m] = Repaired(@)]
  /\ UNCHANGED <<request, issued, spec, world, redis, process>>

\* A pending request that Validate rejects.
DropInvalidRequest(m) ==
  /\ Reconciling(m)
  /\ request[m] # NoRequest /\ ~ Valid(request[m].type, TRUE, spec[m])
  /\ \/ request' = [request EXCEPT ![m] = NoRequest]
     \/ "api" \in Faults /\ UNCHANGED request
  /\ \/ status' = [status EXCEPT ![m].state = "Errored", ![m].reason = "InvalidRequest"]
     \/ "api" \in Faults /\ UNCHANGED status
  /\ UNCHANGED <<issued, spec, world, redis, process>>

-----------------------------------------------------------------------------
(* Users and the repository.                                               *)

\* The web UI adds a request (EnsureRequest); the trigger-run action of the
\* repository overwrites the annotation without looking at it.
SubmitRequest(m) ==
  /\ issued[m] < MaxRequests
  /\ issued' = [issued EXCEPT ![m] = @ + 1]
  /\ \E t \in {ForcedPlan, ForcedApply} :
       request' = [request EXCEPT ![m] = [id |-> issued[m] + 1, type |-> t]]
  /\ UNCHANGED <<status, spec, world, redis, process>>

EditSpec(m) ==
  /\ \E s \in Specs : s # spec[m] /\ spec' = [spec EXCEPT ![m] = s]
  /\ UNCHANGED <<status, request, issued, world, redis, process>>

Push(c) ==
  /\ head[c] < MaxCommit
  /\ head' = [head EXCEPT ![c] = @ + 1]
  /\ UNCHANGED <<crd, infra, redis, process>>

-----------------------------------------------------------------------------
Stage(c) == HashCommit(c) \/ Prepare(c) \/ InitModule(c) \/ Plan(c) \/ ShowPlan(c) \/ Apply(c)
Local(c) == \/ Start(c) \/ LoadRunStatus(c) \/ StoreRunStatus(c) \/ RecordStart(c)
            \/ PatchStatus(c) \/ UpdateRedis(c) \/ Release(c) \/ Return(c)

Environment ==
  \/ Terminate \/ Restart
  \/ \E m \in Modules : \/ CloseChan(m) \/ RepairStatus(m) \/ DropInvalidRequest(m)
                        \/ SubmitRequest(m) \/ EditSpec(m)
  \/ \E c \in Calls : Push(c)

Next ==
  \/ \E c \in Calls : Trigger(c) \/ Local(c) \/ Stage(c) \/ Watch(c)
  \/ Environment

Spec == Init /\ [][Next]_vars

\* Go schedules every goroutine; the API and Redis clients time out, so the
\* steps between stages end.  A stage may hang until ctx is cancelled, and
\* then it ends.  The timer fires, the grace period passes, TERM reaches
\* every monitor, the work queue comes back to every module, and a process
\* that received TERM is gone at the latest when Kubernetes kills it.
Fairness ==
  /\ \A c \in Calls : /\ WF_vars(Local(c))
                      /\ WF_vars(Cancelled(c) /\ Stage(c))
                      /\ WF_vars(Watch(c))
  /\ \A m \in Modules : WF_vars(CloseChan(m)) /\ WF_vars(RepairStatus(m))
  /\ WF_vars(term /\ Restart)

FairSpec == Spec /\ Fairness

-----------------------------------------------------------------------------
TypeOK ==
  /\ status \in [Modules -> ModuleStatus]
  /\ request \in [Modules -> [id : Nat, type : RequestType \cup {""}]]
  /\ issued \in [Modules -> Nat]
  /\ spec \in [Modules -> ModuleSpec]
  /\ head \in [Calls -> Nat]
  /\ infra \in [Modules -> Nat]
  /\ lastRun \in [Modules -> RunRecord]
  /\ lastApply \in [Modules -> RunRecord]
  /\ prRun \in [PRCalls -> RunRecord]
  /\ runStatus \in SUBSET Modules
  /\ pc \in [Calls -> Outside \cup Inside]
  /\ run \in [Calls -> RunRecord]
  /\ loc \in [Calls -> Locals]
  /\ mon \in [Calls -> {"off", "watch", "grace", "cancelled"}]
  /\ closed \in SUBSET Modules
  /\ term \in BOOLEAN
  /\ stops \in Nat
  /\ started \in Nat

-----------------------------------------------------------------------------
\* A module is marked as running only while a call is in process on it, so no
\* way out of process, early return or crash blocks the module for ever
\* (RunStatus.Store, the deferred RunStatus.Delete).
NoLeakedMark ==
  \A m \in runStatus : \E c \in Calls : Mod(c) = m /\ InProcess(c)

\* A mark is removed by the end of a call that was in process on the module,
\* never by a call that was turned away because of that mark, or with the whole
\* process (order of the deferred calls of process and Start).
OnlyARunUnmarks ==
  [][\A m \in runStatus \ runStatus' :
       \/ \E c \in Calls : Mod(c) = m /\ InProcess(c) /\ pc'[c] = "remove"
       \/ \A c \in Calls : pc'[c] = "idle"]_vars

\* terraform apply runs only in a default run whose mode was Apply when it was
\* triggered, and for a Forced Apply only on a module that was not locked when
\* Start fetched it (GetRunMode, Validate, the plan-only return of runTF).
ApplyIsIntended ==
  \A c \in Calls : pc[c] = "apply" =>
    /\ run[c].mode = ModeApply
    /\ run[c].type \in {ScheduledRun, PollingRun, ForcedApply}
    /\ run[c].type = ForcedApply => ~ IsPlanOnly(loc[c].spec)

\* What the module's status says was applied was applied: the code in the
\* infrastructure is at least as new as LastAppliedCommitHash, and a status
\* whose reason is Applied is that of a run of that very commit (commitHash is
\* read before the clone, and reported after the apply).
AppliedStatusIsTrue ==
  \A m \in Modules :
    /\ status[m].lastApplied <= infra[m]
    /\ status[m].reason = "Applied" =>
         /\ status[m].state = "Ok"
         /\ status[m].lastApplied = status[m].commit

\* Once its channel is closed a run starts neither plan nor apply, nor says
\* that it started (the three calls of isChannelClosed).
NoStageAfterShutdown ==
  [][\A c \in closed : pc'[c] # pc[c] => pc'[c] \notin {"prepare", "plan", "apply"}]_vars

\* No step of a PR run changes the module object, the infrastructure or the
\* keys of default runs (SkipStatusUpdate, updateRedis, Start's first defer).
PRRunsLeaveNoTrace ==
  [][\A p \in PRCalls : pc[p] # "idle" /\ pc'[p] # pc[p]
       => UNCHANGED <<status, request, infra, lastRun, lastApply>>]_vars

\* A request leaves the module only when it is invalid, when a newer one takes
\* its place, or at the end of the run that was made for it: a request that was
\* submitted while that run was in progress survives it (RemoveRequest).
NewerRequestSurvives ==
  [][\A m \in Modules : request[m] # NoRequest /\ request'[m] = NoRequest =>
       \/ ~ Valid(request[m].type, TRUE, spec[m])
       \/ pc[m] = "remove" /\ run[m].req = request[m].id]_vars

\* The default last apply is never newer than the default last run: whatever
\* write of updateRedis fails, a reader of the first finds the run in the second
\* or a later one there.
ApplyKeyFollowsLastRun ==
  [][\A m \in Modules : lastApply'[m] # lastApply[m] => lastRun'[m] = lastApply'[m]]_vars

\* While the API server takes every patch, a run stored in Redis has ended: its
\* status is Ok or Errored (the order of updateRedis and setFailedStatus).
StoredRunsHaveEnded ==
  \A m \in Modules : lastRun[m] # NoRun => lastRun[m].status \in {"Ok", "Errored"}

\* How far the default run of a module is, and what there is to say about it.
Phase(m) ==
  CASE pc[m] \in {"hash", "record"} -> "begun"
    [] pc[m] \in {"prepare", "init", "plan", "show", "apply"} -> "recorded"
    [] pc[m] = "patch" -> "ended"
    [] pc[m] = "redis" -> "over"
    [] OTHER -> "none"
Brief(r) == [status |-> r.status, commit |-> r.commit, applied |-> r.applied]

Runs == INSTANCE ModuleRuns WITH
  Lossy  <- "api" \in Faults,
  phase  <- [m \in Modules |-> Phase(m)],
  run    <- [m \in Modules |-> IF Phase(m) = "none" THEN Brief(NoRun) ELSE Brief(run[m])],
  stored <- [m \in Modules |-> Brief(lastRun[m])]

\* A run works on the copy of the module that Start fetched and patches the
\* status with it several steps later, yet nothing that happens meanwhile is
\* overwritten, as long as reads are not behind (Reconciler has those); status
\* and Redis tell of the same run (SetRunStartedStatus, setFailedStatus,
\* SetRunFinishedStatus, updateRedis).
RunsAreReported == Runs!Spec

\* Every call of Start returns, even when terraform hangs: the run timeout or
\* the grace period cancels ctx (the goroutine of process).
EveryRunEnds == \A c \in Calls : pc[c] # "idle" ~> pc[c] = "idle"

\* A status left at Running is set right, whatever was lost with the process or
\* with a patch (Reconcile, "wrong status found").
RunningIsRepaired ==
  \A m \in Modules : status[m].state = "Running" ~> status[m].state # "Running"

-----------------------------------------------------------------------------
\* What the sources say and the code does not do.

\* runner.go: "make sure module is not already running".
OneRunPerModule ==
  \A c, d \in Calls : c # d /\ InProcess(c) /\ InProcess(d) => Mod(c) # Mod(d)

\* README.md: under planOnly "the module is strictly Read-Only".
LockedModuleIsReadOnly ==
  \A c \in Calls : pc[c] = "apply" => ~ IsPlanOnly(loc[c].spec)

\* README.md: the output of a run is posted as soon as the run is finished and
\* stored in Redis; redis.go: DefaultLastRun returns the last run's result.
FinishedRunIsStored ==
  \A c \in Calls : pc[c] = "release" =>
    run[c] = IF c \in PRCalls THEN prRun[c] ELSE lastRun[c]
=============================================================================
