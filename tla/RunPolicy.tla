----------------------------- MODULE RunPolicy -----------------------------
(***************************************************************************)
(* What a run request may do to a module: the pure functions of            *)
(* api/v1beta1/run.go and the two spec predicates of module_types.go they  *)
(* rest on.  Request types keep the values of the constants of the source. *)
(***************************************************************************)

ScheduledRun == "ScheduledRun"
PollingRun   == "PollingRun"
ForcedPlan   == "ForcedPlan"
ForcedApply  == "ForcedApply"
PRPlan       == "PullRequestPlan"

RequestType == {ScheduledRun, PollingRun, ForcedPlan, ForcedApply, PRPlan}

\* The two modes a run is given when it is created.
ModeApply    == "Apply"
ModePlanOnly == "Plan_Only"
RunMode      == {ModeApply, ModePlanOnly}

\* spec.planOnly and spec.autoApply are *bool: a nil pointer is "unset".
OptBool    == {"unset", "false", "true"}
ModuleSpec == [planOnly : OptBool, autoApply : OptBool]

IsPlanOnly(spec)  == spec.planOnly = "true"
IsAutoApply(spec) == spec.autoApply = "true"

(***************************************************************************)
(* The lock on the module first, then the policy of the automated types,   *)
(* then the user's override.                                               *)
(***************************************************************************)
IsApply(type, spec) ==
  /\ ~ IsPlanOnly(spec)
  /\ \/ type \in {ScheduledRun, PollingRun} /\ IsAutoApply(spec)
     \/ type = ForcedApply

\* (Bug: the mode is left empty unless the run applies.)
GetRunModeOrNone(type, spec) == IF IsApply(type, spec) THEN ModeApply ELSE ""

GetRunMode(type, spec) == IF IsApply(type, spec) THEN ModeApply ELSE ModePlanOnly

\* (Bug: an apply is not checked against the lock again.)
ValidType(type, hasTime, spec) == hasTime /\ type \in RequestType

\* A request that passes Validate.  RequestedAt is abstracted to its presence.
Valid(type, hasTime, spec) ==
  /\ hasTime
  /\ type \in RequestType
  /\ type = ForcedApply => IsApply(type, spec)

\* (Bug: PR runs are reported on the module too.)
SkipStatusUpdateNever(type) == FALSE

SkipStatusUpdate(type) == type = PRPlan

\* The types whose request is an annotation on the module: Start removes it.
IsForced(type) == type \notin {ScheduledRun, PollingRun, PRPlan}
=============================================================================
