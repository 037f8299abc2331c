----------------------------- MODULE ModuleRuns -----------------------------
(***************************************************************************)
(* What the default runs of a module promise to whoever looks at the       *)
(* module's status, at its infrastructure and at its last run in Redis: a  *)
(* run says that it has begun, ends with a result, reports the result and  *)
(* stores it.  Nobody works on a copy: each report changes the status that *)
(* is there, and of it only what the run has to say.                       *)
(***************************************************************************)
EXTENDS Naturals

CONSTANTS Modules,
          Lossy    \* reports may be lost

VARIABLES status,  \* the status of each module
          infra,   \* the commit that was applied last
          phase,   \* how far its run is
          run,     \* what there is to say about its run
          stored   \* the last run that was stored

runsVars == <<status, infra, phase, run, stored>>

NoReport == [status |-> "", commit |-> 0, applied |-> FALSE]
Fresh    == [NoReport EXCEPT !.status = "Running"]

Failures == {"DelegationFailed", "RunPreparationFailed", "InitialiseFailed",
             "PlanFailed", "ApplyFailed", "ControllerShutdown"}

\* A status that the result r may be reported with, where st was before.
Reports(r, st) ==
  IF r.status = "Errored"
    THEN {[st EXCEPT !.state = "Errored", !.reason = reason] : reason \in Failures}
  ELSE IF r.applied
    THEN {[st EXCEPT !.state = "Ok", !.reason = "Applied", !.lastApplied = r.commit]}
  ELSE {[st EXCEPT !.state = "Ok", !.reason = "NoDriftDetected"],
        [st EXCEPT !.state = "Drift_Detected", !.reason = "PlanOnlyDriftDetected"]}

Init ==
  /\ status = [m \in Modules |->
                 [state |-> "", reason |-> "", commit |-> 0, lastApplied |-> 0]]
  /\ infra = [m \in Modules |-> 0]
  /\ phase = [m \in Modules |-> "none"]
  /\ run = [m \in Modules |-> NoReport]
  /\ stored = [m \in Modules |-> NoReport]

Move(m, from, to) == phase[m] = from /\ phase' = [phase EXCEPT ![m] = to]

\* A run does not begin before the status of the last one is settled.
Begin(m) ==
  /\ Move(m, "none", "begun")
  /\ status[m].state = "Running" => Lossy
  /\ run' = [run EXCEPT ![m] = Fresh]
  /\ UNCHANGED <<status, infra, stored>>

\* The run is of a commit, and the status says so.
Record(m) ==
  /\ LET c == run'[m].commit
     IN  /\ run' = [run EXCEPT ![m].commit = c]
         /\ \/ /\ Move(m, "begun", "recorded")
               /\ status' = [status EXCEPT ![m].state = "Running",
                                           ![m].reason = "RunTriggered",
                                           ![m].commit = c]
            \/ Lossy /\ Move(m, "begun", "over") /\ UNCHANGED status
  /\ UNCHANGED <<infra, stored>>

\* The run ends with a result, which is not reported yet.
Fail(m) ==
  /\ Move(m, "begun", "ended") \/ Move(m, "recorded", "ended")
  /\ run' = [run EXCEPT ![m].status = "Errored"]
  /\ UNCHANGED <<status, infra, stored>>

Plan(m) ==
  /\ Move(m, "recorded", "ended")
  /\ run' = [run EXCEPT ![m].status = "Ok"]
  /\ UNCHANGED <<status, infra, stored>>

\* The commit of the run or a later one, never one before what was applied.
Apply(m) ==
  /\ Move(m, "recorded", "ended")
  /\ run' = [run EXCEPT ![m].status = "Ok", ![m].applied = TRUE]
  /\ LET c == infra'[m] IN /\ run[m].commit <= c /\ infra[m] <= c
                           /\ infra' = [infra EXCEPT ![m] = c]
  /\ UNCHANGED <<status, stored>>

Report(m) ==
  /\ Move(m, "ended", "over")
  /\ \/ \E st \in Reports(run[m], status[m]) : status' = [status EXCEPT ![m] = st]
     \/ Lossy /\ UNCHANGED status
  /\ UNCHANGED <<infra, run, stored>>

\* What is stored is the run that was reported.
Store(m) ==
  /\ Move(m, "over", "none")
  /\ run' = [run EXCEPT ![m] = NoReport]
  /\ stored' \in {stored, [stored EXCEPT ![m] = run[m]]}
  /\ UNCHANGED <<status, infra>>

\* Between two runs a status that was left behind is repaired, and an invalid
\* request is turned down.
Settle(m) ==
  /\ phase[m] = "none"
  /\ \/ status[m].state = "Running"
        /\ status' = [status EXCEPT ![m].state = "Errored", ![m].reason = "Unknown"]
     \/ status' = [status EXCEPT ![m].state = "Errored", ![m].reason = "InvalidRequest"]
  /\ UNCHANGED <<infra, phase, run, stored>>

\* The process ends, at any moment of any run.
Crash ==
  /\ phase' = [m \in Modules |-> "none"]
  /\ run' = [m \in Modules |-> NoReport]
  /\ UNCHANGED <<status, infra, stored>>

Next ==
  \/ \E m \in Modules : \/ Begin(m) \/ Record(m) \/ Fail(m) \/ Plan(m) \/ Apply(m)
                        \/ Report(m) \/ Store(m) \/ Settle(m)
  \/ Crash

Spec == Init /\ [][Next]_runsVars
=============================================================================
