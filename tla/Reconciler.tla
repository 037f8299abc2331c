----------------------------- MODULE Reconciler -----------------------------
(***************************************************************************)
(* Reconcile of one module (controllers/module_controller.go): when a      *)
(* default run is triggered and when the module is looked at again.        *)
(*                                                                         *)
(* Around it: the work queue with the event filter, the manager's cache,   *)
(* the status patch that is computed against that cache, a run reduced to  *)
(* its marks and patches, pushes, edits, requests, PR runs and crashes.    *)
(* Time is in minutes.                                                     *)
(***************************************************************************)
EXTENDS Naturals, FiniteSets, FiniteSetsExt

CONSTANTS Schedules,    \* the values spec.schedule takes
          Cycle,        \* every schedule repeats itself after this time
          PollInterval, \* spec.pollInterval
          MinInterval,  \* MinIntervalBetweenRuns
          CreatedAt,    \* the module's creation, by the API server's clock, which
                        \* may be ahead
          MaxCommit,    \* bound: commits on the module's path
          MaxTime,      \* bound: the clock
          MaxEvents,    \* bound: spec edits, requests and PR runs
          MaxFailures   \* bound: failed calls and crashes

\* A cron schedule by the minutes of a cycle at which it is due.  One that does
\* not parse is due at none (one that parses and names no date is left out); a
\* module may have no schedule.
Schedule   == [given : BOOLEAN, at : SUBSET (0 .. Cycle - 1)]
NoSchedule == [given |-> FALSE, at |-> {}]

ASSUME ReconcilerAssumption ==
  /\ Cycle \in Nat \ {0} /\ PollInterval \in Nat \ {0} /\ MinInterval \in Nat
  /\ CreatedAt \in Nat \ {0}
  /\ Schedules \subseteq Schedule /\ Schedules # {}
  /\ MaxCommit \in Nat \ {0} /\ MaxTime \in Nat \ {0}
  /\ MaxEvents \in Nat /\ MaxFailures \in Nat

VARIABLES
  object,   \* the module in the API server
  cache,    \* the manager's copy
  head,     \* last commit on the module's path
  now,      \* the clock
  queued,   \* the module is in the work queue
  timer,    \* when it is put there again: nothing, or one time
  runStatus,\* who has marked the module as running
  pc,       \* where the worker is
  mod,      \* the module the worker, or its run, has read
  kind,     \* type of the run being made
  nextRun,  \* the schedule's next time, by the first look at the clock
  stale,    \* history: the worker has read a status that was out of date
  resting,  \* history: the last call of Reconcile had nothing to do, and the
            \* queue was given a time, or none
  ran,      \* history: time and commit of the last run the status recorded
  events, failures \* counters for the bounds

world  == <<object, cache, head, now>>
queue  == <<queued, timer>>
worker == <<pc, mod, kind, nextRun, resting>>
vars   == <<world, queue, runStatus, worker, stale, ran, events, failures>>

-----------------------------------------------------------------------------
(* Schedules.                                                              *)

NoTime   == 0
NoCommit == 0

\* sched.Next, which is the zero time if there is none.
NextTime(s, t) ==
  IF s.at = {} THEN NoTime ELSE Min({u \in t + 1 .. t + Cycle : u % Cycle \in s.at})

\* NextSchedule counts from the last start of a default run, or from the
\* creation of the module.
EarliestTime(m) == IF m.status.startedAt = NoTime THEN CreatedAt ELSE m.status.startedAt

\* The error of NextSchedule: no time at all, or a first interval that is
\* shorter than is allowed.
ScheduleError(m) ==
  LET t1 == NextTime(m.schedule, EarliestTime(m))
  IN  \/ m.schedule.at = {}
      \/ EarliestTime(m) <= now /\ NextTime(m.schedule, t1) - t1 < MinInterval

\* numOfMissedRuns > 0.  (Bug: the time counted from is counted too.)
MissedOrAt(m) ==
  \E t \in EarliestTime(m) .. now : t % Cycle \in m.schedule.at
Missed(m) ==
  /\ EarliestTime(m) <= now
  /\ NextTime(m.schedule, EarliestTime(m)) <= now

-----------------------------------------------------------------------------
(* The API server.                                                         *)

\* Of the states that end a run Reconcile tells none apart.
Status == [state : {"", "Running", "Ended"}, commit : Nat, startedAt : Nat]
Module == [schedule : Schedule, request : {"none", "valid", "invalid"}, status : Status]

NoModule ==
  [schedule |-> NoSchedule, request |-> "none",
   status |-> [state |-> "", commit |-> NoCommit, startedAt |-> NoTime]]

Failure == failures < MaxFailures /\ failures' = failures + 1

\* PatchModuleStatus: a merge patch of the fields in which the new status
\* differs from the cached one; the others keep the value they have.
Patched(new) ==
  [object EXCEPT !.status =
     [f \in DOMAIN new |-> IF new[f] # cache.status[f] THEN new[f]
                                                        ELSE object.status[f]]]
PatchDone(new) == object' = Patched(new) /\ UNCHANGED failures
PatchLost(new) == Failure /\ object' \in {object, Patched(new)}
Patch(new)     == PatchDone(new) \/ PatchLost(new)

\* setFailedStatus of the reconciler.  (Bug: the state is left alone.)
ReasonOnly(st) == [st EXCEPT !.startedAt = NoTime]
Failed(st) == [st EXCEPT !.state = "Ended", !.startedAt = NoTime]

Init ==
  /\ \E s \in Schedules : object = [NoModule EXCEPT !.schedule = s]
  /\ cache = object /\ mod = NoModule
  /\ head = 1 /\ now = 1
  /\ queued = TRUE /\ timer = {}
  /\ runStatus = "none" /\ pc = "idle" /\ kind = ""
  /\ nextRun = NoTime /\ resting = "no" /\ stale = FALSE /\ ran = [at |-> NoTime, commit |-> NoCommit]
  /\ events = 0 /\ failures = 0

-----------------------------------------------------------------------------
(* The work queue.                                                         *)

\* AddAfter: of two times for one key the queue keeps the earlier one.  (Bug:
\* both.)
KeepBoth(d)     == timer' = timer \cup {now + d}
RequeueAfter(d) == timer' = {Min(timer \cup {now + d})}

\* A module that is queued is taken up, and the watch delivers an update, within
\* the minute.  Time goes on while Reconcile and its run are at work.
MinuteMayPass == cache = object /\ (pc # "idle" \/ ~ queued)

\* (At the bound the clock stands still and minutes pass all the same.)
Fire ==
  /\ \E t \in timer : t <= now \/ (now = MaxTime /\ MinuteMayPass)
  /\ queued' = TRUE /\ timer' = {}
  /\ UNCHANGED <<world, runStatus, worker, stale, ran, events, failures>>

\* Filter.Update: the spec or the annotation has changed, not just the status.
\* (Bug: the annotation only.)
PassesRequest(old, new) == old.request # new.request
Passes(old, new) == old.schedule # new.schedule \/ old.request # new.request

\* The cache catches up.
Deliver ==
  /\ cache # object /\ cache' = object
  /\ queued' = (queued \/ Passes(cache, object))
  /\ UNCHANGED <<object, head, now, timer, runStatus, worker, stale, ran, events, failures>>

-----------------------------------------------------------------------------
(* Reconcile.                                                              *)

Frame == UNCHANGED <<cache, head, now, queued, runStatus, stale, ran, events>>
Decide == Frame /\ UNCHANGED nextRun

SeeStatus == stale' = (stale \/ cache.status # object.status)

\* GetModule, whose error puts the key back.
Read ==
  /\ pc = "idle" /\ queued
  /\ \/ queued' = FALSE /\ mod' = cache /\ pc' = "inspect" /\ UNCHANGED failures
        /\ SeeStatus
     \/ Failure /\ UNCHANGED <<queued, mod, pc, stale>>
  /\ resting' = "no"
  /\ UNCHANGED <<world, timer, runStatus, kind, nextRun, ran, events>>

\* Reconcile returns.
Return == pc' = "idle" /\ mod' = NoModule /\ kind' = ""

\* Return with RequeueAfter the poll interval.
BackAfterPoll == Return /\ RequeueAfter(PollInterval) /\ UNCHANGED resting

Inspect ==
  /\ pc = "inspect"
  /\ \/ /\ runStatus # "none"
        /\ BackAfterPoll /\ UNCHANGED <<object, failures>>
     \/ /\ runStatus = "none" /\ mod.status.state # "Running"
        /\ pc' = "cases"
        /\ UNCHANGED <<object, mod, kind, resting, timer, failures>>
     \/ \* it was left at Running by a killed process or a lost patch
        /\ runStatus = "none" /\ mod.status.state = "Running"
        /\ mod' = [mod EXCEPT !.status = Failed(@)]
        /\ Patch(mod'.status)
        /\ pc' = "cases"
        /\ UNCHANGED <<kind, resting, timer>>
  /\ Decide

\* triggerRun
TriggerRun(type) ==
  /\ pc' = "start" /\ kind' = type /\ mod' = NoModule
  /\ UNCHANGED <<object, resting, timer, failures>>

\* Case 1: a request.  An invalid one is removed and reported.
RequestCase ==
  /\ pc = "cases" /\ mod.request # "none"
  /\ \/ mod.request = "valid" /\ TriggerRun("Forced")
     \/ /\ mod.request = "invalid"
        /\ LET reported == Patched(Failed(mod.status))
               removed  == [reported EXCEPT !.request = "none"]
           IN  \/ object' = removed /\ UNCHANGED failures
               \/ Failure /\ object' \in {[object EXCEPT !.request = "none"], reported}
        /\ BackAfterPoll
  /\ Decide

\* Cases 2 and 3: no run yet, or a commit since the last one.
CommitCase ==
  /\ pc = "cases" /\ mod.request = "none"
  /\ \/ mod.status.commit # head /\ TriggerRun("Polling")
     \/ /\ mod.status.commit # NoCommit
        /\ Failure /\ BackAfterPoll /\ UNCHANGED object
  /\ Decide

\* Case 4: the schedule, at a first look at the clock.  An error is not looked at
\* again before an update.
ScheduleCase ==
  /\ pc = "cases" /\ mod.request = "none" /\ mod.status.commit = head
  /\ \/ ~ mod.schedule.given /\ BackAfterPoll /\ UNCHANGED <<object, failures>>
     \/ /\ mod.schedule.given /\ ScheduleError(mod)
        /\ Patch(Failed(mod.status))
        /\ Return /\ UNCHANGED <<resting, timer>>
     \/ /\ mod.schedule.given /\ ~ ScheduleError(mod) /\ Missed(mod)
        /\ TriggerRun("Scheduled")
  /\ Decide

\* No case applies: the next time is known.
NothingToDo ==
  /\ pc = "cases" /\ mod.request = "none" /\ mod.status.commit = head
  /\ mod.schedule.given /\ ~ ScheduleError(mod) /\ ~ Missed(mod)
  /\ nextRun' = NextTime(mod.schedule, now) /\ pc' = "requeue"
  /\ UNCHANGED <<object, mod, kind, resting, timer, failures>>
  /\ Frame

\* The time to the next look.  (Bug: without regard to the schedule.)
PollOnly == PollInterval
NextLook == Min({PollInterval, nextRun - now})

\* A second look at the clock.  When the next time has come meanwhile the result
\* is not above zero, which asks the queue for nothing.
Requeue ==
  /\ pc = "requeue"
  /\ \/ nextRun > now /\ RequeueAfter(NextLook) /\ resting' = "timed"
     \/ nextRun <= now /\ UNCHANGED timer /\ resting' = "forgotten"
  /\ Return /\ nextRun' = NoTime
  /\ UNCHANGED <<object, failures>>
  /\ Frame

-----------------------------------------------------------------------------
(* Runner.Start, in the worker, reduced to its mark and its patches.       *)

\* Start reads the module again; a marked module is left alone.
BeginRun ==
  /\ pc = "start"
  /\ \/ /\ runStatus = "none"
        /\ runStatus' = "default" /\ mod' = cache /\ pc' = "record"
        /\ SeeStatus /\ UNCHANGED failures
     \/ /\ (runStatus # "none" /\ UNCHANGED failures) \/ Failure
        /\ pc' = "return" /\ mod' = NoModule /\ UNCHANGED <<runStatus, stale>>
  /\ UNCHANGED <<world, queue, kind, nextRun, resting, ran, events>>

\* A run that ends: its mark goes, its last patch may be lost.
EndRun(st) ==
  /\ Patch(st)
  /\ runStatus' = "none" /\ pc' = "return" /\ mod' = NoModule

\* SetRunStartedStatus.
Started(st, hash) ==
  [st EXCEPT !.state = "Running", !.commit = hash, !.startedAt = now]

\* The commit is looked up and the start is reported.  When either fails the
\* run is over, in the second case without another patch.
RecordStart ==
  LET st == Started(mod.status, head)
      recorded == ran' = [at |-> now, commit |-> head]
  IN
  /\ pc = "record"
  /\ \/ /\ PatchDone(st) /\ recorded
        /\ mod' = [mod EXCEPT !.status = st] /\ pc' = "running"
        /\ UNCHANGED runStatus
     \/ /\ Failure
        /\ runStatus' = "none" /\ pc' = "return" /\ mod' = NoModule
        /\ \/ object' = Patched([mod.status EXCEPT !.state = "Ended"]) /\ UNCHANGED ran
           \/ object' = Patched(st) /\ recorded
           \/ UNCHANGED <<object, ran>>
  /\ UNCHANGED <<cache, head, now, queue, kind, nextRun, resting, stale, events>>

FinishRun ==
  /\ pc = "running"
  /\ EndRun([mod.status EXCEPT !.state = "Ended"])
  /\ UNCHANGED <<cache, head, now, queue, kind, nextRun, resting, stale, ran, events>>

\* What Reconcile asks the queue for after a run.  (Bug: nothing, as if the
\* patches of the run would wake it.)
NoRequeue == timer' = timer
AfterRun == RequeueAfter(PollInterval)

\* The deferred RemoveRequest; triggerRun and Reconcile return.
ReturnFromRun ==
  /\ pc = "return"
  /\ \/ /\ object' = IF kind = "Forced" /\ object.request = "valid"
                       THEN [object EXCEPT !.request = "none"] ELSE object
        /\ UNCHANGED failures
     \/ kind = "Forced" /\ Failure /\ UNCHANGED object
  /\ AfterRun /\ Return
  /\ UNCHANGED <<cache, head, now, queued, runStatus, nextRun, resting, stale, ran, events>>

-----------------------------------------------------------------------------
(* Time, users, the PR planner, the end of the process.                    *)

Tick ==
  /\ now < MaxTime /\ now' = now + 1
  /\ \A t \in timer : now < t
  /\ MinuteMayPass
  /\ UNCHANGED <<object, cache, head, queue, runStatus, worker, stale, ran, events, failures>>

Event == events < MaxEvents /\ events' = events + 1

EditSchedule ==
  /\ Event
  /\ \E s \in Schedules : s # object.schedule /\ object' = [object EXCEPT !.schedule = s]
  /\ UNCHANGED <<cache, head, now, queue, runStatus, worker, stale, ran, failures>>

Request ==
  /\ Event /\ object.request = "none"
  /\ \E q \in {"valid", "invalid"} : object' = [object EXCEPT !.request = q]
  /\ UNCHANGED <<cache, head, now, queue, runStatus, worker, stale, ran, failures>>

Push ==
  /\ head < MaxCommit /\ head' = head + 1
  /\ UNCHANGED <<object, cache, now, queue, runStatus, worker, stale, ran, events, failures>>

MarkPRRun ==
  /\ Event /\ runStatus = "none" /\ runStatus' = "pr"
  /\ UNCHANGED <<world, queue, worker, stale, ran, failures>>
UnmarkPRRun ==
  /\ runStatus = "pr" /\ runStatus' = "none"
  /\ UNCHANGED <<world, queue, worker, stale, ran, events, failures>>

\* A new process lists the modules, and each of them is queued.
Restart ==
  /\ Failure
  /\ cache' = object /\ queued' = TRUE /\ timer' = {}
  /\ runStatus' = "none" /\ Return /\ nextRun' = NoTime /\ resting' = "no"
  /\ UNCHANGED <<object, head, now, stale, ran, events>>

-----------------------------------------------------------------------------
Work == \/ Read \/ Inspect \/ RequestCase \/ CommitCase \/ ScheduleCase
        \/ NothingToDo \/ Requeue \/ BeginRun \/ RecordStart \/ FinishRun \/ ReturnFromRun

Next ==
  \/ Work \/ Fire \/ Deliver \/ Tick
  \/ EditSchedule \/ Request \/ Push \/ MarkPRRun \/ UnmarkPRRun \/ Restart

Spec == Init /\ [][Next]_vars

\* The worker goes on, since runs end (Runner) and calls have timeouts; timers
\* fire, the watch delivers and time passes.  That none of these waits for ever
\* while others go on need not be assumed.
Progress == Work \/ Fire \/ Deliver \/ Tick

\* And PR runs end.
Fairness == WF_vars(Progress) /\ WF_vars(UnmarkPRRun)

FairSpec == Spec /\ Fairness

-----------------------------------------------------------------------------
TypeOK ==
  /\ object \in Module /\ cache \in Module /\ mod \in Module
  /\ head \in Nat /\ now \in Nat
  /\ queued \in BOOLEAN
  /\ timer \in SUBSET Nat /\ Cardinality(timer) <= 1
  /\ runStatus \in {"none", "pr", "default"}
  /\ pc \in {"idle", "inspect", "cases", "requeue", "start", "record", "running", "return"}
  /\ kind \in {"", "Forced", "Polling", "Scheduled"}
  /\ nextRun \in Nat /\ resting \in {"no", "timed", "forgotten"} /\ stale \in BOOLEAN
  /\ ran \in [at : Nat, commit : Nat]
  /\ events \in Nat /\ failures \in Nat

Due(s, from, to) == \E t \in from + 1 .. to : t % Cycle \in s.at

\* While the module rests, because Reconcile had nothing to do, it has a timer,
\* and until that fires no scheduled time goes by without a run, also when the
\* schedule was edited meanwhile.  The one exception is the module that is
\* forgotten ("No action required so requeue module", the code says), and only
\* one with a scheduled time to make up for is.
RestIsNotDue ==
  ~ queued =>
    /\ resting = "timed" =>
         /\ timer # {}
         /\ (\A t \in timer : now < t)
              => ~ Due(cache.schedule, Max({ran.at, CreatedAt}), now)
    /\ resting = "forgotten" => Due(cache.schedule, ran.at, now)

\* Reconcile has left the module without a time: it waits for an edit, a request
\* or a restart.
Forgotten == resting = "forgotten" /\ ~ queued /\ timer = {}

\* A scheduled run is triggered because a scheduled time has passed since the
\* last run that was recorded; since the creation, when the status was reset by
\* a failure.  The exception: Reconcile or a run once read an old status, and
\* what it then patched may have taken the recorded start back.
ScheduledRunIsDue ==
  [][kind' = "Scheduled" /\ kind # "Scheduled" =>
       \/ mod.status.startedAt = NoTime /\ Due(mod.schedule, CreatedAt, now)
       \/ stale
       \/ Due(mod.schedule, ran.at, now)]_vars

\* Schedules that NextSchedule may reject, depending on where it counts from.
Rejectable(s) ==
  /\ s.given
  /\ \/ s.at = {}
     \/ \E t \in s.at : NextTime(s, t) - t < MinInterval

\* Every commit leads to a run of it or of a later one that is recorded, after
\* whatever failures, PR runs, edits and crashes, except with a schedule that
\* is rejected and unless the module is forgotten: then it is not looked at again.
CommitIsRun ==
  \A h \in 1 .. MaxCommit :
    head >= h ~> ran.commit >= h \/ Rejectable(object.schedule) \/ Forgotten

\* The scheduled times of a run.
Times ==
  {t \in CreatedAt + 1 .. MaxTime :
     \E s \in Schedules : t % Cycle \in s.at /\ ~ Rejectable(s)}

\* Every scheduled time leads to a run at that time or later, as long as the
\* schedule has it and is not rejected, and the module is not forgotten.
ScheduleIsMet ==
  \A t \in Times :
    now >= t /\ t % Cycle \in object.schedule.at
      ~> \/ ran.at >= t
         \/ t % Cycle \notin object.schedule.at
         \/ Rejectable(object.schedule) \/ Forgotten

\* A status that still says Running when nothing runs is set right, also when
\* the run's own patch left that field out because the cache was behind; with a
\* rejected schedule, or forgotten, nobody may look at it again.
StaleRunningIsRepaired ==
  object.status.state = "Running" /\ runStatus # "default"
    ~> object.status.state # "Running" \/ Rejectable(object.schedule) \/ Forgotten
=============================================================================
