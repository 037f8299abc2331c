-------------------------- MODULE ReconcilerProofs --------------------------
(***************************************************************************)
(* What holds of Reconciler for every schedule, cycle and interval: above  *)
(* all, that a module that rests misses no scheduled time, and that no     *)
(* scheduled run is made that is not due.                                  *)
(***************************************************************************)
EXTENDS Reconciler, NumberLemmas, TLAPS

-----------------------------------------------------------------------------
(* The inductive invariant.                                                *)

\* A status tells of no run that was not recorded; of none but the last one, if
\* every status that was read was the present one.
StartedInv ==
  /\ ran.at <= now
  /\ \A m \in {object, cache, mod} : m.status.startedAt <= ran.at
  /\ ~ stale => \A m \in {object, mod} : m.status.startedAt \in {NoTime, ran.at}

\* What the worker goes by is what the manager has, unless the module is queued.
ScheduleInv ==
  pc \in {"inspect", "cases", "requeue"} /\ ~ queued => mod.schedule = cache.schedule

\* Between the two looks at the clock, however long that takes: the time found is
\* in the schedule and after the last run, and none was due before it.
NextRunInv ==
  pc = "requeue" =>
    /\ nextRun % Cycle \in mod.schedule.at /\ nextRun > ran.at
    /\ ~ Due(mod.schedule, Max({ran.at, CreatedAt}), nextRun - 1)

\* While the module rests its timer is set, and no later than to the next time of
\* the schedule; or it is forgotten, and such a time has gone by.
RestInv ==
  /\ resting # "no" => pc = "idle"
  /\ ~ queued =>
       /\ resting = "timed" =>
            \E t \in timer : ~ Due(cache.schedule, Max({ran.at, CreatedAt}), t - 1)
       /\ resting = "forgotten" => Due(cache.schedule, ran.at, now)

ReconcilerInv == TypeOK /\ StartedInv /\ ScheduleInv /\ NextRunInv /\ RestInv

-----------------------------------------------------------------------------
(* Times.                                                                  *)

\* Min is what its name says.
LEMMA LeastNumber ==
  ASSUME NEW S \in SUBSET Nat, S # {}
  PROVE  Min(S) \in S /\ \A y \in S : Min(S) <= y
BY LeastElement DEF Min

\* Max of two numbers.
LEMMA GreaterNumber ==
  ASSUME NEW a \in Nat, NEW b \in Nat
  PROVE  Max({a, b}) \in {a, b} /\ Max({a, b}) >= a /\ Max({a, b}) >= b
<1>1. \E x \in {a, b} : \A y \in {a, b} : x >= y
  BY SMT
<1> QED BY <1>1 DEF Max

\* Every minute of the cycle comes again within a cycle.
LEMMA MinuteComes ==
  ASSUME NEW a \in 0 .. Cycle - 1, NEW t \in Nat
  PROVE  \E u \in t + 1 .. t + Cycle : u % Cycle = a
<1> DEFINE q == (t + Cycle - a) \div Cycle
           u == a + Cycle * q
<1>1. Cycle \in Nat \ {0}
  BY ReconcilerAssumption
<1>2. u % Cycle = a
  BY <1>1
<1>3. u \in t + 1 .. t + Cycle
  BY <1>1
<1> QED BY <1>2, <1>3

\* The next time of a schedule that has times: due, and the first.
LEMMA NextTimeIsNext ==
  ASSUME NEW s \in Schedule, s.at # {}, NEW t \in Nat
  PROVE  /\ NextTime(s, t) \in t + 1 .. t + Cycle
         /\ NextTime(s, t) % Cycle \in s.at
         /\ ~ Due(s, t, NextTime(s, t) - 1)
<1> DEFINE D == {u \in t + 1 .. t + Cycle : u % Cycle \in s.at}
<1>1. D \in SUBSET Nat /\ Cycle \in Nat
  BY ReconcilerAssumption
<1>2. D # {}
  BY MinuteComes DEF Schedule
<1>3. Min(D) \in D /\ \A u \in D : Min(D) <= u
  BY <1>1, <1>2, LeastNumber
<1>4. NextTime(s, t) = Min(D)
  BY DEF NextTime
<1> HIDE DEF D
<1>5. NextTime(s, t) \in D /\ \A u \in D : NextTime(s, t) <= u
  BY <1>3, <1>4
<1> QED BY <1>1, <1>5 DEF D, Due

LEMMA Patching ==
  ASSUME TypeOK, NEW st \in Status
  PROVE  /\ Patched(st) \in Module
         /\ Patched(st).schedule = object.schedule /\ Patched(st).request = object.request
         /\ Patched(st).status.startedAt =
              IF st.startedAt # cache.status.startedAt THEN st.startedAt
                                                       ELSE object.status.startedAt
<1> DEFINE new == [f \in DOMAIN st |-> IF st[f] # cache.status[f] THEN st[f]
                                                             ELSE object.status[f]]
<1>1. object \in Module /\ cache \in Module
  BY DEF TypeOK
<1>2. DOMAIN st = {"state", "commit", "startedAt"}
  BY DEF Status
<1>3. /\ new.state = IF st.state # cache.status.state THEN st.state ELSE object.status.state
      /\ new.commit = IF st.commit # cache.status.commit THEN st.commit ELSE object.status.commit
      /\ new.startedAt = IF st.startedAt # cache.status.startedAt
                           THEN st.startedAt ELSE object.status.startedAt
  BY <1>2
<1>4. new \in Status
  BY <1>1, <1>2, <1>3 DEF Status, Module
<1>5. Patched(st) = [object EXCEPT !.status = new]
  BY DEF Patched
<1> HIDE DEF new
<1> QED BY <1>1, <1>3, <1>4, <1>5 DEF Module

-----------------------------------------------------------------------------
(* Types.                                                                  *)

LEMMA TypeParts ==
  ASSUME TypeOK
  PROVE  /\ object \in Module /\ cache \in Module /\ mod \in Module
         /\ head \in Nat /\ now \in Nat /\ timer \in SUBSET Nat
         /\ nextRun \in Nat /\ ran.at \in Nat
         /\ events \in Nat /\ failures \in Nat
BY DEF TypeOK

\* AddAfter leaves one time, the earlier one.
LEMMA Requeued ==
  ASSUME TypeOK, NEW d \in Nat, RequeueAfter(d)
  PROVE  \E t \in Nat : /\ timer' = {t} /\ t <= now + d
                        /\ t \in timer \cup {now + d}
<1> DEFINE S == timer \cup {now + d}
<1>1. S \in SUBSET Nat /\ S # {}
  BY TypeParts
<1>2. Min(S) \in S /\ \A y \in S : Min(S) <= y
  BY <1>1, LeastNumber
<1>3. timer' = {Min(S)}
  BY DEF RequeueAfter
<1> QED BY <1>1, <1>2, <1>3

TimerOK == timer \in SUBSET Nat /\ Cardinality(timer) <= 1

LEMMA TypeTimer ==
  ASSUME TypeOK
  PROVE  /\ TimerOK
         /\ \A d \in Nat : RequeueAfter(d) => TimerOK'
         /\ timer' = timer => TimerOK'
         /\ timer' = {} => TimerOK'
<1>1. \A d \in Nat : RequeueAfter(d) => TimerOK'
  <2> SUFFICES ASSUME NEW d \in Nat, RequeueAfter(d) PROVE TimerOK'
    OBVIOUS
  <2>1. PICK t \in Nat : timer' = {t}
    BY Requeued
  <2>2. Cardinality({t}) = 1
    BY FS_Singleton
  <2>3. Cardinality(timer') = 1
    BY <2>1, <2>2
  <2> QED BY <2>1, <2>3 DEF TimerOK
<1>2. ASSUME timer' = {} PROVE TimerOK'
  <2>1. Cardinality(timer') = 0
    BY <1>2, FS_EmptySet
  <2> QED BY <1>2, <2>1 DEF TimerOK
<1>3. TimerOK
  BY DEF TypeOK, TimerOK
<1>4. ASSUME timer' = timer PROVE TimerOK'
  BY <1>3, <1>4 DEF TimerOK
<1> QED BY <1>1, <1>2, <1>3, <1>4

LEMMA TypeFailed ==
  ASSUME NEW m \in Module
  PROVE  /\ Failed(m.status) \in Status /\ Failed(m.status).startedAt = NoTime
         /\ \A st \in Status : /\ [m EXCEPT !.status = st] \in Module
                               /\ [m EXCEPT !.status = st].status = st
                               /\ [m EXCEPT !.status = st].schedule = m.schedule
                               /\ [m EXCEPT !.status = st].request = m.request
         /\ [m.status EXCEPT !.state = "Ended"] \in Status
         /\ [m.status EXCEPT !.state = "Ended"].startedAt = m.status.startedAt
BY DEF Failed, Module, Status, NoTime

LEMMA TypeStarted ==
  ASSUME TypeOK, NEW m \in Module
  PROVE  /\ Started(m.status, head) \in Status
         /\ Started(m.status, head).startedAt = now
BY DEF Started, Module, Status, TypeOK

LEMMA TypeNoModule ==
  NoModule \in Module /\ NoModule.status.startedAt = NoTime
BY DEF NoModule, NoSchedule, Module, Schedule, Status, NoTime, NoCommit

\* What a patch may leave of the module.
LEMMA Patches ==
  ASSUME TypeOK, NEW st \in Status, Patch(st)
  PROVE  object' \in {object, Patched(st)} /\ object' \in Module /\ failures' \in Nat
<1>1. Patched(st) \in Module
  BY Patching
<1> QED BY <1>1, TypeParts DEF Patch, PatchDone, PatchLost, Failure

\* The time to the next look, while the next time is ahead.
LEMMA LookIsSoon ==
  ASSUME nextRun \in Nat, now \in Nat, nextRun > now
  PROVE  NextLook \in Nat \ {0} /\ now + NextLook <= nextRun
<1> DEFINE n == nextRun - now
<1>1. {PollInterval, n} \in SUBSET (Nat \ {0})
  BY ReconcilerAssumption
<1>2. Min({PollInterval, n}) \in {PollInterval, n} /\ Min({PollInterval, n}) <= n
  BY <1>1, LeastNumber
<1>3. NextLook = Min({PollInterval, n})
  BY DEF NextLook
<1> HIDE DEF n
<1>4. NextLook \in Nat \ {0} /\ NextLook <= n
  BY <1>1, <1>2, <1>3
<1> QED BY <1>4 DEF n

\* All of the type invariant but the timer.
RestTyped ==
  /\ object \in Module /\ cache \in Module /\ mod \in Module
  /\ head \in Nat /\ now \in Nat
  /\ queued \in BOOLEAN
  /\ runStatus \in {"none", "pr", "default"}
  /\ pc \in {"idle", "inspect", "cases", "requeue", "start", "record", "running", "return"}
  /\ kind \in {"", "Forced", "Polling", "Scheduled"}
  /\ nextRun \in Nat /\ resting \in {"no", "timed", "forgotten"} /\ stale \in BOOLEAN
  /\ ran \in [at : Nat, commit : Nat]
  /\ events \in Nat /\ failures \in Nat

LEMMA TypeSplit ==
  /\ TypeOK <=> RestTyped /\ TimerOK
  /\ RestTyped' /\ TimerOK' => TypeOK'
BY DEF TypeOK, RestTyped, TimerOK

LEMMA TypeCounts ==
  ASSUME TypeOK
  PROVE  /\ Failure => failures' \in Nat
         /\ Event => events' \in Nat
         /\ Tick \/ Push => now' \in Nat /\ head' \in Nat
<1>1. failures \in Nat /\ events \in Nat /\ now \in Nat /\ head \in Nat
  BY TypeParts
<1> QED BY <1>1 DEF Failure, Event, Tick, Push

LEMMA TypeInit == Init => TypeOK
<1> SUFFICES ASSUME Init PROVE TypeOK
  OBVIOUS
<1>1. Cardinality(timer) = 0
  BY FS_EmptySet DEF Init
<1>2. object \in Module
  BY ReconcilerAssumption, TypeNoModule DEF Init, NoModule, Module, Status, NoTime, NoCommit
<1>3. 0 <= 1 /\ [at |-> NoTime, commit |-> NoCommit] \in [at : Nat, commit : Nat]
  BY DEF NoTime, NoCommit
<1>4. timer \in SUBSET Nat /\ Cardinality(timer) <= 1
  <2>1. timer \in SUBSET Nat
    BY DEF Init
  <2> QED BY <1>1, <2>1
<1> QED BY <1>2, <1>3, <1>4, TypeNoModule DEF Init, TypeOK

LEMMA TypeReconcile ==
  ASSUME TypeOK, Read \/ Inspect \/ RequestCase \/ CommitCase \/ ScheduleCase
                 \/ NothingToDo \/ Requeue
  PROVE  TypeOK'
<1> USE TypeTimer, TypeSplit, TypeNoModule, TypeCounts
<1>0. RestTyped /\ TimerOK /\ PollInterval \in Nat
  BY ReconcilerAssumption
<1>1. CASE Read
  BY <1>0, <1>1 DEF Read, RestTyped, SeeStatus, world
<1>2. CASE Inspect
  <2>1. TimerOK'
    BY <1>0, <1>2 DEF Inspect, BackAfterPoll
  <2>2. CASE runStatus # "none" \/ mod.status.state # "Running"
    BY <1>0, <1>2, <2>1, <2>2 DEF Inspect, RestTyped, BackAfterPoll, Return, Decide, Frame
  <2>3. CASE runStatus = "none" /\ mod.status.state = "Running"
    <3>1. mod'.status \in Status /\ mod' \in Module
      <4>1. mod' = [mod EXCEPT !.status = Failed(@)] /\ mod \in Module
        BY <1>0, <1>2, <2>3 DEF Inspect, RestTyped
      <4> QED BY <4>1, TypeFailed
    <3>3. Patch(mod'.status)
      BY <1>2, <2>3 DEF Inspect
    <3>2. object' \in Module /\ failures' \in Nat
      BY <3>1, <3>3, Patches
    <3> QED BY <1>0, <1>2, <2>1, <2>3, <3>1, <3>2 DEF Inspect, RestTyped, Decide, Frame
  <2> QED BY <2>2, <2>3
<1>3. CASE RequestCase
  <2>1. TimerOK'
    BY <1>0, <1>3 DEF RequestCase, BackAfterPoll, TriggerRun
  <2>2. Patched(Failed(mod.status)) \in Module
    BY <1>0, TypeFailed, Patching DEF RestTyped
  <2>3. object' \in Module /\ failures' \in Nat
    BY <1>0, <1>3, <2>2 DEF RequestCase, RestTyped, TriggerRun, Module
  <2> QED BY <1>0, <1>3, <2>1, <2>3 DEF RequestCase, RestTyped, TriggerRun, BackAfterPoll, Return, Decide, Frame
<1>4. CASE CommitCase
  <2>1. TimerOK'
    BY <1>0, <1>4 DEF CommitCase, BackAfterPoll, TriggerRun
  <2> QED BY <1>0, <1>4, <2>1 DEF CommitCase, RestTyped, TriggerRun, BackAfterPoll, Return, Decide, Frame
<1>5. CASE ScheduleCase
  <2>2. TimerOK'
    BY <1>0, <1>5 DEF ScheduleCase, BackAfterPoll, TriggerRun
  <2>3. object' \in Module /\ failures' \in Nat
    <3>1. Patch(Failed(mod.status)) => object' \in Module /\ failures' \in Nat
      BY <1>0, TypeFailed, Patches DEF RestTyped
    <3> QED BY <1>0, <1>5, <3>1 DEF ScheduleCase, BackAfterPoll, TriggerRun, RestTyped
  <2>4. mod' \in Module /\ pc' \in {"idle", "start"} /\ kind' \in {"", "Scheduled"}
        /\ resting' = resting
    BY <1>0, <1>5 DEF ScheduleCase, BackAfterPoll, TriggerRun, Return, RestTyped
  <2> QED BY <1>0, <1>5, <2>2, <2>3, <2>4 DEF ScheduleCase, RestTyped, Decide, Frame
<1>6. CASE NothingToDo
  <2>1. mod.schedule \in Schedule /\ mod.schedule.at # {} /\ now \in Nat
    BY <1>0, <1>6 DEF NothingToDo, ScheduleError, RestTyped, Module
  <2>2. nextRun' \in Nat
    BY <1>6, <2>1, NextTimeIsNext, ReconcilerAssumption DEF NothingToDo
  <2>3. TimerOK'
    BY <1>0, <1>6 DEF NothingToDo
  <2> QED BY <1>0, <1>6, <2>2, <2>3 DEF NothingToDo, RestTyped, Frame
<1>7. CASE Requeue
  <2>1. nextRun > now => NextLook \in Nat
    BY <1>0, LookIsSoon DEF RestTyped
  <2>2. TimerOK'
    BY <1>0, <1>7, <2>1 DEF Requeue
  <2> QED BY <1>0, <1>7, <2>2 DEF Requeue, RestTyped, Return, Frame, NoTime
<1> QED BY <1>1, <1>2, <1>3, <1>4, <1>5, <1>6, <1>7

LEMMA TypeRun ==
  ASSUME TypeOK, BeginRun \/ RecordStart \/ FinishRun \/ ReturnFromRun
  PROVE  TypeOK'
<1> USE TypeTimer, TypeSplit, TypeNoModule, TypeCounts
<1>0. RestTyped /\ TimerOK /\ PollInterval \in Nat
  BY ReconcilerAssumption
<1>1. CASE BeginRun
  BY <1>0, <1>1 DEF BeginRun, RestTyped, SeeStatus, world, queue
<1>2. CASE RecordStart
  <2> DEFINE st == Started(mod.status, head)
  <2>1. st \in Status /\ Patched(st) \in Module
        /\ Patched([mod.status EXCEPT !.state = "Ended"]) \in Module
        /\ [mod EXCEPT !.status = st] \in Module
    BY <1>0, TypeStarted, TypeFailed, Patching DEF RestTyped
  <2>2. [at |-> now, commit |-> head] \in [at : Nat, commit : Nat]
    BY <1>0 DEF RestTyped
  <2> HIDE DEF st
  <2>3. object' \in Module /\ mod' \in Module /\ failures' \in Nat
        /\ ran' \in [at : Nat, commit : Nat] /\ pc' \in {"running", "return"}
        /\ runStatus' \in {runStatus, "none"}
    BY <1>0, <1>2, <2>1, <2>2 DEF st, RecordStart, PatchDone, RestTyped
  <2>4. UNCHANGED <<cache, head, now, queue, kind, nextRun, resting, stale, events>>
    BY <1>2 DEF RecordStart
  <2> QED BY <1>0, <2>3, <2>4 DEF RestTyped, queue
<1>3. CASE FinishRun
  <2>1. object' \in Module /\ failures' \in Nat
    BY <1>0, <1>3, TypeFailed, Patches DEF FinishRun, EndRun, RestTyped
  <2> QED BY <1>0, <1>3, <2>1 DEF FinishRun, EndRun, RestTyped, queue
<1>4. CASE ReturnFromRun
  <2>1. TimerOK'
    BY <1>0, <1>4 DEF ReturnFromRun, AfterRun
  <2>2. object' \in Module /\ failures' \in Nat
    BY <1>0, <1>4 DEF ReturnFromRun, RestTyped, Module
  <2> QED BY <1>0, <1>4, <2>1, <2>2 DEF ReturnFromRun, RestTyped, Return
<1> QED BY <1>1, <1>2, <1>3, <1>4

Outside ==
  \/ Fire \/ Deliver \/ Tick \/ EditSchedule \/ Request \/ Push
  \/ MarkPRRun \/ UnmarkPRRun \/ Restart

\* What the tuples stand for.
LEMMA Unmoved ==
  /\ UNCHANGED world => object' = object /\ cache' = cache /\ head' = head /\ now' = now
  /\ UNCHANGED queue => queued' = queued /\ timer' = timer
  /\ UNCHANGED worker => /\ pc' = pc /\ mod' = mod /\ kind' = kind
                        /\ nextRun' = nextRun /\ resting' = resting
BY DEF world, queue, worker

\* The worker does not move: the module, the queue and the counters stay typed.
LEMMA TypeUnmoved ==
  ASSUME TypeOK, UNCHANGED <<worker, ran>>, object' \in Module, cache' \in {cache, object},
         now' \in Nat, head' \in Nat, queued' \in BOOLEAN, timer' \in {timer, {}},
         runStatus' \in {"none", "pr", "default"}, stale' = stale,
         events' \in Nat, failures' \in Nat
  PROVE  TypeOK'
<1>1. RestTyped
  BY TypeSplit
<1>2. UNCHANGED <<pc, mod, kind, nextRun, resting, ran>>
  BY Unmoved
<1>3. RestTyped'
  BY <1>1, <1>2 DEF RestTyped
<1>4. TimerOK'
  BY TypeTimer
<1> QED BY <1>3, <1>4, TypeSplit

LEMMA TypeOutside == ASSUME TypeOK, Outside PROVE TypeOK'
<1>0. /\ object \in Module /\ now \in Nat /\ head \in Nat /\ queued \in BOOLEAN
      /\ runStatus \in {"none", "pr", "default"} /\ events \in Nat /\ failures \in Nat
  BY DEF TypeOK
<1>1. CASE Fire
  BY <1>0, <1>1, Unmoved, TypeUnmoved DEF Fire
<1>2. CASE Deliver
  BY <1>0, <1>2, TypeUnmoved DEF Deliver, Passes
<1>3. CASE Tick \/ Push
  <2>1. now' \in Nat /\ head' \in Nat
    BY <1>3, TypeCounts
  <2>2. UNCHANGED <<object, cache, queue, runStatus, worker, stale, ran, events, failures>>
    BY <1>3 DEF Tick, Push
  <2> QED BY <1>0, <2>1, <2>2, Unmoved, TypeUnmoved
<1>4. CASE EditSchedule \/ Request
  <2>1. object' \in Module /\ events' \in Nat
    BY <1>0, <1>4, TypeCounts, ReconcilerAssumption DEF EditSchedule, Request, Module
  <2>2. UNCHANGED <<cache, head, now, queue, runStatus, worker, stale, ran, failures>>
    BY <1>4 DEF EditSchedule, Request
  <2> QED BY <1>0, <2>1, <2>2, Unmoved, TypeUnmoved
<1>5. CASE MarkPRRun \/ UnmarkPRRun
  <2>1. /\ UNCHANGED <<world, queue, worker, stale, ran, failures>>
        /\ runStatus' \in {"pr", "none"} /\ events' \in Nat
    BY <1>0, <1>5, TypeCounts DEF MarkPRRun, UnmarkPRRun
  <2> QED BY <1>0, <2>1, Unmoved, TypeUnmoved
<1>6. CASE Restart
  <2>1. RestTyped
    BY TypeSplit
  <2>2. RestTyped'
    BY <1>6, <2>1, TypeNoModule, TypeCounts DEF Restart, Return, NoTime, RestTyped
  <2>3. TimerOK'
    BY <1>6, TypeTimer DEF Restart
  <2> QED BY <2>2, <2>3, TypeSplit
<1> QED BY <1>1, <1>2, <1>3, <1>4, <1>5, <1>6 DEF Outside

\* What the steps of a behaviour are.
LEMMA Steps ==
  Next <=> \/ Read \/ Inspect \/ RequestCase \/ CommitCase \/ ScheduleCase
           \/ NothingToDo \/ Requeue \/ BeginRun \/ RecordStart \/ FinishRun \/ ReturnFromRun
           \/ Outside
BY DEF Next, Work, Outside

LEMMA TypeStutter == ASSUME TypeOK, UNCHANGED vars PROVE TypeOK'
<1>1. RestTyped /\ TimerOK
  BY TypeSplit
<1>2. UNCHANGED <<world, queue, worker>> /\ UNCHANGED <<runStatus, stale, ran, events, failures>>
  BY DEF vars
<1>3. UNCHANGED <<object, cache, head, now, queued, timer, pc, mod, kind, nextRun, resting>>
  BY <1>2, Unmoved
<1>4. RestTyped'
  BY <1>1, <1>2, <1>3 DEF RestTyped
<1>5. TimerOK'
  BY <1>1, <1>3 DEF TimerOK
<1> QED BY <1>4, <1>5, TypeSplit

\* Every variable keeps its type, for every schedule and all bounds.
THEOREM TypeCorrect == Spec => []TypeOK
<1>1. ASSUME TypeOK, [Next]_vars PROVE TypeOK'
  <2>1. CASE UNCHANGED vars
    BY <1>1, <2>1, TypeStutter
  <2> QED BY <1>1, <2>1, Steps, TypeReconcile, TypeRun, TypeOutside
<1> QED BY <1>1, TypeInit, PTL DEF Spec
-----------------------------------------------------------------------------
(* What statuses tell of the last run.                                     *)

\* What a step that records no run may do to the statuses.
KeepsStarts ==
  /\ ran' = ran /\ now <= now'
  /\ object'.status.startedAt \in {NoTime, object.status.startedAt, mod.status.startedAt}
  /\ cache' \in {cache, object}
  /\ \/ mod'.status.startedAt \in {NoTime, mod.status.startedAt}
     \/ mod' = cache /\ SeeStatus
  /\ stale => stale'

LEMMA StartedKept ==
  ASSUME TypeOK, TypeOK', StartedInv, KeepsStarts
  PROVE  StartedInv'
<1>0. /\ ran.at \in Nat /\ now \in Nat /\ now' \in Nat
      /\ \A m \in {object, cache, mod, object', cache', mod'} : m.status.startedAt \in Nat
  BY DEF TypeOK, Module, Status
<1>1. ran'.at <= now'
  BY <1>0 DEF KeepsStarts, StartedInv
<1>2. \A m \in {object', cache', mod'} : m.status.startedAt <= ran'.at
  <2>1. NoTime <= ran.at
    BY <1>0 DEF NoTime
  <2> QED BY <2>1 DEF KeepsStarts, StartedInv
<1>3. ASSUME ~ stale'
      PROVE  \A m \in {object', mod'} : m.status.startedAt \in {NoTime, ran'.at}
  <2>1. ~ stale /\ ran' = ran
    BY <1>3 DEF KeepsStarts
  <2>2. \A m \in {object, mod} : m.status.startedAt \in {NoTime, ran.at}
    BY <2>1 DEF StartedInv
  <2>3. object'.status.startedAt \in {NoTime, ran.at}
    BY <2>2 DEF KeepsStarts
  <2>4. mod'.status.startedAt \in {NoTime, ran.at}
    <3>1. CASE mod'.status.startedAt \in {NoTime, mod.status.startedAt}
      BY <2>2, <3>1
    <3>2. CASE mod' = cache /\ SeeStatus
      <4>1. cache.status = object.status
        BY <1>3, <3>2 DEF SeeStatus
      <4> QED BY <2>2, <3>2, <4>1
    <3> QED BY <3>1, <3>2 DEF KeepsStarts
  <2> QED BY <2>1, <2>3, <2>4
<1> QED BY <1>1, <1>2, <1>3 DEF StartedInv

\* A patch leaves the start the module had, or brings the new one.
LEMMA PatchedStart ==
  ASSUME TypeOK, NEW st \in Status
  PROVE  /\ Patched(st).status.startedAt \in {st.startedAt, object.status.startedAt}
         /\ Patch(st) => object'.status.startedAt \in {st.startedAt, object.status.startedAt}
<1>1. Patched(st).status.startedAt \in {st.startedAt, object.status.startedAt}
  BY Patching
<1> QED BY <1>1, Patches

LEMMA StartedReconcile ==
  ASSUME TypeOK, Read \/ Inspect \/ RequestCase \/ CommitCase \/ ScheduleCase
                 \/ NothingToDo \/ Requeue
  PROVE  KeepsStarts
<1>0. /\ object \in Module /\ mod \in Module /\ now <= now
      /\ NoModule.status.startedAt = NoTime
  BY TypeParts, TypeNoModule
<1>1. Failed(mod.status) \in Status /\ Failed(mod.status).startedAt = NoTime
  BY <1>0, TypeFailed
<1>2. Patched(Failed(mod.status)).status.startedAt \in {NoTime, object.status.startedAt}
  BY <1>1, PatchedStart
<1>3. Patch(Failed(mod.status)) => object'.status.startedAt \in {NoTime, object.status.startedAt}
  BY <1>1, PatchedStart
<1>4. CASE Read
  <2>1. \/ mod' = cache /\ SeeStatus
        \/ UNCHANGED <<mod, stale>>
    BY <1>4 DEF Read
  <2>2. stale => stale'
    BY <2>1 DEF SeeStatus
  <2>3. UNCHANGED <<world, ran>>
    BY <1>4 DEF Read
  <2> QED BY <1>0, <2>1, <2>2, <2>3 DEF KeepsStarts, world
<1>5. CASE Inspect
  <2>1. /\ mod'.status.startedAt \in {NoTime, mod.status.startedAt}
        /\ object'.status.startedAt \in {NoTime, object.status.startedAt}
    <3>1. CASE runStatus # "none" \/ mod.status.state # "Running"
      BY <1>0, <1>5, <3>1 DEF Inspect, BackAfterPoll, Return
    <3>2. CASE runStatus = "none" /\ mod.status.state = "Running"
      <4>0. mod' = [mod EXCEPT !.status = Failed(@)]
        BY <1>5, <3>2 DEF Inspect
      <4>1. mod'.status = Failed(mod.status)
        BY <1>0, <1>1, <4>0, TypeFailed
      <4>2. Patch(mod'.status)
        BY <1>5, <3>2 DEF Inspect
      <4> QED BY <1>1, <1>3, <4>1, <4>2
    <3> QED BY <3>1, <3>2
  <2>2. UNCHANGED <<cache, now, stale, ran>>
    BY <1>5 DEF Inspect, Decide, Frame
  <2> QED BY <1>0, <2>1, <2>2 DEF KeepsStarts
<1>6. CASE RequestCase
  <2>1. object'.status.startedAt \in {NoTime, object.status.startedAt}
    <3>1. CASE mod.request = "valid"
      BY <1>6, <3>1 DEF RequestCase, TriggerRun
    <3>2. CASE mod.request = "invalid"
      <4>1. \A m \in Module : [m EXCEPT !.request = "none"].status = m.status
        BY DEF Module
      <4>2. Patched(Failed(mod.status)) \in Module
        BY <1>1, Patching
      <4> QED BY <1>0, <1>2, <1>6, <3>2, <4>1, <4>2 DEF RequestCase
    <3> QED BY <1>6, <3>1, <3>2 DEF RequestCase
  <2>2. mod' \in {mod, NoModule}
    BY <1>6 DEF RequestCase, TriggerRun, BackAfterPoll, Return
  <2>3. UNCHANGED <<cache, now, stale, ran>>
    BY <1>6 DEF RequestCase, Decide, Frame
  <2> QED BY <1>0, <2>1, <2>2, <2>3 DEF KeepsStarts
<1>7. CASE CommitCase
  BY <1>0, <1>7 DEF CommitCase, TriggerRun, BackAfterPoll, Return, Decide, Frame, KeepsStarts
<1>8. CASE ScheduleCase
  <2>1. object'.status.startedAt \in {NoTime, object.status.startedAt}
    BY <1>3, <1>8 DEF ScheduleCase, TriggerRun
  <2>2. mod' \in {mod, NoModule}
    BY <1>8 DEF ScheduleCase, TriggerRun, BackAfterPoll, Return
  <2>3. UNCHANGED <<cache, now, stale, ran>>
    BY <1>8 DEF ScheduleCase, Decide, Frame
  <2> QED BY <1>0, <2>1, <2>2, <2>3 DEF KeepsStarts
<1>9. CASE NothingToDo \/ Requeue
  <2>1. /\ UNCHANGED <<object, cache, now, stale, ran>>
        /\ mod' \in {mod, NoModule}
    BY <1>9 DEF NothingToDo, Requeue, Return, Frame
  <2> QED BY <1>0, <2>1 DEF KeepsStarts
<1> QED BY <1>4, <1>5, <1>6, <1>7, <1>8, <1>9

LEMMA StartedOutside ==
  ASSUME TypeOK, BeginRun \/ FinishRun \/ ReturnFromRun \/ Outside
  PROVE  KeepsStarts
<1>0. /\ object \in Module /\ mod \in Module /\ now <= now /\ now <= now + 1
      /\ NoModule.status.startedAt = NoTime
  BY TypeParts, TypeNoModule
<1>2. CASE BeginRun
  <2>1. \/ mod' = cache /\ SeeStatus
        \/ mod' = NoModule /\ UNCHANGED stale
    BY <1>2 DEF BeginRun
  <2>2. stale => stale'
    BY <2>1 DEF SeeStatus
  <2>3. UNCHANGED <<world, ran>>
    BY <1>2 DEF BeginRun
  <2> QED BY <1>0, <2>1, <2>2, <2>3 DEF KeepsStarts, world
<1>3. CASE FinishRun
  <2> DEFINE st == [mod.status EXCEPT !.state = "Ended"]
  <2>1. st \in Status /\ st.startedAt = mod.status.startedAt
    BY <1>0, TypeFailed
  <2>2. Patch(st)
    BY <1>3 DEF FinishRun, EndRun
  <2> HIDE DEF st
  <2>3. object'.status.startedAt \in {mod.status.startedAt, object.status.startedAt}
    BY <2>1, <2>2, PatchedStart
  <2> QED BY <1>0, <1>3, <2>3 DEF FinishRun, EndRun, KeepsStarts
<1>4. CASE ReturnFromRun
  <2>1. object'.status = object.status
    BY <1>0, <1>4 DEF ReturnFromRun, Module
  <2> QED BY <1>0, <1>4, <2>1 DEF ReturnFromRun, Return, KeepsStarts
<1>5. CASE EditSchedule \/ Request
  <2>1. object'.status = object.status
    BY <1>0, <1>5 DEF EditSchedule, Request, Module
  <2> QED BY <1>0, <1>5, <2>1 DEF EditSchedule, Request, KeepsStarts, worker
<1>6. CASE Fire \/ Deliver \/ Tick \/ Push \/ MarkPRRun \/ UnmarkPRRun
  BY <1>0, <1>6 DEF Fire, Deliver, Tick, Push, MarkPRRun, UnmarkPRRun, KeepsStarts, world, worker
<1>7. CASE Restart
  BY <1>0, <1>7 DEF Restart, Return, KeepsStarts
<1> QED BY <1>2, <1>3, <1>4, <1>5, <1>6, <1>7 DEF Outside
\* The start is recorded: ran and the status name the present minute.
LEMMA StartedRecord ==
  ASSUME TypeOK, TypeOK', StartedInv, RecordStart
  PROVE  StartedInv'
<1> DEFINE st == Started(mod.status, head)
           ended == [mod.status EXCEPT !.state = "Ended"]
<1>0. /\ object \in Module /\ mod \in Module /\ now \in Nat /\ now <= now
      /\ NoModule.status.startedAt = NoTime
  BY TypeParts, TypeNoModule
<1>1. /\ st \in Status /\ st.startedAt = now
      /\ [mod EXCEPT !.status = st].status = st
      /\ ended \in Status /\ ended.startedAt = mod.status.startedAt
  BY <1>0, TypeStarted, TypeFailed
<1>2. Patched(st).status.startedAt =
        IF now # cache.status.startedAt THEN now ELSE object.status.startedAt
  BY <1>1, Patching
<1>3. Patched(ended).status.startedAt \in {mod.status.startedAt, object.status.startedAt}
  BY <1>1, PatchedStart
<1>4. UNCHANGED <<cache, now, stale>>
  BY DEF RecordStart
<1>5. mod' \in {[mod EXCEPT !.status = st], NoModule}
  BY DEF RecordStart
<1>6. \/ object' = Patched(st) /\ ran' = [at |-> now, commit |-> head]
      \/ object' \in {object, Patched(ended)} /\ UNCHANGED ran /\ mod' = NoModule
  BY DEF RecordStart, PatchDone
<1> HIDE DEF st, ended
<1>7. CASE object' = Patched(st) /\ ran' = [at |-> now, commit |-> head]
  <2>1. ran'.at = now
    BY <1>7
  <2>2. /\ ran.at \in Nat /\ ran.at <= now
        /\ object.status.startedAt \in Nat /\ object.status.startedAt <= ran.at
        /\ cache.status.startedAt \in Nat /\ cache.status.startedAt <= ran.at
    BY DEF TypeOK, Module, Status, StartedInv
  <2>3. mod'.status.startedAt \in {now, NoTime}
    BY <1>0, <1>1, <1>5
  <2>4. object'.status.startedAt <= now
    BY <1>0, <1>2, <1>7, <2>2
  <2>5. ASSUME ~ stale' PROVE object'.status.startedAt \in {NoTime, now}
    <3>1. object.status.startedAt \in {NoTime, ran.at}
      BY <1>4, <2>5 DEF StartedInv
    <3>2. CASE now = cache.status.startedAt
      <4>1. ran.at = now
        BY <1>0, <2>2, <3>2
      <4> QED BY <1>2, <1>7, <3>1, <3>2, <4>1
    <3> QED BY <1>2, <1>7, <3>2
  <2>6. NoTime <= now /\ cache'.status.startedAt <= now /\ now' = now
    BY <1>0, <1>4, <2>2 DEF NoTime
  <2> QED BY <1>0, <2>1, <2>3, <2>4, <2>5, <2>6 DEF StartedInv
<1>8. CASE object' \in {object, Patched(ended)} /\ UNCHANGED ran /\ mod' = NoModule
  <2>1. KeepsStarts
    BY <1>0, <1>3, <1>4, <1>8 DEF KeepsStarts
  <2> QED BY <2>1, StartedKept
<1> QED BY <1>6, <1>7, <1>8

-----------------------------------------------------------------------------
(* What the timer of a resting module is good for.                         *)

LEMMA ScheduleStep ==
  ASSUME TypeOK, ScheduleInv, Next
  PROVE  ScheduleInv'
<1>1. CASE Read
  <2>1. UNCHANGED cache /\ (pc' \in {"inspect", "cases", "requeue"} => mod' = cache)
    BY <1>1 DEF Read, world
  <2> QED BY <2>1 DEF ScheduleInv
<1>2. CASE Inspect
  <2>1. UNCHANGED <<cache, queued>> /\ pc = "inspect"
    BY <1>2 DEF Inspect, Decide, Frame
  <2>2. pc' \in {"inspect", "cases", "requeue"} => mod'.schedule = mod.schedule
    BY <1>2, TypeParts DEF Inspect, BackAfterPoll, Return, Module
  <2> QED BY <2>1, <2>2 DEF ScheduleInv
<1>3. CASE RequestCase \/ CommitCase \/ ScheduleCase
  <2>1. pc' \in {"start", "idle"}
    BY <1>3 DEF RequestCase, CommitCase, ScheduleCase, TriggerRun, BackAfterPoll, Return
  <2> QED BY <2>1 DEF ScheduleInv
<1>4. CASE BeginRun \/ RecordStart \/ FinishRun \/ ReturnFromRun \/ Restart
  <2>1. pc' \in {"record", "return", "running", "idle"}
    BY <1>4 DEF BeginRun, RecordStart, FinishRun, EndRun, ReturnFromRun, Return, Restart
  <2> QED BY <2>1 DEF ScheduleInv
<1>5. CASE Deliver
  <2>1. UNCHANGED <<pc, mod>> /\ cache' = object
    BY <1>5 DEF Deliver, worker
  <2>2. ASSUME ~ queued' PROVE ~ queued /\ cache'.schedule = cache.schedule
    BY <1>5, <2>1, <2>2 DEF Deliver, Passes
  <2> QED BY <2>1, <2>2 DEF ScheduleInv
<1>6. CASE Fire
  BY <1>6 DEF Fire, ScheduleInv
<1>7. CASE Tick \/ EditSchedule \/ Request \/ Push \/ MarkPRRun \/ UnmarkPRRun
  <2>1. UNCHANGED <<pc, mod, cache, queued>>
    BY <1>7 DEF Tick, EditSchedule, Request, Push, MarkPRRun, UnmarkPRRun, world, queue, worker
  <2> QED BY <2>1 DEF ScheduleInv
<1>8. CASE NothingToDo
  <2>1. UNCHANGED <<cache, queued, mod>> /\ pc = "cases"
    BY <1>8 DEF NothingToDo, Frame
  <2> QED BY <2>1 DEF ScheduleInv
<1>9. CASE Requeue
  <2>1. pc' = "idle"
    BY <1>9 DEF Requeue, Return
  <2> QED BY <2>1 DEF ScheduleInv
<1> QED BY <1>1, <1>2, <1>3, <1>4, <1>5, <1>6, <1>7, <1>8, <1>9, Steps DEF Outside

\* Reconcile finds nothing to do: nothing was due since the last run, and nothing
\* is until the time it finds.
LEMMA NextRunBegins ==
  ASSUME ReconcilerInv, NothingToDo
  PROVE  NextRunInv'
<1> DEFINE since == Max({ran.at, CreatedAt})
           s == mod.schedule
           next == NextTime(s, now)
<1>1. /\ mod \in Module /\ now \in Nat /\ ran.at \in Nat /\ CreatedAt \in Nat
      /\ s \in Schedule /\ ran.at <= now
  BY ReconcilerAssumption DEF ReconcilerInv, TypeOK, Module, StartedInv
<1>2. /\ ~ ScheduleError(mod) /\ ~ Missed(mod)
      /\ nextRun' = next /\ UNCHANGED <<mod, ran>>
  BY DEF NothingToDo, Frame
<1>3. s.at # {}
  BY <1>2 DEF ScheduleError
<1>4. since \in Nat /\ since >= ran.at /\ since >= CreatedAt
  BY <1>1, GreaterNumber
<1>5. EarliestTime(mod) \in Nat /\ EarliestTime(mod) <= since
  <2>1. mod.status.startedAt \in Nat /\ mod.status.startedAt <= ran.at
    BY DEF ReconcilerInv, TypeOK, Module, Status, StartedInv
  <2> HIDE DEF since
  <2> QED BY <1>1, <1>4, <2>1 DEF EarliestTime
<1>6. ~ Due(s, since, now)
  <2>1. CASE EarliestTime(mod) > now
    <3> HIDE DEF since
    <3> QED BY <1>1, <1>4, <1>5, <2>1 DEF Due
  <2>2. CASE EarliestTime(mod) <= now
    <3>1. NextTime(s, EarliestTime(mod)) > now
      BY <1>1, <1>2, <1>3, <1>5, <2>2, NextTimeIsNext, ReconcilerAssumption DEF Missed
    <3>2. ~ Due(s, EarliestTime(mod), NextTime(s, EarliestTime(mod)) - 1)
      BY <1>1, <1>3, <1>5, NextTimeIsNext
    <3>3. NextTime(s, EarliestTime(mod)) \in Nat
      BY <1>1, <1>3, <1>5, NextTimeIsNext, ReconcilerAssumption
    <3> HIDE DEF since
    <3> QED BY <1>1, <1>4, <1>5, <3>1, <3>2, <3>3 DEF Due
  <2> QED BY <1>1, <1>5, <2>1, <2>2
<1>7. ~ Due(s, now, next - 1) /\ next \in Nat /\ next > now /\ next % Cycle \in s.at
  BY <1>1, <1>3, NextTimeIsNext, ReconcilerAssumption
<1>8. ~ Due(s, since, next - 1) /\ next > ran.at
  <2> HIDE DEF since, next
  <2> QED BY <1>1, <1>4, <1>6, <1>7 DEF Due
<1>9. Max({ran'.at, CreatedAt}) = since /\ mod'.schedule = s
  BY <1>2
<1> HIDE DEF since, next
<1>10. ~ Due(mod'.schedule, Max({ran'.at, CreatedAt}), nextRun' - 1)
  BY <1>2, <1>8, <1>9
<1> QED BY <1>2, <1>7, <1>8, <1>10 DEF NextRunInv, Due

LEMMA NextRunStep ==
  ASSUME ReconcilerInv, Next
  PROVE  NextRunInv'
<1>1. CASE NothingToDo
  BY <1>1, NextRunBegins
<1>2. CASE Work /\ ~ NothingToDo
  <2>1. pc' # "requeue" \/ UNCHANGED <<pc, mod, nextRun, ran>>
    BY <1>2 DEF Work, Read, Inspect, RequestCase, CommitCase, ScheduleCase, TriggerRun,
                BackAfterPoll, Return, Requeue, BeginRun, RecordStart, FinishRun, EndRun,
                ReturnFromRun
  <2> QED BY <2>1 DEF NextRunInv, ReconcilerInv, Due
<1>3. CASE Outside
  <2>1. pc' # "requeue" \/ UNCHANGED <<pc, mod, nextRun, ran>>
    BY <1>3 DEF Outside, Fire, Deliver, Tick, EditSchedule, Request, Push, MarkPRRun,
                UnmarkPRRun, Restart, Return, worker
  <2> QED BY <2>1 DEF NextRunInv, ReconcilerInv, Due
<1> QED BY <1>1, <1>2, <1>3 DEF Next, Outside

\* The second look at the clock: the timer is set to the time found at the latest,
\* or that time has come.
LEMMA RestBegins ==
  ASSUME ReconcilerInv, Requeue
  PROVE  RestInv'
<1>1. /\ now \in Nat /\ nextRun \in Nat /\ ran.at \in Nat /\ CreatedAt \in Nat
      /\ TypeOK
  BY ReconcilerAssumption DEF ReconcilerInv, TypeOK
<1>2. /\ pc = "requeue" /\ pc' = "idle" /\ UNCHANGED <<cache, queued, ran, now>>
  BY DEF Requeue, Return, Frame
<1>3. /\ nextRun % Cycle \in mod.schedule.at /\ nextRun > ran.at
      /\ ~ Due(mod.schedule, Max({ran.at, CreatedAt}), nextRun - 1)
  BY <1>2 DEF ReconcilerInv, NextRunInv
<1>4. ~ queued => mod.schedule = cache.schedule
  BY <1>2 DEF ReconcilerInv, ScheduleInv
<1>5. Max({ran.at, CreatedAt}) \in Nat
  BY <1>1, GreaterNumber
<1>6. ASSUME resting' = "timed", ~ queued
      PROVE  \E t \in timer' : ~ Due(cache.schedule, Max({ran.at, CreatedAt}), t - 1)
  <2>1. nextRun > now /\ RequeueAfter(NextLook)
    BY <1>6 DEF Requeue
  <2>2. NextLook \in Nat /\ now + NextLook <= nextRun
    BY <1>1, <2>1, LookIsSoon
  <2>3. PICK t \in Nat : timer' = {t} /\ t <= now + NextLook
    BY <1>1, <2>1, <2>2, Requeued
  <2>4. t <= nextRun
    BY <1>1, <2>2, <2>3
  <2>5. ~ Due(mod.schedule, Max({ran.at, CreatedAt}), t - 1)
    BY <1>1, <1>3, <1>5, <2>4 DEF Due
  <2> QED BY <1>4, <1>6, <2>3, <2>5
<1>7. ASSUME resting' = "forgotten", ~ queued
      PROVE  Due(cache.schedule, ran.at, now)
  <2>1. nextRun <= now
    BY <1>7 DEF Requeue
  <2>2. Due(mod.schedule, ran.at, now)
    BY <1>1, <1>3, <2>1 DEF Due
  <2> QED BY <1>4, <1>7, <2>2
<1> QED BY <1>2, <1>6, <1>7 DEF RestInv, Due

LEMMA RestStep ==
  ASSUME ReconcilerInv, Next
  PROVE  RestInv'
<1>1. CASE Read
  <2>1. resting' = "no"
    BY <1>1 DEF Read
  <2> QED BY <2>1 DEF RestInv
<1>2. CASE Requeue
  BY <1>2, RestBegins
<1>3. CASE Inspect \/ RequestCase \/ CommitCase \/ ScheduleCase \/ NothingToDo
  <2>1. resting = "no"
    BY <1>3 DEF Inspect, RequestCase, CommitCase, ScheduleCase, NothingToDo, ReconcilerInv,
                RestInv
  <2>2. resting' = resting
    BY <1>3 DEF Inspect, RequestCase, CommitCase, ScheduleCase, NothingToDo, TriggerRun,
                BackAfterPoll
  <2> QED BY <2>1, <2>2 DEF RestInv
<1>4. CASE BeginRun \/ RecordStart \/ FinishRun \/ ReturnFromRun
  <2>1. resting = "no"
    BY <1>4 DEF BeginRun, RecordStart, FinishRun, ReturnFromRun, ReconcilerInv, RestInv
  <2>2. resting' = resting
    BY <1>4 DEF BeginRun, RecordStart, FinishRun, ReturnFromRun
  <2> QED BY <2>1, <2>2 DEF RestInv
<1>5. CASE Fire \/ Restart
  <2>1. queued' /\ (resting' # "no" => resting # "no" /\ pc' = pc)
    BY <1>5 DEF Fire, Restart, worker
  <2> QED BY <2>1 DEF RestInv, ReconcilerInv
<1>6. CASE Deliver
  <2>1. UNCHANGED <<pc, resting, timer, ran, now>> /\ cache' = object
    BY <1>6 DEF Deliver, worker
  <2>2. ASSUME ~ queued' PROVE ~ queued /\ cache'.schedule = cache.schedule
    BY <1>6, <2>1, <2>2 DEF Deliver, Passes
  <2> QED BY <2>1, <2>2 DEF RestInv, ReconcilerInv, Due
<1>7. CASE Tick \/ EditSchedule \/ Request \/ Push \/ MarkPRRun \/ UnmarkPRRun
  <2>1. UNCHANGED <<pc, resting, timer, ran, cache, queued>> /\ now' \in {now, now + 1}
    BY <1>7 DEF Tick, EditSchedule, Request, Push, MarkPRRun, UnmarkPRRun, world, queue, worker
  <2>2. now \in Nat /\ ran.at \in Nat
    BY DEF ReconcilerInv, TypeOK
  <2>3. Due(cache.schedule, ran.at, now) => Due(cache.schedule, ran.at, now')
    BY <2>1, <2>2 DEF Due
  <2> QED BY <2>1, <2>3 DEF RestInv, ReconcilerInv, Due
<1> QED BY <1>1, <1>2, <1>3, <1>4, <1>5, <1>6, <1>7, Steps DEF Outside

-----------------------------------------------------------------------------
(* Theorems.                                                               *)

\* The strengthening all of the below follows from.
THEOREM ReconcilerInvariant == Spec => []ReconcilerInv
<1>1. Init => ReconcilerInv
  <2> SUFFICES ASSUME Init PROVE ReconcilerInv
    OBVIOUS
  <2>1. TypeOK
    BY TypeInit
  <2>2. PICK s \in Schedules : object = [NoModule EXCEPT !.schedule = s]
    BY DEF Init
  <2>3. object.status = NoModule.status
    BY <2>2, TypeNoModule DEF Module
  <2>4. \A m \in {object, cache, mod} : m.status.startedAt = NoTime
    BY <2>3, TypeNoModule DEF Init
  <2>5. ran.at = NoTime /\ now = 1
    BY DEF Init
  <2>6. StartedInv
    BY <2>4, <2>5 DEF StartedInv, NoTime
  <2> QED BY <2>1, <2>6 DEF Init, ReconcilerInv, ScheduleInv, NextRunInv, RestInv
<1>2. ReconcilerInv /\ [Next]_vars => ReconcilerInv'
  <2> SUFFICES ASSUME ReconcilerInv, [Next]_vars PROVE ReconcilerInv'
    OBVIOUS
  <2>1. CASE UNCHANGED vars
    <3>1. TypeOK'
      BY <2>1, TypeStutter DEF ReconcilerInv
    <3>2. StartedInv' /\ ScheduleInv'
      BY <2>1 DEF vars, world, queue, worker, ReconcilerInv, StartedInv, ScheduleInv
    <3>3. NextRunInv' /\ RestInv'
      BY <2>1 DEF vars, world, queue, worker, ReconcilerInv, NextRunInv, RestInv, Due
    <3> QED BY <3>1, <3>2, <3>3 DEF ReconcilerInv
  <2>2. CASE Next
    <3>1. TypeOK /\ StartedInv /\ ScheduleInv
      BY DEF ReconcilerInv
    <3>2. TypeOK'
      BY <2>2, <3>1, Steps, TypeReconcile, TypeRun, TypeOutside
    <3>3. StartedInv'
      BY <2>2, <3>1, <3>2, Steps, StartedKept, StartedReconcile, StartedOutside, StartedRecord
    <3> QED BY <2>2, <3>1, <3>2, <3>3, ScheduleStep, NextRunStep, RestStep DEF ReconcilerInv
  <2> QED BY <2>1, <2>2
<1> QED BY <1>1, <1>2, PTL DEF Spec

\* A module that rests has a timer no later than the next time of its schedule,
\* or has none because such a time came between the two looks at the clock.
THEOREM RestMissesNothing == Spec => []RestIsNotDue
<1>1. ReconcilerInv => RestIsNotDue
  <2> SUFFICES ASSUME ReconcilerInv, resting = "timed", ~ queued
               PROVE  /\ timer # {}
                      /\ (\A t \in timer : now < t)
                           => ~ Due(cache.schedule, Max({ran.at, CreatedAt}), now)
    BY DEF RestIsNotDue, ReconcilerInv, RestInv
  <2>1. PICK t \in timer : ~ Due(cache.schedule, Max({ran.at, CreatedAt}), t - 1)
    BY DEF ReconcilerInv, RestInv
  <2>2. t \in Nat /\ now \in Nat
    BY TypeParts DEF ReconcilerInv
  <2>3. Max({ran.at, CreatedAt}) \in Nat
    BY TypeParts, GreaterNumber, ReconcilerAssumption DEF ReconcilerInv
  <2>4. ASSUME now < t PROVE ~ Due(cache.schedule, Max({ran.at, CreatedAt}), now)
    <3> DEFINE since == Max({ran.at, CreatedAt})
    <3>1. now \in Nat /\ t \in Nat /\ since \in Nat /\ now <= t - 1
      BY <2>2, <2>3, <2>4
    <3>2. ~ Due(cache.schedule, since, t - 1)
      BY <2>1
    <3> HIDE DEF since
    <3>3. ~ Due(cache.schedule, since, now)
      BY <3>1, <3>2 DEF Due
    <3> QED BY <3>3 DEF since
  <2> QED BY <2>1, <2>4
<1> QED BY <1>1, ReconcilerInvariant, PTL

\* A scheduled run is made because a time of the schedule has passed since the
\* last recorded run, or since the creation when a failure has reset the status,
\* unless a status once read was out of date.
THEOREM ScheduledRunsAreDue == Spec => ScheduledRunIsDue
<1> DEFINE Reason == kind' = "Scheduled" /\ kind # "Scheduled" =>
                       \/ mod.status.startedAt = NoTime /\ Due(mod.schedule, CreatedAt, now)
                       \/ stale
                       \/ Due(mod.schedule, ran.at, now)
<1>1. ReconcilerInv /\ [Next]_vars => [Reason]_vars
  <2> SUFFICES ASSUME ReconcilerInv, Next, kind' = "Scheduled", kind # "Scheduled", ~ stale
               PROVE  \/ mod.status.startedAt = NoTime /\ Due(mod.schedule, CreatedAt, now)
                      \/ Due(mod.schedule, ran.at, now)
    OBVIOUS
  <2>1. ScheduleCase
    BY Steps DEF Read, Inspect, RequestCase, CommitCase, TriggerRun, BackAfterPoll, Return,
                 NothingToDo, Requeue, BeginRun, RecordStart, FinishRun, ReturnFromRun, Outside, Fire, Deliver, Tick,
                 EditSchedule, Request, Push, MarkPRRun, UnmarkPRRun, Restart, worker
  <2>2. mod.schedule.at # {} /\ Missed(mod)
    BY <2>1 DEF ScheduleCase, BackAfterPoll, TriggerRun, Return, ScheduleError
  <2>3. /\ now \in Nat /\ mod.schedule \in Schedule /\ ran.at \in Nat /\ CreatedAt \in Nat
        /\ mod.status.startedAt \in {NoTime, ran.at}
    BY ReconcilerAssumption DEF ReconcilerInv, TypeOK, Module, StartedInv
  <2>4. ASSUME NEW e \in Nat, NextTime(mod.schedule, e) <= now
        PROVE  Due(mod.schedule, e, now)
    <3>1. NextTime(mod.schedule, e) \in e + 1 .. e + Cycle
          /\ NextTime(mod.schedule, e) % Cycle \in mod.schedule.at
      BY <2>2, <2>3, NextTimeIsNext
    <3> QED BY <2>3, <2>4, <3>1, ReconcilerAssumption DEF Due
  <2>5. NextTime(mod.schedule, EarliestTime(mod)) <= now
    BY <2>2 DEF Missed
  <2> QED BY <2>3, <2>4, <2>5 DEF EarliestTime
<1> QED BY <1>1, ReconcilerInvariant, PTL DEF Spec, ScheduledRunIsDue
=============================================================================
