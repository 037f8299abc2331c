---------------------------- MODULE RunRequests ----------------------------
(***************************************************************************)
(* The run-request annotation of one module: force-run handlers of the web *)
(* server add requests, the reconciler hands them to runs and removes      *)
(* them, others overwrite them (the trigger-run action, kubectl).          *)
(*                                                                         *)
(* Reads come from the manager's cache, which lags; writes are updates     *)
(* that the API server refuses when the version read is no longer current  *)
(* and that are tried again (sysutil/k8s_req_api.go, k8s_api.go).          *)
(***************************************************************************)
EXTENDS Naturals, Sequences, RunRequest

CONSTANTS Handlers,    \* force-run requests being served at a time
          Reconciler,  \* the worker of the module, and the runs it makes
          Specs,       \* the values spec.planOnly/autoApply take
          ForceTypes,  \* request types the web page offers
          OtherTypes,  \* request types written by others
          MaxTries,    \* attempts of CallWithBackOff
          MaxRequests, \* bound: requests submitted
          MaxClock,    \* bound: seconds between the first request and the last
          MaxLag,      \* bound: updates the cache is behind
          MaxEvents,   \* bound: spec edits and PR runs of the module
          MaxFailures  \* bound: lost replies, failed calls, crashes

ASSUME RequestsAssumption ==
  /\ Reconciler \notin Handlers
  /\ Specs \subseteq ModuleSpec /\ Specs # {}
  /\ ForceTypes \subseteq {ForcedPlan, ForcedApply}
  /\ OtherTypes \subseteq {ForcedPlan, ForcedApply, "garbage"}
  /\ MaxTries \in Nat \ {0} /\ MaxRequests \in Nat /\ MaxClock \in Nat
  /\ MaxLag \in Nat /\ MaxEvents \in Nat
  /\ MaxFailures \in Nat

R == Reconciler
Actors == Handlers \cup {R}

VARIABLES
  object,   \* the module in the API server: its annotation and spec
  feed,     \* updates of it the cache has yet to receive
  cache,    \* the manager's copy, which every read returns
  clock,    \* the second of the latest request
  queued,   \* the module is in the work queue
  prRun,    \* a PR run has marked the module in RunStatus
  pc,       \* where each actor is
  copy,     \* the module an actor has read
  current,  \* that copy has the version the API server holds
  work,     \* the request an actor adds, runs or removes
  tries,    \* failed attempts of the present call
  answer,   \* what a handler replied last
  seen,     \* history: requests the annotation held
  taken,    \* history: requests given to Start
  issued, events, failures \* counters for the bounds

server  == <<object, feed, cache, seen>>
actor   == <<pc, copy, current, work, tries>>
counts  == <<clock, issued, events, failures>>
vars    == <<server, actor, queued, prRun, answer, taken, counts>>

Object == [slot : Request \cup {Absent}, spec : ModuleSpec]
NoCopy == [slot |-> Absent,
           spec |-> [planOnly |-> "unset", autoApply |-> "unset"]]

Pending(obj) == IsPending(obj.slot, obj.spec)

Init ==
  /\ \E s \in Specs : object = [slot |-> Absent, spec |-> s]
  /\ cache = object /\ feed = <<>>
  /\ clock = 0 /\ queued = TRUE /\ prRun = FALSE
  /\ pc = [a \in Actors |-> "idle"]
  /\ copy = [a \in Actors |-> NoCopy]
  /\ current = [a \in Actors |-> FALSE]
  /\ work = [a \in Actors |-> Absent]
  /\ tries = [a \in Actors |-> 0]
  /\ answer = [h \in Handlers |-> ""]
  /\ seen = {} /\ taken = {}
  /\ issued = 0 /\ events = 0 /\ failures = 0

-----------------------------------------------------------------------------
(* The API server and the cache.                                           *)

Goto(a, label) == pc' = [pc EXCEPT ![a] = label]

\* GetModule: whatever the cache holds.
Read(a) ==
  /\ copy' = [copy EXCEPT ![a] = cache]
  /\ current' = [current EXCEPT ![a] = feed = <<>>]

\* A write: every copy made before is out of date.
Write(obj) ==
  /\ Len(feed) < MaxLag
  /\ object' = obj
  /\ feed' = Append(feed, obj)
  /\ seen' = seen \cup ({obj.slot} \ {Absent})
  /\ current' = [a \in Actors |-> FALSE]

NoWrite(a) ==
  /\ current' = [current EXCEPT ![a] = FALSE]
  /\ UNCHANGED <<object, feed, seen>>

Failure == failures < MaxFailures /\ failures' = failures + 1

\* The cache gets an update.  Filter.Update: the module is queued when its
\* generation or its annotation has changed, not for its status.
Deliver ==
  /\ feed # <<>>
  /\ cache' = Head(feed)
  /\ feed' = Tail(feed)
  /\ queued' = (queued \/ cache' # cache)
  /\ UNCHANGED <<object, seen, actor, prRun, answer, taken, counts>>

\* A step after which the actor does not use what it has read again.
Leave(a, label) == Goto(a, label) /\ copy' = [copy EXCEPT ![a] = NoCopy]

\* The end of a call.
Return(a) ==
  /\ Leave(a, "idle")
  /\ tries' = [tries EXCEPT ![a] = 0]

\* CallWithBackOff after a retriable error: read again, or give up.  That the
\* reconciler gives up counts as a failure; with those used up its retries last
\* until the cache has caught up.
TryAgain(a, label) ==
  /\ tries[a] + 1 < MaxTries \/ (a = R /\ failures = MaxFailures)
  /\ tries' = [tries EXCEPT ![a] = IF @ + 1 < MaxTries THEN @ + 1 ELSE @]
  /\ Leave(a, label)
  /\ UNCHANGED work
LastTry(a) == tries[a] + 1 = MaxTries

-----------------------------------------------------------------------------
(* ForceRunHandler.ServeHTTP and EnsureRequest.                            *)

FetchForForce(h) ==
  /\ pc[h] = "idle" /\ issued < MaxRequests
  /\ Read(h)
  /\ Goto(h, "check")
  /\ UNCHANGED <<server, work, tries, queued, prRun, answer, taken, counts>>

\* ServeHTTP answers; of an accepted request the handler keeps what it was.
Reply(h, text) ==
  /\ Return(h)
  /\ answer' = [answer EXCEPT ![h] = text]
  /\ work' = [work EXCEPT ![h] = IF text = "queued" THEN @ ELSE Absent]

\* A new request, with the time of now.
Issue ==
  /\ issued < MaxRequests /\ issued' = issued + 1
  /\ clock' \in clock..MaxClock

Running == prRun \/ pc[R] = "run"

\* Refused while the module runs, or when it is locked; otherwise a new
\* request with the time of now, which is not a whole second.
CheckForce(h) ==
  /\ pc[h] = "check"
  /\ \E t \in ForceTypes :
       LET refused == Running \/ (t = ForcedApply /\ IsPlanOnly(copy[h].spec))
       IN  \/ /\ refused /\ Reply(h, "refused")
              /\ UNCHANGED <<clock, issued>>
           \/ /\ ~ refused /\ Issue
              /\ work' = [work EXCEPT ![h] =
                   [id |-> issued', sec |-> clock', whole |-> FALSE,
                    type |-> t, from |-> "web"]]
              /\ answer' = [answer EXCEPT ![h] = ""]
              /\ Leave(h, "read")
              /\ UNCHANGED tries
  /\ current' = [current EXCEPT ![h] = FALSE]
  /\ UNCHANGED <<server, queued, prRun, taken, events, failures>>

\* EnsureRequest: the module is read on every try; a valid request in it is
\* either this one or another one.
EnsureRead(h) ==
  /\ pc[h] = "read"
  /\ \/ /\ Pending(cache)
        /\ Reply(h, IF SameTime(work[h], cache.slot) THEN "queued" ELSE "exists")
        /\ current' = [current EXCEPT ![h] = FALSE]
     \/ ~ Pending(cache) /\ Read(h) /\ Goto(h, "write") /\ UNCHANGED <<tries, work, answer>>
     \/ \* the client has gone
        Reply(h, "error") /\ current' = [current EXCEPT ![h] = FALSE]
  /\ UNCHANGED <<server, queued, prRun, taken, counts>>

EnsureWrite(h) ==
  /\ pc[h] = "write"
  /\ LET stored == Write([copy[h] EXCEPT !.slot = Marshal(work[h])])
         again == TryAgain(h, "read") /\ UNCHANGED answer
         error == Reply(h, "error")
     IN  \/ \* conflict
            /\ ~ current[h] /\ NoWrite(h)
            /\ again \/ (LastTry(h) /\ error)
            /\ UNCHANGED failures
         \/ /\ current[h] /\ stored
            /\ Reply(h, "queued") /\ UNCHANGED failures
         \/ \* the call times out or fails, with or without effect
            /\ Failure
            /\ NoWrite(h) \/ (current[h] /\ stored)
            /\ again \/ error
  /\ UNCHANGED <<cache, queued, prRun, taken, clock, issued, events>>

-----------------------------------------------------------------------------
(* Others: the trigger-run action and kubectl, which do not look at what   *)
(* they replace, spec edits, PR runs.                                      *)

OverwriteRequest ==
  /\ Issue
  /\ \E t \in OtherTypes :
       Write([object EXCEPT !.slot =
         [id |-> issued', sec |-> clock', whole |-> TRUE,
          type |-> t, from |-> "outside"]])
  /\ UNCHANGED <<cache, pc, copy, work, tries, queued, prRun, answer, taken,
                 events, failures>>

EditSpec ==
  /\ events < MaxEvents /\ events' = events + 1
  /\ \E s \in Specs : s # object.spec /\ Write([object EXCEPT !.spec = s])
  /\ UNCHANGED <<cache, pc, copy, work, tries, queued, prRun, answer, taken,
                 clock, issued, failures>>

MarkPRRun ==
  /\ ~ Running /\ events < MaxEvents
  /\ prRun' = TRUE /\ events' = events + 1
  /\ UNCHANGED <<server, actor, queued, answer, taken, clock, issued, failures>>
UnmarkPRRun ==
  /\ prRun /\ prRun' = FALSE
  /\ UNCHANGED <<server, actor, queued, answer, taken, counts>>

-----------------------------------------------------------------------------
(* Reconcile, as far as requests go.  Every way out of it asks for the     *)
(* module to be queued again after its poll interval.                      *)

Poll ==
  /\ pc[R] = "idle" /\ ~ queued /\ queued' = TRUE
  /\ UNCHANGED <<server, actor, prRun, answer, taken, counts>>

ReadModule ==
  /\ pc[R] = "idle" /\ queued /\ queued' = FALSE
  /\ Read(R) /\ Goto(R, "inspect")
  /\ UNCHANGED <<server, work, tries, prRun, answer, taken, counts>>

\* The run in progress is left alone; an invalid request is removed, a valid
\* one is run; without one there may be another reason to run the module.
Inspect ==
  /\ pc[R] = "inspect"
  /\ \/ /\ prRun \/ copy[R].slot = Absent
        /\ Return(R) /\ UNCHANGED <<work, taken>>
     \/ /\ ~ prRun /\ copy[R].slot = Absent
        /\ Leave(R, "start") /\ UNCHANGED <<tries, work, taken>>
     \/ /\ ~ prRun /\ copy[R].slot # Absent /\ ~ Pending(copy[R])
        /\ Leave(R, "dropRead") /\ UNCHANGED <<tries, work, taken>>
     \/ /\ ~ prRun /\ Pending(copy[R])
        /\ work' = [work EXCEPT ![R] = copy[R].slot]
        /\ taken' = taken \cup {copy[R].slot}
        /\ Leave(R, "start") /\ UNCHANGED tries
  /\ current' = [current EXCEPT ![R] = FALSE]
  /\ UNCHANGED <<server, queued, prRun, answer, counts>>

\* (Bug: an early return of Start leaves the request.)
EndStartKeep == Return(R)

\* Start's deferred call: requests that came from the annotation are removed.
EndStart ==
  IF work[R] = Absent THEN Return(R)
                      ELSE Goto(R, "read") /\ UNCHANGED <<copy, tries>>

\* Start reads the module again and validates the request against it.
StartRun ==
  /\ pc[R] = "start"
  /\ \/ Failure /\ EndStart
     \/ /\ work[R] # Absent /\ ~ IsPending(work[R], cache.spec)
        /\ EndStart /\ UNCHANGED failures
     \/ /\ work[R] = Absent \/ IsPending(work[R], cache.spec)
        /\ Goto(R, "load") /\ UNCHANGED <<copy, tries, failures>>
  /\ UNCHANGED <<server, current, work, queued, prRun, answer, taken,
                 clock, issued, events>>

\* process: nothing is done when the module has been marked meanwhile.  What
\* may happen between the check and the mark is in module Runner.
Mark ==
  /\ pc[R] = "load"
  /\ IF prRun THEN EndStart ELSE Goto(R, "run") /\ UNCHANGED <<copy, tries>>
  /\ UNCHANGED <<server, current, work, queued, prRun, answer, taken, counts>>

\* The run, or Reconcile, patches the status: a new version of the module.
StatusPatch ==
  /\ pc[R] \in {"inspect", "run"}
  /\ Write(object)
  /\ UNCHANGED <<cache, pc, copy, work, tries, queued, prRun, answer, taken, counts>>

FinishRun ==
  /\ pc[R] = "run" /\ EndStart
  /\ UNCHANGED <<server, current, work, queued, prRun, answer, taken, counts>>

-----------------------------------------------------------------------------
(* RemoveRequest, by the run, and RemoveCurrentRequest, by Reconcile.      *)

Forget == work' = [work EXCEPT ![R] = Absent]

\* Nothing to remove, another request, or this one (or an invalid one).
RemoveRead ==
  /\ pc[R] = "read"
  /\ IF cache.slot = Absent \/ (Pending(cache) /\ ~ SameTime(work[R], cache.slot))
       THEN Return(R) /\ Forget /\ current' = [current EXCEPT ![R] = FALSE]
       ELSE Read(R) /\ Goto(R, "write") /\ UNCHANGED <<tries, work>>
  /\ UNCHANGED <<server, queued, prRun, answer, taken, counts>>

DropRead ==
  /\ pc[R] = "dropRead"
  /\ IF cache.slot = Absent
       THEN Goto(R, "report") /\ UNCHANGED <<copy, current>>
       ELSE Read(R) /\ Goto(R, "dropWrite")
  /\ UNCHANGED <<server, work, tries, queued, prRun, answer, taken, counts>>

\* (Bug: a patch in place of the update, whatever the version.)
DeleteAnyVersion(again, done) ==
  /\ Write([object EXCEPT !.slot = Absent])
  /\ done /\ UNCHANGED failures

\* The update that deletes the annotation.
DeleteAnnotation(again, done) ==
  LET deleted == Write([copy[R] EXCEPT !.slot = Absent])
  IN  \/ \* conflict
         /\ ~ current[R] /\ NoWrite(R)
         /\ \/ again /\ UNCHANGED failures
            \/ LastTry(R) /\ Failure /\ done
      \/ current[R] /\ deleted /\ done /\ UNCHANGED failures
      \/ \* the call times out or fails, with or without effect
         /\ Failure
         /\ NoWrite(R) \/ (current[R] /\ deleted)
         /\ again \/ done

RemoveWrite ==
  /\ pc[R] = "write"
  /\ DeleteAnnotation(TryAgain(R, "read"), Return(R) /\ Forget)
  /\ UNCHANGED <<cache, queued, prRun, answer, taken, clock, issued, events>>

DropWrite ==
  /\ pc[R] = "dropWrite"
  /\ DeleteAnnotation(TryAgain(R, "dropRead"),
                      Leave(R, "report") /\ UNCHANGED <<tries, work>>)
  /\ UNCHANGED <<cache, queued, prRun, answer, taken, clock, issued, events>>

\* setFailedStatus: the status says InvalidRequest, if it can be patched.
ReportInvalid ==
  /\ pc[R] = "report"
  /\ Return(R)
  /\ \/ Write(object) /\ UNCHANGED failures
     \/ Failure /\ NoWrite(R)
  /\ UNCHANGED <<cache, work, queued, prRun, answer, taken, clock, issued, events>>

-----------------------------------------------------------------------------
\* The process ends: calls are cut off, the cache and the queue are filled anew.
Crash ==
  /\ Failure
  /\ cache' = object /\ feed' = <<>> /\ queued' = TRUE /\ prRun' = FALSE
  /\ pc' = [a \in Actors |-> "idle"]
  /\ copy' = [a \in Actors |-> NoCopy]
  /\ current' = [a \in Actors |-> FALSE]
  /\ work' = [a \in Actors |-> IF pc[a] = "idle" THEN work[a] ELSE Absent]
  /\ tries' = [a \in Actors |-> 0]
  /\ answer' = [h \in Handlers |-> IF pc[h] = "idle" THEN answer[h] ELSE "error"]
  /\ UNCHANGED <<object, seen, taken, clock, issued, events>>

Handle(h) == FetchForForce(h) \/ CheckForce(h) \/ EnsureRead(h) \/ EnsureWrite(h)

Reconcile ==
  \/ ReadModule \/ Inspect \/ StartRun \/ Mark \/ FinishRun
  \/ RemoveRead \/ RemoveWrite \/ DropRead \/ DropWrite \/ ReportInvalid

Next ==
  \/ \E h \in Handlers : Handle(h)
  \/ Reconcile \/ StatusPatch \/ Poll \/ Deliver
  \/ OverwriteRequest \/ EditSpec \/ MarkPRRun \/ UnmarkPRRun
  \/ Crash

Spec == Init /\ [][Next]_vars

\* The worker and the watch go on, the queue returns to the module, a PR run
\* ends.  Nothing is assumed of handlers, users and faults.
Fairness ==
  /\ WF_vars(Reconcile) /\ WF_vars(Poll) /\ WF_vars(Deliver) /\ WF_vars(UnmarkPRRun)

FairSpec == Spec /\ Fairness

-----------------------------------------------------------------------------
Label == {"idle", "check", "read", "write", "inspect", "start", "load", "run",
          "dropRead", "dropWrite", "report"}

\* Every variable has its type.
TypeOK ==
  /\ object \in Object /\ cache \in Object /\ feed \in Seq(Object)
  /\ clock \in Nat /\ queued \in BOOLEAN /\ prRun \in BOOLEAN
  /\ pc \in [Actors -> Label]
  /\ copy \in [Actors -> Object] /\ current \in [Actors -> BOOLEAN]
  /\ work \in [Actors -> Request \cup {Absent}] /\ tries \in [Actors -> Nat]
  /\ answer \in [Handlers -> {"", "queued", "exists", "refused", "error"}]
  /\ seen \subseteq Request /\ taken \subseteq Request
  /\ issued \in Nat /\ events \in Nat /\ failures \in Nat

\* With cached reads, conflicts and lost replies the annotation is still the
\* atomic slot of RequestSlot.
Slot == INSTANCE RequestSlot WITH
  slot <- object.slot, spec <- object.spec,
  discarding <- pc[R] \in {"dropRead", "dropWrite"}
ImplementsSlot == Slot!SlotSpec

\* A user who was told "Run queued" (ServeHTTP) has had this very request in
\* the annotation, at whatever try it got there.
QueuedRequestWasWritten ==
  \A h \in Handlers : answer[h] = "queued" => Marshal(work[h]) \in seen

\* As long as no call fails, Reconcile gives a request to a second run only
\* when it has been removed already and the cache does not know: Start's
\* removal does not miss a request that is still there.
SecondRunMeansStaleRead ==
  [][(pc[R] = "inspect" /\ work'[R] # work[R] /\ work'[R] \in taken)
       => (failures > 0 \/ object.slot # work'[R])]_vars

\* Every request leaves the annotation, run or discarded or replaced: no
\* interleaving with handlers, status patches and PR runs keeps it for ever.
RequestIsServed ==
  \A n \in 1..MaxRequests : (object.slot.id = n) ~> (object.slot.id # n)
=============================================================================
