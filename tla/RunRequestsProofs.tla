------------------------- MODULE RunRequestsProofs -------------------------
(***************************************************************************)
(* What holds of RunRequests for every set of handlers, every set of specs *)
(* and every bound: above all, that it implements RequestSlot.             *)
(***************************************************************************)
EXTENDS RunRequests, SequenceTheorems, TLAPS

-----------------------------------------------------------------------------
(* The inductive invariant.                                                *)

\* The last update the API server sent; the cache holds it once all arrived.
Newest == IF feed = <<>> THEN cache ELSE feed[Len(feed)]

\* Optimistic concurrency: a copy whose version is current is the object.
Versions ==
  /\ Newest = object
  /\ \A a \in Actors : current[a] => copy[a] = object

\* Everything read, cached or under way was in the annotation once.
Known(s) == s \in seen \cup {Absent}
History ==
  /\ \A r \in seen : r.whole
  /\ Known(object.slot) /\ Known(cache.slot)
  /\ \A i \in 1..Len(feed) : Known(feed[i].slot)
  /\ \A a \in Actors : Known(copy[a].slot)

\* What a handler that is about to write has established.
HandlerInv(h) ==
  /\ pc[h] \in {"read", "write"} =>
       work[h] \in Request /\ work[h].from = "web" /\ ~ work[h].whole
  /\ pc[h] = "write" => ~ Pending(copy[h])
  /\ answer[h] = "queued" => Marshal(work[h]) \in seen

\* What the reconciler has established before it removes a request.
ReconcilerInv ==
  /\ pc[R] \in {"start", "load", "run"} => ~ current[R]
  /\ work[R] \in taken \cup {Absent}
  /\ pc[R] \in {"read", "write"} => work[R] \in taken
  /\ pc[R] = "write" /\ Pending(copy[R]) => copy[R].slot.sec = work[R].sec
  /\ pc[R] \in {"dropRead", "dropWrite"} => seen # {}

RequestsInv ==
  /\ TypeOK /\ Versions /\ History /\ ReconcilerInv
  /\ \A h \in Handlers : HandlerInv(h)

-----------------------------------------------------------------------------
(* Data.                                                                   *)

\* Handlers and the reconciler are actors, and different ones.
LEMMA ActorsDiffer == R \in Actors /\ \A h \in Handlers : h \in Actors /\ h # R
  BY RequestsAssumption DEF Actors, R

LEMMA NoCopyTyped == NoCopy \in Object /\ NoCopy.slot = Absent
  BY DEF NoCopy, Object, ModuleSpec, OptBool

LEMMA AbsentIsNoRequest ==
  /\ Absent \notin Request
  /\ \A s : ~ IsPending(Absent, s)
  BY DEF Absent, Request, RequestType, IsPending, Valid, ScheduledRun, PollingRun,
         ForcedPlan, ForcedApply, PRPlan

LEMMA MarshalTyped ==
  ASSUME NEW r \in Request
  PROVE  /\ Marshal(r) \in Request /\ Marshal(r) # Absent
         /\ Marshal(r).whole /\ Marshal(r).from = r.from
<1>1. Marshal(r) \in Request /\ Marshal(r).whole /\ Marshal(r).from = r.from
  BY DEF Marshal, Request
<1> QED BY <1>1, AbsentIsNoRequest

LEMMA MarshalAbsent == Marshal(Absent) = Absent
<1>1. Marshal(Absent) = [[id |-> 0, sec |-> 0, whole |-> TRUE, type |-> "",
                          from |-> "outside"] EXCEPT !.whole = TRUE]
  BY DEF Marshal, Absent
<1> QED BY <1>1 DEF Absent

LEMMA ObjectUpdates ==
  ASSUME NEW obj \in Object
  PROVE  /\ \A r \in Request \cup {Absent} :
              /\ [obj EXCEPT !.slot = r] \in Object
              /\ [obj EXCEPT !.slot = r].slot = r
              /\ [obj EXCEPT !.slot = r].spec = obj.spec
         /\ \A s \in Specs :
              /\ [obj EXCEPT !.spec = s] \in Object
              /\ [obj EXCEPT !.spec = s].slot = obj.slot
              /\ [obj EXCEPT !.spec = s].spec = s
  BY RequestsAssumption DEF Object

LEMMA TypeInit == Init => TypeOK
<1> SUFFICES ASSUME Init PROVE TypeOK
  OBVIOUS
<1>1. PICK s \in Specs : object = [slot |-> Absent, spec |-> s]
  BY DEF Init
<1>2. /\ object \in Object /\ cache \in Object
      /\ copy \in [Actors -> Object] /\ feed \in Seq(Object)
  <2>1. object \in Object
    BY <1>1, RequestsAssumption DEF Object
  <2>2. cache = object /\ feed = <<>> /\ copy = [a \in Actors |-> NoCopy]
    BY DEF Init
  <2> QED BY <2>1, <2>2, NoCopyTyped
<1>3. /\ pc \in [Actors -> Label] /\ current \in [Actors -> BOOLEAN]
      /\ work \in [Actors -> Request \cup {Absent}] /\ tries \in [Actors -> Nat]
      /\ answer \in [Handlers -> {"", "queued", "exists", "refused", "error"}]
  BY DEF Init, Label
<1>4. /\ clock \in Nat /\ queued \in BOOLEAN /\ prRun \in BOOLEAN
      /\ seen \subseteq Request /\ taken \subseteq Request
      /\ issued \in Nat /\ events \in Nat /\ failures \in Nat
  BY DEF Init
<1> QED BY <1>2, <1>3, <1>4 DEF TypeOK

\* The parts of a step.
LEMMA WriteTyped ==
  ASSUME TypeOK, NEW obj \in Object, Write(obj)
  PROVE  /\ object' \in Object /\ feed' \in Seq(Object) /\ seen' \subseteq Request
         /\ current' \in [Actors -> BOOLEAN]
<1>1. obj.slot \in Request \cup {Absent}
  BY DEF Object
<1>2. feed \in Seq(Object) /\ seen \subseteq Request
  BY DEF TypeOK
<1> QED BY <1>1, <1>2 DEF Write

LEMMA LeaveTyped ==
  ASSUME TypeOK, NEW a \in Actors, NEW l \in Label, Leave(a, l)
  PROVE  pc' \in [Actors -> Label] /\ copy' \in [Actors -> Object]
<1>1. pc \in [Actors -> Label] /\ copy \in [Actors -> Object]
  BY DEF TypeOK
<1> QED BY <1>1, NoCopyTyped DEF Leave, Goto

LEMMA ReturnTyped ==
  ASSUME TypeOK, NEW a \in Actors, Return(a)
  PROVE  /\ pc' \in [Actors -> Label] /\ copy' \in [Actors -> Object]
         /\ tries' \in [Actors -> Nat]
<1>1. tries \in [Actors -> Nat] /\ "idle" \in Label
  BY DEF TypeOK, Label
<1> QED BY <1>1, LeaveTyped DEF Return

LEMMA ReadTyped ==
  ASSUME TypeOK, NEW a \in Actors, Read(a)
  PROVE  copy' \in [Actors -> Object] /\ current' \in [Actors -> BOOLEAN]
<1>1. /\ copy \in [Actors -> Object] /\ current \in [Actors -> BOOLEAN]
      /\ cache \in Object
  BY DEF TypeOK
<1> QED BY <1>1 DEF Read

LEMMA NoWriteTyped ==
  ASSUME TypeOK, NEW a \in Actors, NoWrite(a)
  PROVE  /\ object' \in Object /\ feed' \in Seq(Object) /\ seen' \subseteq Request
         /\ current' \in [Actors -> BOOLEAN]
  BY DEF TypeOK, NoWrite

LEMMA TryAgainTyped ==
  ASSUME TypeOK, NEW a \in Actors, NEW l \in Label, TryAgain(a, l)
  PROVE  /\ pc' \in [Actors -> Label] /\ copy' \in [Actors -> Object]
         /\ tries' \in [Actors -> Nat] /\ work' \in [Actors -> Request \cup {Absent}]
<1>1. /\ tries \in [Actors -> Nat] /\ work \in [Actors -> Request \cup {Absent}]
  BY DEF TypeOK
<1>2. tries' \in [Actors -> Nat] /\ work' = work
  BY <1>1 DEF TryAgain
<1> QED BY <1>1, <1>2, LeaveTyped DEF TryAgain

LEMMA ReplyTyped ==
  ASSUME TypeOK, NEW h \in Handlers,
         NEW text \in {"queued", "exists", "refused", "error"}, Reply(h, text)
  PROVE  /\ pc' \in [Actors -> Label] /\ copy' \in [Actors -> Object]
         /\ tries' \in [Actors -> Nat] /\ work' \in [Actors -> Request \cup {Absent}]
         /\ answer' \in [Handlers -> {"", "queued", "exists", "refused", "error"}]
<1>1. /\ answer \in [Handlers -> {"", "queued", "exists", "refused", "error"}]
      /\ work \in [Actors -> Request \cup {Absent}]
  BY DEF TypeOK
<1>2. /\ answer' \in [Handlers -> {"", "queued", "exists", "refused", "error"}]
      /\ work' \in [Actors -> Request \cup {Absent}]
  BY <1>1, ActorsDiffer DEF Reply
<1> QED BY <1>2, ReturnTyped, ActorsDiffer DEF Reply

LEMMA IssueTyped ==
  ASSUME TypeOK, Issue
  PROVE  issued' \in Nat /\ clock' \in Nat
<1>1. issued \in Nat /\ clock \in Nat /\ MaxClock \in Nat
  BY RequestsAssumption DEF TypeOK
<1> QED BY <1>1 DEF Issue

-----------------------------------------------------------------------------
(* Type correctness.                                                       *)

LEMMA TypeHandle == ASSUME TypeOK, NEW h \in Handlers, Handle(h) PROVE TypeOK'
<1> USE ActorsDiffer
<1>1. CASE FetchForForce(h)
  <2>1. pc' \in [Actors -> Label]
    BY <1>1 DEF FetchForForce, Goto, TypeOK, Label
  <2>2. copy' \in [Actors -> Object] /\ current' \in [Actors -> BOOLEAN]
    BY <1>1, ReadTyped DEF FetchForForce
  <2> QED BY <1>1, <2>1, <2>2 DEF FetchForForce, TypeOK, server, counts
<1>2. CASE CheckForce(h)
  <2>1. current' \in [Actors -> BOOLEAN]
    BY <1>2 DEF CheckForce, TypeOK
  <2>2. PICK t \in ForceTypes :
          \/ Reply(h, "refused") /\ UNCHANGED <<clock, issued>>
          \/ /\ Issue
             /\ work' = [work EXCEPT ![h] =
                   [id |-> issued', sec |-> clock', whole |-> FALSE,
                    type |-> t, from |-> "web"]]
             /\ answer' = [answer EXCEPT ![h] = ""]
             /\ Leave(h, "read")
             /\ UNCHANGED tries
    BY <1>2 DEF CheckForce
  <2>3. t \in RequestType
    BY RequestsAssumption DEF RequestType
  <2>4. UNCHANGED <<object, feed, cache, seen, queued, prRun, taken, events, failures>>
    BY <1>2 DEF CheckForce, server
  <2>5. CASE Reply(h, "refused") /\ UNCHANGED <<clock, issued>>
    BY <2>1, <2>4, <2>5, ReplyTyped DEF TypeOK
  <2>6. CASE /\ Issue
             /\ work' = [work EXCEPT ![h] =
                   [id |-> issued', sec |-> clock', whole |-> FALSE,
                    type |-> t, from |-> "web"]]
             /\ answer' = [answer EXCEPT ![h] = ""]
             /\ Leave(h, "read")
             /\ UNCHANGED tries
    <3>1. issued' \in Nat /\ clock' \in Nat
      BY <2>6, IssueTyped
    <3>2. [id |-> issued', sec |-> clock', whole |-> FALSE,
           type |-> t, from |-> "web"] \in Request
      BY <3>1, <2>3 DEF Request
    <3>3. work' \in [Actors -> Request \cup {Absent}]
      BY <3>2, <2>6 DEF TypeOK
    <3>4. answer' \in [Handlers -> {"", "queued", "exists", "refused", "error"}]
      BY <2>6 DEF TypeOK
    <3>5. pc' \in [Actors -> Label] /\ copy' \in [Actors -> Object]
      BY <2>6, LeaveTyped DEF Label
    <3>6. tries' \in [Actors -> Nat]
      BY <2>6 DEF TypeOK
    <3> QED BY <2>1, <2>4, <3>1, <3>3, <3>4, <3>5, <3>6 DEF TypeOK
  <2> QED BY <2>2, <2>5, <2>6
<1>3. CASE EnsureRead(h)
  <2>1. UNCHANGED <<object, feed, cache, seen, queued, prRun, taken, clock, issued, events, failures>>
    BY <1>3 DEF EnsureRead, server, counts
  <2>2. CASE \E text \in {"queued", "exists", "error"} :
               Reply(h, text) /\ current' = [current EXCEPT ![h] = FALSE]
    <3>1. current' \in [Actors -> BOOLEAN]
      BY <2>2 DEF TypeOK
    <3>2. /\ pc' \in [Actors -> Label] /\ copy' \in [Actors -> Object]
          /\ tries' \in [Actors -> Nat] /\ work' \in [Actors -> Request \cup {Absent}]
          /\ answer' \in [Handlers -> {"", "queued", "exists", "refused", "error"}]
      BY <2>2, ReplyTyped
    <3> QED BY <2>1, <3>1, <3>2 DEF TypeOK
  <2>3. CASE Read(h) /\ Goto(h, "write") /\ UNCHANGED <<tries, work, answer>>
    <3>1. pc' \in [Actors -> Label]
      BY <2>3 DEF Goto, TypeOK, Label
    <3>2. copy' \in [Actors -> Object] /\ current' \in [Actors -> BOOLEAN]
      BY <2>3, ReadTyped
    <3> QED BY <2>1, <2>3, <3>1, <3>2 DEF TypeOK
  <2> QED BY <1>3, <2>2, <2>3 DEF EnsureRead
<1>4. CASE EnsureWrite(h)
  <2>1. UNCHANGED <<cache, queued, prRun, taken, clock, issued, events>>
    BY <1>4 DEF EnsureWrite
  <2>2. failures' \in Nat
    <3>1. failures' = failures \/ failures' = failures + 1
      BY <1>4 DEF EnsureWrite, Failure
    <3>2. failures \in Nat
      BY DEF TypeOK
    <3> QED BY <3>1, <3>2
  <2>3. /\ object' \in Object /\ feed' \in Seq(Object) /\ seen' \subseteq Request
        /\ current' \in [Actors -> BOOLEAN]
    <3>1. CASE NoWrite(h)
      BY <3>1, NoWriteTyped
    <3>2. CASE Write([copy[h] EXCEPT !.slot = Marshal(work[h])])
      <4>1. copy[h] \in Object /\ work[h] \in Request \cup {Absent}
        BY DEF TypeOK
      <4>2. Marshal(work[h]) \in Request \cup {Absent}
        BY <4>1, MarshalTyped, MarshalAbsent
      <4> QED BY <3>2, <4>1, <4>2, ObjectUpdates, WriteTyped
    <3> QED BY <1>4, <3>1, <3>2 DEF EnsureWrite
  <2>4. /\ pc' \in [Actors -> Label] /\ copy' \in [Actors -> Object]
        /\ tries' \in [Actors -> Nat] /\ work' \in [Actors -> Request \cup {Absent}]
        /\ answer' \in [Handlers -> {"", "queued", "exists", "refused", "error"}]
    <3>1. CASE \E text \in {"queued", "error"} : Reply(h, text)
      BY <3>1, ReplyTyped
    <3>2. CASE TryAgain(h, "read") /\ UNCHANGED answer
      <4>1. "read" \in Label
        BY DEF Label
      <4> QED BY <3>2, <4>1, TryAgainTyped DEF TypeOK
    <3> QED BY <1>4, <3>1, <3>2 DEF EnsureWrite
  <2> QED BY <2>1, <2>2, <2>3, <2>4 DEF TypeOK
<1> QED BY <1>1, <1>2, <1>3, <1>4 DEF Handle


\* The steps of the reconciler leave handlers' answers and the counters of
\* requests alone.
LEMMA EndStartTyped ==
  ASSUME TypeOK, EndStart
  PROVE  /\ pc' \in [Actors -> Label] /\ copy' \in [Actors -> Object]
         /\ tries' \in [Actors -> Nat]
<1>1. CASE Return(R)
  BY <1>1, ReturnTyped, ActorsDiffer
<1>2. CASE Goto(R, "read") /\ UNCHANGED <<copy, tries>>
  BY <1>2 DEF Goto, TypeOK, Label
<1> QED BY <1>1, <1>2 DEF EndStart

LEMMA DeleteTyped ==
  ASSUME TypeOK, NEW again, NEW done, DeleteAnnotation(again, done)
  PROVE  /\ object' \in Object /\ feed' \in Seq(Object) /\ seen' \subseteq Request
         /\ current' \in [Actors -> BOOLEAN] /\ failures' \in Nat
<1>1. failures' \in Nat
  <2>1. failures' = failures \/ failures' = failures + 1
    BY DEF DeleteAnnotation, Failure
  <2>2. failures \in Nat
    BY DEF TypeOK
  <2> QED BY <2>1, <2>2
<1>2. CASE NoWrite(R)
  BY <1>1, <1>2, NoWriteTyped, ActorsDiffer
<1>3. CASE Write([copy[R] EXCEPT !.slot = Absent])
  <2>1. copy[R] \in Object
    BY ActorsDiffer DEF TypeOK
  <2> QED BY <1>1, <1>3, <2>1, ObjectUpdates, WriteTyped
<1> QED BY <1>2, <1>3 DEF DeleteAnnotation

LEMMA TypeReconcile == ASSUME TypeOK, Reconcile PROVE TypeOK'
<1> USE ActorsDiffer
<1>1. CASE ReadModule
  <2>1. pc' \in [Actors -> Label]
    BY <1>1 DEF ReadModule, Goto, TypeOK, Label
  <2>2. copy' \in [Actors -> Object] /\ current' \in [Actors -> BOOLEAN]
    BY <1>1, ReadTyped DEF ReadModule
  <2> QED BY <1>1, <2>1, <2>2 DEF ReadModule, TypeOK, server, counts
<1>2. CASE Inspect
  <2>1. UNCHANGED <<object, feed, cache, seen, queued, prRun, answer, clock, issued, events, failures>>
    BY <1>2 DEF Inspect, server, counts
  <2>2. current' \in [Actors -> BOOLEAN]
    BY <1>2 DEF Inspect, TypeOK
  <2>3. work' \in [Actors -> Request \cup {Absent}] /\ taken' \subseteq Request
    <3>1. CASE UNCHANGED <<work, taken>>
      BY <3>1 DEF TypeOK
    <3>2. CASE /\ Pending(copy[R])
               /\ work' = [work EXCEPT ![R] = copy[R].slot]
               /\ taken' = taken \cup {copy[R].slot}
      <4>1. copy[R].slot \in Request \cup {Absent}
        BY DEF TypeOK, Object
      <4>2. copy[R].slot \in Request
        BY <3>2, <4>1, AbsentIsNoRequest DEF Pending
      <4> QED BY <3>2, <4>2 DEF TypeOK
    <3> QED BY <1>2, <3>1, <3>2 DEF Inspect
  <2>4. /\ pc' \in [Actors -> Label] /\ copy' \in [Actors -> Object]
        /\ tries' \in [Actors -> Nat]
    <3>1. CASE Return(R)
      BY <3>1, ReturnTyped
    <3>2. CASE \E l \in {"start", "dropRead"} : Leave(R, l) /\ UNCHANGED tries
      <4>1. tries' \in [Actors -> Nat]
        BY <3>2 DEF TypeOK
      <4> QED BY <3>2, <4>1, LeaveTyped DEF Label
    <3> QED BY <1>2, <3>1, <3>2 DEF Inspect
  <2> QED BY <2>1, <2>2, <2>3, <2>4 DEF TypeOK
<1>3. CASE StartRun
  <2>1. UNCHANGED <<object, feed, cache, seen, current, work, queued, prRun, answer, taken, clock, issued, events>>
    BY <1>3 DEF StartRun, server
  <2>2. failures' \in Nat
    <3>1. failures' = failures \/ failures' = failures + 1
      BY <1>3 DEF StartRun, Failure
    <3>2. failures \in Nat
      BY DEF TypeOK
    <3> QED BY <3>1, <3>2
  <2>3. /\ pc' \in [Actors -> Label] /\ copy' \in [Actors -> Object]
        /\ tries' \in [Actors -> Nat]
    <3>1. CASE EndStart
      BY <3>1, EndStartTyped
    <3>2. CASE Goto(R, "load") /\ UNCHANGED <<copy, tries>>
      BY <3>2 DEF Goto, TypeOK, Label
    <3> QED BY <1>3, <3>1, <3>2 DEF StartRun
  <2> QED BY <2>1, <2>2, <2>3 DEF TypeOK
<1>4. CASE Mark
  <2>1. UNCHANGED <<server, current, work, queued, prRun, answer, taken, counts>>
    BY <1>4 DEF Mark
  <2>2. /\ pc' \in [Actors -> Label] /\ copy' \in [Actors -> Object]
        /\ tries' \in [Actors -> Nat]
    <3>1. CASE EndStart
      BY <3>1, EndStartTyped
    <3>2. CASE Goto(R, "run") /\ UNCHANGED <<copy, tries>>
      BY <3>2 DEF Goto, TypeOK, Label
    <3> QED BY <1>4, <3>1, <3>2 DEF Mark
  <2> QED BY <2>1, <2>2 DEF TypeOK, server, counts
<1>5. CASE FinishRun
  BY <1>5, EndStartTyped DEF FinishRun, TypeOK, server, counts
<1>6. CASE RemoveRead
  <2>1. UNCHANGED <<server, queued, prRun, answer, taken, counts>>
    BY <1>6 DEF RemoveRead
  <2>2. CASE Return(R) /\ Forget /\ current' = [current EXCEPT ![R] = FALSE]
    <3>1. work' \in [Actors -> Request \cup {Absent}] /\ current' \in [Actors -> BOOLEAN]
      BY <2>2 DEF Forget, TypeOK
    <3> QED BY <2>1, <2>2, <3>1, ReturnTyped DEF TypeOK, server, counts
  <2>3. CASE Read(R) /\ Goto(R, "write") /\ UNCHANGED <<tries, work>>
    <3>1. pc' \in [Actors -> Label]
      BY <2>3 DEF Goto, TypeOK, Label
    <3> QED BY <2>1, <2>3, <3>1, ReadTyped DEF TypeOK, server, counts
  <2> QED BY <1>6, <2>2, <2>3 DEF RemoveRead
<1>7. CASE DropRead
  <2>1. UNCHANGED <<server, work, tries, queued, prRun, answer, taken, counts>>
    BY <1>7 DEF DropRead
  <2>2. pc' \in [Actors -> Label]
    BY <1>7 DEF DropRead, Goto, TypeOK, Label
  <2>3. copy' \in [Actors -> Object] /\ current' \in [Actors -> BOOLEAN]
    <3>1. CASE UNCHANGED <<copy, current>>
      BY <3>1 DEF TypeOK
    <3>2. CASE Read(R)
      BY <3>2, ReadTyped
    <3> QED BY <1>7, <3>1, <3>2 DEF DropRead
  <2> QED BY <2>1, <2>2, <2>3 DEF TypeOK, server, counts
<1>8. CASE RemoveWrite
  <2>1. UNCHANGED <<cache, queued, prRun, answer, taken, clock, issued, events>>
    BY <1>8 DEF RemoveWrite
  <2>2. /\ object' \in Object /\ feed' \in Seq(Object) /\ seen' \subseteq Request
        /\ current' \in [Actors -> BOOLEAN] /\ failures' \in Nat
    BY <1>8, DeleteTyped DEF RemoveWrite
  <2>3. /\ pc' \in [Actors -> Label] /\ copy' \in [Actors -> Object]
        /\ tries' \in [Actors -> Nat] /\ work' \in [Actors -> Request \cup {Absent}]
    <3>1. CASE TryAgain(R, "read")
      BY <3>1, TryAgainTyped DEF Label
    <3>2. CASE Return(R) /\ Forget
      <4>1. work' \in [Actors -> Request \cup {Absent}]
        BY <3>2 DEF Forget, TypeOK
      <4> QED BY <3>2, <4>1, ReturnTyped
    <3> QED BY <1>8, <3>1, <3>2 DEF RemoveWrite, DeleteAnnotation
  <2> QED BY <2>1, <2>2, <2>3 DEF TypeOK
<1>9. CASE DropWrite
  <2>1. UNCHANGED <<cache, queued, prRun, answer, taken, clock, issued, events>>
    BY <1>9 DEF DropWrite
  <2>2. /\ object' \in Object /\ feed' \in Seq(Object) /\ seen' \subseteq Request
        /\ current' \in [Actors -> BOOLEAN] /\ failures' \in Nat
    BY <1>9, DeleteTyped DEF DropWrite
  <2>3. /\ pc' \in [Actors -> Label] /\ copy' \in [Actors -> Object]
        /\ tries' \in [Actors -> Nat] /\ work' \in [Actors -> Request \cup {Absent}]
    <3>1. CASE TryAgain(R, "dropRead")
      BY <3>1, TryAgainTyped DEF Label
    <3>2. CASE Leave(R, "report") /\ UNCHANGED <<tries, work>>
      <4>1. tries' \in [Actors -> Nat] /\ work' \in [Actors -> Request \cup {Absent}]
        BY <3>2 DEF TypeOK
      <4> QED BY <3>2, <4>1, LeaveTyped DEF Label
    <3> QED BY <1>9, <3>1, <3>2 DEF DropWrite, DeleteAnnotation
  <2> QED BY <2>1, <2>2, <2>3 DEF TypeOK
<1>10. CASE ReportInvalid
  <2>1. UNCHANGED <<cache, work, queued, prRun, answer, taken, clock, issued, events>>
    BY <1>10 DEF ReportInvalid
  <2>2. /\ object' \in Object /\ feed' \in Seq(Object) /\ seen' \subseteq Request
        /\ current' \in [Actors -> BOOLEAN]
    <3>1. object \in Object
      BY DEF TypeOK
    <3> QED BY <1>10, <3>1, WriteTyped, NoWriteTyped DEF ReportInvalid
  <2>3. failures' \in Nat
    <3>1. failures' = failures \/ failures' = failures + 1
      BY <1>10 DEF ReportInvalid, Failure
    <3>2. failures \in Nat
      BY DEF TypeOK
    <3> QED BY <3>1, <3>2
  <2>4. /\ pc' \in [Actors -> Label] /\ copy' \in [Actors -> Object]
        /\ tries' \in [Actors -> Nat]
    BY <1>10, ReturnTyped DEF ReportInvalid
  <2> QED BY <2>1, <2>2, <2>3, <2>4 DEF TypeOK
<1> QED BY <1>1, <1>2, <1>3, <1>4, <1>5, <1>6, <1>7, <1>8, <1>9, <1>10 DEF Reconcile

Others == \/ StatusPatch \/ Poll \/ Deliver \/ OverwriteRequest \/ EditSpec
          \/ MarkPRRun \/ UnmarkPRRun \/ Crash

LEMMA TypeOthers == ASSUME TypeOK, Others PROVE TypeOK'
<1> USE ActorsDiffer
<1>1. CASE StatusPatch
  <2>1. object \in Object
    BY DEF TypeOK
  <2> QED BY <1>1, <2>1, WriteTyped DEF StatusPatch, TypeOK, counts
<1>2. CASE Poll
  BY <1>2 DEF Poll, TypeOK, server, actor, counts
<1>3. CASE Deliver
  <2>1. Head(feed) \in Object /\ Tail(feed) \in Seq(Object)
    <3>1. feed \in Seq(Object) /\ feed # <<>>
      BY <1>3 DEF Deliver, TypeOK
    <3> QED BY <3>1, HeadTailProperties
  <2>2. queued' \in BOOLEAN
    BY <1>3 DEF Deliver
  <2> QED BY <1>3, <2>1, <2>2 DEF Deliver, TypeOK, actor, counts
<1>4. CASE OverwriteRequest
  <2>1. issued' \in Nat /\ clock' \in Nat
    BY <1>4, IssueTyped DEF OverwriteRequest
  <2>2. PICK t \in OtherTypes :
          Write([object EXCEPT !.slot =
            [id |-> issued', sec |-> clock', whole |-> TRUE,
             type |-> t, from |-> "outside"]])
    BY <1>4 DEF OverwriteRequest
  <2>3. t \in RequestType \cup {"garbage"}
    BY RequestsAssumption DEF RequestType
  <2>4. [id |-> issued', sec |-> clock', whole |-> TRUE,
         type |-> t, from |-> "outside"] \in Request
    BY <2>1, <2>3 DEF Request
  <2>5. object \in Object
    BY DEF TypeOK
  <2>6. [object EXCEPT !.slot =
            [id |-> issued', sec |-> clock', whole |-> TRUE,
             type |-> t, from |-> "outside"]] \in Object
    BY <2>4, <2>5, ObjectUpdates
  <2>7. /\ object' \in Object /\ feed' \in Seq(Object) /\ seen' \subseteq Request
        /\ current' \in [Actors -> BOOLEAN]
    BY <2>2, <2>6, WriteTyped
  <2> QED BY <1>4, <2>1, <2>7 DEF OverwriteRequest, TypeOK
<1>5. CASE EditSpec
  <2>1. object \in Object /\ events \in Nat
    BY DEF TypeOK
  <2>2. events' \in Nat
    BY <1>5, <2>1 DEF EditSpec
  <2>3. /\ object' \in Object /\ feed' \in Seq(Object) /\ seen' \subseteq Request
        /\ current' \in [Actors -> BOOLEAN]
    BY <1>5, <2>1, ObjectUpdates, WriteTyped DEF EditSpec
  <2> QED BY <1>5, <2>2, <2>3 DEF EditSpec, TypeOK
<1>6. CASE MarkPRRun
  <2>1. events \in Nat
    BY DEF TypeOK
  <2>2. events' \in Nat
    BY <1>6, <2>1 DEF MarkPRRun
  <2> QED BY <1>6, <2>2 DEF MarkPRRun, TypeOK, server, actor
<1>7. CASE UnmarkPRRun
  BY <1>7 DEF UnmarkPRRun, TypeOK, server, actor, counts
<1>8. CASE Crash
  <2>1. failures \in Nat
    BY DEF TypeOK
  <2>2. failures' \in Nat
    BY <1>8, <2>1 DEF Crash, Failure
  <2>3. cache' \in Object /\ feed' \in Seq(Object) /\ queued' \in BOOLEAN /\ prRun' \in BOOLEAN
    BY <1>8, EmptySeq DEF Crash, TypeOK
  <2>4. /\ pc' \in [Actors -> Label] /\ copy' \in [Actors -> Object]
        /\ current' \in [Actors -> BOOLEAN] /\ tries' \in [Actors -> Nat]
    BY <1>8, NoCopyTyped DEF Crash, Label
  <2>5. work' \in [Actors -> Request \cup {Absent}]
    BY <1>8 DEF Crash, TypeOK
  <2>6. answer' \in [Handlers -> {"", "queued", "exists", "refused", "error"}]
    BY <1>8 DEF Crash, TypeOK
  <2> QED BY <1>8, <2>2, <2>3, <2>4, <2>5, <2>6 DEF Crash, TypeOK
<1> QED BY <1>1, <1>2, <1>3, <1>4, <1>5, <1>6, <1>7, <1>8 DEF Others

LEMMA NextCases ==
  Next <=> Reconcile \/ Others \/ \E h \in Handlers : Handle(h)
  BY DEF Next, Others

\* Every variable of RunRequests keeps its type.
THEOREM TypeCorrect == Spec => []TypeOK
<1>1. TypeOK /\ [Next]_vars => TypeOK'
  <2>1. CASE UNCHANGED vars
    BY <2>1 DEF TypeOK, vars, server, actor, counts
  <2> QED BY <2>1, NextCases, TypeHandle, TypeReconcile, TypeOthers
<1> QED BY <1>1, TypeInit, PTL DEF Spec

-----------------------------------------------------------------------------
(* Optimistic concurrency: versions.                                       *)

LEMMA FeedFacts ==
  ASSUME TypeOK
  PROVE  /\ feed \in Seq(Object) /\ Len(feed) \in Nat
         /\ feed # <<>> <=> Len(feed) > 0
         /\ \A obj \in Object :
              LET f == Append(feed, obj)
              IN  /\ f # <<>> /\ Len(f) = Len(feed) + 1 /\ f[Len(f)] = obj
                  /\ \A i \in 1..Len(feed) : f[i] = feed[i]
         /\ feed # <<>> =>
              /\ Head(feed) = feed[1] /\ Len(Tail(feed)) = Len(feed) - 1
              /\ \A i \in 1..(Len(feed) - 1) : Tail(feed)[i] = feed[i + 1]
<1>1. feed \in Seq(Object)
  BY DEF TypeOK
<1> QED BY <1>1

LEMMA WriteVersions ==
  ASSUME TypeOK, NEW obj \in Object, Write(obj), UNCHANGED cache
  PROVE  Versions'
<1>1. feed' # <<>> /\ feed'[Len(feed')] = object'
  BY FeedFacts DEF Write
<1>2. \A a \in Actors : ~ current'[a]
  BY DEF Write
<1> QED BY <1>1, <1>2 DEF Versions, Newest

\* A step that writes nothing and leaves or refreshes copies.
LEMMA QuietVersions ==
  ASSUME TypeOK, Versions, UNCHANGED <<object, feed, cache>>,
         \A a \in Actors : current'[a] =>
           \/ current[a] /\ copy'[a] = copy[a]
           \/ feed = <<>> /\ copy'[a] = cache
  PROVE  Versions'
  BY DEF Versions, Newest

LEMMA VersionsHandle ==
  ASSUME TypeOK, Versions, NEW h \in Handlers, Handle(h) PROVE Versions'
<1> USE ActorsDiffer
<1>0. copy \in [Actors -> Object] /\ current \in [Actors -> BOOLEAN]
  BY DEF TypeOK
<1>1. CASE FetchForForce(h)
  BY <1>0, <1>1, QuietVersions DEF FetchForForce, Read, server
<1>2. CASE CheckForce(h)
  BY <1>0, <1>2, QuietVersions DEF CheckForce, Reply, Return, Leave, server
<1>3. CASE EnsureRead(h)
  BY <1>0, <1>3, QuietVersions DEF EnsureRead, Reply, Return, Leave, Read, server
<1>4. CASE EnsureWrite(h)
  <2>1. CASE NoWrite(h)
    <3>1. \A a \in Actors : a # h => copy'[a] = copy[a]
      BY <1>0, <1>4 DEF EnsureWrite, TryAgain, Reply, Return, Leave
    <3>2. UNCHANGED <<object, feed, cache>>
      BY <1>4, <2>1 DEF EnsureWrite, NoWrite
    <3>3. \A a \in Actors : current'[a] => a # h /\ current[a]
      BY <1>0, <2>1 DEF NoWrite
    <3> QED BY <3>1, <3>2, <3>3, QuietVersions
  <2>2. CASE Write([copy[h] EXCEPT !.slot = Marshal(work[h])])
    <3>1. copy[h] \in Object /\ work[h] \in Request \cup {Absent}
      BY DEF TypeOK
    <3>2. [copy[h] EXCEPT !.slot = Marshal(work[h])] \in Object
      BY <3>1, MarshalTyped, MarshalAbsent, ObjectUpdates
    <3>3. UNCHANGED cache
      BY <1>4 DEF EnsureWrite
    <3> QED BY <2>2, <3>2, <3>3, WriteVersions
  <2> QED BY <1>4, <2>1, <2>2 DEF EnsureWrite
<1> QED BY <1>1, <1>2, <1>3, <1>4 DEF Handle

\* What the steps of the reconciler do to what it has read.
LEMMA EndStartQuiet ==
  ASSUME TypeOK, EndStart
  PROVE  \A a \in Actors : a # R => copy'[a] = copy[a]
  BY DEF EndStart, Return, Leave, TypeOK

LEMMA DeleteVersions ==
  ASSUME TypeOK, Versions, NEW again, NEW done, DeleteAnnotation(again, done),
         UNCHANGED cache, \A a \in Actors : a # R => copy'[a] = copy[a]
  PROVE  Versions'
<1> USE ActorsDiffer
<1>1. CASE NoWrite(R)
  <2>1. \A a \in Actors : current'[a] => a # R /\ current[a]
    BY <1>1 DEF NoWrite, TypeOK
  <2> QED BY <1>1, <2>1, QuietVersions DEF NoWrite
<1>2. CASE Write([copy[R] EXCEPT !.slot = Absent])
  <2>1. copy[R] \in Object
    BY DEF TypeOK
  <2> QED BY <1>2, <2>1, ObjectUpdates, WriteVersions
<1> QED BY <1>1, <1>2 DEF DeleteAnnotation

LEMMA VersionsReconcile ==
  ASSUME TypeOK, Versions, ReconcilerInv, Reconcile PROVE Versions'
<1> USE ActorsDiffer
<1>0. copy \in [Actors -> Object] /\ current \in [Actors -> BOOLEAN]
  BY DEF TypeOK
<1>1. CASE ReadModule
  BY <1>0, <1>1, QuietVersions DEF ReadModule, Read, server
<1>2. CASE Inspect
  <2>1. \A a \in Actors : current'[a] => a # R /\ current[a]
    BY <1>0, <1>2 DEF Inspect
  <2>2. \A a \in Actors : a # R => copy'[a] = copy[a]
    BY <1>0, <1>2 DEF Inspect, Return, Leave
  <2> QED BY <1>2, <2>1, <2>2, QuietVersions DEF Inspect, server
<1>3. CASE StartRun \/ Mark \/ FinishRun
  <2>1. ~ current[R]
    BY <1>3 DEF StartRun, Mark, FinishRun, ReconcilerInv
  <2>2. UNCHANGED <<object, feed, cache, current>>
    BY <1>3 DEF StartRun, Mark, FinishRun, server
  <2>3. \A a \in Actors : a # R => copy'[a] = copy[a]
    BY <1>3, EndStartQuiet DEF StartRun, Mark, FinishRun
  <2> QED BY <2>1, <2>2, <2>3, QuietVersions
<1>4. CASE RemoveRead
  BY <1>0, <1>4, QuietVersions DEF RemoveRead, Read, Return, Leave, server
<1>5. CASE DropRead
  BY <1>0, <1>5, QuietVersions DEF DropRead, Read, server
<1>6. CASE RemoveWrite
  <2>1. \A a \in Actors : a # R => copy'[a] = copy[a]
    BY <1>0, <1>6 DEF RemoveWrite, DeleteAnnotation, TryAgain, Return, Leave
  <2> QED BY <1>6, <2>1, DeleteVersions DEF RemoveWrite
<1>7. CASE DropWrite
  <2>1. \A a \in Actors : a # R => copy'[a] = copy[a]
    BY <1>0, <1>7 DEF DropWrite, DeleteAnnotation, TryAgain, Leave
  <2> QED BY <1>7, <2>1, DeleteVersions DEF DropWrite
<1>8. CASE ReportInvalid
  <2>1. CASE Write(object)
    <3>1. object \in Object
      BY DEF TypeOK
    <3> QED BY <1>8, <2>1, <3>1, WriteVersions DEF ReportInvalid
  <2>2. CASE NoWrite(R)
    <3>1. \A a \in Actors : current'[a] => a # R /\ current[a]
      BY <1>0, <2>2 DEF NoWrite
    <3>2. \A a \in Actors : a # R => copy'[a] = copy[a]
      BY <1>0, <1>8 DEF ReportInvalid, Return, Leave
    <3> QED BY <1>8, <2>2, <3>1, <3>2, QuietVersions DEF NoWrite, ReportInvalid
  <2> QED BY <1>8, <2>1, <2>2 DEF ReportInvalid
<1> QED BY <1>1, <1>2, <1>3, <1>4, <1>5, <1>6, <1>7, <1>8 DEF Reconcile

LEMMA VersionsOthers ==
  ASSUME TypeOK, Versions, Others PROVE Versions'
<1>0. object \in Object
  BY DEF TypeOK
<1>1. CASE StatusPatch
  BY <1>0, <1>1, WriteVersions DEF StatusPatch
<1>2. CASE Poll \/ MarkPRRun \/ UnmarkPRRun
  BY <1>2 DEF Poll, MarkPRRun, UnmarkPRRun, server, actor, Versions, Newest
<1>3. CASE Deliver
  <2>1. UNCHANGED <<object, copy, current>>
    BY <1>3 DEF Deliver, actor
  <2>2. Newest' = Newest
    <3>1. CASE Len(feed) = 1
      <4>1. Len(feed') = 0 /\ feed' \in Seq(Object)
        BY <1>3, <3>1, FeedFacts DEF Deliver
      <4>2. feed' = <<>>
        BY <4>1, EmptySeq
      <4> QED BY <1>3, <3>1, <4>2, FeedFacts DEF Deliver, Newest
    <3>2. CASE Len(feed) > 1
      <4>1. Len(feed') = Len(feed) - 1 /\ Len(feed) \in Nat
        BY <1>3, FeedFacts DEF Deliver
      <4>2. feed' # <<>>
        BY <3>2, <4>1
      <4>3. feed'[Len(feed')] = feed[Len(feed)]
        BY <1>3, <3>2, <4>1, FeedFacts DEF Deliver
      <4> QED BY <1>3, <4>2, <4>3 DEF Newest, Deliver
    <3> QED BY <1>3, <3>1, <3>2, FeedFacts DEF Deliver
  <2> QED BY <2>1, <2>2 DEF Versions
<1>4. CASE OverwriteRequest
  <2>1. PICK t \in OtherTypes :
          Write([object EXCEPT !.slot =
            [id |-> issued', sec |-> clock', whole |-> TRUE,
             type |-> t, from |-> "outside"]])
    BY <1>4 DEF OverwriteRequest
  <2>2. object' \in Object
    BY <1>4, TypeOthers DEF TypeOK, Others
  <2>3. UNCHANGED cache
    BY <1>4 DEF OverwriteRequest
  <2> QED BY <2>1, <2>2, <2>3, WriteVersions DEF Write
<1>5. CASE EditSpec
  <2>1. UNCHANGED cache
    BY <1>5 DEF EditSpec
  <2> QED BY <1>0, <1>5, <2>1, ObjectUpdates, WriteVersions DEF EditSpec
<1>6. CASE Crash
  BY <1>6 DEF Crash, Versions, Newest
<1> QED BY <1>1, <1>2, <1>3, <1>4, <1>5, <1>6 DEF Others

-----------------------------------------------------------------------------
(* History: only what was in the annotation goes round.                    *)

LEMMA KnownIsWhole ==
  ASSUME History, NEW s, Known(s) PROVE s.whole
<1>1. Absent.whole
  BY DEF Absent
<1> QED BY <1>1 DEF History, Known

LEMMA HistoryWrite ==
  ASSUME TypeOK, History, NEW obj \in Object, Write(obj), obj.slot.whole, UNCHANGED cache,
         \A a \in Actors : copy'[a] = copy[a] \/ copy'[a] = NoCopy
  PROVE  History' /\ seen \subseteq seen'
<1>1. seen \subseteq seen'
  BY DEF Write
<1>2. \A r \in seen' : r.whole
  BY DEF Write, History
<1>3. object'.slot \in seen' \cup {Absent}
  BY DEF Write, Known
<1>4. \A s : Known(s) => s \in seen' \cup {Absent}
  BY <1>1 DEF Known
<1>5. \A i \in 1..Len(feed') : feed'[i].slot \in seen' \cup {Absent}
  <2> SUFFICES ASSUME NEW i \in 1..Len(feed') PROVE feed'[i].slot \in seen' \cup {Absent}
    OBVIOUS
  <2>1. feed' = Append(feed, obj) /\ object' = obj
    BY DEF Write
  <2>2. Len(feed') = Len(feed) + 1 /\ feed'[Len(feed')] = obj /\ Len(feed) \in Nat
    BY <2>1, FeedFacts
  <2>3. CASE i = Len(feed')
    BY <1>3, <2>1, <2>2, <2>3
  <2>4. CASE i \in 1..Len(feed)
    <3>1. feed'[i] = feed[i]
      BY <2>1, <2>4, FeedFacts
    <3> QED BY <1>4, <2>4, <3>1 DEF History
  <2> QED BY <2>2, <2>3, <2>4
<1>6. cache'.slot \in seen' \cup {Absent}
  BY <1>4 DEF History
<1>7. \A a \in Actors : copy'[a].slot \in seen' \cup {Absent}
  <2> SUFFICES ASSUME NEW a \in Actors PROVE copy'[a].slot \in seen' \cup {Absent}
    OBVIOUS
  <2>1. CASE copy'[a] = copy[a]
    BY <1>4, <2>1 DEF History
  <2>2. CASE copy'[a] = NoCopy
    BY <2>2, NoCopyTyped DEF Known
  <2> QED BY <2>1, <2>2
<1> QED BY <1>1, <1>2, <1>3, <1>5, <1>6, <1>7 DEF History, Known

LEMMA HistoryQuiet ==
  ASSUME History, UNCHANGED <<object, feed, cache, seen>>,
         \A a \in Actors : copy'[a] \in {copy[a], NoCopy, cache}
  PROVE  History'
<1>1. \A a \in Actors : Known(copy'[a].slot)
  <2>1. Known(NoCopy.slot)
    BY NoCopyTyped DEF Known
  <2> QED BY <2>1 DEF History
<1> QED BY <1>1 DEF History, Known

\* What an actor has of the module after a step of its own.
LEMMA CopyHandle ==
  ASSUME TypeOK, NEW h \in Handlers, Handle(h)
  PROVE  /\ \A a \in Actors : a # h => copy'[a] = copy[a]
         /\ copy'[h] \in {copy[h], NoCopy, cache}
<1>0. copy \in [Actors -> Object]
  BY DEF TypeOK
<1>1. CASE FetchForForce(h)
  BY <1>0, <1>1, ActorsDiffer DEF FetchForForce, Read
<1>2. CASE CheckForce(h)
  BY <1>0, <1>2, ActorsDiffer DEF CheckForce, Reply, Return, Leave
<1>3. CASE EnsureRead(h)
  BY <1>0, <1>3, ActorsDiffer DEF EnsureRead, Reply, Return, Leave, Read
<1>4. CASE EnsureWrite(h)
  BY <1>0, <1>4, ActorsDiffer DEF EnsureWrite, TryAgain, Reply, Return, Leave
<1> QED BY <1>1, <1>2, <1>3, <1>4 DEF Handle

LEMMA CopyReconcile ==
  ASSUME TypeOK, Reconcile
  PROVE  /\ \A a \in Actors : a # R => copy'[a] = copy[a]
         /\ copy'[R] \in {copy[R], NoCopy, cache}
<1>0. copy \in [Actors -> Object]
  BY DEF TypeOK
<1>1. CASE ReadModule \/ RemoveRead \/ DropRead
  BY <1>0, <1>1, ActorsDiffer DEF ReadModule, RemoveRead, DropRead, Read, Return, Leave
<1>2. CASE Inspect \/ ReportInvalid
  BY <1>0, <1>2, ActorsDiffer DEF Inspect, ReportInvalid, Return, Leave
<1>3. CASE StartRun \/ Mark \/ FinishRun
  BY <1>0, <1>3, ActorsDiffer DEF StartRun, Mark, FinishRun, EndStart, Return, Leave
<1>4. CASE RemoveWrite \/ DropWrite
  BY <1>0, <1>4, ActorsDiffer
     DEF RemoveWrite, DropWrite, DeleteAnnotation, TryAgain, Return, Leave
<1> QED BY <1>1, <1>2, <1>3, <1>4 DEF Reconcile

LEMMA HistoryHandle ==
  ASSUME TypeOK, History, NEW h \in Handlers, Handle(h)
  PROVE  History' /\ seen \subseteq seen'
<1>0. UNCHANGED cache
  BY DEF Handle, FetchForForce, CheckForce, EnsureRead, EnsureWrite, server
<1>1. CASE UNCHANGED <<object, feed, seen>>
  BY <1>0, <1>1, CopyHandle, HistoryQuiet
<1>2. CASE EnsureWrite(h) /\ Write([copy[h] EXCEPT !.slot = Marshal(work[h])])
  <2>1. copy[h] \in Object /\ work[h] \in Request \cup {Absent}
    BY ActorsDiffer DEF TypeOK
  <2>2. Marshal(work[h]) \in Request \cup {Absent} /\ Marshal(work[h]).whole
    <3>1. Absent.whole
      BY DEF Absent
    <3> QED BY <2>1, <3>1, MarshalTyped, MarshalAbsent
  <2>3. \A a \in Actors : copy'[a] \in {copy[a], NoCopy}
    BY <1>2, ActorsDiffer DEF TypeOK, EnsureWrite, TryAgain, Reply, Return, Leave
  <2> QED BY <1>0, <1>2, <2>1, <2>2, <2>3, ObjectUpdates, HistoryWrite
<1> QED BY <1>1, <1>2
        DEF Handle, FetchForForce, CheckForce, EnsureRead, EnsureWrite, NoWrite, server

LEMMA HistoryReconcile ==
  ASSUME TypeOK, History, Reconcile
  PROVE  History' /\ seen \subseteq seen'
<1>0. UNCHANGED cache
  BY DEF Reconcile, ReadModule, Inspect, StartRun, Mark, FinishRun, RemoveRead,
         RemoveWrite, DropRead, DropWrite, ReportInvalid, server
<1>1. CASE UNCHANGED <<object, feed, seen>>
  BY <1>0, <1>1, CopyReconcile, HistoryQuiet
<1>2. CASE /\ RemoveWrite \/ DropWrite
           /\ Write([copy[R] EXCEPT !.slot = Absent])
  <2>1. copy[R] \in Object /\ Absent.whole
    BY ActorsDiffer DEF TypeOK, Absent
  <2>2. \A a \in Actors : copy'[a] \in {copy[a], NoCopy}
    BY <1>2, ActorsDiffer
       DEF TypeOK, RemoveWrite, DropWrite, DeleteAnnotation, TryAgain, Return, Leave
  <2>3. /\ [copy[R] EXCEPT !.slot = Absent] \in Object
        /\ [copy[R] EXCEPT !.slot = Absent].slot = Absent
    BY <2>1, ObjectUpdates
  <2> QED BY <1>0, <1>2, <2>1, <2>2, <2>3, HistoryWrite
<1>3. CASE ReportInvalid /\ Write(object)
  <2>1. object \in Object /\ object.slot.whole
    BY KnownIsWhole DEF TypeOK, History
  <2>2. \A a \in Actors : copy'[a] \in {copy[a], NoCopy}
    BY <1>3, ActorsDiffer DEF TypeOK, ReportInvalid, Return, Leave
  <2> QED BY <1>0, <1>3, <2>1, <2>2, HistoryWrite
<1>4. CASE RemoveWrite \/ DropWrite
  BY <1>1, <1>2, <1>4 DEF RemoveWrite, DropWrite, DeleteAnnotation, NoWrite
<1>5. CASE ReportInvalid
  BY <1>1, <1>3, <1>5 DEF ReportInvalid, NoWrite
<1> QED BY <1>1, <1>4, <1>5
        DEF Reconcile, ReadModule, Inspect, StartRun, Mark, FinishRun, RemoveRead,
            DropRead, server

LEMMA HistoryOthers ==
  ASSUME TypeOK, History, Others
  PROVE  History' /\ seen \subseteq seen'
<1>0. object \in Object /\ object.slot.whole
  BY KnownIsWhole DEF TypeOK, History
<1>1. CASE StatusPatch
  BY <1>0, <1>1, HistoryWrite DEF StatusPatch
<1>2. CASE Poll \/ MarkPRRun \/ UnmarkPRRun
  BY <1>2, HistoryQuiet DEF Poll, MarkPRRun, UnmarkPRRun, server, actor
<1>3. CASE Deliver
  <2>1. UNCHANGED <<object, seen, copy>> /\ cache' = Head(feed) /\ feed' = Tail(feed)
        /\ feed # <<>>
    BY <1>3 DEF Deliver, actor
  <2>2. /\ cache' = feed[1] /\ Len(feed) \in Nat /\ Len(feed) > 0
        /\ Len(feed') = Len(feed) - 1
        /\ \A i \in 1..(Len(feed) - 1) : feed'[i] = feed[i + 1]
    BY <2>1, FeedFacts
  <2>3. cache'.slot \in seen \cup {Absent}
    BY <2>2 DEF History, Known
  <2>4. \A i \in 1..Len(feed') : feed'[i].slot \in seen \cup {Absent}
    <3> SUFFICES ASSUME NEW i \in 1..Len(feed') PROVE feed'[i].slot \in seen \cup {Absent}
      OBVIOUS
    <3>1. i + 1 \in 1..Len(feed) /\ feed'[i] = feed[i + 1]
      BY <2>2
    <3> QED BY <3>1 DEF History, Known
  <2> QED BY <2>1, <2>3, <2>4 DEF History, Known
<1>4. CASE OverwriteRequest
  <2>1. PICK t \in OtherTypes :
          Write([object EXCEPT !.slot =
            [id |-> issued', sec |-> clock', whole |-> TRUE,
             type |-> t, from |-> "outside"]])
    BY <1>4 DEF OverwriteRequest
  <2> DEFINE obj == [object EXCEPT !.slot =
                      [id |-> issued', sec |-> clock', whole |-> TRUE,
                       type |-> t, from |-> "outside"]]
  <2>2. object' \in Object /\ UNCHANGED <<cache, copy>>
    BY <1>4, TypeOthers DEF TypeOK, Others, OverwriteRequest
  <2>3. object' = obj
    BY <2>1 DEF Write
  <2>4. obj \in Object /\ Write(obj)
    BY <2>1, <2>2, <2>3
  <2>5. obj.slot.whole
    BY <1>0 DEF Object
  <2> HIDE DEF obj
  <2> QED BY <2>2, <2>4, <2>5, HistoryWrite
<1>5. CASE EditSpec
  <2>1. UNCHANGED <<cache, copy>>
    BY <1>5 DEF EditSpec
  <2> QED BY <1>0, <1>5, <2>1, ObjectUpdates, HistoryWrite DEF EditSpec
<1>6. CASE Crash
  <2>1. UNCHANGED <<object, seen>> /\ cache' = object /\ feed' = <<>>
        /\ copy' = [a \in Actors |-> NoCopy]
    BY <1>6 DEF Crash
  <2> QED BY <2>1, NoCopyTyped DEF History, Known
<1> QED BY <1>1, <1>2, <1>3, <1>4, <1>5, <1>6 DEF Others

-----------------------------------------------------------------------------
(* Handlers.                                                               *)

LEMMA HandlerFrame ==
  ASSUME NEW g \in Handlers, HandlerInv(g), seen \subseteq seen',
         pc'[g] = pc[g], work'[g] = work[g], copy'[g] = copy[g], answer'[g] = answer[g]
  PROVE  HandlerInv(g)'
  BY DEF HandlerInv, Pending

\* An actor's step leaves the others alone.
LEMMA FrameHandle ==
  ASSUME TypeOK, NEW h \in Handlers, Handle(h)
  PROVE  /\ \A a \in Actors : a # h => /\ pc'[a] = pc[a] /\ work'[a] = work[a]
                                      /\ copy'[a] = copy[a] /\ (current'[a] => current[a])
         /\ \A g \in Handlers : g # h => answer'[g] = answer[g]
         /\ UNCHANGED <<cache, queued, prRun, taken>>
<1> USE ActorsDiffer
<1>0. /\ pc \in [Actors -> Label] /\ work \in [Actors -> Request \cup {Absent}]
      /\ copy \in [Actors -> Object] /\ current \in [Actors -> BOOLEAN]
      /\ answer \in [Handlers -> {"", "queued", "exists", "refused", "error"}]
  BY DEF TypeOK
<1>1. CASE FetchForForce(h)
  BY <1>0, <1>1 DEF FetchForForce, Read, Goto, server
<1>2. CASE CheckForce(h)
  BY <1>0, <1>2 DEF CheckForce, Reply, Return, Leave, Goto, server
<1>3. CASE EnsureRead(h)
  <2>1. CASE \E v \in {"queued", "exists", "error"} : Reply(h, v) /\ current' = [current EXCEPT ![h] = FALSE]
    <3>1. PICK v \in {"queued", "exists", "error"} :
            Reply(h, v) /\ current' = [current EXCEPT ![h] = FALSE]
      BY <2>1
    <3>2. pc' = [pc EXCEPT ![h] = "idle"] /\ copy' = [copy EXCEPT ![h] = NoCopy]
      BY <3>1 DEF Reply, Return, Leave, Goto
    <3>3. \A a \in Actors : a # h => work'[a] = work[a]
      BY <1>0, <3>1 DEF Reply
    <3>4. \A g \in Handlers : g # h => answer'[g] = answer[g]
      BY <1>0, <3>1 DEF Reply
    <3> QED BY <1>0, <1>3, <3>1, <3>2, <3>3, <3>4 DEF EnsureRead, server
  <2>2. CASE Read(h) /\ Goto(h, "write") /\ UNCHANGED <<tries, work, answer>>
    BY <1>0, <1>3, <2>2 DEF EnsureRead, Read, Goto, server
  <2> QED BY <1>3, <2>1, <2>2 DEF EnsureRead
<1>4. CASE EnsureWrite(h)
  BY <1>0, <1>4 DEF EnsureWrite, TryAgain, Reply, Return, Leave, Goto, NoWrite, Write
<1> QED BY <1>1, <1>2, <1>3, <1>4 DEF Handle

LEMMA FrameReconcile ==
  ASSUME TypeOK, Reconcile
  PROVE  /\ \A a \in Actors : a # R => /\ pc'[a] = pc[a] /\ work'[a] = work[a]
                                      /\ copy'[a] = copy[a]
         /\ UNCHANGED <<cache, answer>>
<1> USE ActorsDiffer
<1>0. /\ pc \in [Actors -> Label] /\ work \in [Actors -> Request \cup {Absent}]
      /\ copy \in [Actors -> Object]
  BY DEF TypeOK
<1>1. CASE ReadModule \/ RemoveRead \/ DropRead
  BY <1>0, <1>1
     DEF ReadModule, RemoveRead, DropRead, Read, Return, Leave, Goto, Forget, server
<1>2. CASE Inspect \/ ReportInvalid
  BY <1>0, <1>2 DEF Inspect, ReportInvalid, Return, Leave, Goto, server
<1>3. CASE StartRun \/ Mark \/ FinishRun
  BY <1>0, <1>3 DEF StartRun, Mark, FinishRun, EndStart, Return, Leave, Goto, server
<1>4. CASE RemoveWrite \/ DropWrite
  BY <1>0, <1>4
     DEF RemoveWrite, DropWrite, DeleteAnnotation, TryAgain, Return, Leave, Goto, Forget
<1> QED BY <1>1, <1>2, <1>3, <1>4 DEF Reconcile

LEMMA HandlersHandle ==
  ASSUME TypeOK, History, NEW h \in Handlers, HandlerInv(h), Handle(h)
  PROVE  HandlerInv(h)'
<1> USE ActorsDiffer
<1>0. /\ pc \in [Actors -> Label] /\ work \in [Actors -> Request \cup {Absent}]
      /\ copy \in [Actors -> Object]
      /\ answer \in [Handlers -> {"", "queued", "exists", "refused", "error"}]
  BY DEF TypeOK
<1>1. CASE FetchForForce(h)
  BY <1>0, <1>1 DEF FetchForForce, Goto, HandlerInv, server
<1>2. CASE CheckForce(h)
  <2>1. CASE Reply(h, "refused")
    BY <1>0, <2>1 DEF Reply, Return, Leave, Goto, HandlerInv
  <2>2. CASE \E t \in ForceTypes :
               /\ work' = [work EXCEPT ![h] =
                    [id |-> issued', sec |-> clock', whole |-> FALSE,
                     type |-> t, from |-> "web"]]
               /\ answer' = [answer EXCEPT ![h] = ""]
               /\ Leave(h, "read")
    <3>1. work'[h] \in Request \cup {Absent}
      BY TypeHandle DEF TypeOK
    <3>2. work'[h].from = "web" /\ ~ work'[h].whole
      <4>1. PICK t \in ForceTypes :
              work' = [work EXCEPT ![h] =
                [id |-> issued', sec |-> clock', whole |-> FALSE,
                 type |-> t, from |-> "web"]]
        BY <2>2
      <4>2. work'[h] = [id |-> issued', sec |-> clock', whole |-> FALSE,
                        type |-> t, from |-> "web"]
        BY <1>0, <4>1
      <4> QED BY <4>2
    <3>3. Absent.from = "outside"
      BY DEF Absent
    <3>4. pc'[h] = "read" /\ answer'[h] = ""
      BY <1>0, <2>2 DEF Leave, Goto
    <3> QED BY <3>1, <3>2, <3>3, <3>4 DEF HandlerInv
  <2> QED BY <1>2, <2>1, <2>2 DEF CheckForce
<1>3. CASE EnsureRead(h)
  <2>1. ~ SameTime(work[h], cache.slot)
    <3>1. cache.slot.whole
      BY KnownIsWhole DEF History
    <3>2. work[h] \in Request /\ ~ work[h].whole
      BY <1>3 DEF EnsureRead, HandlerInv
    <3> QED BY <3>1, <3>2 DEF SameTime
  <2>2. CASE \E text \in {"exists", "error"} : Reply(h, text)
    BY <1>0, <2>2 DEF Reply, Return, Leave, Goto, HandlerInv
  <2>3. CASE ~ Pending(cache) /\ Read(h) /\ Goto(h, "write") /\ UNCHANGED <<work, answer>>
    <3>1. copy'[h] = cache /\ pc'[h] = "write"
      BY <1>0, <2>3 DEF Read, Goto
    <3>2. ~ Pending(copy[h])'
      BY <2>3, <3>1 DEF Pending
    <3>3. UNCHANGED seen /\ pc[h] = "read"
      BY <1>3 DEF EnsureRead, server
    <3> QED BY <2>3, <3>1, <3>2, <3>3 DEF HandlerInv
  <2> QED BY <1>3, <2>1, <2>2, <2>3 DEF EnsureRead
<1>4. CASE EnsureWrite(h)
  <2>0. seen \subseteq seen'
    BY HistoryHandle
  <2>1. CASE Reply(h, "error")
    BY <1>0, <2>1 DEF Reply, Return, Leave, Goto, HandlerInv
  <2>2. CASE TryAgain(h, "read") /\ UNCHANGED answer
    <3>1. pc[h] = "write" /\ pc'[h] = "read" /\ work'[h] = work[h] /\ answer'[h] = answer[h]
      BY <1>0, <1>4, <2>2 DEF TryAgain, Leave, Goto, EnsureWrite
    <3> QED BY <2>0, <3>1 DEF HandlerInv
  <2>3. CASE /\ Write([copy[h] EXCEPT !.slot = Marshal(work[h])])
             /\ Reply(h, "queued")
    <3>1. work'[h] = work[h] /\ pc'[h] = "idle"
      BY <1>0, <2>3 DEF Reply, Return, Leave, Goto
    <3>2. work[h] \in Request /\ copy[h] \in Object
      BY <1>0, <1>4 DEF EnsureWrite, HandlerInv
    <3>3. Marshal(work[h]) \in Request /\ Marshal(work[h]) # Absent
      BY <3>2, MarshalTyped
    <3>4. [copy[h] EXCEPT !.slot = Marshal(work[h])].slot = Marshal(work[h])
      BY <3>2, <3>3, ObjectUpdates
    <3>5. Marshal(work[h]) \in seen'
      BY <2>3, <3>3, <3>4 DEF Write
    <3> QED BY <3>1, <3>5 DEF HandlerInv
  <2> QED BY <1>4, <2>1, <2>2, <2>3 DEF EnsureWrite
<1> QED BY <1>1, <1>2, <1>3, <1>4 DEF Handle

LEMMA HandlersOthers ==
  ASSUME TypeOK, History, NEW h \in Handlers, HandlerInv(h), Others
  PROVE  HandlerInv(h)'
<1>0. seen \subseteq seen'
  BY HistoryOthers
<1>1. CASE Crash
  <2>1. /\ pc'[h] = "idle" /\ UNCHANGED seen
        /\ work'[h] = IF pc[h] = "idle" THEN work[h] ELSE Absent
        /\ answer'[h] = IF pc[h] = "idle" THEN answer[h] ELSE "error"
    BY <1>1, ActorsDiffer DEF Crash
  <2> QED BY <2>1 DEF HandlerInv
<1>2. CASE ~ Crash
  <2>1. UNCHANGED <<pc, work, copy, answer>>
    BY <1>2 DEF Others, StatusPatch, Poll, Deliver, OverwriteRequest, EditSpec,
                MarkPRRun, UnmarkPRRun, actor
  <2> QED BY <1>0, <2>1, HandlerFrame
<1> QED BY <1>1, <1>2

-----------------------------------------------------------------------------
(* The reconciler.                                                         *)

LEMMA ReconcilerFrame ==
  ASSUME ReconcilerInv, seen \subseteq seen', UNCHANGED taken, current'[R] => current[R],
         pc'[R] = pc[R], work'[R] = work[R], copy'[R] = copy[R]
  PROVE  ReconcilerInv'
  BY DEF ReconcilerInv, Pending

LEMMA EndStartInv ==
  ASSUME TypeOK, ReconcilerInv, EndStart, pc[R] \in {"start", "load", "run"},
         UNCHANGED <<work, taken>>
  PROVE  ReconcilerInv'
<1>0. pc \in [Actors -> Label] /\ R \in Actors
  BY ActorsDiffer DEF TypeOK
<1>1. CASE Return(R)
  <2>1. pc'[R] = "idle"
    BY <1>0, <1>1 DEF Return, Leave, Goto
  <2> QED BY <2>1 DEF ReconcilerInv
<1>2. CASE work[R] # Absent /\ Goto(R, "read")
  <2>1. pc'[R] = "read"
    BY <1>0, <1>2 DEF Goto
  <2> QED BY <1>2, <2>1 DEF ReconcilerInv
<1> QED BY <1>1, <1>2 DEF EndStart

LEMMA ReconcilerReconcile ==
  ASSUME TypeOK, History, ReconcilerInv, Reconcile
  PROVE  ReconcilerInv'
<1> USE ActorsDiffer
<1>0. /\ pc \in [Actors -> Label] /\ work \in [Actors -> Request \cup {Absent}]
      /\ copy \in [Actors -> Object] /\ current \in [Actors -> BOOLEAN]
  BY DEF TypeOK
<1>s. seen \subseteq seen'
  BY HistoryReconcile
<1>w. work'[R] \in taken' \cup {Absent}
  <2>1. CASE Inspect
    BY <1>0, <2>1 DEF Inspect, ReconcilerInv
  <2>2. CASE ~ Inspect
    <3>1. UNCHANGED taken
      BY <2>2 DEF Reconcile, ReadModule, StartRun, Mark, FinishRun, RemoveRead,
                  RemoveWrite, DropRead, DropWrite, ReportInvalid
    <3>2. work'[R] = work[R] \/ work'[R] = Absent
      BY <1>0, <2>2 DEF Reconcile, ReadModule, StartRun, Mark, FinishRun, RemoveRead,
                  RemoveWrite, DropRead, DropWrite, ReportInvalid, DeleteAnnotation,
                  TryAgain, Forget
    <3> QED BY <3>1, <3>2 DEF ReconcilerInv
  <2> QED BY <2>1, <2>2
<1>1. CASE ReadModule
  BY <1>w, <1>0, <1>1 DEF ReadModule, Goto, ReconcilerInv
<1>2. CASE Inspect
  <2>1. ~ current'[R]
    BY <1>0, <1>2 DEF Inspect
  <2>2. CASE Return(R)
    BY <1>w, <1>0, <2>2 DEF Return, Leave, Goto, ReconcilerInv
  <2>3. CASE copy[R].slot = Absent /\ Leave(R, "start") /\ UNCHANGED <<work, taken>>
    BY <1>w, <1>0, <2>1, <2>3 DEF Leave, Goto, ReconcilerInv
  <2>4. CASE copy[R].slot # Absent /\ Leave(R, "dropRead")
    <3>1. copy[R].slot \in seen
      BY <2>4 DEF History, Known
    <3>2. pc'[R] = "dropRead"
      BY <1>0, <2>4 DEF Leave, Goto
    <3> QED BY <1>w, <1>s, <3>1, <3>2 DEF ReconcilerInv
  <2>5. CASE /\ work' = [work EXCEPT ![R] = copy[R].slot]
             /\ taken' = taken \cup {copy[R].slot} /\ Leave(R, "start")
    <3>1. pc'[R] = "start" /\ work'[R] = copy[R].slot
      BY <1>0, <2>5 DEF Leave, Goto
    <3> QED BY <1>w, <2>1, <2>5, <3>1 DEF ReconcilerInv
  <2> QED BY <1>2, <2>2, <2>3, <2>4, <2>5 DEF Inspect
<1>3. CASE StartRun \/ Mark \/ FinishRun
  <2>1. UNCHANGED <<work, current, taken, seen>> /\ pc[R] \in {"start", "load", "run"}
    BY <1>3 DEF StartRun, Mark, FinishRun, server
  <2>2. CASE EndStart
    BY <2>1, <2>2, EndStartInv
  <2>3. CASE \E l \in {"load", "run"} : Goto(R, l)
    <3>1. pc'[R] \in {"load", "run"}
      BY <1>0, <2>3 DEF Goto
    <3> QED BY <1>w, <2>1, <3>1 DEF ReconcilerInv
  <2> QED BY <1>3, <2>2, <2>3 DEF StartRun, Mark, FinishRun
<1>4. CASE RemoveRead
  <2>1. UNCHANGED <<seen, taken>> /\ pc[R] = "read"
    BY <1>4 DEF RemoveRead, server
  <2>2. CASE Return(R)
    BY <1>w, <1>0, <2>2 DEF Return, Leave, Goto, ReconcilerInv
  <2>3. CASE /\ ~ (Pending(cache) /\ ~ SameTime(work[R], cache.slot))
             /\ Read(R) /\ Goto(R, "write") /\ UNCHANGED work
    <3>1. pc'[R] = "write" /\ copy'[R] = cache /\ work'[R] = work[R]
      BY <1>0, <2>3 DEF Read, Goto
    <3>2. Pending(cache) => cache.slot.sec = work[R].sec
      BY <2>3 DEF SameTime
    <3>3. Pending(copy'[R]) => copy'[R].slot.sec = work'[R].sec
      BY <3>1, <3>2
    <3> QED BY <1>w, <2>1, <3>1, <3>2 DEF ReconcilerInv, Pending
  <2> QED BY <1>4, <2>2, <2>3 DEF RemoveRead
<1>5. CASE DropRead
  <2>1. pc'[R] \in {"report", "dropWrite"} /\ pc[R] = "dropRead"
    BY <1>0, <1>5 DEF DropRead, Goto
  <2> QED BY <1>w, <1>s, <2>1 DEF ReconcilerInv
<1>6. CASE RemoveWrite
  <2>1. pc[R] = "write" /\ UNCHANGED taken
    BY <1>6 DEF RemoveWrite
  <2>2. CASE TryAgain(R, "read")
    <3>1. pc'[R] = "read" /\ work'[R] = work[R]
      BY <1>0, <2>2 DEF TryAgain, Leave, Goto
    <3> QED BY <1>w, <2>1, <3>1 DEF ReconcilerInv
  <2>3. CASE Return(R)
    BY <1>w, <1>0, <2>3 DEF Return, Leave, Goto, ReconcilerInv
  <2> QED BY <1>6, <2>2, <2>3 DEF RemoveWrite, DeleteAnnotation
<1>7. CASE DropWrite
  <2>1. pc[R] = "dropWrite"
    BY <1>7 DEF DropWrite
  <2>2. pc'[R] \in {"dropRead", "report"}
    BY <1>0, <1>7 DEF DropWrite, DeleteAnnotation, TryAgain, Leave, Goto
  <2> QED BY <1>w, <1>s, <2>1, <2>2 DEF ReconcilerInv
<1>8. CASE ReportInvalid
  <2>1. pc'[R] = "idle"
    BY <1>0, <1>8 DEF ReportInvalid, Return, Leave, Goto
  <2> QED BY <1>w, <2>1 DEF ReconcilerInv
<1> QED BY <1>1, <1>2, <1>3, <1>4, <1>5, <1>6, <1>7, <1>8 DEF Reconcile

LEMMA ReconcilerOthers ==
  ASSUME TypeOK, History, ReconcilerInv, Others
  PROVE  ReconcilerInv'
<1>0. seen \subseteq seen'
  BY HistoryOthers
<1>1. CASE Crash
  <2>1. pc'[R] = "idle" /\ work'[R] \in {work[R], Absent} /\ UNCHANGED taken
    BY <1>1, ActorsDiffer DEF Crash
  <2> QED BY <2>1 DEF ReconcilerInv
<1>2. CASE ~ Crash
  <2>1. UNCHANGED <<pc, work, copy, taken>>
    BY <1>2 DEF Others, StatusPatch, Poll, Deliver, OverwriteRequest, EditSpec,
                MarkPRRun, UnmarkPRRun, actor
  <2>2. current'[R] => current[R]
    BY <1>2, ActorsDiffer
       DEF Others, StatusPatch, Poll, Deliver, OverwriteRequest, EditSpec,
           MarkPRRun, UnmarkPRRun, actor, Write
  <2> QED BY <1>0, <2>1, <2>2, ReconcilerFrame
<1> QED BY <1>1, <1>2

-----------------------------------------------------------------------------
(* The invariant.                                                          *)

LEMMA InitInv == Init => RequestsInv
<1> SUFFICES ASSUME Init PROVE RequestsInv
  OBVIOUS
<1>1. TypeOK
  BY TypeInit
<1>2. /\ object.slot = Absent /\ cache = object /\ feed = <<>> /\ seen = {}
      /\ copy = [a \in Actors |-> NoCopy] /\ current = [a \in Actors |-> FALSE]
      /\ pc = [a \in Actors |-> "idle"] /\ work = [a \in Actors |-> Absent]
      /\ answer = [h \in Handlers |-> ""]
  <2>1. PICK s \in Specs : object = [slot |-> Absent, spec |-> s]
    BY DEF Init
  <2> QED BY <2>1 DEF Init
<1>3. Versions
  BY <1>2 DEF Versions, Newest
<1>4. History
  <2>1. Len(feed) = 0
    BY <1>2
  <2>2. \A a \in Actors : copy[a].slot = Absent
    BY <1>2, NoCopyTyped
  <2>3. \A i \in 1..Len(feed) : FALSE
    BY <2>1
  <2> QED BY <1>2, <2>2, <2>3 DEF History, Known
<1>5. ReconcilerInv
  BY <1>2, ActorsDiffer DEF ReconcilerInv
<1>6. \A h \in Handlers : HandlerInv(h)
  BY <1>2, ActorsDiffer DEF HandlerInv
<1> QED BY <1>1, <1>3, <1>4, <1>5, <1>6 DEF RequestsInv

LEMMA StepInv == RequestsInv /\ [Next]_vars => RequestsInv'
<1> SUFFICES ASSUME RequestsInv, [Next]_vars PROVE RequestsInv'
  OBVIOUS
<1> USE DEF RequestsInv
<1>1. CASE \E h \in Handlers : Handle(h)
  <2>1. PICK h \in Handlers : Handle(h)
    BY <1>1
  <2>2. TypeOK' /\ Versions' /\ History' /\ seen \subseteq seen'
    BY <2>1, TypeHandle, VersionsHandle, HistoryHandle
  <2>3. ReconcilerInv'
    BY <2>1, <2>2, FrameHandle, ActorsDiffer, ReconcilerFrame
  <2>4. \A g \in Handlers : HandlerInv(g)'
    <3> SUFFICES ASSUME NEW g \in Handlers PROVE HandlerInv(g)'
      OBVIOUS
    <3>1. CASE g = h
      BY <2>1, <3>1, HandlersHandle
    <3>2. CASE g # h
      BY <2>1, <2>2, <3>2, FrameHandle, ActorsDiffer, HandlerFrame
    <3> QED BY <3>1, <3>2
  <2> QED BY <2>2, <2>3, <2>4
<1>2. CASE Reconcile
  <2>1. TypeOK' /\ Versions' /\ History' /\ ReconcilerInv' /\ seen \subseteq seen'
    BY <1>2, TypeReconcile, VersionsReconcile, HistoryReconcile, ReconcilerReconcile
  <2>2. \A g \in Handlers : HandlerInv(g)'
    BY <1>2, <2>1, FrameReconcile, ActorsDiffer, HandlerFrame
  <2> QED BY <2>1, <2>2
<1>3. CASE Others
  BY <1>3, TypeOthers, VersionsOthers, HistoryOthers, ReconcilerOthers, HandlersOthers
<1>4. CASE UNCHANGED vars
  BY <1>4 DEF vars, server, actor, counts, TypeOK, Versions, Newest, History, Known,
              ReconcilerInv, HandlerInv, Pending
<1> QED BY <1>1, <1>2, <1>3, <1>4, NextCases

\* The four parts of the invariant hold in every state: versions tell whether a
\* copy is the object, and handlers and the reconciler write what they checked.
THEOREM RequestsInvariant == Spec => []RequestsInv
  BY InitInv, StepInv, PTL DEF Spec

\* "Run queued" is only ever told of a request that was in the annotation.
THEOREM QueuedRequestsWereWritten == Spec => []QueuedRequestWasWritten
<1>1. RequestsInv => QueuedRequestWasWritten
  BY DEF RequestsInv, HandlerInv, QueuedRequestWasWritten
<1> QED BY <1>1, RequestsInvariant, PTL

-----------------------------------------------------------------------------
(* The annotation is the slot of RequestSlot.                              *)

LEMMA SlotData ==
  /\ Slot!Request = Request /\ Slot!Absent = Absent
  /\ \A r, s : Slot!IsPending(r, s) <=> IsPending(r, s)
<1>1. Slot!RequestType = RequestType
  BY DEF Slot!RequestType, RequestType, Slot!ScheduledRun, ScheduledRun,
         Slot!PollingRun, PollingRun, Slot!ForcedPlan, ForcedPlan,
         Slot!ForcedApply, ForcedApply, Slot!PRPlan, PRPlan
<1>2. Slot!Request = Request
  BY <1>1 DEF Slot!Request, Request
<1>3. Slot!Absent = Absent
  BY DEF Slot!Absent, Absent
<1>4. \A type, s : Slot!IsApply(type, s) <=> IsApply(type, s)
  BY DEF Slot!IsApply, IsApply, Slot!IsPlanOnly, IsPlanOnly, Slot!IsAutoApply, IsAutoApply,
         Slot!ScheduledRun, ScheduledRun, Slot!PollingRun, PollingRun,
         Slot!ForcedApply, ForcedApply
<1>5. \A type, b, s : Slot!Valid(type, b, s) <=> Valid(type, b, s)
  BY <1>1, <1>4 DEF Slot!Valid, Valid, Slot!ForcedApply, ForcedApply
<1>6. \A r, s : Slot!IsPending(r, s) <=> IsPending(r, s)
  BY <1>5 DEF Slot!IsPending, IsPending
<1> QED BY <1>2, <1>3, <1>6

LEMMA SlotInit == Init => Slot!SlotInit
<1> SUFFICES ASSUME Init PROVE Slot!SlotInit
  OBVIOUS
<1>1. PICK s \in Specs : object = [slot |-> Absent, spec |-> s]
  BY DEF Init
<1>2. seen = {} /\ taken = {} /\ pc[R] = "idle"
  BY ActorsDiffer DEF Init
<1> QED BY <1>1, <1>2, SlotData DEF Slot!SlotInit

\* A step that changes neither the annotation nor the spec, nor what was seen
\* and taken, and neither begins nor ends a discard.
LEMMA SlotStutter ==
  ASSUME UNCHANGED <<object, seen, taken>>,
         pc'[R] \in {"dropRead", "dropWrite"} <=> pc[R] \in {"dropRead", "dropWrite"}
  PROVE  UNCHANGED Slot!slotVars
  BY DEF Slot!slotVars

\* The effect of a write on the slot: the new annotation has been seen.
LEMMA WriteEffect ==
  ASSUME NEW obj, Write(obj)
  PROVE  object' = obj /\ seen' = seen \cup ({obj.slot} \ {Absent})
  BY DEF Write

LEMMA SlotHandle ==
  ASSUME RequestsInv, NEW h \in Handlers, Handle(h)
  PROVE  [Slot!SlotNext]_(Slot!slotVars)
<1> USE ActorsDiffer DEF RequestsInv
<1>1. UNCHANGED taken /\ pc'[R] = pc[R]
  BY FrameHandle
<1>2. CASE UNCHANGED <<object, seen>>
  BY <1>1, <1>2, SlotStutter
<1>3. CASE /\ EnsureWrite(h) /\ current[h]
           /\ Write([copy[h] EXCEPT !.slot = Marshal(work[h])])
  <2> DEFINE m == Marshal(work[h])
             obj == [copy[h] EXCEPT !.slot = m]
  <2>1. work[h] \in Request /\ work[h].from = "web" /\ ~ Pending(copy[h])
    BY <1>3 DEF EnsureWrite, HandlerInv
  <2>2. copy[h] = object /\ object \in Object
    BY <1>3 DEF Versions, TypeOK
  <2>3. m \in Request /\ m # Absent /\ m.from = "web"
    BY <2>1, MarshalTyped
  <2>4. obj.slot = m /\ obj.spec = object.spec
    BY <2>2, <2>3, ObjectUpdates
  <2>5. object' = obj /\ seen' = seen \cup ({obj.slot} \ {Absent})
    BY <1>3, WriteEffect
  <2> HIDE DEF m, obj
  <2>6. /\ object'.slot = m /\ object'.spec = object.spec /\ seen' = seen \cup {m}
    BY <2>3, <2>4, <2>5
  <2>7. ~ IsPending(object.slot, object.spec)
    BY <2>1, <2>2 DEF Pending
  <2>8. Slot!Submit
    BY <1>1, <2>3, <2>6, <2>7, SlotData DEF Slot!Submit, Slot!Put
  <2> QED BY <2>8 DEF Slot!SlotNext
<1> QED BY <1>2, <1>3
        DEF Handle, FetchForForce, CheckForce, EnsureRead, EnsureWrite, NoWrite, server

\* The update of RemoveRequest and of RemoveCurrentRequest, when it is stored.
LEMMA DeleteEffect ==
  ASSUME RequestsInv, current[R], Write([copy[R] EXCEPT !.slot = Absent])
  PROVE  /\ copy[R] = object /\ UNCHANGED seen
         /\ object'.slot = Absent /\ object'.spec = object.spec
<1>1. copy[R] = object /\ object \in Object
  BY ActorsDiffer DEF RequestsInv, Versions, TypeOK
<1>2. /\ [object EXCEPT !.slot = Absent].slot = Absent
      /\ [object EXCEPT !.slot = Absent].spec = object.spec
  BY <1>1, ObjectUpdates
<1>3. /\ object' = [object EXCEPT !.slot = Absent]
      /\ seen' = seen \cup ({[object EXCEPT !.slot = Absent].slot} \ {Absent})
  BY <1>1, WriteEffect
<1> QED BY <1>1, <1>2, <1>3

LEMMA SlotReconcile ==
  ASSUME RequestsInv, Reconcile
  PROVE  [Slot!SlotNext]_(Slot!slotVars)
<1> USE ActorsDiffer DEF RequestsInv
<1>0. pc \in [Actors -> Label]
  BY DEF TypeOK
<1>1. CASE ReadModule
  BY <1>0, <1>1, SlotStutter DEF ReadModule, Goto, server
<1>2. CASE Inspect
  <2>1. UNCHANGED <<object, seen>> /\ pc[R] = "inspect"
    BY <1>2 DEF Inspect, server
  <2>2. CASE \E l \in {"idle", "start"} : pc'[R] = l /\ UNCHANGED taken
    BY <2>1, <2>2, SlotStutter
  <2>3. CASE copy[R].slot # Absent /\ Leave(R, "dropRead") /\ UNCHANGED taken
    <3>1. seen # {}
      BY <2>3 DEF History, Known
    <3>2. pc'[R] = "dropRead"
      BY <1>0, <2>3 DEF Leave, Goto
    <3>3. Slot!BeginDiscard
      BY <2>1, <2>3, <3>1, <3>2 DEF Slot!BeginDiscard
    <3> QED BY <3>3 DEF Slot!SlotNext
  <2>4. CASE Pending(copy[R]) /\ taken' = taken \cup {copy[R].slot} /\ Leave(R, "start")
    <3>1. copy[R].slot \in seen
      BY <2>4, AbsentIsNoRequest DEF History, Known, Pending
    <3>2. pc'[R] = "start"
      BY <1>0, <2>4 DEF Leave, Goto
    <3>3. Slot!Take(copy[R].slot)
      BY <2>1, <2>4, <3>2 DEF Slot!Take
    <3> QED BY <3>1, <3>3 DEF Slot!SlotNext
  <2> QED BY <1>0, <1>2, <2>2, <2>3, <2>4 DEF Inspect, Return, Leave, Goto
<1>3. CASE StartRun \/ Mark \/ FinishRun
  <2>1. UNCHANGED <<object, seen, taken>> /\ pc[R] \in {"start", "load", "run"}
    BY <1>3 DEF StartRun, Mark, FinishRun, server
  <2>2. pc'[R] \in {"idle", "read", "load", "run"}
    BY <1>0, <1>3 DEF StartRun, Mark, FinishRun, EndStart, Return, Leave, Goto
  <2> QED BY <2>1, <2>2, SlotStutter
<1>4. CASE RemoveRead
  <2>1. UNCHANGED <<object, seen, taken>> /\ pc[R] = "read"
    BY <1>4 DEF RemoveRead, server
  <2>2. pc'[R] \in {"idle", "write"}
    BY <1>0, <1>4 DEF RemoveRead, Return, Leave, Goto
  <2> QED BY <2>1, <2>2, SlotStutter
<1>5. CASE DropRead
  <2>1. UNCHANGED <<object, seen, taken>> /\ pc[R] = "dropRead"
    BY <1>5 DEF DropRead, server
  <2>2. CASE pc'[R] = "report"
    <3>1. Slot!EndDiscard
      BY <2>1, <2>2 DEF Slot!EndDiscard
    <3> QED BY <3>1 DEF Slot!SlotNext
  <2>3. CASE pc'[R] = "dropWrite"
    BY <2>1, <2>3, SlotStutter
  <2> QED BY <1>0, <1>5, <2>2, <2>3 DEF DropRead, Goto
<1>6. CASE RemoveWrite
  <2>1. UNCHANGED taken /\ pc[R] = "write" /\ work[R] \in taken
    BY <1>6 DEF RemoveWrite, ReconcilerInv
  <2>2. pc'[R] \in {"read", "idle"}
    BY <1>0, <1>6 DEF RemoveWrite, DeleteAnnotation, TryAgain, Return, Leave, Goto
  <2>3. CASE NoWrite(R)
    BY <2>1, <2>2, <2>3, SlotStutter DEF NoWrite
  <2>4. CASE current[R] /\ Write([copy[R] EXCEPT !.slot = Absent])
    <3>1. /\ copy[R] = object /\ UNCHANGED seen
          /\ object'.slot = Absent /\ object'.spec = object.spec
      BY <2>4, DeleteEffect
    <3>2. IsPending(object.slot, object.spec) => object.slot.sec = work[R].sec
      BY <2>1, <3>1 DEF ReconcilerInv, Pending
    <3>3. Slot!Remove(work[R])
      BY <2>1, <2>2, <3>1, <3>2, SlotData DEF Slot!Remove
    <3> QED BY <2>1, <3>3 DEF Slot!SlotNext
  <2> QED BY <1>6, <2>3, <2>4 DEF RemoveWrite, DeleteAnnotation
<1>7. CASE DropWrite
  <2>1. UNCHANGED taken /\ pc[R] = "dropWrite"
    BY <1>7 DEF DropWrite
  <2>2. pc'[R] \in {"dropRead", "report"}
    BY <1>0, <1>7 DEF DropWrite, DeleteAnnotation, TryAgain, Leave, Goto
  <2>3. CASE NoWrite(R)
    <3>1. UNCHANGED <<object, seen>>
      BY <2>3 DEF NoWrite
    <3>2. CASE pc'[R] = "dropRead"
      BY <2>1, <3>1, <3>2, SlotStutter
    <3>3. CASE pc'[R] = "report"
      <4>1. Slot!EndDiscard
        BY <2>1, <3>1, <3>3 DEF Slot!EndDiscard
      <4> QED BY <4>1 DEF Slot!SlotNext
    <3> QED BY <2>2, <3>2, <3>3
  <2>4. CASE current[R] /\ Write([copy[R] EXCEPT !.slot = Absent])
    <3>1. UNCHANGED seen /\ object'.slot = Absent /\ object'.spec = object.spec
      BY <2>4, DeleteEffect
    <3>2. Slot!Discard
      BY <2>1, <3>1, SlotData DEF Slot!Discard
    <3> QED BY <3>2 DEF Slot!SlotNext
  <2> QED BY <1>7, <2>3, <2>4 DEF DropWrite, DeleteAnnotation
<1>8. CASE ReportInvalid
  <2>1. UNCHANGED taken /\ pc[R] = "report"
    BY <1>8 DEF ReportInvalid
  <2>2. pc'[R] = "idle"
    BY <1>0, <1>8 DEF ReportInvalid, Return, Leave, Goto
  <2>3. UNCHANGED <<object, seen>>
    <3>1. CASE Write(object)
      <4>1. object \in Object /\ object.slot \in seen \cup {Absent}
        BY DEF TypeOK, History, Known
      <4> QED BY <3>1, <4>1, WriteEffect
    <3>2. CASE NoWrite(R)
      BY <3>2 DEF NoWrite
    <3> QED BY <1>8, <3>1, <3>2 DEF ReportInvalid
  <2> QED BY <2>1, <2>2, <2>3, SlotStutter
<1> QED BY <1>1, <1>2, <1>3, <1>4, <1>5, <1>6, <1>7, <1>8 DEF Reconcile

LEMMA SlotOthers ==
  ASSUME RequestsInv, Others
  PROVE  [Slot!SlotNext]_(Slot!slotVars)
<1> USE ActorsDiffer DEF RequestsInv
<1>0. object \in Object
  BY DEF TypeOK
<1>1. CASE StatusPatch
  <2>1. UNCHANGED <<taken, pc>>
    BY <1>1 DEF StatusPatch
  <2>2. UNCHANGED <<object, seen>>
    BY <1>1, WriteEffect DEF StatusPatch, History, Known
  <2> QED BY <2>1, <2>2, SlotStutter
<1>2. CASE Poll \/ MarkPRRun \/ UnmarkPRRun \/ Deliver
  <2>1. UNCHANGED <<object, seen, taken, pc>>
    BY <1>2 DEF Poll, MarkPRRun, UnmarkPRRun, Deliver, server, actor
  <2> QED BY <2>1, SlotStutter
<1>3. CASE OverwriteRequest
  <2>1. PICK t \in OtherTypes :
          Write([object EXCEPT !.slot =
            [id |-> issued', sec |-> clock', whole |-> TRUE,
             type |-> t, from |-> "outside"]])
    BY <1>3 DEF OverwriteRequest
  <2> DEFINE r == [id |-> issued', sec |-> clock', whole |-> TRUE,
                   type |-> t, from |-> "outside"]
             obj == [object EXCEPT !.slot = r]
  <2>2. r \in Request
    <3>1. issued' \in Nat /\ clock' \in Nat
      BY <1>3, IssueTyped DEF OverwriteRequest
    <3>2. t \in RequestType \cup {"garbage"}
      BY RequestsAssumption DEF RequestType
    <3> QED BY <3>1, <3>2 DEF Request
  <2>3. r.from = "outside" /\ Write(obj)
    BY <2>1
  <2> HIDE DEF r
  <2>4. obj.slot = r /\ obj.spec = object.spec
    BY <1>0, <2>2, ObjectUpdates
  <2>5. r # Absent
    BY <2>2, AbsentIsNoRequest
  <2> HIDE DEF obj
  <2>6. object'.slot = r /\ object'.spec = object.spec /\ seen' = seen \cup {r}
    BY <2>3, <2>4, <2>5, WriteEffect
  <2>7. UNCHANGED <<taken, pc>>
    BY <1>3 DEF OverwriteRequest
  <2>8. Slot!Overwrite
    BY <2>2, <2>3, <2>6, <2>7, SlotData DEF Slot!Overwrite, Slot!Put
  <2> QED BY <2>8 DEF Slot!SlotNext
<1>4. CASE EditSpec
  <2>1. PICK s \in Specs : Write([object EXCEPT !.spec = s])
    BY <1>4 DEF EditSpec
  <2>2. object'.slot = object.slot /\ object'.spec = s /\ UNCHANGED seen
    <3> DEFINE obj == [object EXCEPT !.spec = s]
    <3>1. obj.slot = object.slot /\ obj.spec = s
      BY <1>0, ObjectUpdates
    <3> HIDE DEF obj
    <3>2. object' = obj /\ seen' = seen \cup ({obj.slot} \ {Absent})
      BY <2>1, WriteEffect DEF obj
    <3>3. object.slot \in seen \cup {Absent}
      BY DEF History, Known
    <3> QED BY <3>1, <3>2, <3>3
  <2>3. UNCHANGED <<taken, pc>>
    BY <1>4 DEF EditSpec
  <2>4. Slot!Edit
    BY <2>2, <2>3 DEF Slot!Edit
  <2> QED BY <2>4 DEF Slot!SlotNext
<1>5. CASE Crash
  <2>1. UNCHANGED <<object, seen, taken>> /\ pc'[R] = "idle"
    BY <1>5 DEF Crash
  <2>2. Slot!EndDiscard
    BY <2>1 DEF Slot!EndDiscard
  <2> QED BY <2>2 DEF Slot!SlotNext
<1> QED BY <1>1, <1>2, <1>3, <1>4, <1>5 DEF Others

\* Every behaviour of the controller is one of the atomic slot: cached reads,
\* retries after conflicts, lost replies and crashes do not show, and no request
\* that may still run is removed for another one, or replaced by the web server.
THEOREM SlotImplemented == Spec => ImplementsSlot
<1>1. RequestsInv /\ [Next]_vars => [Slot!SlotNext]_(Slot!slotVars)
  <2> SUFFICES ASSUME RequestsInv, [Next]_vars PROVE [Slot!SlotNext]_(Slot!slotVars)
    OBVIOUS
  <2>1. CASE UNCHANGED vars
    BY <2>1, SlotStutter DEF vars, server, actor
  <2> QED BY <2>1, NextCases, SlotHandle, SlotReconcile, SlotOthers
<1> QED BY <1>1, SlotInit, RequestsInvariant, PTL DEF Spec, ImplementsSlot, Slot!SlotSpec

-----------------------------------------------------------------------------
(* A request is not run twice while it is there, as long as no call fails. *)

Ensuring(h) == pc[h] \in {"read", "write"}

\* A request that a handler is about to write is nobody else's and, unless a reply
\* was lost, has not been written.
IdsInv ==
  /\ \A r \in seen : r.id <= issued
  /\ \A h \in Handlers : Ensuring(h) =>
       /\ work[h].id <= issued
       /\ failures = 0 => \A r \in seen : r.id # work[h].id
       /\ \A g \in Handlers \ {h} : Ensuring(g) => work[g].id # work[h].id

\* The request s is still in the annotation.
Still(s) == s # Absent /\ s = object.slot

\* What has left the annotation does not come back: once the request of now is in
\* an update, it is in all that follow.
FeedInv ==
  /\ \A i \in 1..Len(feed) :
       Still(feed[i].slot) => \A j \in i..Len(feed) : feed[j].slot = object.slot
  /\ Still(cache.slot) => \A j \in 1..Len(feed) : feed[j].slot = object.slot

\* The request the reconciler has in hand; the cache has it until it is removed.
Held == IF pc[R] = "inspect" THEN copy[R].slot ELSE work[R]
HeldInv == Still(Held) => cache.slot = object.slot

WorkInv ==
  /\ taken \subseteq seen
  /\ pc[R] \in {"idle", "inspect", "dropRead", "dropWrite", "report"} => work[R] = Absent

\* A request that was given to a run and is still there is being run or removed.
TakenInv == \A r \in taken : Still(r) => work[R] = r

OnceInv ==
  /\ RequestsInv /\ IdsInv /\ WorkInv
  /\ failures = 0 => FeedInv /\ HeldInv /\ TakenInv

LEMMA FailuresGrow ==
  ASSUME TypeOK, [Next]_vars, failures' = 0
  PROVE  failures = 0 /\ ~ Failure /\ ~ Crash
<1>1. failures \in Nat
  BY DEF TypeOK
<1>2. ~ Failure
  BY <1>1 DEF Failure
<1>3. ~ Crash
  BY <1>2 DEF Crash
<1> SUFFICES failures = 0
  BY <1>2, <1>3
<1>4. ASSUME NEW h \in Handlers, Handle(h) PROVE failures = 0
  <2>1. CASE EnsureWrite(h)
    BY <1>2, <2>1 DEF EnsureWrite
  <2>2. CASE FetchForForce(h) \/ CheckForce(h) \/ EnsureRead(h)
    BY <2>2 DEF FetchForForce, CheckForce, EnsureRead, counts
  <2> QED BY <1>4, <2>1, <2>2 DEF Handle
<1>5. CASE Reconcile
  <2>1. CASE ReadModule \/ Inspect \/ Mark \/ FinishRun \/ RemoveRead \/ DropRead
    BY <2>1 DEF ReadModule, Inspect, Mark, FinishRun, RemoveRead, DropRead, counts
  <2>2. CASE StartRun \/ ReportInvalid
    BY <1>2, <2>2 DEF StartRun, ReportInvalid
  <2>3. CASE RemoveWrite
    BY <1>2, <2>3 DEF RemoveWrite, DeleteAnnotation, TryAgain
  <2>4. CASE DropWrite
    BY <1>2, <2>4 DEF DropWrite, DeleteAnnotation, TryAgain
  <2> QED BY <1>5, <2>1, <2>2, <2>3, <2>4 DEF Reconcile
<1>6. CASE Others
  <2>1. CASE StatusPatch \/ Poll \/ Deliver \/ MarkPRRun \/ UnmarkPRRun
    BY <2>1 DEF StatusPatch, Poll, Deliver, MarkPRRun, UnmarkPRRun, counts
  <2>2. CASE OverwriteRequest \/ EditSpec
    BY <2>2 DEF OverwriteRequest, EditSpec
  <2> QED BY <1>3, <1>6, <2>1, <2>2 DEF Others
<1> QED BY <1>2, <1>3, <1>4, <1>5, <1>6, NextCases DEF vars, counts

LEMMA IdTypes ==
  ASSUME RequestsInv
  PROVE  /\ issued \in Nat /\ failures \in Nat
         /\ \A r \in seen : r \in Request /\ r.id \in Nat
         /\ \A h \in Handlers : Ensuring(h) => work[h] \in Request /\ work[h].id \in Nat
<1>1. issued \in Nat /\ failures \in Nat /\ seen \subseteq Request
  BY DEF RequestsInv, TypeOK
<1>2. \A h \in Handlers : Ensuring(h) => work[h] \in Request
  BY DEF RequestsInv, HandlerInv, Ensuring
<1> QED BY <1>1, <1>2 DEF Request

\* A step that neither makes a request nor writes one.
LEMMA IdsKept ==
  ASSUME IdsInv, seen' = seen, issued' = issued, failures' = 0 => failures = 0,
         \A h \in Handlers : Ensuring(h)' => Ensuring(h) /\ work'[h] = work[h]
  PROVE  IdsInv'
  BY DEF IdsInv

\* What EnsureRequest stores.
LEMMA EnsureEffect ==
  ASSUME RequestsInv, NEW h \in Handlers, EnsureWrite(h),
         Write([copy[h] EXCEPT !.slot = Marshal(work[h])])
  PROVE  /\ seen' = seen \cup {Marshal(work[h])} /\ Marshal(work[h]).id = work[h].id
         /\ [copy[h] EXCEPT !.slot = Marshal(work[h])] \in Object
         /\ [copy[h] EXCEPT !.slot = Marshal(work[h])].slot = Marshal(work[h])
         /\ Marshal(work[h]) \in Request
<1> DEFINE m == Marshal(work[h])
           obj == [copy[h] EXCEPT !.slot = m]
<1>1. work[h] \in Request /\ copy[h] \in Object
  BY ActorsDiffer DEF EnsureWrite, RequestsInv, HandlerInv, TypeOK
<1>2. m \in Request /\ m # Absent
  BY <1>1, MarshalTyped
<1>3. m.id = work[h].id
  BY <1>1 DEF Marshal, Request
<1> HIDE DEF m
<1>4. obj \in Object /\ obj.slot = m
  BY <1>1, <1>2, ObjectUpdates
<1> HIDE DEF obj
<1>5. seen' = seen \cup ({obj.slot} \ {Absent})
  BY WriteEffect DEF m, obj
<1> QED BY <1>2, <1>3, <1>4, <1>5 DEF m, obj

LEMMA IdsHandle ==
  ASSUME RequestsInv, IdsInv, NEW h \in Handlers, Handle(h), failures' = 0 => failures = 0
  PROVE  IdsInv'
<1> USE ActorsDiffer
<1>0. /\ pc \in [Actors -> Label] /\ work \in [Actors -> Request \cup {Absent}]
      /\ TypeOK
  BY DEF RequestsInv, TypeOK
<1>1. \A g \in Handlers \ {h} : pc'[g] = pc[g] /\ work'[g] = work[g]
  BY <1>0, FrameHandle
<1>2. CASE FetchForForce(h)
  <2>1. UNCHANGED <<seen, issued>> /\ ~ Ensuring(h)'
    BY <1>0, <1>2 DEF FetchForForce, Goto, Ensuring, server, counts
  <2> QED BY <1>1, <2>1, IdsKept DEF Ensuring
<1>3. CASE CheckForce(h)
  <2>0. UNCHANGED seen
    BY <1>3 DEF CheckForce, server
  <2>1. CASE Reply(h, "refused") /\ UNCHANGED issued
    <3>1. ~ Ensuring(h)'
      BY <1>0, <2>1 DEF Reply, Return, Leave, Goto, Ensuring
    <3> QED BY <1>1, <2>0, <2>1, <3>1, IdsKept DEF Ensuring
  <2>2. ASSUME NEW t \in ForceTypes, Issue,
               work' = [work EXCEPT ![h] =
                 [id |-> issued', sec |-> clock', whole |-> FALSE,
                  type |-> t, from |-> "web"]]
        PROVE  IdsInv'
    <3>1. issued' = issued + 1 /\ work'[h].id = issued'
      BY <1>0, <2>2 DEF Issue
    <3>2. \A r \in seen' : r.id < issued'
      BY <2>0, <3>1, IdTypes DEF IdsInv
    <3>3. \A g \in Handlers \ {h} : Ensuring(g)' => Ensuring(g) /\ work'[g].id < issued'
      BY <1>1, <3>1, IdTypes DEF IdsInv, Ensuring
    <3>4. issued' \in Nat /\ \A r \in seen' : r.id \in Nat
      BY <2>0, <3>1, IdTypes
    <3>5. \A g \in Handlers \ {h} : Ensuring(g)' => work'[g].id \in Nat
      BY <1>1, <3>3, IdTypes
    <3>6. \A g \in Handlers \ {h} : Ensuring(g)' /\ failures' = 0 => \A r \in seen' : r.id # work'[g].id
      BY <1>1, <2>0, <3>3 DEF IdsInv
    <3>7. \A g, k \in Handlers \ {h} : g # k /\ Ensuring(g)' /\ Ensuring(k)' => work'[g].id # work'[k].id
      BY <1>1, <3>3 DEF IdsInv
    <3> QED BY <3>1, <3>2, <3>3, <3>4, <3>5, <3>6, <3>7 DEF IdsInv
  <2> QED BY <1>3, <2>1, <2>2 DEF CheckForce
<1>4. CASE EnsureRead(h)
  <2>1. UNCHANGED <<seen, issued>> /\ pc[h] = "read"
    BY <1>4 DEF EnsureRead, server, counts
  <2>2. Ensuring(h)' => work'[h] = work[h]
    BY <1>0, <1>4 DEF EnsureRead, Reply, Return, Leave, Goto, Ensuring
  <2> QED BY <1>1, <2>1, <2>2, IdsKept DEF Ensuring
<1>5. CASE EnsureWrite(h)
  <2>1. UNCHANGED issued /\ pc[h] = "write"
    BY <1>5 DEF EnsureWrite
  <2>2. Ensuring(h)' => work'[h] = work[h]
    BY <1>0, <1>5 DEF EnsureWrite, Reply, Return, TryAgain, Leave, Goto, Ensuring
  <2>3. CASE NoWrite(h)
    BY <1>1, <2>1, <2>2, <2>3, IdsKept DEF Ensuring, NoWrite
  <2>4. CASE Write([copy[h] EXCEPT !.slot = Marshal(work[h])])
    <3>1. seen' = seen \cup {Marshal(work[h])} /\ Marshal(work[h]).id = work[h].id
      BY <1>5, <2>4, EnsureEffect
    <3>2. Ensuring(h)' => failures' # 0
      <4>1. CASE Reply(h, "queued") \/ Reply(h, "error")
        BY <1>0, <4>1 DEF Reply, Return, Leave, Goto, Ensuring
      <4>2. CASE Failure
        BY <4>2, IdTypes DEF Failure
      <4>3. CASE ~ current[h] /\ NoWrite(h)
        <5>1. feed' = feed
          BY <4>3 DEF NoWrite
        <5>2. Len(feed') = Len(feed) + 1 /\ Len(feed) \in Nat
          BY <1>0, <1>5, <2>4, EnsureEffect, FeedFacts DEF Write
        <5> QED BY <5>1, <5>2
      <4> QED BY <1>5, <4>1, <4>2, <4>3 DEF EnsureWrite
    <3>3. Ensuring(h)
      BY <2>1 DEF Ensuring
    <3>4. \A r \in seen' : r.id <= issued'
      BY <2>1, <3>1, <3>3 DEF IdsInv
    <3>5. \A g \in Handlers \ {h} : Ensuring(g)' /\ failures' = 0 =>
             \A r \in seen' : r.id # work'[g].id
      BY <1>1, <3>1, <3>3 DEF IdsInv, Ensuring
    <3>6. \A g \in Handlers : Ensuring(g)' => Ensuring(g) /\ work'[g] = work[g]
      BY <1>1, <2>2, <3>3 DEF Ensuring
    <3> QED BY <2>1, <3>2, <3>4, <3>5, <3>6 DEF IdsInv
  <2> QED BY <1>5, <2>3, <2>4 DEF EnsureWrite
<1> QED BY <1>2, <1>3, <1>4, <1>5 DEF Handle

\* What a step may do to the module and to what the cache knows of it.
KeepsObject == UNCHANGED <<object, feed, cache, seen>>
Keepable(s) == s = Absent \/ s = object.slot
Writes(obj) == Write(obj) /\ UNCHANGED cache

LEMMA ReconcileWrites ==
  ASSUME RequestsInv, Reconcile
  PROVE  KeepsObject \/ \E obj \in Object : Writes(obj) /\ Keepable(obj.slot)
<1> USE DEF KeepsObject, Keepable, Writes
<1>0. object \in Object /\ copy[R] \in Object
  BY ActorsDiffer DEF RequestsInv, TypeOK
<1>1. CASE ReadModule \/ Inspect \/ StartRun \/ Mark \/ FinishRun \/ RemoveRead \/ DropRead
  BY <1>1 DEF ReadModule, Inspect, StartRun, Mark, FinishRun, RemoveRead, DropRead, server
<1>2. CASE RemoveWrite \/ DropWrite
  <2>1. UNCHANGED cache
    BY <1>2 DEF RemoveWrite, DropWrite
  <2>2. /\ [copy[R] EXCEPT !.slot = Absent] \in Object
        /\ [copy[R] EXCEPT !.slot = Absent].slot = Absent
    BY <1>0, ObjectUpdates
  <2>3. CASE NoWrite(R)
    BY <2>1, <2>3 DEF NoWrite
  <2>4. CASE Write([copy[R] EXCEPT !.slot = Absent])
    BY <2>1, <2>2, <2>4
  <2> QED BY <1>2, <2>3, <2>4 DEF RemoveWrite, DropWrite, DeleteAnnotation
<1>3. CASE ReportInvalid
  <2>1. UNCHANGED cache
    BY <1>3 DEF ReportInvalid
  <2> QED BY <1>0, <1>3, <2>1 DEF ReportInvalid, NoWrite
<1> QED BY <1>1, <1>2, <1>3 DEF Reconcile

LEMMA IdsReconcile ==
  ASSUME RequestsInv, IdsInv, Reconcile, failures' = 0 => failures = 0
  PROVE  IdsInv'
<1>1. \A h \in Handlers : pc'[h] = pc[h] /\ work'[h] = work[h]
  BY FrameReconcile, ActorsDiffer DEF RequestsInv
<1>2. issued' = issued
  BY DEF Reconcile, ReadModule, Inspect, StartRun, Mark, FinishRun, RemoveRead, RemoveWrite,
         DropRead, DropWrite, ReportInvalid, counts
<1>3. seen' = seen
  <2>1. object.slot \in seen \cup {Absent}
    BY DEF RequestsInv, History, Known
  <2>2. \A obj \in Object : Writes(obj) /\ Keepable(obj.slot) => seen' = seen
    BY <2>1 DEF Writes, Write, Keepable
  <2> QED BY <2>2, ReconcileWrites DEF KeepsObject
<1> QED BY <1>1, <1>2, <1>3, IdsKept DEF Ensuring

\* The request that the trigger-run action or kubectl writes is new.
LEMMA OverwriteEffect ==
  ASSUME RequestsInv, OverwriteRequest
  PROVE  \E r \in Request :
           /\ r.id = issued' /\ issued' = issued + 1
           /\ [object EXCEPT !.slot = r] \in Object /\ Writes([object EXCEPT !.slot = r])
           /\ [object EXCEPT !.slot = r].slot = r /\ seen' = seen \cup {r}
<1>1. PICK t \in OtherTypes :
        Write([object EXCEPT !.slot =
          [id |-> issued', sec |-> clock', whole |-> TRUE,
           type |-> t, from |-> "outside"]])
  BY DEF OverwriteRequest
<1> DEFINE r == [id |-> issued', sec |-> clock', whole |-> TRUE,
                 type |-> t, from |-> "outside"]
           obj == [object EXCEPT !.slot = r]
<1>2. r \in Request
  <2>1. issued' \in Nat /\ clock' \in Nat
    BY IssueTyped DEF OverwriteRequest, RequestsInv
  <2>2. t \in RequestType \cup {"garbage"}
    BY RequestsAssumption DEF RequestType
  <2> QED BY <2>1, <2>2 DEF Request
<1>3. r.id = issued' /\ Write(obj)
  BY <1>1
<1> HIDE DEF r
<1>4. object \in Object /\ r # Absent
  BY <1>2, AbsentIsNoRequest DEF RequestsInv, TypeOK
<1>5. obj \in Object /\ obj.slot = r
  BY <1>2, <1>4, ObjectUpdates
<1> HIDE DEF obj
<1>6. seen' = seen \cup {r}
  BY <1>3, <1>4, <1>5, WriteEffect
<1>7. issued' = issued + 1 /\ UNCHANGED cache
  BY DEF OverwriteRequest, Issue
<1> QED BY <1>2, <1>3, <1>5, <1>6, <1>7 DEF obj, Writes

LEMMA IdsOthers ==
  ASSUME RequestsInv, IdsInv, Others, failures' = 0 => failures = 0
  PROVE  IdsInv'
<1>0. object \in Object /\ object.slot \in seen \cup {Absent}
  BY DEF RequestsInv, TypeOK, History, Known
<1>1. CASE StatusPatch
  BY <1>0, <1>1, WriteEffect, IdsKept DEF StatusPatch, Ensuring, counts
<1>2. CASE Poll \/ Deliver \/ MarkPRRun \/ UnmarkPRRun
  BY <1>2, IdsKept DEF Poll, Deliver, MarkPRRun, UnmarkPRRun, Ensuring, server, actor, counts
<1>3. CASE OverwriteRequest
  <2>1. PICK r \in Request : r.id = issued' /\ issued' = issued + 1 /\ seen' = seen \cup {r}
    BY <1>3, OverwriteEffect
  <2>2. UNCHANGED <<pc, work, failures>>
    BY <1>3 DEF OverwriteRequest
  <2>3. issued \in Nat /\ \A s \in seen : s.id \in Nat /\ s.id < issued'
    BY <2>1, IdTypes DEF IdsInv
  <2>4. \A h \in Handlers : Ensuring(h)' => Ensuring(h) /\ work[h].id \in Nat /\ work[h].id < issued'
    BY <2>1, <2>2, IdTypes DEF IdsInv, Ensuring
  <2>5. \A s \in seen' : s.id <= issued'
    BY <2>1, <2>3
  <2>6. \A h \in Handlers : Ensuring(h)' /\ failures' = 0 =>
          \A s \in seen' : s.id # work'[h].id
    BY <2>1, <2>2, <2>4 DEF IdsInv
  <2>7. \A h \in Handlers : Ensuring(h)' =>
          \A g \in Handlers \ {h} : Ensuring(g)' => work'[g].id # work'[h].id
    BY <2>2, <2>4 DEF IdsInv
  <2>8. \A h \in Handlers : Ensuring(h)' => work'[h].id <= issued'
    <3>1. issued' \in Nat
      BY <2>1, <2>3
    <3> QED BY <2>2, <2>4, <3>1
  <2> QED BY <2>5, <2>6, <2>7, <2>8 DEF IdsInv
<1>4. CASE EditSpec
  <2>1. PICK s \in Specs : Write([object EXCEPT !.spec = s])
    BY <1>4 DEF EditSpec
  <2>2. [object EXCEPT !.spec = s].slot = object.slot
    BY <1>0, ObjectUpdates
  <2>3. seen' = seen
    <3> DEFINE obj == [object EXCEPT !.spec = s]
    <3>1. Write(obj) /\ obj.slot = object.slot
      BY <2>1, <2>2
    <3> HIDE DEF obj
    <3> QED BY <1>0, <3>1, WriteEffect
  <2> QED BY <1>4, <2>3, IdsKept DEF EditSpec, Ensuring
<1>5. CASE Crash
  <2>1. \A h \in Handlers : ~ Ensuring(h)'
    BY <1>5, ActorsDiffer DEF Crash, Ensuring
  <2> QED BY <1>5, <2>1, IdsKept DEF Crash
<1> QED BY <1>1, <1>2, <1>3, <1>4, <1>5 DEF Others

\* As long as no call has failed, what is written is no request, the one that is
\* there or one that never was.
LEMMA StepWrites ==
  ASSUME RequestsInv, IdsInv, [Next]_vars, failures' = 0
  PROVE  \/ KeepsObject \/ Deliver
         \/ \E obj \in Object : Writes(obj) /\ (Keepable(obj.slot) \/ obj.slot \notin seen)
<1>0. object \in Object /\ TypeOK /\ failures = 0 /\ ~ Crash
  BY FailuresGrow DEF RequestsInv, TypeOK
<1>1. ASSUME NEW h \in Handlers, Handle(h)
      PROVE  \/ KeepsObject
             \/ \E obj \in Object : Writes(obj) /\ obj.slot \notin seen
  <2>1. UNCHANGED cache
    BY <1>0, <1>1, FrameHandle
  <2>2. CASE EnsureWrite(h) /\ Write([copy[h] EXCEPT !.slot = Marshal(work[h])])
    <3> DEFINE obj == [copy[h] EXCEPT !.slot = Marshal(work[h])]
    <3>1. obj \in Object /\ obj.slot = Marshal(work[h]) /\ Marshal(work[h]).id = work[h].id
      BY <2>2, EnsureEffect
    <3>2. Ensuring(h)
      BY <2>2 DEF EnsureWrite, Ensuring
    <3>3. Marshal(work[h]) \notin seen
      BY <1>0, <3>1, <3>2 DEF IdsInv
    <3>4. Writes(obj)
      BY <2>1, <2>2 DEF Writes
    <3> QED BY <3>1, <3>3, <3>4
  <2>3. CASE EnsureWrite(h) /\ NoWrite(h)
    BY <2>1, <2>3 DEF KeepsObject, NoWrite
  <2>4. CASE FetchForForce(h) \/ CheckForce(h) \/ EnsureRead(h)
    BY <2>4 DEF FetchForForce, CheckForce, EnsureRead, KeepsObject, server
  <2> QED BY <1>1, <2>2, <2>3, <2>4 DEF Handle, EnsureWrite
<1>2. CASE Reconcile
  BY <1>2, ReconcileWrites
<1>3. CASE Others
  <2>1. CASE StatusPatch
    BY <1>0, <2>1 DEF StatusPatch, Writes, Keepable
  <2>2. CASE Poll \/ MarkPRRun \/ UnmarkPRRun
    BY <2>2 DEF Poll, MarkPRRun, UnmarkPRRun, KeepsObject, server
  <2>3. CASE OverwriteRequest
    <3>1. PICK r \in Request : /\ r.id = issued' /\ issued' = issued + 1
                               /\ [object EXCEPT !.slot = r] \in Object
                               /\ Writes([object EXCEPT !.slot = r])
                               /\ [object EXCEPT !.slot = r].slot = r
      BY <2>3, OverwriteEffect
    <3>2. r \notin seen
      BY <3>1, IdTypes DEF IdsInv
    <3> QED BY <3>1, <3>2
  <2>4. CASE EditSpec
    <3>1. PICK s \in Specs : Write([object EXCEPT !.spec = s])
      BY <2>4 DEF EditSpec
    <3> DEFINE obj == [object EXCEPT !.spec = s]
    <3>2. obj \in Object /\ obj.slot = object.slot
      BY <1>0, ObjectUpdates
    <3>3. Writes(obj)
      BY <2>4, <3>1 DEF Writes, EditSpec
    <3> HIDE DEF obj
    <3> QED BY <3>2, <3>3 DEF Keepable
  <2> QED BY <1>0, <1>3, <2>1, <2>2, <2>3, <2>4 DEF Others
<1>4. CASE UNCHANGED vars
  BY <1>4 DEF vars, server, KeepsObject
<1> QED BY <1>1, <1>2, <1>3, <1>4, NextCases

LEMMA FeedStep ==
  ASSUME RequestsInv, IdsInv, FeedInv, [Next]_vars, failures' = 0
  PROVE  FeedInv'
<1>0. TypeOK /\ Len(feed) \in Nat
  BY FeedFacts DEF RequestsInv
<1>1. CASE KeepsObject
  BY <1>1 DEF KeepsObject, FeedInv, Still
<1>2. CASE Deliver
  <2>1. /\ object' = object /\ cache' = feed[1] /\ feed' = Tail(feed) /\ Len(feed) > 0
        /\ Len(feed') = Len(feed) - 1
        /\ \A i \in 1..(Len(feed) - 1) : feed'[i] = feed[i + 1]
    BY <1>0, <1>2, FeedFacts DEF Deliver
  <2>2. \A i \in 1..Len(feed') : i + 1 \in 1..Len(feed) /\ feed'[i] = feed[i + 1]
    BY <1>0, <2>1
  <2>3. ASSUME NEW i \in 1..Len(feed'), Still(feed[i].slot)', NEW j \in i..Len(feed')
        PROVE  feed'[j].slot = object'.slot
    <3>1. j \in 1..Len(feed') /\ j + 1 \in (i + 1)..Len(feed)
      BY <1>0, <2>1, <2>3
    <3>2. Still(feed[i + 1].slot)
      BY <2>1, <2>2, <2>3 DEF Still
    <3> QED BY <2>1, <2>2, <3>1, <3>2 DEF FeedInv
  <2>4. ASSUME Still(cache.slot)', NEW j \in 1..Len(feed')
        PROVE  feed'[j].slot = object'.slot
    <3>1. 1 \in 1..Len(feed) /\ j + 1 \in 1..Len(feed)
      BY <1>0, <2>1, <2>2
    <3>2. Still(feed[1].slot)
      BY <2>1, <2>4 DEF Still
    <3> QED BY <2>1, <2>2, <3>1, <3>2 DEF FeedInv
  <2> QED BY <2>3, <2>4 DEF FeedInv
<1>3. ASSUME NEW obj \in Object, Writes(obj), Keepable(obj.slot) \/ obj.slot \notin seen
      PROVE  FeedInv'
  <2>1. /\ object' = obj /\ cache' = cache
        /\ Len(feed') = Len(feed) + 1 /\ feed'[Len(feed) + 1] = obj
        /\ \A i \in 1..Len(feed) : feed'[i] = feed[i]
    BY <1>0, <1>3, FeedFacts DEF Writes, Write
  <2>2. CASE obj.slot = Absent
    BY <2>1, <2>2 DEF Still, FeedInv
  <2>3. CASE obj.slot = object.slot
    <3>2. \A i \in 1..Len(feed') : i \in 1..Len(feed) \/ i = Len(feed) + 1
      BY <1>0, <2>1
    <3>3. ASSUME NEW i \in 1..Len(feed'), Still(feed[i].slot)', NEW j \in i..Len(feed')
          PROVE  feed'[j].slot = object'.slot
      <4>1. CASE j = Len(feed) + 1
        BY <2>1, <4>1
      <4>2. CASE j # Len(feed) + 1
        <5>1. i \in 1..Len(feed) /\ j \in i..Len(feed) /\ j \in 1..Len(feed)
          BY <1>0, <2>1, <3>3, <4>2
        <5>2. Still(feed[i].slot)
          BY <2>1, <2>3, <3>3, <5>1 DEF Still
        <5> QED BY <2>1, <2>3, <5>1, <5>2 DEF FeedInv
      <4> QED BY <4>1, <4>2
    <3>4. ASSUME Still(cache.slot)', NEW j \in 1..Len(feed')
          PROVE  feed'[j].slot = object'.slot
      <4>1. Still(cache.slot)
        BY <2>1, <2>3, <3>4 DEF Still
      <4> QED BY <2>1, <2>3, <3>2, <4>1 DEF FeedInv
    <3> QED BY <3>3, <3>4 DEF FeedInv
  <2>4. CASE obj.slot \notin seen /\ obj.slot # Absent
    <3>1. \A i \in 1..Len(feed) : ~ Still(feed[i].slot)'
      BY <2>1, <2>4 DEF RequestsInv, History, Known, Still
    <3>2. ~ Still(cache.slot)'
      BY <2>1, <2>4 DEF RequestsInv, History, Known, Still
    <3>3. ASSUME NEW i \in 1..Len(feed'), Still(feed[i].slot)', NEW j \in i..Len(feed')
          PROVE  feed'[j].slot = object'.slot
      <4>1. i = Len(feed) + 1
        BY <1>0, <2>1, <3>1, <3>3
      <4>2. j = Len(feed) + 1
        BY <1>0, <2>1, <3>3, <4>1
      <4> QED BY <2>1, <4>2
    <3> QED BY <3>2, <3>3 DEF FeedInv
  <2> QED BY <1>3, <2>2, <2>3, <2>4 DEF Keepable
<1> QED BY <1>1, <1>2, <1>3, StepWrites

\* How the reconciler comes to the request in hand, and how it lets go of it.
Lets == work'[R] = Absent
Keeps == work'[R] = work[R] /\ UNCHANGED taken

LEMMA WorkMoves ==
  ASSUME RequestsInv, WorkInv, [Next]_vars
  PROVE  /\ WorkInv'
         /\ \/ Keeps /\ Held' \in {Held, Absent}
            \/ Keeps /\ Held' = cache.slot /\ KeepsObject
            \/ /\ pc[R] = "inspect" /\ KeepsObject /\ Held' = Held
               /\ work'[R] = Held /\ taken' = taken \cup {Held} /\ Held \in seen
            \/ UNCHANGED taken /\ Lets /\ Held' = Absent /\ (RemoveRead \/ RemoveWrite \/ Crash)
<1> USE ActorsDiffer DEF Held, Keeps, Lets, WorkInv
<1>0. /\ pc \in [Actors -> Label] /\ work \in [Actors -> Request \cup {Absent}]
      /\ copy \in [Actors -> Object] /\ TypeOK /\ History
  BY DEF RequestsInv, TypeOK
<1>s. seen \subseteq seen'
  <2>1. CASE UNCHANGED vars
    BY <2>1 DEF vars, server
  <2> QED BY <1>0, <2>1, NextCases, HistoryHandle, HistoryReconcile, HistoryOthers
<1>1. CASE \E h \in Handlers : Handle(h)
  <2>1. pc'[R] = pc[R] /\ work'[R] = work[R] /\ copy'[R] = copy[R] /\ UNCHANGED taken
    BY <1>0, <1>1, FrameHandle
  <2> QED BY <1>s, <2>1
<1>2. CASE ReadModule
  <2>1. /\ pc[R] = "idle" /\ pc'[R] = "inspect" /\ copy'[R] = cache
        /\ UNCHANGED <<work, taken>> /\ KeepsObject
    BY <1>0, <1>2 DEF ReadModule, Read, Goto, server, KeepsObject
  <2> QED BY <1>s, <2>1
<1>3. CASE Inspect
  <2>1. pc[R] = "inspect" /\ work[R] = Absent /\ KeepsObject
    BY <1>3 DEF Inspect, server, KeepsObject
  <2>2. CASE Return(R) /\ UNCHANGED <<work, taken>>
    <3>1. pc'[R] = "idle"
      BY <1>0, <2>2 DEF Return, Leave, Goto
    <3> QED BY <1>s, <2>1, <2>2, <3>1
  <2>3. CASE (Leave(R, "start") \/ Leave(R, "dropRead")) /\ UNCHANGED <<work, taken>>
    <3>1. pc'[R] \in {"start", "dropRead"}
      BY <1>0, <2>3 DEF Leave, Goto
    <3> QED BY <1>s, <2>1, <2>3, <3>1
  <2>4. CASE /\ Pending(copy[R]) /\ work' = [work EXCEPT ![R] = copy[R].slot]
             /\ taken' = taken \cup {copy[R].slot} /\ Leave(R, "start")
    <3>1. pc'[R] = "start" /\ work'[R] = copy[R].slot
      BY <1>0, <2>4 DEF Leave, Goto
    <3>2. copy[R].slot \in seen
      BY <1>0, <2>4, AbsentIsNoRequest DEF History, Known, Pending
    <3>3. taken' \subseteq seen'
      BY <1>s, <2>4, <3>2
    <3> QED BY <2>1, <2>4, <3>1, <3>2, <3>3
  <2> QED BY <1>3, <2>2, <2>3, <2>4 DEF Inspect
<1>4. CASE StartRun \/ Mark \/ FinishRun
  <2>1. UNCHANGED <<work, taken>> /\ pc[R] \in {"start", "load", "run"}
    BY <1>4 DEF StartRun, Mark, FinishRun
  <2>2. pc'[R] \in {"load", "run"} \/ (IF work[R] = Absent THEN pc'[R] = "idle" ELSE pc'[R] = "read")
    BY <1>0, <1>4 DEF StartRun, Mark, FinishRun, EndStart, Return, Leave, Goto
  <2> QED BY <1>s, <2>1, <2>2
<1>5. CASE RemoveRead
  <2>1. UNCHANGED taken /\ pc[R] = "read"
    BY <1>5 DEF RemoveRead
  <2>2. CASE Return(R) /\ Forget
    <3>1. pc'[R] = "idle" /\ work'[R] = Absent
      BY <1>0, <2>2 DEF Return, Leave, Goto, Forget
    <3> QED BY <1>s, <1>5, <2>1, <3>1
  <2>3. CASE Goto(R, "write") /\ UNCHANGED work
    <3>1. pc'[R] = "write"
      BY <1>0, <2>3 DEF Goto
    <3> QED BY <1>s, <2>1, <2>3, <3>1
  <2> QED BY <1>5, <2>2, <2>3 DEF RemoveRead
<1>6. CASE RemoveWrite
  <2>1. UNCHANGED taken /\ pc[R] = "write"
    BY <1>6 DEF RemoveWrite
  <2>2. CASE Return(R) /\ Forget
    <3>1. pc'[R] = "idle" /\ work'[R] = Absent
      BY <1>0, <2>2 DEF Return, Leave, Goto, Forget
    <3> QED BY <1>s, <1>6, <2>1, <3>1
  <2>3. CASE TryAgain(R, "read")
    <3>1. pc'[R] = "read" /\ work' = work
      BY <1>0, <2>3 DEF TryAgain, Leave, Goto
    <3> QED BY <1>s, <2>1, <3>1
  <2> QED BY <1>6, <2>2, <2>3 DEF RemoveWrite, DeleteAnnotation
<1>7. CASE DropRead \/ DropWrite
  <2>1. UNCHANGED <<work, taken>> /\ pc[R] \in {"dropRead", "dropWrite"}
    BY <1>7 DEF DropRead, DropWrite, DeleteAnnotation, TryAgain
  <2>2. pc'[R] \in {"dropRead", "dropWrite", "report"}
    BY <1>0, <1>7 DEF DropRead, DropWrite, DeleteAnnotation, TryAgain, Leave, Goto
  <2> QED BY <1>s, <2>1, <2>2
<1>8. CASE ReportInvalid
  <2>1. UNCHANGED <<work, taken>> /\ pc[R] = "report" /\ pc'[R] = "idle"
    BY <1>0, <1>8 DEF ReportInvalid, Return, Leave, Goto
  <2> QED BY <1>s, <2>1
<1>9. CASE Crash
  <2>1. UNCHANGED taken /\ pc'[R] = "idle"
        /\ work'[R] = IF pc[R] = "idle" THEN work[R] ELSE Absent
    BY <1>9 DEF Crash
  <2>2. work'[R] = Absent
    BY <2>1
  <2> QED BY <1>s, <1>9, <2>1, <2>2
<1>10. CASE (Others /\ ~ Crash) \/ UNCHANGED vars
  <2>1. UNCHANGED <<pc, work, copy, taken>>
    BY <1>10 DEF Others, StatusPatch, Poll, Deliver, OverwriteRequest, EditSpec,
                 MarkPRRun, UnmarkPRRun, actor, vars
  <2> QED BY <1>s, <2>1
<1> QED BY <1>1, <1>2, <1>3, <1>4, <1>5, <1>6, <1>7, <1>8, <1>9, <1>10, NextCases DEF Reconcile

\* What is still there was there before.
LEMMA StillBefore ==
  ASSUME RequestsInv, IdsInv, [Next]_vars, failures' = 0,
         NEW s \in seen \cup {Absent}, Still(s)'
  PROVE  Still(s) /\ (cache.slot = s => cache'.slot = s \/ Deliver)
<1>1. CASE KeepsObject
  BY <1>1 DEF KeepsObject, Still
<1>2. CASE Deliver
  BY <1>2 DEF Deliver, Still
<1>3. ASSUME NEW obj \in Object, Writes(obj), Keepable(obj.slot) \/ obj.slot \notin seen
      PROVE  Still(s) /\ cache' = cache
  BY <1>3 DEF Writes, Write, Keepable, Still
<1> QED BY <1>1, <1>2, <1>3, StepWrites

LEMMA HeldKnown ==
  ASSUME RequestsInv, WorkInv PROVE Held \in seen \cup {Absent}
  BY ActorsDiffer DEF RequestsInv, History, ReconcilerInv, WorkInv, Known, Held

LEMMA HeldStep ==
  ASSUME RequestsInv, IdsInv, WorkInv, FeedInv, HeldInv, [Next]_vars, failures' = 0
  PROVE  HeldInv'
<1> SUFFICES ASSUME Held' # Absent, Held' = object'.slot PROVE cache'.slot = object'.slot
  BY DEF HeldInv, Still
<1>1. CASE Held' = cache.slot /\ KeepsObject
  BY <1>1 DEF KeepsObject
<1>2. CASE Held' = Held
  <2>1. PICK s \in seen \cup {Absent} : s = Held
    BY HeldKnown
  <2>2. s = object'.slot /\ s # Absent
    BY <1>2, <2>1
  <2>3. Still(s) /\ (cache.slot = s => cache'.slot = s \/ Deliver)
    <3>1. Still(s)'
      BY <2>2 DEF Still
    <3> QED BY <3>1, StillBefore
  <2>4. cache.slot = s
    BY <2>1, <2>3 DEF HeldInv, Still
  <2>5. CASE Deliver
    <3>1. cache' = feed[1] /\ 1 \in 1..Len(feed)
      BY <2>5, FeedFacts DEF Deliver, RequestsInv
    <3>2. feed[1].slot = object.slot
      BY <2>3, <2>4, <3>1 DEF FeedInv
    <3> QED BY <2>2, <2>3, <3>1, <3>2 DEF Still
  <2> QED BY <2>2, <2>3, <2>4, <2>5
<1> QED BY <1>1, <1>2, WorkMoves

\* The reconciler lets go of a request that is no longer there.
LEMMA LetsGo ==
  ASSUME RequestsInv, WorkInv, HeldInv, [Next]_vars, failures' = 0,
         RemoveRead \/ RemoveWrite, work'[R] = Absent, Still(work[R])
  PROVE  object'.slot = Absent
<1>0. /\ work \in [Actors -> Request \cup {Absent}] /\ R \in Actors
      /\ ~ Failure /\ work[R] \in Request
  BY FailuresGrow, ActorsDiffer DEF RequestsInv, TypeOK, Still
<1>1. CASE RemoveRead
  <2>1. cache.slot = work[R]
    BY <1>1 DEF RemoveRead, HeldInv, Held, Still
  <2>2. ~ (cache.slot = Absent \/ (Pending(cache) /\ ~ SameTime(work[R], cache.slot)))
    BY <2>1 DEF SameTime, Still
  <2>3. UNCHANGED work
    BY <1>1, <2>2 DEF RemoveRead
  <2> QED BY <2>3 DEF Still
<1>2. CASE RemoveWrite
  <2>1. ~ TryAgain(R, "read")
    <3>1. TryAgain(R, "read") => work' = work
      BY DEF TryAgain
    <3> QED BY <3>1 DEF Still
  <2>2. current[R] /\ Write([copy[R] EXCEPT !.slot = Absent])
    BY <1>0, <1>2, <2>1 DEF RemoveWrite, DeleteAnnotation
  <2> QED BY <2>2, DeleteEffect
<1> QED BY <1>1, <1>2

LEMMA TakenStep ==
  ASSUME RequestsInv, IdsInv, WorkInv, HeldInv, TakenInv, [Next]_vars, failures' = 0
  PROVE  TakenInv'
<1> SUFFICES ASSUME NEW r \in taken', Still(r)' PROVE work'[R] = r
  BY DEF TakenInv
<1>1. /\ r # Absent /\ r = object'.slot
  BY DEF Still
<1>2. ASSUME r \in taken PROVE Still(r) /\ work[R] = r
  <2>1. r \in seen \cup {Absent}
    BY <1>2 DEF WorkInv
  <2>2. Still(r)
    BY <2>1, StillBefore
  <2> QED BY <1>2, <2>2 DEF TakenInv
<1>3. CASE Keeps
  BY <1>2, <1>3 DEF Keeps
<1>4. CASE pc[R] = "inspect" /\ work'[R] = Held /\ taken' = taken \cup {Held}
  <2>1. work[R] = Absent
    BY <1>4 DEF WorkInv
  <2>2. r \notin taken
    BY <1>1, <1>2, <2>1
  <2> QED BY <1>4, <2>2
<1>5. CASE UNCHANGED taken /\ work'[R] = Absent /\ (RemoveRead \/ RemoveWrite)
  <2>1. Still(work[R])
    BY <1>2, <1>5
  <2>2. object'.slot = Absent
    BY <1>5, <2>1, LetsGo
  <2> QED BY <1>1, <2>2
<1>6. ~ Crash
  BY FailuresGrow DEF RequestsInv
<1> QED BY <1>3, <1>4, <1>5, <1>6, WorkMoves DEF Lets

LEMMA OnceInit == Init => OnceInv
<1> SUFFICES ASSUME Init PROVE OnceInv
  OBVIOUS
<1>1. /\ seen = {} /\ taken = {} /\ pc = [a \in Actors |-> "idle"]
      /\ work = [a \in Actors |-> Absent] /\ feed = <<>>
  BY DEF Init
<1>2. object.slot = Absent
  <2>1. PICK s \in Specs : object = [slot |-> Absent, spec |-> s]
    BY DEF Init
  <2> QED BY <2>1
<1>3. IdsInv
  BY <1>1, ActorsDiffer DEF IdsInv, Ensuring
<1>4. WorkInv
  BY <1>1, ActorsDiffer DEF WorkInv
<1>5. FeedInv /\ HeldInv /\ TakenInv
  BY <1>1, <1>2 DEF FeedInv, HeldInv, TakenInv, Still
<1> QED BY <1>3, <1>4, <1>5, InitInv DEF OnceInv

LEMMA OnceStep == OnceInv /\ [Next]_vars => OnceInv'
<1> SUFFICES ASSUME OnceInv, [Next]_vars PROVE OnceInv'
  OBVIOUS
<1>0. RequestsInv /\ IdsInv /\ WorkInv /\ TypeOK
  BY DEF OnceInv, RequestsInv
<1>1. failures' = 0 => failures = 0
  BY <1>0, FailuresGrow
<1>2. IdsInv'
  <2>1. CASE UNCHANGED vars
    <3>1. UNCHANGED <<seen, issued, failures, pc, work>>
      BY <2>1 DEF vars, server, actor, counts
    <3> QED BY <1>0, <3>1, IdsKept DEF Ensuring
  <2> QED BY <1>0, <1>1, <2>1, NextCases, IdsHandle, IdsReconcile, IdsOthers
<1>3. ASSUME failures' = 0 PROVE FeedInv' /\ HeldInv' /\ TakenInv'
  <2>1. FeedInv /\ HeldInv /\ TakenInv
    BY <1>1, <1>3 DEF OnceInv
  <2> QED BY <1>0, <1>3, <2>1, FeedStep, HeldStep, TakenStep
<1> QED BY <1>0, <1>2, <1>3, StepInv, WorkMoves DEF OnceInv

\* Without failing calls, whatever the cache lacks and whoever writes in between,
\* a run is never given a request that is still there from an earlier run.
THEOREM RequestsRunOnce == Spec => SecondRunMeansStaleRead
<1> DEFINE Once == (pc[R] = "inspect" /\ work'[R] # work[R] /\ work'[R] \in taken)
                     => (failures > 0 \/ object.slot # work'[R])
<1>1. OnceInv /\ [Next]_vars => [Once]_vars
  <2> SUFFICES ASSUME OnceInv, work'[R] # work[R], work'[R] \in taken,
                      ~ (failures > 0), object.slot = work'[R]
               PROVE  FALSE
    OBVIOUS
  <2>1. failures = 0 /\ taken \subseteq Request
    <3>1. failures \in Nat /\ taken \subseteq Request
      BY DEF OnceInv, RequestsInv, TypeOK
    <3> QED BY <3>1
  <2>2. Still(work'[R])
    BY <2>1, AbsentIsNoRequest DEF Still
  <2> QED BY <2>1, <2>2 DEF OnceInv, TakenInv
<1> QED BY <1>1, OnceInit, OnceStep, PTL DEF Spec, SecondRunMeansStaleRead

=============================================================================
