----------------------------- MODULE RunRequest -----------------------------
(***************************************************************************)
(* The Request of api/v1beta1/run.go as the run-request annotation holds   *)
(* it.  Of its time there is the second and whether it is a whole one: the *)
(* annotation keeps seconds, time.Now() does not.                          *)
(***************************************************************************)
EXTENDS RunPolicy, Naturals

\* id names a submission, from says who made it; neither is in the code.
Request ==
  [id : Nat, sec : Nat, whole : BOOLEAN,
   type : RequestType \cup {"garbage"}, from : {"web", "outside"}]

\* No annotation.
Absent ==
  [id |-> 0, sec |-> 0, whole |-> TRUE, type |-> "", from |-> "outside"]

\* json.Marshal writes a metav1.Time to the second.
Marshal(r) == [r EXCEPT !.whole = TRUE]

\* (Bugs: the times are not compared; the pointers to them are.)
AnyTime(r, s)   == TRUE
NeverSame(r, s) == FALSE

\* RequestedAt.Equal.
SameTime(r, s) == r.sec = s.sec /\ r.whole = s.whole

\* (Bug: a missing annotation is a request like any other.)
IsPendingOrAbsent(r, spec) == r = Absent \/ Valid(r.type, TRUE, spec)

\* PendingRunRequest returns a request and no error.
IsPending(r, spec) == Valid(r.type, TRUE, spec)
=============================================================================
