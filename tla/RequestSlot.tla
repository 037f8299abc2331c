---------------------------- MODULE RequestSlot ----------------------------
(***************************************************************************)
(* What the run-request annotation of a module promises, with every        *)
(* operation atomic: a slot for one request.                               *)
(*                                                                         *)
(* A request that may still run is replaced only from outside the          *)
(* controller, and is taken away only once a run was given a request of    *)
(* the same time, or while the controller discards an invalid one.         *)
(***************************************************************************)
EXTENDS RunRequest

CONSTANT Specs \* the values spec.planOnly/autoApply take

VARIABLES slot,      \* the annotation
          spec,      \* the spec of the module, which decides what is valid
          seen,      \* requests the slot held so far
          taken,     \* requests that runs were given
          discarding \* an invalid request is being discarded

slotVars == <<slot, spec, seen, taken, discarding>>

Put(by) == slot' \in Request /\ slot'.from = by /\ seen' = seen \cup {slot'}

\* The web server adds a request, if none is pending.
Submit == ~ IsPending(slot, spec) /\ Put("web") /\ UNCHANGED <<spec, taken, discarding>>

\* Anyone with access to the object replaces it.
Overwrite == Put("outside") /\ UNCHANGED <<spec, taken, discarding>>

Edit == spec' \in Specs /\ UNCHANGED <<slot, seen, taken, discarding>>

\* A run is given a request that is or was in the slot.
Take(r) ==
  /\ taken' = taken \cup {r}
  /\ UNCHANGED <<slot, spec, seen, discarding>>

\* The run is over: its request is taken away.
Remove(r) ==
  /\ IsPending(slot, spec) => slot.sec = r.sec
  /\ slot' = Absent
  /\ UNCHANGED <<spec, seen, taken, discarding>>

\* Discarding an invalid request takes away whatever is in the slot.
BeginDiscard ==
  /\ seen # {}
  /\ discarding' = TRUE
  /\ UNCHANGED <<slot, spec, seen, taken>>
Discard ==
  /\ discarding
  /\ slot' = Absent
  /\ discarding' \in BOOLEAN
  /\ UNCHANGED <<spec, seen, taken>>
EndDiscard ==
  /\ discarding' = FALSE
  /\ UNCHANGED <<slot, spec, seen, taken>>

SlotInit ==
  /\ slot = Absent
  /\ spec \in Specs
  /\ seen = {} /\ taken = {}
  /\ discarding = FALSE

SlotNext ==
  \/ Submit \/ Overwrite \/ Edit
  \/ \E r \in seen : Take(r)
  \/ \E r \in taken : Remove(r)
  \/ BeginDiscard \/ Discard \/ EndDiscard

SlotSpec == SlotInit /\ [][SlotNext]_slotVars
=============================================================================
