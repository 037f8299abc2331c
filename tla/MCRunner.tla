------------------------------ MODULE MCRunner ------------------------------
(***************************************************************************)
(* Instances of Runner for TLC.                                            *)
(***************************************************************************)
EXTENDS Runner

CONSTANTS m1, p1

OnModule1(S) == [p \in S |-> m1]
NoPRs   == OnModule1({})
OnePR   == OnModule1({p1})

\* Module specs: automatic apply, and locked.
AutoApplied == [planOnly |-> "unset", autoApply |-> "true"]
Locked      == [planOnly |-> "true", autoApply |-> "true"]

AutoOnly     == {AutoApplied}
AutoOrLocked == {AutoApplied, Locked}
=============================================================================
