--------------------------- MODULE MCRunRequests ---------------------------
(* Constants of RunRequests for TLC. *)
EXTENDS RunRequests

MCSpecs == {[planOnly |-> "true", autoApply |-> "unset"],
            [planOnly |-> "false", autoApply |-> "unset"]}
MCForceTypes == {ForcedApply}
MCOtherTypes == {ForcedPlan, "garbage"}
=============================================================================
