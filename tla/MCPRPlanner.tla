---------------------------- MODULE MCPRPlanner ----------------------------
(* Constants of PRPlanner for TLC. *)
EXTENDS PRPlanner

MCOpen == {FALSE}
MCAny == {TRUE, FALSE}
MCDraft == {TRUE}
=============================================================================
