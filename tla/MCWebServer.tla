---------------------------- MODULE MCWebServer ----------------------------
(***************************************************************************)
(* An instance of WebServer for TLC.                                       *)
(***************************************************************************)
EXTENDS WebServer

CONSTANTS status, module, t1, t2

\* A user the issuer has no address of, and one of a team.
UsersOf == {[email |-> "blank", groups |-> {"blank"}],
            [email |-> "me", groups |-> {"team"}]}

\* Admins by address and by group, blank ones, and somebody who may only read.
BindingsOf == {
  {[role |-> "Admin", kind |-> "User", name |-> "me"],
   [role |-> "Admin", kind |-> "Group", name |-> "blank"]},
  {[role |-> "Viewer", kind |-> "User", name |-> "me"],
   [role |-> "Admin", kind |-> "Group", name |-> "team"],
   [role |-> "Admin", kind |-> "User", name |-> "blank"]}}
=============================================================================
