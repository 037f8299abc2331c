---------------------------- MODULE MCReconciler ----------------------------
(* Constants of Reconciler for TLC. *)
EXTENDS Reconciler

Cron(at) == [given |-> TRUE, at |-> at]

\* Of a cycle of four minutes: every other one, two of them in a row.
MCSchedules == {NoSchedule, Cron({1, 3}), Cron({0, 3})}
=============================================================================
