---------------------------- MODULE MCWorkspace ----------------------------
(***************************************************************************)
(* An instance of Workspace for TLC.                                       *)
(***************************************************************************)
EXTENDS Workspace, TLC

CONSTANTS r1, r2, f1, f2

NeedsOf == r1 :> {f1} @@ r2 :> {f1, f2}

\* A module that overrides GlobalENV, one that overrides what a run sets, and one
\* that sets a name it should not.
MCSpecEnvs == {{"PATH", "MODULE"}, {"TF_PLUGIN_CACHE_DIR", "VAULT"}, {"MODULE", "MANAGED"}}
=============================================================================
