---------------------------- MODULE PluginFiles ----------------------------
(***************************************************************************)
(* Directories of terraform plugins: the main one of the plugin cache and  *)
(* the ones runs are given.                                                *)
(***************************************************************************)

CONSTANTS Runs,   \* the runs that may be in progress at once
          Files,  \* the files plugins consist of
          NoView  \* a run that holds no directory

\* A file is missing, downloaded, or what a cut-off download has left.
Content == {"none", "whole", "cut"}
Dir == [Files -> Content]
Empty == [f \in Files |-> "none"]

ASSUME PluginFilesAssumption == NoView \notin Dir
=============================================================================
