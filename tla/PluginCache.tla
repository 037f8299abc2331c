---------------------------- MODULE PluginCache ----------------------------
(***************************************************************************)
(* What the plugin cache promises (the comment on pluginCache,             *)
(* runner/plugin.go), apart from locks and copying: a run is handed the    *)
(* whole of the cache as it is at one moment, nobody else touches what it  *)
(* was handed, and what it gives back is added to the cache in one step.   *)
(* A plugin in the cache is never replaced.                                *)
(***************************************************************************)
EXTENDS PluginFiles

\* d keeps every file of c, as it is there.
Keeps(c, d) == \A f \in Files : c[f] # "none" => d[f] = c[f]

\* Some of the files of d that c does not have are added to it.
MaySee(c, d, e) ==
  \A f \in Files : e[f] = c[f] \/ (c[f] = "none" /\ e[f] = d[f])

VARIABLES cache, \* what runs are handed
          view   \* what each run was handed and has added to

pcVars == <<cache, view>>

TypeOK ==
  /\ cache \in Dir
  /\ view \in [Runs -> Dir \cup {NoView}]

Init == cache = Empty /\ view = [r \in Runs |-> NoView]

\* new: the run is handed the whole cache.
Hand(r) ==
  /\ view[r] = NoView
  /\ view' = [view EXCEPT ![r] = cache]
  /\ UNCHANGED cache

\* terraform init adds plugins to the directory of the run.
Download(r) ==
  /\ view[r] # NoView
  /\ \E d \in Dir : Keeps(view[r], d) /\ view' = [view EXCEPT ![r] = d]
  /\ UNCHANGED cache

\* done: what the cache does not have is added; some of it when linking fails.
GiveBack(r) ==
  /\ view[r] # NoView
  /\ \E d \in Dir : MaySee(cache, view[r], d) /\ cache' = d
  /\ view' = [view EXCEPT ![r] = NoView]

\* The process is restarted, possibly while a run gives back its files; stale
\* plugins are cleared.
Restart ==
  /\ view' = [r \in Runs |-> NoView]
  /\ \E stale \in SUBSET Files, d \in Dir :
       /\ \/ d = cache
          \/ \E r \in Runs : view[r] # NoView /\ MaySee(cache, view[r], d)
       /\ cache' = [f \in Files |-> IF f \in stale THEN "none" ELSE d[f]]

Next ==
  \/ \E r \in Runs : Hand(r) \/ Download(r) \/ GiveBack(r)
  \/ Restart

Spec == Init /\ [][Next]_pcVars
=============================================================================
