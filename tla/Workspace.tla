----------------------------- MODULE Workspace -----------------------------
(***************************************************************************)
(* What runs share and what each has of its own: the plugin cache          *)
(* (runner/plugin.go), temporary directories, the environment of           *)
(* terraform, the account things are read with (process in                 *)
(* runner/runner.go, runner/delegation.go, NewTFRunner in runner/tfexec.go,*)
(* vault/), from Start to its return.  What a run does to its module and   *)
(* to Redis is modelled by Runner.                                         *)
(*                                                                         *)
(* A file of a plugin is linked in one step and not modified afterwards    *)
(* (the comment in HardLinkFile).  Removing a directory of one's own       *)
(* succeeds.                                                               *)
(***************************************************************************)
EXTENDS PluginFiles

CONSTANTS Needs,       \* Needs[r]: files of the plugins its module requires
          RunsAs,      \* runs whose module has a runAsServiceAccount
          Vaulted,     \* runs whose module has vaultRequests
          SpecEnvs,    \* the sets of names spec.env may set, no name excluded
          RuntimeEnv,  \* the names of the flag --controller-runtime-env
          CleanTmp,    \* the flag --cleanup-temp-dir
          Nobody

\* MODULE stands for names nobody but a module sets, VAULT for the credentials
\* Vault hands out, HOME for the names NewTFRunner sets, MANAGED for those that
\* terraform-exec keeps for itself (TF_LOG, TF_WORKSPACE, TF_VAR_...).
Names == {"PATH", "TF_PLUGIN_CACHE_DIR", "MODULE", "MANAGED", "VAULT", "HOME"}

\* Where the value of a name is from: GlobalENV, spec.env or the environment the
\* controller was started with; a run that has set it itself stands for itself.
Origin == {"unset", "global", "spec", "process"}

ASSUME WorkspaceAssumption ==
  /\ Needs \in [Runs -> SUBSET Files]
  /\ RunsAs \subseteq Runs /\ Vaulted \subseteq Runs
  /\ SpecEnvs \subseteq SUBSET Names /\ SpecEnvs # {}
  /\ RuntimeEnv \subseteq Names
  /\ CleanTmp \in BOOLEAN
  /\ Nobody \notin Runs \cup Origin
  /\ Runs \cap Origin = {}

VARIABLES
  \* on disk
  main,    \* the main directory of the plugin cache, which survives a restart
  clone,   \* clone[r]: the directory a run was given
  tmp,     \* the temporary directories that exist, with the run they are of
  \* sync.RWMutex of the cache
  readers, \* the runs that hold it for reading
  blocked, \* the runs that wait in RLock
  writer,  \* the run that holds it, or waits for the readers to leave
  \* in the process
  global,  \* GlobalENV: who has set each name
  env,     \* env[r]: the map `envs` of the run, then terraform's environment
  stage,   \* where each run is
  token,   \* delegateToken: the account it is of
  account, \* delegatedClient: the account it reads with
  readAs,  \* the accounts anything was read with for the run
  spec,    \* moduleEnvs: the names spec.env sets
  \* no part of the code
  settled  \* main when it was last unlocked

lock     == <<readers, blocked, writer>>
identity == <<token, account, readAs, spec>>
vars == <<main, clone, tmp, lock, global, env, stage, identity, settled>>

Account == {"none", "delegate", "runAs"}
Preparing == {"process", "runAs", "fetch", "vault", "root"}
Stage == {"idle", "link", "checkout", "terraform", "cleanUp", "end",
          "lock", "merge", "remove"} \cup Preparing

TypeOK ==
  /\ main \in Dir /\ settled \in Dir
  /\ clone \in [Runs -> Dir]
  /\ tmp \subseteq {"clone", "root"} \X (Runs \cup {Nobody})
  /\ readers \subseteq Runs /\ blocked \subseteq Runs
  /\ writer \in Runs \cup {Nobody}
  /\ global \in [Names -> Origin \cup Runs]
  /\ env \in [Runs -> [Names -> Origin \cup Runs]]
  /\ stage \in [Runs -> Stage]
  /\ token \in [Runs -> Account] /\ account \in [Runs -> Account]
  /\ readAs \in [Runs -> SUBSET Account]
  /\ spec \in [Runs -> SUBSET Names]

HasClone(r) == <<"clone", r>> \in tmp

\* envs is a nil map.
NilEnv == [n \in {} |-> "unset"]

NoEnv == [n \in Names |-> "unset"]

Init ==
  /\ main = Empty /\ settled = Empty
  /\ clone = [r \in Runs |-> Empty]
  /\ tmp = {}
  /\ readers = {} /\ blocked = {} /\ writer = Nobody
  /\ global = [n \in Names |-> IF n \in {"PATH"} \cup RuntimeEnv THEN "global" ELSE "unset"]
  /\ env = [r \in Runs |-> NoEnv]
  /\ stage = [r \in Runs |-> "idle"]
  /\ token = [r \in Runs |-> "none"] /\ account = [r \in Runs |-> "none"]
  /\ readAs = [r \in Runs |-> {}] /\ spec = [r \in Runs |-> {}]

Goto(r, s) == stage' = [stage EXCEPT ![r] = s]

\* Names a run sets are set in the map they were copied from.
PutAliased(r, S, by) ==
  /\ env' = [env EXCEPT ![r] = [n \in Names |-> IF n \in S THEN by ELSE @[n]]]
  /\ global' = [n \in Names |-> IF n \in S THEN by ELSE global[n]]

\* envs[n] = ... for every n in S, a value by the run or by its module
Put(r, S, by) ==
  /\ env' = [env EXCEPT ![r] = [n \in Names |-> IF n \in S THEN by ELSE @[n]]]
  /\ UNCHANGED global

---------------------------------------------------------------------------
\* sync.RWMutex: a writer that waits turns later readers away, and lets all of
\* them in when it leaves.

RLock(r) ==
  /\ IF writer = Nobody
       THEN readers' = readers \cup {r} /\ UNCHANGED blocked
       ELSE blocked' = blocked \cup {r} /\ UNCHANGED readers
  /\ UNCHANGED writer

RUnlock(r) ==
  /\ readers' = readers \ {r}
  /\ UNCHANGED <<blocked, writer>>

Lock(r) ==
  /\ writer = Nobody
  /\ writer' = r
  /\ UNCHANGED <<readers, blocked>>

Unlock ==
  /\ writer' = Nobody
  /\ readers' = readers \cup blocked
  /\ blocked' = {}

---------------------------------------------------------------------------
\* Copying

\* CopyDirWithHardLinks has a file of `from` left to link in `to`: one that is
\* there already is skipped.
Missing(from, to) == {f \in Files : from[f] # "none" /\ to[f] = "none"}

---------------------------------------------------------------------------
\* Start: the environment and the clone of the plugin cache

Begin(r) ==
  /\ stage[r] = "idle"
  /\ env' = [env EXCEPT ![r] = global]
  /\ UNCHANGED <<main, clone, global, identity, settled>>

\* new makes a directory and asks for the lock.
StartWithClone(r) ==
  /\ Begin(r)
  /\ tmp' = tmp \cup {<<"clone", r>>}
  /\ RLock(r)
  /\ Goto(r, "link")

\* The plugin cache is disabled, or the directory cannot be made.
StartWithoutClone(r) ==
  /\ Begin(r)
  /\ Goto(r, "process")
  /\ UNCHANGED <<tmp, lock>>

LinkToClone(r) ==
  /\ stage[r] = "link" /\ r \in readers
  /\ \E f \in Missing(main, clone[r]) :
       clone' = [clone EXCEPT ![r][f] = main[f]]
  /\ UNCHANGED <<main, tmp, lock, global, env, stage, identity, settled>>

Cloned(r) ==
  /\ stage[r] = "link" /\ r \in readers
  /\ Missing(main, clone[r]) = {}
  /\ RUnlock(r)
  /\ Put(r, {"TF_PLUGIN_CACHE_DIR"}, r)
  /\ Goto(r, "process")
  /\ UNCHANGED <<main, clone, tmp, identity, settled>>

\* The error is returned before the lock is released.
CloneFailsLocked(r) ==
  /\ stage[r] = "link" /\ r \in readers
  /\ tmp' = tmp \ {<<"clone", r>>}
  /\ clone' = [clone EXCEPT ![r] = Empty]
  /\ Goto(r, "process")
  /\ UNCHANGED <<main, lock, global, env, identity, settled>>

\* Linking fails: new removes the directory and the run goes on without it.
CloneFails(r) ==
  /\ stage[r] = "link" /\ r \in readers
  /\ RUnlock(r)
  /\ tmp' = tmp \ {<<"clone", r>>}
  /\ clone' = [clone EXCEPT ![r] = Empty]
  /\ Goto(r, "process")
  /\ UNCHANGED <<main, global, env, identity, settled>>

---------------------------------------------------------------------------
\* process: accounts, variables and credentials

\* Any of the calls fails, the context is cancelled, or process turned the run
\* away: it returns before there is an executer to clean up.
PrepareFails(r) ==
  /\ stage[r] \in Preparing
  /\ Goto(r, "end")
  /\ UNCHANGED <<main, clone, tmp, lock, global, env, identity, settled>>

Delegation(r) ==
  /\ stage[r] = "process"
  /\ token' = [token EXCEPT ![r] = "delegate"]
  /\ account' = [account EXCEPT ![r] = "delegate"]
  /\ Goto(r, IF r \in RunsAs THEN "runAs" ELSE "fetch")
  /\ UNCHANGED <<main, clone, tmp, lock, global, env, readAs, spec, settled>>

\* delegateToken, err := ... declares another variable in the inner block.
RunAsShadowed(r) ==
  /\ stage[r] = "runAs"
  /\ account' = [account EXCEPT ![r] = "runAs"]
  /\ Goto(r, "fetch")
  /\ UNCHANGED <<main, clone, tmp, lock, global, env, token, readAs, spec, settled>>

\* The token and the client of the delegate are overwritten.
RunAs(r) ==
  /\ stage[r] = "runAs"
  /\ token' = [token EXCEPT ![r] = "runAs"]
  /\ account' = [account EXCEPT ![r] = "runAs"]
  /\ Goto(r, "fetch")
  /\ UNCHANGED <<main, clone, tmp, lock, global, env, readAs, spec, settled>>

\* fetchEnvVars for the backend, the environment and the variables; what the
\* module sets overrides GlobalENV.
Fetch(r) ==
  /\ stage[r] = "fetch"
  /\ readAs' = [readAs EXCEPT ![r] = @ \cup {account[r]}]
  /\ \E S \in SpecEnvs : spec' = [spec EXCEPT ![r] = S] /\ Put(r, S, "spec")
  /\ Goto(r, IF r \in Vaulted THEN "vault" ELSE "root")
  /\ UNCHANGED <<main, clone, tmp, lock, token, account, settled>>

\* What callWithBackOff returns with: it retries up to five times, and returns
\* no error also when the context was cancelled before the first try, or when
\* Vault has nothing at that path.
VaultAnswer == {[err |-> FALSE, secret |-> TRUE],
                [err |-> FALSE, secret |-> FALSE],
                [err |-> TRUE,  secret |-> FALSE]}

Served(a) == ~a.err /\ a.secret

\* Each try logs in with the token of the run.
Vault(r) ==
  /\ stage[r] = "vault"
  /\ \E a \in VaultAnswer :
       /\ Served(a)
       /\ Put(r, IF a.secret THEN {"VAULT"} ELSE {}, r)
  /\ readAs' = [readAs EXCEPT ![r] = @ \cup {token[r]}]
  /\ Goto(r, "root")
  /\ UNCHANGED <<main, clone, tmp, lock, token, account, spec, settled>>

---------------------------------------------------------------------------
\* NewTFRunner and runTF: the root directory and terraform

NewRoot(r) ==
  /\ stage[r] = "root"
  /\ tmp' = tmp \cup {<<"root", r>>}
  /\ Goto(r, "checkout")
  /\ UNCHANGED <<main, clone, lock, global, env, identity, settled>>

\* What a process starts with that it is given no environment for.
ProcessEnv == [n \in Names |-> "process"]

\* The repository is checked out and decrypted.  SetEnv hands the environment to
\* terraform; of one with a managed name it takes nothing, and its error is not
\* looked at.
Checkout(r) ==
  /\ stage[r] = "checkout"
  /\ \/ env[r]["MANAGED"] = "unset" /\ Put(r, {"HOME"}, r)
     \/ /\ env[r]["MANAGED"] # "unset"
        /\ env' = [env EXCEPT ![r] = ProcessEnv] /\ UNCHANGED global
  /\ Goto(r, "terraform")
  /\ UNCHANGED <<main, clone, tmp, lock, identity, settled>>

\* NewTFRunner returns the error and leaves the directory to its caller.
CheckoutFailsUnclean(r) ==
  /\ stage[r] = "checkout"
  /\ Goto(r, "end")
  /\ UNCHANGED <<main, clone, tmp, lock, global, env, identity, settled>>

\* There is no executer process could clean up: NewTFRunner does it.
CheckoutFails(r) ==
  /\ stage[r] = "checkout"
  /\ tmp' = tmp \ {<<"root", r>>}
  /\ Goto(r, "end")
  /\ UNCHANGED <<main, clone, lock, global, env, identity, settled>>

\* terraform is told of the clone.
UsesClone(r) == env[r]["TF_PLUGIN_CACHE_DIR"] = r

Lacking(r) == {f \in Needs[r] : clone[r][f] = "none"}

\* terraform init downloads the plugins the cache directory lacks; plan, show
\* and apply use them and the root directory.
Terraform(r) ==
  /\ stage[r] = "terraform"
  /\ clone' = IF UsesClone(r)
                THEN [clone EXCEPT ![r] = [f \in Files |->
                       IF f \in Lacking(r) THEN "whole" ELSE @[f]]]
                ELSE clone
  /\ Goto(r, "cleanUp")
  /\ UNCHANGED <<main, tmp, lock, global, env, identity, settled>>

\* init fails or is cut off by the timeout or TERM: some plugins are there, one
\* perhaps in part.
InitFails(r) ==
  /\ stage[r] = "terraform" /\ UsesClone(r)
  /\ \E got, part \in SUBSET Lacking(r) :
       /\ \A f, g \in part : f = g
       /\ clone' = [clone EXCEPT ![r] = [f \in Files |->
                      IF f \in part THEN "cut"
                      ELSE IF f \in got THEN "whole" ELSE @[f]]]
  /\ Goto(r, "cleanUp")
  /\ UNCHANGED <<main, tmp, lock, global, env, identity, settled>>

CleanUp(r) ==
  /\ stage[r] = "cleanUp"
  /\ tmp' = tmp \ {<<"root", r>>}
  /\ Goto(r, "end")
  /\ UNCHANGED <<main, clone, lock, global, env, identity, settled>>

---------------------------------------------------------------------------
\* done: new plugins are added to the main directory

\* The locals of the run are gone.
Forget(r) ==
  /\ env' = [env EXCEPT ![r] = NoEnv]
  /\ token' = [token EXCEPT ![r] = "none"]
  /\ account' = [account EXCEPT ![r] = "none"]
  /\ readAs' = [readAs EXCEPT ![r] = {}]
  /\ spec' = [spec EXCEPT ![r] = {}]

ReturnWithoutClone(r) ==
  /\ stage[r] = "end" /\ ~HasClone(r)
  /\ Forget(r)
  /\ Goto(r, "idle")
  /\ UNCHANGED <<main, clone, tmp, lock, global, settled>>

\* done merges without asking for the lock.
AskNothing(r) ==
  /\ stage[r] = "end" /\ HasClone(r)
  /\ Goto(r, "merge")
  /\ UNCHANGED <<main, clone, tmp, lock, global, env, identity, settled>>

AskLock(r) ==
  /\ stage[r] = "end" /\ HasClone(r)
  /\ Lock(r)
  /\ Goto(r, "lock")
  /\ UNCHANGED <<main, clone, tmp, global, env, identity, settled>>

Locked(r) ==
  /\ stage[r] = "lock" /\ readers = {}
  /\ Goto(r, "merge")
  /\ UNCHANGED <<main, clone, tmp, lock, global, env, identity, settled>>

LinkToMain(r) ==
  /\ stage[r] = "merge"
  /\ \E f \in Missing(clone[r], main) : main' = [main EXCEPT ![f] = clone[r][f]]
  /\ UNCHANGED <<clone, tmp, lock, global, env, stage, identity, settled>>

\* Linking has ended, with all of the files or with an error that is logged.
Merged(r) ==
  /\ stage[r] = "merge"
  /\ Unlock
  /\ settled' = main
  /\ Goto(r, "remove")
  /\ UNCHANGED <<main, clone, tmp, global, env, identity>>

Remove(r) ==
  /\ stage[r] = "remove"
  /\ tmp' = tmp \ {<<"clone", r>>}
  /\ clone' = [clone EXCEPT ![r] = Empty]
  /\ Forget(r)
  /\ Goto(r, "idle")
  /\ UNCHANGED <<main, lock, global, settled>>

---------------------------------------------------------------------------
\* The process dies and is started again.  cleanupTmpDir removes what the dead
\* runs have left, if the flag is set; newPluginCache clears stale plugins.
\* The files of a plugin are as old as each other.
Restart ==
  /\ \E stale \in SUBSET Files :
       main' = [f \in Files |-> IF f \in stale THEN "none" ELSE main[f]]
  /\ settled' = main'
  /\ tmp' = IF CleanTmp THEN {} ELSE {<<d[1], Nobody>> : d \in tmp}
  /\ clone' = [r \in Runs |-> Empty]
  /\ readers' = {} /\ blocked' = {} /\ writer' = Nobody
  /\ env' = [r \in Runs |-> NoEnv]
  /\ stage' = [r \in Runs |-> "idle"]
  /\ token' = [r \in Runs |-> "none"] /\ account' = [r \in Runs |-> "none"]
  /\ readAs' = [r \in Runs |-> {}] /\ spec' = [r \in Runs |-> {}]
  /\ UNCHANGED global

\* Steps of a run that another does not keep it from taking.
Own(r) ==
  \/ LinkToClone(r) \/ Cloned(r) \/ CloneFails(r)
  \/ PrepareFails(r) \/ Delegation(r) \/ RunAs(r) \/ Fetch(r) \/ Vault(r)
  \/ NewRoot(r) \/ Checkout(r) \/ CheckoutFails(r)
  \/ Terraform(r) \/ InitFails(r) \/ CleanUp(r)
  \/ ReturnWithoutClone(r) \/ Locked(r) \/ LinkToMain(r) \/ Merged(r) \/ Remove(r)

Next ==
  \/ \E r \in Runs : StartWithClone(r) \/ StartWithoutClone(r) \/ AskLock(r) \/ Own(r)
  \/ Restart

Spec == Init /\ [][Next]_vars

\* A run goes on: files are few, every call of process returns, at the latest
\* when its context is cancelled.  sync.Mutex hands itself to a waiting
\* goroutine that has failed to get it for a millisecond.
FairSpec ==
  /\ Spec
  /\ \A r \in Runs : WF_vars(Own(r)) /\ SF_vars(AskLock(r))

---------------------------------------------------------------------------
\* Properties

\* plugin.go: "keeps main copy of the all cached providers", "main dir will be
\* cloned": linking file by file under the lock is as good as one step.
Cache == INSTANCE PluginCache WITH
  cache <- settled,
  view <- [r \in Runs |->
             IF HasClone(r) /\ stage[r] \notin {"link", "remove"}
               THEN clone[r] ELSE NoView]

ClonesAreSnapshots == Cache!Spec

\* runner.go: envs are a copy, so that nothing a run sets reaches GlobalENV or
\* another run.
EnvIsOwn ==
  /\ \A n \in Names : global[n] \in {"unset", "global"}
  /\ \A r \in Runs, n \in Names : env[r][n] \notin Runs \ {r}

\* Whatever path a run takes, its directories are gone when it has returned;
\* what a crash leaves is gone after the restart, given the flag.
NoLeftovers ==
  CleanTmp => \A d \in tmp : d[2] \in Runs /\ stage[d[2]] # "idle"

\* Names of spec.env that are set once more, after the module's.
Overridden(r) == {"HOME"} \cup (IF r \in Vaulted THEN {"VAULT"} ELSE {})

\* terraform is started in a directory of its own, and nothing was read for it by
\* any account but the one the module names.  If no managed name is set (README:
\* "should not be used"; with one, SetEnv hands over nothing), it has HOME there,
\* the credentials the module asked for whatever the module sets, the rest as the
\* module sets it, and else a cache directory that exists for as long as it runs.
TerraformIsReady ==
  \A r \in Runs : stage[r] = "terraform" =>
    /\ <<"root", r>> \in tmp
    /\ readAs[r] = {IF r \in RunsAs THEN "runAs" ELSE "delegate"}
    /\ "MANAGED" \notin spec[r] \cup RuntimeEnv =>
         /\ \A n \in Overridden(r) : env[r][n] = r
         /\ \A n \in spec[r] \ Overridden(r) : env[r][n] = "spec"
         /\ "TF_PLUGIN_CACHE_DIR" \notin spec[r] => (UsesClone(r) <=> HasClone(r))

\* Start returns: no reader or writer waits for the lock for ever, though the
\* others start new runs without end.
EveryRunReturns == \A r \in Runs : (stage[r] # "idle") ~> (stage[r] = "idle")
=============================================================================
