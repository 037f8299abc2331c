-------------------------- MODULE WorkspaceProofs --------------------------
(***************************************************************************)
(* What holds of Workspace for every set of runs, files and requirements:  *)
(* above all, that linking file by file under the lock implements          *)
(* PluginCache.                                                            *)
(***************************************************************************)
EXTENDS Workspace, TLAPS

-----------------------------------------------------------------------------
(* The inductive invariant.                                                *)

HasRoot(r) == <<"root", r>> \in tmp

\* The lock is where the stages of the runs say it is.
LockInv ==
  /\ readers \cap blocked = {}
  /\ \A r \in Runs : r \in readers \cup blocked <=> stage[r] = "link"
  /\ \A r \in Runs : stage[r] \in {"lock", "merge"} <=> writer = r
  /\ \A r \in Runs : stage[r] = "merge" => readers = {}

\* The directories of a run, and what is in its clone.
DirInv(r) ==
  /\ stage[r] = "idle" => ~HasClone(r)
  /\ stage[r] \in {"link", "lock", "merge", "remove"} => HasClone(r)
  /\ HasRoot(r) <=> stage[r] \in {"checkout", "terraform", "cleanUp"}
  /\ ~HasClone(r) => clone[r] = Empty

\* The main directory changes under one writer at a time, which leaves what is
\* there, and not while anybody clones it.
CacheInv ==
  /\ (\A r \in Runs : stage[r] # "merge") => main = settled
  /\ \A r \in Runs : stage[r] = "merge" =>
       \A f \in Files : \/ main[f] = settled[f]
                        \/ settled[f] = "none" /\ main[f] = clone[r][f]
  /\ \A r \in Runs : stage[r] = "link" =>
       \A f \in Files : clone[r][f] \in {"none", main[f]}
  /\ \A r \in blocked : clone[r] = Empty

\* The account a module's secrets are read with.
AccountOf(r) == IF r \in RunsAs THEN "runAs" ELSE "delegate"

\* GlobalENV is what it was set up as.
GlobalInv ==
  \A n \in Names : global[n] = IF n \in {"PATH"} \cup RuntimeEnv THEN "global" ELSE "unset"

\* The environment of a run before its module has set anything.
GlobalEnvIs(r) ==
  /\ "MANAGED" \notin RuntimeEnv => env[r]["MANAGED"] = "unset"
  /\ UsesClone(r) <=> stage[r] # "link" /\ HasClone(r)

\* The environment once the module has.
ModuleEnvIs(r) ==
  /\ "MANAGED" \notin spec[r] \cup RuntimeEnv => env[r]["MANAGED"] = "unset"
  /\ \A n \in spec[r] \ Overridden(r) : env[r][n] = "spec"
  /\ "TF_PLUGIN_CACHE_DIR" \notin spec[r] => (UsesClone(r) <=> HasClone(r))

\* What a run has prepared by the time it is at each stage.
ReadyInv(r) ==
  /\ UsesClone(r) => HasClone(r)
  /\ stage[r] \in {"link", "process", "runAs", "fetch"} => GlobalEnvIs(r)
  /\ stage[r] \in {"vault", "root", "checkout"} => ModuleEnvIs(r)
  /\ stage[r] = "vault" => r \in Vaulted
  /\ stage[r] \in {"root", "checkout"} /\ r \in Vaulted => env[r]["VAULT"] = r
  /\ stage[r] = "terraform" /\ "MANAGED" \notin spec[r] \cup RuntimeEnv =>
       /\ \A n \in Overridden(r) : env[r][n] = r
       /\ \A n \in spec[r] \ Overridden(r) : env[r][n] = "spec"
       /\ "TF_PLUGIN_CACHE_DIR" \notin spec[r] => (UsesClone(r) <=> HasClone(r))

\* Whom things are read as by the time a run is at each stage.
ReaderInv(r) ==
  /\ stage[r] \in {"idle", "link", "process", "runAs", "fetch"} => readAs[r] = {}
  /\ stage[r] = "runAs" => r \in RunsAs
  /\ stage[r] = "fetch" => account[r] = AccountOf(r)
  /\ stage[r] \in {"fetch", "vault"} => token[r] = AccountOf(r)
  /\ stage[r] \in {"vault", "root", "checkout", "terraform"} => readAs[r] = {AccountOf(r)}

\* What a crash has left is there without the flag only.
NobodysInv == CleanTmp => \A d \in tmp : d[2] \in Runs

RunInv(r) == DirInv(r) /\ ReadyInv(r) /\ ReaderInv(r)

WorkspaceInv ==
  /\ TypeOK /\ LockInv /\ CacheInv /\ GlobalInv /\ EnvIsOwn /\ NobodysInv
  /\ \A r \in Runs : RunInv(r)

-----------------------------------------------------------------------------
(* Types.                                                                  *)

LEMMA DirTyped ==
  /\ Empty \in Dir
  /\ \A d \in Dir, f \in Files, c \in Content : [d EXCEPT ![f] = c] \in Dir
  /\ \A d \in Dir, f \in Files : d[f] \in Content
  BY DEF Empty, Dir, Content

\* Who may have set a name.
Setter == Origin \cup Runs

LEMMA TypeInit == Init => TypeOK
<1> SUFFICES ASSUME Init PROVE TypeOK
  OBVIOUS
<1>1. main \in Dir /\ settled \in Dir /\ clone \in [Runs -> Dir]
  BY DirTyped DEF Init
<1>2. env \in [Runs -> [Names -> Setter]] /\ global \in [Names -> Setter]
  BY DEF Init, NoEnv, Setter, Origin
<1> QED BY <1>1, <1>2 DEF Init, TypeOK, Stage, Account, Setter

\* Where temporary directories are, and whose.
TmpDirs == {"clone", "root"} \X (Runs \cup {Nobody})

LEMMA TmpTyped ==
  ASSUME NEW t \in SUBSET TmpDirs, NEW r \in Runs
  PROVE  /\ t \cup {<<"clone", r>>} \in SUBSET TmpDirs
         /\ t \cup {<<"root", r>>} \in SUBSET TmpDirs
         /\ t \ {<<"clone", r>>} \in SUBSET TmpDirs
         /\ t \ {<<"root", r>>} \in SUBSET TmpDirs
         /\ {<<d[1], Nobody>> : d \in t} \in SUBSET TmpDirs
<1>1. ASSUME NEW d \in t PROVE <<d[1], Nobody>> \in TmpDirs
  BY DEF TmpDirs
<1>2. <<"clone", r>> \in TmpDirs /\ <<"root", r>> \in TmpDirs
  BY DEF TmpDirs
<1> QED BY <1>1, <1>2

\* TypeOK, part by part.
DiskOK == main \in Dir /\ settled \in Dir /\ clone \in [Runs -> Dir] /\ tmp \in SUBSET TmpDirs
LockOK == readers \subseteq Runs /\ blocked \subseteq Runs /\ writer \in Runs \cup {Nobody}
EnvOK  == global \in [Names -> Setter] /\ env \in [Runs -> [Names -> Setter]]
StageOK == stage \in [Runs -> Stage]
IdentityOK ==
  /\ token \in [Runs -> Account] /\ account \in [Runs -> Account]
  /\ readAs \in [Runs -> SUBSET Account]
  /\ spec \in [Runs -> SUBSET Names]

LEMMA TypeParts == TypeOK <=> DiskOK /\ LockOK /\ EnvOK /\ StageOK /\ IdentityOK
  BY DEF TypeOK, DiskOK, LockOK, EnvOK, StageOK, IdentityOK, TmpDirs, Setter

\* A step of a run.
RunStep(r) == StartWithClone(r) \/ StartWithoutClone(r) \/ AskLock(r) \/ Own(r)

LEMMA TypeStep == TypeOK /\ [Next]_vars => TypeOK'
<1> SUFFICES ASSUME DiskOK, LockOK, EnvOK, StageOK, IdentityOK, [Next]_vars
             PROVE  DiskOK' /\ LockOK' /\ EnvOK' /\ StageOK' /\ IdentityOK'
  BY TypeParts DEF TypeOK, DiskOK, LockOK, EnvOK, StageOK, IdentityOK, TmpDirs, Setter
<1>1. ASSUME NEW r \in Runs, RunStep(r) PROVE LockOK' /\ IdentityOK' /\ EnvOK' /\ StageOK'
  <2> USE <1>1 DEF RunStep, Own, StartWithClone, StartWithoutClone, Begin, LinkToClone, Cloned,
        CloneFails, PrepareFails, Delegation, RunAs, Fetch, Vault, NewRoot, Checkout, CheckoutFails,
        Terraform, InitFails, CleanUp, ReturnWithoutClone, AskLock, Locked, LinkToMain, Merged,
        Remove
  <2>1. LockOK'
    BY DEF LockOK, lock, RLock, RUnlock, Lock, Unlock
  <2>2. IdentityOK'
    BY WorkspaceAssumption DEF IdentityOK, identity, Account, Forget
  <2>3. EnvOK'
    BY DEF EnvOK, Setter, Origin, Put, Forget, NoEnv, ProcessEnv
  <2>4. StageOK'
    BY DEF StageOK, Stage, Preparing, Goto
  <2> QED BY <2>1, <2>2, <2>3, <2>4
<1>2. ASSUME NEW r \in Runs, LinkToClone(r) PROVE DiskOK'
  <2>1. PICK f \in Files : clone' = [clone EXCEPT ![r][f] = main[f]]
    BY <1>2 DEF LinkToClone, Missing
  <2>2. [clone[r] EXCEPT ![f] = main[f]] \in Dir
    BY DirTyped DEF DiskOK
  <2> QED BY <2>1, <2>2, <1>2 DEF DiskOK, LinkToClone
<1>3. ASSUME NEW r \in Runs, Terraform(r) PROVE DiskOK'
  <2>1. [f \in Files |-> IF f \in Lacking(r) THEN "whole" ELSE clone[r][f]] \in Dir
    BY DirTyped DEF DiskOK, Dir, Content
  <2> QED BY <2>1, <1>3 DEF DiskOK, Terraform
<1>4. ASSUME NEW r \in Runs, InitFails(r) PROVE DiskOK'
  <2>1. PICK got, part \in SUBSET Lacking(r) :
          clone' = [clone EXCEPT ![r] = [f \in Files |->
                     IF f \in part THEN "cut" ELSE IF f \in got THEN "whole" ELSE @[f]]]
    BY <1>4 DEF InitFails
  <2>2. [f \in Files |-> IF f \in part THEN "cut"
                         ELSE IF f \in got THEN "whole" ELSE clone[r][f]] \in Dir
    BY DirTyped DEF DiskOK, Dir, Content
  <2> QED BY <2>1, <2>2, <1>4 DEF DiskOK, InitFails
<1>5. ASSUME NEW r \in Runs, LinkToMain(r) PROVE DiskOK'
  <2>1. PICK f \in Files : main' = [main EXCEPT ![f] = clone[r][f]]
    BY <1>5 DEF LinkToMain, Missing
  <2> QED BY <2>1, <1>5, DirTyped DEF DiskOK, LinkToMain
<1>6. ASSUME NEW r \in Runs, RunStep(r) PROVE DiskOK'
  <2>1. CASE UNCHANGED <<main, clone, settled>>
    BY <1>6, <2>1, TmpTyped DEF DiskOK, RunStep, Own, StartWithClone, StartWithoutClone, Begin,
       LinkToClone, Cloned, CloneFails, PrepareFails, Delegation, RunAs, Fetch, Vault, NewRoot,
       Checkout, CheckoutFails, Terraform, InitFails, CleanUp, ReturnWithoutClone, AskLock,
       Locked, LinkToMain, Merged, Remove
  <2>2. CASE CloneFails(r) \/ Merged(r) \/ Remove(r)
    BY <2>2, TmpTyped, DirTyped DEF DiskOK, CloneFails, Merged, Remove
  <2> QED BY <1>6, <2>1, <2>2, <1>2, <1>3, <1>4, <1>5
          DEF RunStep, Own, StartWithClone, StartWithoutClone, Begin, Cloned, PrepareFails,
              Delegation, RunAs, Fetch, Vault, NewRoot, Checkout, CheckoutFails, CleanUp,
              ReturnWithoutClone, AskLock, Locked
<1>7. ASSUME Restart PROVE DiskOK' /\ LockOK' /\ EnvOK' /\ StageOK' /\ IdentityOK'
  <2>1. DiskOK'
    <3>1. main' \in Dir /\ settled' \in Dir
      BY <1>7, DirTyped DEF DiskOK, Restart, Dir, Content
    <3>2. clone' \in [Runs -> Dir]
      BY <1>7, DirTyped DEF Restart
    <3>3. tmp' \in SUBSET TmpDirs
      BY <1>7 DEF DiskOK, Restart, TmpDirs
    <3> QED BY <3>1, <3>2, <3>3 DEF DiskOK
  <2>2. LockOK' /\ IdentityOK' /\ EnvOK' /\ StageOK'
    BY <1>7 DEF LockOK, IdentityOK, EnvOK, StageOK, Account, Stage, Setter, Origin, NoEnv, Restart
  <2> QED BY <2>1, <2>2
<1>8. CASE UNCHANGED vars
  BY <1>8 DEF vars, lock, identity, DiskOK, LockOK, EnvOK, StageOK, IdentityOK
<1> QED BY <1>1, <1>6, <1>7, <1>8 DEF Next, RunStep

-----------------------------------------------------------------------------
(* A step of one run leaves what the others have of their own alone.       *)

Kept(q) ==
  /\ stage'[q] = stage[q] /\ clone'[q] = clone[q] /\ env'[q] = env[q]
  /\ token'[q] = token[q] /\ account'[q] = account[q] /\ readAs'[q] = readAs[q]
  /\ spec'[q] = spec[q]
  /\ HasClone(q)' = HasClone(q) /\ HasRoot(q)' = HasRoot(q)

LEMMA OthersAreKept ==
  ASSUME TypeOK, NEW r \in Runs, RunStep(r), NEW q \in Runs, q # r
  PROVE  Kept(q)
<1> USE TypeParts DEF DiskOK, EnvOK, StageOK, IdentityOK, Goto, identity, Kept, HasClone, HasRoot
<1>1. ASSUME StartWithClone(r) \/ StartWithoutClone(r) PROVE Kept(q)
  BY <1>1 DEF StartWithClone, StartWithoutClone, Begin
<1>2. ASSUME LinkToClone(r) \/ Cloned(r) \/ CloneFails(r) PROVE Kept(q)
  BY <1>2 DEF LinkToClone, Cloned, CloneFails, Put
<1>3. ASSUME PrepareFails(r) \/ Delegation(r) \/ RunAs(r) \/ Fetch(r) \/ Vault(r) PROVE Kept(q)
  BY <1>3 DEF PrepareFails, Delegation, RunAs, Fetch, Vault, Put
<1>4. ASSUME NewRoot(r) \/ Checkout(r) \/ CheckoutFails(r) PROVE Kept(q)
  BY <1>4 DEF NewRoot, Checkout, CheckoutFails, Put
<1>5. ASSUME Terraform(r) \/ InitFails(r) \/ CleanUp(r) PROVE Kept(q)
  BY <1>5 DEF Terraform, InitFails, CleanUp
<1>6. ASSUME ReturnWithoutClone(r) \/ AskLock(r) \/ Locked(r) PROVE Kept(q)
  BY <1>6 DEF ReturnWithoutClone, AskLock, Locked, Forget
<1>7. ASSUME LinkToMain(r) \/ Merged(r) \/ Remove(r) PROVE Kept(q)
  BY <1>7 DEF LinkToMain, Merged, Remove, Forget
<1> QED BY <1>1, <1>2, <1>3, <1>4, <1>5, <1>6, <1>7 DEF RunStep, Own

LEMMA KeptRunInv ==
  ASSUME NEW q \in Runs, Kept(q), RunInv(q)
  PROVE  RunInv(q)'
<1>1. DirInv(q)'
  BY DEF Kept, RunInv, DirInv
<1>2. ReadyInv(q)'
  BY DEF Kept, RunInv, ReadyInv, GlobalEnvIs, ModuleEnvIs, UsesClone, Overridden
<1>3. ReaderInv(q)'
  BY DEF Kept, RunInv, ReaderInv, AccountOf
<1> QED BY <1>1, <1>2, <1>3 DEF RunInv

-----------------------------------------------------------------------------
(* What a run has of its own.                                              *)

\* The directories of a run are there as long as its stage needs them.
LEMMA OwnDirInv ==
  ASSUME TypeOK, LockInv, NEW r \in Runs, RunInv(r), RunStep(r)
  PROVE  DirInv(r)'
<1> USE TypeParts, WorkspaceAssumption
    DEF DiskOK, StageOK, Goto, identity, HasClone, HasRoot, RunInv, DirInv, Preparing
<1>1. ASSUME StartWithClone(r) \/ StartWithoutClone(r) PROVE DirInv(r)'
  BY <1>1 DEF StartWithClone, StartWithoutClone, Begin
<1>2. ASSUME LinkToClone(r) \/ Cloned(r) \/ CloneFails(r) PROVE DirInv(r)'
  BY <1>2 DEF LinkToClone, Cloned, CloneFails
<1>3. ASSUME PrepareFails(r) \/ Delegation(r) \/ RunAs(r) \/ Fetch(r) \/ Vault(r)
      PROVE  DirInv(r)'
  BY <1>3 DEF PrepareFails, Delegation, RunAs, Fetch, Vault
<1>4. ASSUME NewRoot(r) \/ Checkout(r) \/ CheckoutFails(r) \/ CleanUp(r) PROVE DirInv(r)'
  BY <1>4 DEF NewRoot, Checkout, CheckoutFails, CleanUp
<1>5. ASSUME Terraform(r) \/ InitFails(r) PROVE DirInv(r)'
  BY <1>5 DEF Terraform, InitFails, ReadyInv
<1>6. ASSUME ReturnWithoutClone(r) \/ AskLock(r) \/ Locked(r) PROVE DirInv(r)'
  BY <1>6 DEF ReturnWithoutClone, AskLock, Locked
<1>7. ASSUME LinkToMain(r) \/ Merged(r) \/ Remove(r) PROVE DirInv(r)'
  BY <1>7 DEF LinkToMain, Merged, Remove
<1> QED BY <1>1, <1>2, <1>3, <1>4, <1>5, <1>6, <1>7 DEF RunStep, Own

\* The environment of a run is what it has prepared so far.
LEMMA OwnReadyInv ==
  ASSUME TypeOK, GlobalInv, NEW r \in Runs, RunInv(r), RunStep(r)
  PROVE  ReadyInv(r)'
<1> USE TypeParts, WorkspaceAssumption
    DEF DiskOK, EnvOK, StageOK, IdentityOK, Goto, identity, HasClone, UsesClone, RunInv,
        ReadyInv, Names, Origin
<1>1. ASSUME StartWithClone(r) \/ StartWithoutClone(r) PROVE ReadyInv(r)'
  <2>1. env'[r]["TF_PLUGIN_CACHE_DIR"] # r
    BY <1>1 DEF StartWithClone, StartWithoutClone, Begin, GlobalInv
  <2>2. "MANAGED" \notin RuntimeEnv => env'[r]["MANAGED"] = "unset"
    BY <1>1 DEF StartWithClone, StartWithoutClone, Begin, GlobalInv
  <2>3. \/ stage'[r] = "link"
        \/ stage'[r] = "process" /\ <<"clone", r>> \notin tmp'
    BY <1>1 DEF StartWithClone, StartWithoutClone, Begin, DirInv
  <2> QED BY <2>1, <2>2, <2>3 DEF GlobalEnvIs
<1>2. ASSUME Cloned(r) PROVE ReadyInv(r)'
  <2>1. /\ env'[r]["TF_PLUGIN_CACHE_DIR"] = r /\ env'[r]["MANAGED"] = env[r]["MANAGED"]
        /\ stage[r] = "link" /\ stage'[r] = "process" /\ <<"clone", r>> \in tmp'
    BY <1>2 DEF Cloned, Put, DirInv
  <2> QED BY <2>1 DEF GlobalEnvIs
<1>3. ASSUME CloneFails(r) PROVE ReadyInv(r)'
  <2>1. /\ env' = env /\ stage[r] = "link" /\ stage'[r] = "process"
        /\ <<"clone", r>> \notin tmp'
    BY <1>3 DEF CloneFails
  <2> QED BY <2>1 DEF GlobalEnvIs
<1>4. ASSUME Fetch(r) PROVE ReadyInv(r)'
  <2>1. PICK S \in SpecEnvs : spec' = [spec EXCEPT ![r] = S] /\ Put(r, S, "spec")
    BY <1>4 DEF Fetch
  <2>2. /\ spec'[r] = S /\ S \subseteq Names
        /\ \A n \in Names : env'[r][n] = IF n \in S THEN "spec" ELSE env[r][n]
    BY <2>1 DEF Put
  <2>3. /\ stage[r] = "fetch" /\ tmp' = tmp
        /\ stage'[r] = IF r \in Vaulted THEN "vault" ELSE "root"
    BY <1>4 DEF Fetch
  <2>4. UsesClone(r)' <=> UsesClone(r) /\ "TF_PLUGIN_CACHE_DIR" \notin S
    BY <2>2
  <2>5. ModuleEnvIs(r)'
    <3>1. "MANAGED" \notin S \cup RuntimeEnv => env'[r]["MANAGED"] = "unset"
      BY <2>2, <2>3 DEF GlobalEnvIs
    <3>2. \A n \in S : env'[r][n] = "spec"
      BY <2>2
    <3>3. "TF_PLUGIN_CACHE_DIR" \notin S => (UsesClone(r)' <=> HasClone(r)')
      BY <2>3, <2>4 DEF GlobalEnvIs
    <3> HIDE DEF UsesClone, HasClone
    <3> QED BY <2>2, <3>1, <3>2, <3>3 DEF ModuleEnvIs
  <2>6. stage'[r] = "root" => r \notin Vaulted
    BY <2>3
  <2> HIDE DEF UsesClone
  <2> QED BY <2>3, <2>4, <2>5, <2>6
<1>5. ASSUME Vault(r) PROVE ReadyInv(r)'
  <2>1. /\ stage[r] = "vault" /\ stage'[r] = "root" /\ UNCHANGED <<tmp, spec>>
        /\ \A n \in Names : env'[r][n] = IF n = "VAULT" THEN r ELSE env[r][n]
    BY <1>5 DEF Vault, Put, Served, VaultAnswer
  <2>2. (UsesClone(r)' <=> UsesClone(r)) /\ (HasClone(r)' <=> HasClone(r))
    BY <2>1
  <2>3. r \in Vaulted /\ ModuleEnvIs(r) /\ env'[r]["VAULT"] = r
    BY <2>1
  <2> HIDE DEF UsesClone, HasClone
  <2>4. ModuleEnvIs(r)'
    BY <2>1, <2>2, <2>3 DEF ModuleEnvIs, Overridden
  <2> QED BY <2>1, <2>2, <2>3, <2>4
<1>6. ASSUME Checkout(r) PROVE ReadyInv(r)'
  <2>1. stage[r] = "checkout" /\ stage'[r] = "terraform" /\ UNCHANGED <<tmp, spec>>
    BY <1>6 DEF Checkout
  <2>2. CASE env[r]["MANAGED"] = "unset"
    <3>1. \A n \in Names : env'[r][n] = IF n = "HOME" THEN r ELSE env[r][n]
      BY <1>6, <2>2 DEF Checkout, Put
    <3> QED BY <2>1, <3>1 DEF ModuleEnvIs, Overridden
  <2>3. CASE env[r]["MANAGED"] # "unset"
    <3>1. "MANAGED" \in spec[r] \cup RuntimeEnv
      BY <2>1, <2>3 DEF ModuleEnvIs
    <3>2. env'[r]["TF_PLUGIN_CACHE_DIR"] = "process"
      BY <1>6, <2>3 DEF Checkout, ProcessEnv
    <3> QED BY <2>1, <3>1, <3>2
  <2> QED BY <2>2, <2>3
<1>7. ASSUME ReturnWithoutClone(r) \/ Remove(r) PROVE ReadyInv(r)'
  BY <1>7 DEF ReturnWithoutClone, Remove, Forget, NoEnv
<1>8. ASSUME \/ LinkToClone(r) \/ PrepareFails(r) \/ Delegation(r) \/ RunAs(r)
      PROVE  ReadyInv(r)'
  <2>1. /\ UNCHANGED <<env, tmp, spec>>
        /\ \/ stage' = stage \/ stage'[r] = "end"
           \/ /\ stage[r] \in {"process", "runAs"}
              /\ stage'[r] \in {"runAs", "fetch"}
    BY <1>8 DEF LinkToClone, PrepareFails, Delegation, RunAs
  <2> QED BY <2>1 DEF GlobalEnvIs, ModuleEnvIs, Overridden
<1>9. ASSUME NewRoot(r) PROVE ReadyInv(r)'
  <2>1. /\ UNCHANGED <<env, spec>> /\ stage[r] = "root" /\ stage'[r] = "checkout"
        /\ <<"clone", r>> \in tmp' <=> <<"clone", r>> \in tmp
    BY <1>9 DEF NewRoot
  <2> QED BY <2>1 DEF ModuleEnvIs, Overridden
<1>10. ASSUME \/ CheckoutFails(r) \/ Terraform(r) \/ InitFails(r) \/ CleanUp(r) \/ AskLock(r)
              \/ Locked(r) \/ LinkToMain(r) \/ Merged(r)
       PROVE  ReadyInv(r)'
  <2>1. /\ UNCHANGED env
        /\ <<"clone", r>> \in tmp' <=> <<"clone", r>> \in tmp
        /\ stage'[r] \in {"end", "cleanUp", "lock", "merge", "remove"}
    BY <1>10 DEF CheckoutFails, Terraform, InitFails, CleanUp, AskLock, Locked, LinkToMain, Merged
  <2>2. UsesClone(r)' => HasClone(r)'
    BY <2>1
  <2> HIDE DEF UsesClone, HasClone
  <2> QED BY <2>1, <2>2
<1> QED BY <1>1, <1>2, <1>3, <1>4, <1>5, <1>6, <1>7, <1>8, <1>9, <1>10 DEF RunStep, Own

\* Things are read as the account the module names.
LEMMA OwnReaderInv ==
  ASSUME TypeOK, NEW r \in Runs, RunInv(r), RunStep(r)
  PROVE  ReaderInv(r)'
<1> USE TypeParts DEF StageOK, IdentityOK, Goto, identity, RunInv, ReaderInv, AccountOf
<1>1. ASSUME StartWithClone(r) \/ StartWithoutClone(r) PROVE ReaderInv(r)'
  BY <1>1 DEF StartWithClone, StartWithoutClone, Begin
<1>2. ASSUME LinkToClone(r) \/ Cloned(r) \/ CloneFails(r) PROVE ReaderInv(r)'
  BY <1>2 DEF LinkToClone, Cloned, CloneFails
<1>3. ASSUME PrepareFails(r) \/ Delegation(r) \/ RunAs(r) PROVE ReaderInv(r)'
  BY <1>3 DEF PrepareFails, Delegation, RunAs
<1>4. ASSUME Fetch(r) \/ Vault(r) PROVE ReaderInv(r)'
  BY <1>4 DEF Fetch, Vault
<1>5. ASSUME NewRoot(r) \/ Checkout(r) \/ CheckoutFails(r) \/ CleanUp(r) PROVE ReaderInv(r)'
  BY <1>5 DEF NewRoot, Checkout, CheckoutFails, CleanUp
<1>6. ASSUME Terraform(r) \/ InitFails(r) PROVE ReaderInv(r)'
  BY <1>6 DEF Terraform, InitFails
<1>7. ASSUME ReturnWithoutClone(r) \/ Remove(r) PROVE ReaderInv(r)'
  BY <1>7 DEF ReturnWithoutClone, Remove, Forget
<1>8. ASSUME AskLock(r) \/ Locked(r) \/ LinkToMain(r) \/ Merged(r) PROVE ReaderInv(r)'
  BY <1>8 DEF AskLock, Locked, LinkToMain, Merged
<1> QED BY <1>1, <1>2, <1>3, <1>4, <1>5, <1>6, <1>7, <1>8 DEF RunStep, Own

LEMMA OwnRunInv ==
  ASSUME TypeOK, LockInv, GlobalInv, NEW r \in Runs, RunInv(r), RunStep(r)
  PROVE  RunInv(r)'
  BY OwnDirInv, OwnReadyInv, OwnReaderInv DEF RunInv

LEMMA EnvStep ==
  ASSUME TypeOK, GlobalInv, EnvIsOwn, NEW r \in Runs, RunStep(r)
  PROVE  GlobalInv' /\ EnvIsOwn'
<1> USE TypeParts, WorkspaceAssumption DEF EnvOK, EnvIsOwn, Setter, Origin
<1>1. ASSUME StartWithClone(r) \/ StartWithoutClone(r) PROVE EnvIsOwn' /\ global' = global
  BY <1>1 DEF StartWithClone, StartWithoutClone, Begin
<1>2. ASSUME Cloned(r) \/ Fetch(r) \/ Vault(r) PROVE EnvIsOwn' /\ global' = global
  BY <1>2 DEF Cloned, Fetch, Vault, Put
<1>3. ASSUME Checkout(r) PROVE EnvIsOwn' /\ global' = global
  BY <1>3 DEF Checkout, ProcessEnv, Put
<1>4. ASSUME ReturnWithoutClone(r) \/ Remove(r) PROVE EnvIsOwn' /\ global' = global
  BY <1>4 DEF ReturnWithoutClone, Remove, Forget, NoEnv
<1>5. ASSUME UNCHANGED <<env, global>> PROVE EnvIsOwn' /\ global' = global
  BY <1>5
<1>6. EnvIsOwn' /\ global' = global
  BY <1>1, <1>2, <1>3, <1>4, <1>5
     DEF RunStep, Own, LinkToClone, CloneFails, PrepareFails, Delegation, RunAs, NewRoot,
         CheckoutFails, Terraform, InitFails, CleanUp, AskLock, Locked, LinkToMain, Merged
<1> QED BY <1>6 DEF GlobalInv

-----------------------------------------------------------------------------
(* The lock, and what it protects.                                         *)

LEMMA LockStep ==
  ASSUME TypeOK, LockInv, NEW r \in Runs, RunStep(r)
  PROVE  LockInv'
<1> USE TypeParts, WorkspaceAssumption DEF LockOK, StageOK, LockInv, Goto, lock
<1>1. ASSUME StartWithClone(r) PROVE LockInv'
  BY <1>1 DEF StartWithClone, Begin, RLock
<1>2. ASSUME Cloned(r) \/ CloneFails(r) PROVE LockInv'
  BY <1>2 DEF Cloned, CloneFails, RUnlock
<1>3. ASSUME AskLock(r) PROVE LockInv'
  BY <1>3 DEF AskLock, Lock
<1>4. ASSUME Locked(r) PROVE LockInv'
  BY <1>4 DEF Locked
<1>5. ASSUME Merged(r) PROVE LockInv'
  BY <1>5 DEF Merged, Unlock
<1>6. ASSUME LinkToClone(r) \/ LinkToMain(r) PROVE LockInv'
  BY <1>6 DEF LinkToClone, LinkToMain
<1> DEFINE Away == Stage \ {"link", "lock", "merge"}
<1>7. ASSUME UNCHANGED lock, stage[r] \in Away, NEW s \in Away, Goto(r, s) PROVE LockInv'
  BY <1>7
<1>8. ASSUME \/ StartWithoutClone(r) \/ PrepareFails(r) \/ Delegation(r) \/ RunAs(r) \/ Fetch(r)
             \/ Vault(r) \/ NewRoot(r) \/ Checkout(r) \/ CheckoutFails(r) \/ Terraform(r)
             \/ InitFails(r) \/ CleanUp(r) \/ ReturnWithoutClone(r) \/ Remove(r)
      PROVE  LockInv'
  <2>1. UNCHANGED lock /\ stage[r] \in Away /\ \E s \in Away : Goto(r, s)
    BY <1>8 DEF Stage, Preparing, StartWithoutClone, Begin, PrepareFails, Delegation, RunAs, Fetch,
       Vault, NewRoot, Checkout, CheckoutFails, Terraform, InitFails, CleanUp,
       ReturnWithoutClone, Remove
  <2> QED BY <1>7, <2>1
<1> QED BY <1>1, <1>2, <1>3, <1>4, <1>5, <1>6, <1>8 DEF RunStep, Own

LEMMA CacheStep ==
  ASSUME TypeOK, LockInv, CacheInv, NEW r \in Runs, RunInv(r), RunStep(r)
  PROVE  CacheInv'
<1> USE TypeParts, WorkspaceAssumption DEF DiskOK, LockOK, StageOK, LockInv, CacheInv, Goto, lock
<1>1. ASSUME StartWithClone(r) PROVE CacheInv'
  BY <1>1 DEF RunInv, DirInv, Empty, StartWithClone, Begin, RLock
<1>2. ASSUME LinkToClone(r) PROVE CacheInv'
  BY <1>2 DEF LinkToClone
<1>3. ASSUME Cloned(r) \/ CloneFails(r) PROVE CacheInv'
  BY <1>3 DEF Cloned, CloneFails, RUnlock
<1>4. ASSUME AskLock(r) \/ Locked(r) PROVE CacheInv'
  BY <1>4 DEF AskLock, Lock, Locked
<1>5. ASSUME Terraform(r) \/ InitFails(r) \/ Remove(r) PROVE CacheInv'
  BY <1>5 DEF Terraform, InitFails, Remove
<1>6. ASSUME LinkToMain(r) PROVE CacheInv'
  <2>1. PICK f \in Missing(clone[r], main) : main' = [main EXCEPT ![f] = clone[r][f]]
    BY <1>6 DEF LinkToMain
  <2>2. \A q \in Runs : stage[q] = "merge" => q = r
    BY <1>6 DEF LinkToMain
  <2>3. \A q \in Runs : stage[q] = "link" => clone[q] = Empty
    BY <1>6 DEF LinkToMain
  <2> QED BY <2>1, <2>2, <2>3, <1>6 DEF LinkToMain, Missing, Empty, Dir
<1>7. ASSUME Merged(r) PROVE CacheInv'
  BY <1>7 DEF Merged, Unlock
<1>8. ASSUME \/ StartWithoutClone(r) \/ PrepareFails(r) \/ Delegation(r) \/ RunAs(r) \/ Fetch(r)
             \/ Vault(r) \/ NewRoot(r) \/ Checkout(r) \/ CheckoutFails(r) \/ CleanUp(r)
             \/ ReturnWithoutClone(r)
      PROVE  CacheInv'
  <2>1. UNCHANGED <<main, clone, settled, blocked>>
    BY <1>8 DEF StartWithoutClone, Begin, PrepareFails, Delegation, RunAs, Fetch, Vault, NewRoot,
       Checkout, CheckoutFails, CleanUp, ReturnWithoutClone
  <2>2. \E s \in Stage \ {"link", "merge"} : stage[r] # "merge" /\ Goto(r, s)
    BY <1>8 DEF Stage, Preparing, StartWithoutClone, Begin, PrepareFails, Delegation, RunAs, Fetch,
       Vault, NewRoot, Checkout, CheckoutFails, CleanUp, ReturnWithoutClone
  <2> QED BY <2>1, <2>2
<1> QED BY <1>1, <1>2, <1>3, <1>4, <1>5, <1>6, <1>7, <1>8 DEF RunStep, Own

-----------------------------------------------------------------------------
(* All of the invariant.                                                   *)

LEMMA NobodysStep ==
  ASSUME TypeOK, NobodysInv, NEW r \in Runs, RunStep(r)
  PROVE  NobodysInv'
<1>1. tmp' \subseteq tmp \cup {<<"clone", r>>, <<"root", r>>}
  BY DEF RunStep, Own, lock, identity, StartWithClone, StartWithoutClone, Begin, LinkToClone,
         Cloned, CloneFails, PrepareFails, Delegation, RunAs, Fetch, Vault, NewRoot, Checkout,
         CheckoutFails, Terraform, InitFails, CleanUp, ReturnWithoutClone, AskLock, Locked,
         LinkToMain, Merged, Remove
<1> QED BY <1>1 DEF NobodysInv

LEMMA InvInit == Init => WorkspaceInv
<1> SUFFICES ASSUME Init PROVE WorkspaceInv
  OBVIOUS
<1>1. TypeOK
  BY TypeInit
<1>2. LockInv /\ CacheInv /\ NobodysInv
  BY WorkspaceAssumption DEF Init, LockInv, CacheInv, NobodysInv
<1>3. GlobalInv /\ EnvIsOwn
  BY WorkspaceAssumption DEF Init, GlobalInv, EnvIsOwn, NoEnv, Origin
<1>4. \A r \in Runs : RunInv(r)
  BY WorkspaceAssumption DEF Init, RunInv, DirInv, ReadyInv, ReaderInv, UsesClone, NoEnv, Names,
     Origin, HasClone, HasRoot, Preparing
<1> QED BY <1>1, <1>2, <1>3, <1>4 DEF WorkspaceInv

LEMMA InvRestart ==
  ASSUME WorkspaceInv, Restart
  PROVE  /\ LockInv' /\ CacheInv' /\ GlobalInv' /\ EnvIsOwn' /\ NobodysInv'
         /\ \A r \in Runs : RunInv(r)'
<1>1. LockInv' /\ CacheInv' /\ NobodysInv'
  BY WorkspaceAssumption DEF Restart, LockInv, CacheInv, NobodysInv
<1>2. GlobalInv' /\ EnvIsOwn'
  BY WorkspaceAssumption DEF WorkspaceInv, Restart, GlobalInv, EnvIsOwn, NoEnv, Origin
<1>3. \A r \in Runs : <<"clone", r>> \notin tmp' /\ <<"root", r>> \notin tmp'
  BY WorkspaceAssumption DEF Restart
<1>4. \A r \in Runs : RunInv(r)'
  BY <1>3, WorkspaceAssumption DEF Restart, RunInv, DirInv, ReadyInv, ReaderInv, UsesClone,
     NoEnv, Names, Origin, HasClone, HasRoot, Preparing
<1> QED BY <1>1, <1>2, <1>4

LEMMA InvStep == WorkspaceInv /\ [Next]_vars => WorkspaceInv'
<1> SUFFICES ASSUME WorkspaceInv, [Next]_vars PROVE WorkspaceInv'
  OBVIOUS
<1>1. TypeOK'
  BY TypeStep DEF WorkspaceInv
<1>2. ASSUME NEW r \in Runs, RunStep(r) PROVE WorkspaceInv'
  <2>1. LockInv' /\ CacheInv' /\ GlobalInv' /\ EnvIsOwn' /\ NobodysInv'
    BY <1>2, LockStep, CacheStep, EnvStep, NobodysStep DEF WorkspaceInv
  <2>2. RunInv(r)'
    BY <1>2, OwnRunInv DEF WorkspaceInv
  <2>3. ASSUME NEW q \in Runs, q # r PROVE RunInv(q)'
    BY <1>2, <2>3, OthersAreKept, KeptRunInv DEF WorkspaceInv
  <2> QED BY <1>1, <2>1, <2>2, <2>3 DEF WorkspaceInv
<1>3. CASE Restart
  BY <1>1, <1>3, InvRestart DEF WorkspaceInv
<1>4. CASE UNCHANGED vars
  BY <1>1, <1>4 DEF vars, lock, identity, WorkspaceInv, LockInv, CacheInv, GlobalInv, EnvIsOwn,
     NobodysInv, RunInv, DirInv, ReadyInv, ReaderInv, GlobalEnvIs, ModuleEnvIs, UsesClone,
     Overridden, HasClone, HasRoot
<1> QED BY <1>2, <1>3, <1>4 DEF Next, RunStep

\* In every reachable state the lock protects the cache as CacheInv says, and
\* every run has prepared what its stage needs (runner.go, plugin.go).
THEOREM WorkspaceInvariant == Spec => []WorkspaceInv
  BY InvInit, InvStep, PTL DEF Spec

-----------------------------------------------------------------------------
(* What the runs check, for all constants.                                 *)

\* Every variable of Workspace keeps its type.
THEOREM TypeCorrect == Spec => []TypeOK
<1>1. WorkspaceInv => TypeOK
  BY DEF WorkspaceInv
<1> QED BY <1>1, WorkspaceInvariant, PTL

\* What a run sets in its environment (envs in Start, process and NewTFRunner)
\* reaches neither GlobalENV nor another run.
THEOREM EnvironmentsAreOwn == Spec => []EnvIsOwn
<1>1. WorkspaceInv => EnvIsOwn
  BY DEF WorkspaceInv
<1> QED BY <1>1, WorkspaceInvariant, PTL

\* A run that has returned, by whatever way through process and NewTFRunner,
\* has left no directory; given the flag, a crash leaves none either.
THEOREM NothingIsLeftOver == Spec => []NoLeftovers
<1>1. WorkspaceInv => NoLeftovers
  <2> SUFFICES ASSUME WorkspaceInv, CleanTmp, NEW d \in tmp
               PROVE  d[2] \in Runs /\ stage[d[2]] # "idle"
    BY DEF NoLeftovers
  <2>1. d[2] \in Runs
    BY DEF WorkspaceInv, NobodysInv
  <2>2. d = <<"clone", d[2]>> \/ d = <<"root", d[2]>>
    BY DEF WorkspaceInv, TypeOK
  <2> QED BY <2>1, <2>2 DEF WorkspaceInv, RunInv, DirInv, HasClone, HasRoot
<1> QED BY <1>1, WorkspaceInvariant, PTL

\* terraform runs in a directory of its own with what its own account has read
\* and, unless a name is set that should not be, with the variables, credentials
\* and cache directory its module is to have (process in runner.go, delegation.go,
\* NewTFRunner in tfexec.go).
THEOREM TerraformStartsReady == Spec => []TerraformIsReady
<1>1. WorkspaceInv => TerraformIsReady
  BY DEF WorkspaceInv, TerraformIsReady, RunInv, DirInv, ReadyInv, ReaderInv, HasRoot, AccountOf
<1> QED BY <1>1, WorkspaceInvariant, PTL

-----------------------------------------------------------------------------
(* The plugin cache is implemented.                                        *)

\* What PluginCache sees of the directory of a run.
ViewOf(r) == IF HasClone(r) /\ stage[r] \notin {"link", "remove"} THEN clone[r] ELSE NoView
View == [r \in Runs |-> ViewOf(r)]

LEMMA CacheUnfolds ==
  /\ Cache!Dir = Dir /\ Cache!Empty = Empty
  /\ Cache!pcVars = <<settled, View>>
  /\ Cache!Init <=> settled = Empty /\ View = [r \in Runs |-> NoView]
  BY DEF Cache!Dir, Dir, Cache!Content, Content, Cache!Empty, Empty, Cache!pcVars, Cache!Init,
         View, ViewOf

LEMMA HandUnfolds ==
  ASSUME NEW r \in Runs, View[r] = NoView,
         View' = [View EXCEPT ![r] = settled], settled' = settled
  PROVE  Cache!Hand(r)
  BY DEF Cache!Hand, View, ViewOf

LEMMA DownloadUnfolds ==
  ASSUME NEW r \in Runs, View[r] # NoView, NEW d \in Dir,
         \A f \in Files : View[r][f] # "none" => d[f] = View[r][f],
         View' = [View EXCEPT ![r] = d], settled' = settled
  PROVE  Cache!Download(r)
  BY CacheUnfolds DEF Cache!Download, Cache!Keeps, View, ViewOf

LEMMA GiveBackUnfolds ==
  ASSUME NEW r \in Runs, View[r] # NoView, settled' \in Dir,
         \A f \in Files : \/ settled'[f] = settled[f]
                          \/ settled[f] = "none" /\ settled'[f] = View[r][f],
         View' = [View EXCEPT ![r] = NoView]
  PROVE  Cache!GiveBack(r)
  BY CacheUnfolds DEF Cache!GiveBack, Cache!MaySee, View, ViewOf

\* A directory is something else than none.
LEMMA ViewIsDir ==
  ASSUME TypeOK, NEW r \in Runs
  PROVE  /\ clone[r] \in Dir /\ clone[r] # NoView
         /\ View[r] = IF HasClone(r) /\ stage[r] \notin {"link", "remove"}
                        THEN clone[r] ELSE NoView
  BY PluginFilesAssumption DEF TypeOK, View, ViewOf

\* The view of one run changes at a time.
LEMMA ViewChanges ==
  ASSUME TypeOK, NEW r \in Runs, RunStep(r)
  PROVE  View' = [View EXCEPT ![r] = ViewOf(r)']
<1>1. ASSUME NEW q \in Runs, q # r PROVE ViewOf(q)' = ViewOf(q)
  BY <1>1, OthersAreKept DEF Kept, ViewOf
<1> QED BY <1>1 DEF View

\* Steps PluginCache does not see.
LEMMA Stutters ==
  ASSUME TypeOK, NEW r \in Runs, RunStep(r), ViewOf(r)' = ViewOf(r), settled' = settled
  PROVE  UNCHANGED Cache!pcVars
<1>1. View' = [View EXCEPT ![r] = View[r]]
  BY ViewChanges DEF View
<1>2. View' = View
  BY <1>1 DEF View
<1> QED BY <1>2 DEF Cache!pcVars, View, ViewOf

LEMMA RestartRefines ==
  ASSUME WorkspaceInv, Restart
  PROVE  Cache!Restart
<1>1. PICK stale \in SUBSET Files :
        main' = [f \in Files |-> IF f \in stale THEN "none" ELSE main[f]]
  BY DEF Restart
<1>2. main \in Dir /\ settled' = main'
  BY DEF WorkspaceInv, TypeOK, Restart
<1>3. View' = [r \in Runs |-> NoView]
  BY WorkspaceAssumption DEF Restart, View, ViewOf, HasClone
<1>4. \/ main = settled
      \/ \E r \in Runs : View[r] # NoView /\ Cache!MaySee(settled, View[r], main)
  <2>1. CASE \A r \in Runs : stage[r] # "merge"
    BY <2>1 DEF WorkspaceInv, CacheInv
  <2>2. ASSUME NEW r \in Runs, stage[r] = "merge"
        PROVE  View[r] # NoView /\ Cache!MaySee(settled, View[r], main)
    <3>1. View[r] = clone[r] /\ clone[r] # NoView
      BY <2>2, ViewIsDir DEF WorkspaceInv, RunInv, DirInv
    <3> QED BY <2>2, <3>1 DEF WorkspaceInv, CacheInv, Cache!MaySee
  <2> QED BY <2>1, <2>2
<1> QED BY <1>1, <1>2, <1>3, <1>4, CacheUnfolds DEF Cache!Restart, View, ViewOf

LEMMA StepRefines ==
  ASSUME WorkspaceInv, WorkspaceInv', NEW r \in Runs, RunStep(r)
  PROVE  [Cache!Next]_(Cache!pcVars)
<1> USE DEF WorkspaceInv
<1>0. /\ View' = [View EXCEPT ![r] = ViewOf(r)'] /\ View[r] = ViewOf(r)
      /\ r \in DOMAIN stage
  BY ViewChanges DEF View, TypeOK
<1>1. ASSUME Cloned(r) PROVE Cache!Hand(r)
  <2>1. main = settled
    BY <1>1 DEF Cloned, LockInv, CacheInv
  <2>2. clone[r] = main
    BY <1>1 DEF Cloned, CacheInv, Missing, TypeOK, Dir
  <2>3. ViewOf(r) = NoView /\ ViewOf(r)' = settled
    BY <1>0, <1>1, <2>1, <2>2 DEF Cloned, ViewOf, HasClone, Goto, RunInv, DirInv
  <2> QED BY <1>0, <1>1, <2>3, HandUnfolds DEF Cloned
<1>2. ASSUME Terraform(r) \/ InitFails(r), UsesClone(r) PROVE Cache!Download(r)
  <2>1. ViewOf(r) = clone[r] /\ ViewOf(r)' = clone'[r]
    BY <1>0, <1>2 DEF ViewOf, HasClone, Terraform, InitFails, Goto, RunInv, ReadyInv
  <2>2. clone'[r] \in Dir /\ clone[r] # NoView
    BY PluginFilesAssumption DEF TypeOK
  <2>3. \A f \in Files : clone[r][f] # "none" => clone'[r][f] = clone[r][f]
    BY <1>2 DEF Terraform, InitFails, Lacking, TypeOK, Dir
  <2>4. settled' = settled
    BY <1>2 DEF Terraform, InitFails
  <2>5. View[r] = clone[r] /\ View' = [View EXCEPT ![r] = clone'[r]]
    BY <1>0, <2>1
  <2> HIDE DEF WorkspaceInv
  <2> QED BY <2>2, <2>3, <2>4, <2>5, DownloadUnfolds
<1>3. ASSUME Merged(r) PROVE Cache!GiveBack(r)
  <2>1. ViewOf(r) = clone[r] /\ ViewOf(r)' = NoView
    BY <1>0, <1>3 DEF ViewOf, HasClone, Merged, Goto, RunInv, DirInv
  <2>2. settled' = main /\ main \in Dir /\ clone[r] # NoView
    BY <1>3, PluginFilesAssumption DEF TypeOK, Merged
  <2>3. \A f \in Files : \/ main[f] = settled[f]
                         \/ settled[f] = "none" /\ main[f] = clone[r][f]
    BY <1>3 DEF Merged, CacheInv
  <2>4. View[r] = clone[r] /\ View' = [View EXCEPT ![r] = NoView]
    BY <1>0, <2>1
  <2>5. \A f \in Files : \/ settled'[f] = settled[f]
                         \/ settled[f] = "none" /\ settled'[f] = View[r][f]
    BY <2>2, <2>3, <2>4
  <2>6. settled' \in Dir /\ View[r] # NoView
    BY <2>2, <2>4
  <2> HIDE DEF WorkspaceInv
  <2> QED BY <2>4, <2>5, <2>6, GiveBackUnfolds
<1> DEFINE Still == ViewOf(r)' = ViewOf(r) /\ settled' = settled
<1>4. ASSUME Terraform(r), ~UsesClone(r) PROVE Still
  BY <1>0, <1>4 DEF ViewOf, HasClone, Terraform, Goto
<1>5. ASSUME StartWithClone(r) PROVE Still
  BY <1>0, <1>5 DEF ViewOf, HasClone, StartWithClone, Begin, Goto, RunInv, DirInv
<1>6. ASSUME CloneFails(r) \/ Remove(r) PROVE Still
  BY <1>0, <1>6 DEF ViewOf, HasClone, CloneFails, Remove, Goto
<1>7. ASSUME \/ LinkToClone(r) \/ LinkToMain(r) \/ Delegation(r) \/ RunAs(r) \/ Fetch(r)
             \/ Vault(r) \/ NewRoot(r) \/ Checkout(r) \/ CheckoutFails(r) \/ CleanUp(r)
      PROVE  Still
  BY <1>0, <1>7 DEF ViewOf, HasClone, Goto, LinkToClone, LinkToMain, Delegation, RunAs, Fetch,
     Vault, NewRoot, Checkout, CheckoutFails, CleanUp
<1>8. ASSUME \/ StartWithoutClone(r) \/ PrepareFails(r) \/ ReturnWithoutClone(r)
             \/ AskLock(r) \/ Locked(r)
      PROVE  Still
  BY <1>0, <1>8 DEF ViewOf, HasClone, Goto, Preparing, StartWithoutClone, Begin, PrepareFails,
     ReturnWithoutClone, AskLock, Locked
<1>9. Still => UNCHANGED Cache!pcVars
  BY Stutters
<1>10. CASE Cloned(r) \/ Terraform(r) \/ InitFails(r) \/ Merged(r)
  <2>1. CASE ~UsesClone(r) /\ Terraform(r)
    BY <1>4, <1>9, <2>1
  <2>2. CASE UsesClone(r) /\ (Terraform(r) \/ InitFails(r))
    BY <1>2, <2>2 DEF Cache!Next
  <2>3. CASE Cloned(r) \/ Merged(r)
    BY <1>1, <1>3, <2>3 DEF Cache!Next
  <2> QED BY <1>10, <2>1, <2>2, <2>3 DEF InitFails
<1> QED BY <1>5, <1>6, <1>7, <1>8, <1>9, <1>10 DEF RunStep, Own

\* plugin.go: cloning and adding file by file, under the lock, implements a
\* cache that is handed out and added to in single steps.
THEOREM PluginCacheImplemented == Spec => ClonesAreSnapshots
<1>1. Init => Cache!Init
  BY CacheUnfolds DEF Init, View, ViewOf, HasClone
<1>2. WorkspaceInv /\ WorkspaceInv' /\ [Next]_vars => [Cache!Next]_(Cache!pcVars)
  <2> SUFFICES ASSUME WorkspaceInv, WorkspaceInv', [Next]_vars
               PROVE  [Cache!Next]_(Cache!pcVars)
    OBVIOUS
  <2>1. CASE Restart
    BY <2>1, RestartRefines DEF Cache!Next
  <2>2. ASSUME NEW r \in Runs, RunStep(r) PROVE [Cache!Next]_(Cache!pcVars)
    BY <2>2, StepRefines
  <2>3. CASE UNCHANGED vars
    BY <2>3 DEF Cache!pcVars, vars, lock, identity, View, ViewOf, HasClone
  <2> QED BY <2>1, <2>2, <2>3 DEF Next, RunStep
<1> QED BY <1>1, <1>2, WorkspaceInvariant, PTL DEF Spec, ClonesAreSnapshots, Cache!Spec

=============================================================================
