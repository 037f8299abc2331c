# TLA+ model of terraform-applier

terraform-applier is a Kubernetes controller that runs `terraform plan` and
`apply` for `Module` objects: on a schedule, when the code of a module changes
in git, when a user asks for it, and (plan only) for open pull requests. This
directory holds TLA+ modules that model it, the TLC configurations that check
them on small instances, and theorems about them that TLAPS checks for every
value of the constants.

Paths and line numbers refer to the repository this directory stands beside.

## 1. The system

| Component | State it keeps | Operations | Talks to |
|--|--|--|--|
| Runner (`runner/runner.go`) | one call stack per run: the `Run`, a private copy of the module, `ctx` | `Start`, `process`, `runTF`, the watching goroutine, two deferred calls | RunStatus, API server, git, terraform, Redis |
| Run policy (`api/v1beta1/run.go`) | none | `Validate`, `IsApply`, `GetRunMode`, `SkipStatusUpdate` | called by reconciler and runner |
| RunStatus (`sysutil/runstatus.go`) | the set of running modules, in memory | `Load`, `Store`, `Delete` under a lock each | runner, reconciler, web server |
| Reconciler (`controllers/module_controller.go`) | none of its own; one worker per module at a time | `Reconcile`, `NextSchedule`, `triggerRun` | RunStatus, API server (cached reads), git, runner |
| Event filter (`controllers/predicate.go`) | none | decides which updates are queued | work queue |
| Run request (`sysutil/k8s_req_api.go`) | an annotation of the module | `EnsureRequest`, `RemoveRequest`, `RemoveCurrentRequest`, with retries | web server, reconciler, runner, the trigger-run action |
| Status patch (`sysutil/k8s_api.go`) | the status subresource | `PatchModuleStatus`, `GetModule`, with back-off | API server |
| Run storage (`sysutil/redis.go`) | default last run, default last apply, PR runs, pending uploads | set, get, clean up; a key event per set | runner, planner, web server |
| PR planner (`prplanner/`) | comments on the PR, Redis keys | poll, webhook event, plan request, output upload, merge hand-over | GitHub, runner, Redis |
| Webhook (`webhook/webhook.go`) | none | push, pull request and comment events, a goroutine each | git mirror, planner |
| Plugin cache (`runner/plugin.go`, `sysutil/filesystem.go`) | a main directory under a read-write lock | `new` clones it, `done` merges back | runner |
| Terraform executer (`runner/tfexec.go`) | a root directory per run | `NewTFRunner`, one method per command, `cleanUp` | git mirror, terraform |
| Delegation, Vault, Strongbox (`runner/delegation.go`, `vault/`) | tokens, clients and the environment of one run | fetch variables, log in to Vault with back-off, decrypt | Kubernetes, Vault |
| Web server (`webserver/`), RBAC (`api/v1beta1/rbac.go`) | none | pages, force-run handler | OIDC, API server, RunStatus, Redis |
| OIDC (`webserver/oidc/oidc.go`) | a cookie key, made anew by every process; sessions are in the browsers' cookies | `Authenticate`, `UserInfo` | the issuer, web server |
| `main.go` | the manager's context | wiring, TERM, graceful shutdown | everything |

How they interact: the manager's work queue calls `Reconcile`, which blocks in
`Runner.Start` for the whole run; `MaxConcurrentReconciles` workers do so at
once, never two for one module. The PR planner calls the same `Runner.Start`
from goroutines of its own, so a module can be asked to run twice at a time and
the RunStatus map is what keeps the two apart. Every run reads the module
from the API server when it starts, reports its progress and result with status
patches (default runs only), writes its record to Redis when it ends, and takes
its request, if it had one, off the module.

What is hard about it:

- two callers of `Start`, one lock per RunStatus operation;
- decisions taken on one read of the module, or of the clock, and used after another one;
- three kinds of persistence (status, annotation, Redis) written at different
  moments, each of which may fail or be cut off by a crash;
- a context that is cancelled by a timer, or a grace period after TERM, and is
  used by the deferred calls too;
- at-most-once key events, comments as a database, retries with cached reads;
- directories that runs clone and merge file by file, and clean up on many ways out;
- one cookie that all tabs of a browser overwrite for each other.

What makes each component correct, and where it is stated:

| Component | Property | Module |
|--|--|--|
| Runner | a mark exists only while a call works on the module, and only such a call, or the end of the process, removes it | `Runner`: `NoLeakedMark`, `OnlyARunUnmarks` |
| Runner | what the status says was applied, was applied | `AppliedStatusIsTrue` |
| Runner | after TERM no default run begins to prepare, plan or apply; every default run ends | `NoStageAfterShutdown`, `EveryRunEnds` |
| Runner | PR runs are invisible to the module | `PRRunsLeaveNoTrace` |
| Runner, status, Redis | a patch sent from a copy overwrites nothing; the status and Redis tell of the same run | `RunsAreReported` |
| Runner, Redis | the last apply follows the last run | `ApplyKeyFollowsLastRun` |
| Policy | nothing is applied that may not be | `ApplyIsIntended` |
| Requests | the annotation is an atomic slot for one request, whatever readers and writers interleave | `RunRequests`: `ImplementsSlot` |
| Requests | a request is neither lost to another run nor kept for ever | `Runner`: `NewerRequestSurvives`; `RequestIsServed` |
| Requests | users are told what happened to their request | `QueuedRequestWasWritten` |
| Requests, reconciler | a request is run again only by a stale read | `SecondRunMeansStaleRead` |
| Reconciler | every commit and every scheduled time leads to a run, and no scheduled run is made that is not due | `Reconciler`: `CommitIsRun`, `ScheduleIsMet`, `RestIsNotDue`, `ScheduledRunIsDue` |
| Reconciler, status patch | a wrong status is set right, also when a patch against an old read has left a field out | `StaleRunningIsRepaired`; `Runner`: `RunningIsRepaired` |
| Planner | outputs stand where they belong; a commit is not planned over and over | `PRPlanner`: `OutputMatchesRequest`, `NoPlanStorm` |
| Planner | comments are seen, commits planned, outputs and applies reported, whatever is lost | `CommentIsSeen`, `LatestCommitIsPlanned`, `StoredPlanIsReported`, `ApplyIsReported` |
| Plugin cache | a run never sees a half merged main directory; the lock is never held for ever | `Workspace`: `ClonesAreSnapshots`, `EveryRunReturns` |
| Executer, delegation, Vault | terraform has what its module asked for, read by the account it names, in an environment and a directory of its own, and nothing stays behind | `TerraformIsReady`, `EnvIsOwn`, `NoLeftovers` |
| OIDC | a tab ends where it wanted to go; a login is lost to nobody but others; no tab goes in circles | `WebServer`: `TabShowsWhatWasAsked`, `LoginIsLostToOthers`, `LoginEnds` |

## 2. Modules

| Module | Models | State and actions |
|--|--|--|
| `RunPolicy` | `api/v1beta1/run.go` and the spec predicates | pure operators with the names of the code |
| `ModuleRuns` | what the default runs of a module promise to whoever looks at it | begin, record, fail, plan, apply, report, store, each atomic; settle, crash |
| `Runner` | `runner/runner.go` with its callers and stores | see below |
| `MCRunner` | constants for TLC | |
| `RunnerProofs` | the theorems about `Runner` | |
| `ModuleRunsProofs` | that `Runner` implements `ModuleRuns` | |
| `RunRequest` | the request in the annotation: `Request`, `Validate`, `RequestedAt` | data of the next two |
| `RequestSlot` | what the annotation promises | submit, overwrite, take, remove, discard, each atomic |
| `RunRequests` | `sysutil/k8s_req_api.go`, the force-run handler, requests in `Reconcile` and `Start` | see below |
| `MCRunRequests` | constants for TLC | |
| `RunRequestsProofs` | the theorems about `RunRequests` | |
| `Reconciler` | `controllers/module_controller.go`, `controllers/predicate.go`, `PatchModuleStatus` | see below |
| `MCReconciler` | constants for TLC | |
| `ReconcilerProofs` | the theorems about `Reconciler` | |
| `PRPlanner` | `prplanner/`, the events of `webhook/webhook.go`, PR keys and key events of `sysutil/redis.go` | see below |
| `MCPRPlanner` | constants for TLC | |
| `PRPlannerProofs` | the theorems about `PRPlanner` | |
| `PluginFiles` | files and directories of plugins | data of the next two |
| `PluginCache` | what the plugin cache promises | hand out, download, give back, restart, each atomic |
| `Workspace` | `runner/plugin.go`, `sysutil/filesystem.go`, and what `Start`, `process`, `NewTFRunner`, `runner/delegation.go` and `vault/` do to directories, environment and accounts | see below |
| `MCWorkspace` | constants for TLC | |
| `WorkspaceProofs` | the theorems about `Workspace` | |
| `WebServer` | `webserver/webserver.go`, `webserver/oidc/oidc.go`, `api/v1beta1/rbac.go` | see below |
| `MCWebServer` | constants for TLC | |
| `WebServerProofs` | the theorems about `WebServer` | |
| `NumberLemmas` | least and greatest elements of sets of numbers, for the proofs | |

### Runner

A *call* is one invocation of `Start`. The default call of a module is named by
the module, since the reconciler never makes two at once; the calls of the PR
planner are the elements of `PRCalls`, and `PRModule` says which module each of
them plans. `pc[c]` is the place a call has reached:

    idle, start        Trigger = NewRun in triggerRun or ensurePlanRequests
    load, store        the two steps on RunStatus in process
    hash, record       Repos.Hash; first look at the channel, SetRunStartedStatus
    prepare            delegation, variables, Vault, clone of the ref
    init, plan, show, apply    runTF, with the second and third look
    patch              the patch of setFailedStatus or SetRunFinishedStatus
    redis, release     the deferred updateRedis; RunStatus.Delete and cancel
    remove             Start's deferred RemoveRequest, then return

`run[c]` is the `Run` the code passes by reference, `loc[c]` the module `Start`
fetched and what `process` read from git, `mon[c]` the goroutine (`watch`,
`grace` while it sleeps, `cancelled` once it has cancelled `ctx`). A stage may
fail by a fault of its own; when `ctx` is cancelled it can only fail. A status
patch does not use `ctx`, the Redis write does, as in the code. The channel is
looked at before `record`, `plan` and `apply`, and nowhere else: `init` and `show`
may begin after TERM, and a PR call goes on, as nothing closes its channel.

Data is abstracted to what the properties tell apart. A commit is its position
in the history of the ref, 0 the empty hash. Of a request there is its number
and its type, of a plan whether it holds a change, of terraform's state
(`infra`) the commit that was applied last; a failed apply is one that did not
finish. Outputs, durations, messages, events and metrics are left out.

`Terminate`, `CloseChan` and `Restart` are TERM, the closing of the channels in
`triggerRun`, and the end of the process in which everything in memory is lost.
`RepairStatus` and `DropInvalidRequest` are what `Reconcile` does to a module
besides triggering runs, but for the patch that reports an error in the schedule
(`module_controller.go:177`), which is in `Reconciler` only; they are steps of the
same worker and exclude the default call.
`SubmitRequest` covers the force-run page and the trigger-run action, which
overwrites the annotation. Deleting a module is not modelled: to a run in
progress it looks like API calls that fail. The reads of `Runner` are not behind;
what a cache that is behind does to patches and to the annotation is in
`Reconciler` and `RunRequests`.

`ModuleRuns` is what all this looks like from outside: a run begins, says so, ends
with a result, reports it and stores it, and each report changes the status that
is there. It knows nothing of copies, marks, PR runs, channels or stages.
`RunsAreReported` says that `Runner` implements it: `phase` is read off `pc`, and
of a run there is its status, its commit and whether it applied. `Lossy` is
whether patches may fail.

### RunRequests

One module, the API server's version of it (`object`) and the manager's cached
one (`cache`), with the updates on their way between them (`feed`). Every read
of the code goes to the cache. A resource version is modelled by whether a copy
is still the newest one: `current[a]` says so of what actor `a` has read, any
write makes it false for everybody, and `client.Update` is refused without it.
Versions are not numbered, so that states do not differ by them.

The actors are the force-run handlers of the web server and the reconciler's
worker. A handler goes through `FetchForForce`, `CheckForce`, `EnsureRead` and
`EnsureWrite`; `TryAgain` is the loop of `CallWithBackOff`. The worker reads
(`ReadModule`), decides (`Inspect`), starts a run (`StartRun`, `Mark`,
`FinishRun`) and removes its request (`RemoveRead`, `RemoveWrite`) or discards
an invalid one (`DropRead`, `DropWrite`, `ReportInvalid`). `StatusPatch` is any
patch by the worker: all it does here is to make copies out of date.
`OverwriteRequest` stands for the trigger-run action and kubectl.

Of `RequestedAt` there is the second and whether it is a whole one. `time.Now()`
is not, what `json.Marshal` wrote is; two requests of one second are the same
to the code once both have been in the annotation. Requests with an automated
type in the annotation are left out: neither the page nor the action writes one.

`RequestSlot` has a single step for each thing that may happen to the
annotation. A valid request is taken away only after a run was given a request of
that second, or during a discard; the web server never replaces one.

`Runner` and `RunRequests` overlap on purpose. `Runner` has many calls and the
whole run, with the annotation as one variable that is read and written
atomically; `RunRequests` has the annotation in detail and of the run only that
it takes time. What `Runner` says of requests (`NewerRequestSurvives`) it says
of requests of different times.

### Reconciler

One module with its worker. `Read`, `Inspect`, `RequestCase`, `CommitCase`,
`ScheduleCase`, `NothingToDo` and `Requeue` are `Reconcile` from top to bottom; a
case that triggers a run goes on with `BeginRun`, `RecordStart`, `FinishRun` and
`ReturnFromRun`, which are what `Runner` says of a default call reduced to its mark
and its patches. Every other way out sets the timer of the work queue, or none:
`BackAfterPoll` is the poll interval, `NextLook` the time to the next scheduled run
if that is shorter, and after an error in the schedule there is no timer. Whether a
module is queued otherwise is up to the event filter (`Passes`), which ignores the
status.

When there is nothing to do the clock is read twice. `NothingToDo` is the first
reading (line 173), at which nothing is missed and the next time, `nextRun`, is
computed; `Requeue` is the second one (line 195), any number of minutes later. If
`nextRun` has come meanwhile, the difference is not above zero, controller-runtime
puts nothing into the queue, and the module is forgotten: it has no timer (unless
one was set before) until it is edited, a request comes or the process starts anew.

Every read goes to the manager's cache, which is behind the API server until
`Deliver`. `PatchModuleStatus` sends the fields in which the new status differs
from the cached one (`Patched`), so a field that was patched a moment ago may be
left out of the next patch; `Running` may stay that way after a run has ended.

Time is in minutes. A schedule is the set of minutes of a cycle at which it is due;
`Reconcile` and its run take any time, and the clock moves at each of their steps;
the queue and the watch need less than a minute (`MinuteMayPass`). At `MaxTime` the
clock stands still and timers fire all the same. `NextSchedule` is `ScheduleError`
and `Missed`, counted from `EarliestTime`, the last start or the creation of the
module. Of the states that end a run there is one, `Ended`, since `Reconcile` tells
none of them apart. Deletion is left out.

`ran` is the last run whose start reached the status, `resting` says that the
last look found nothing to do and whether the queue was given a time (`timed`) or
none (`forgotten`), and `stale` that an old status was read once; they are there
for the properties. A run counts as made when its start is recorded:
if the process dies after that, the code does not make it again.

### PRPlanner

One pull request and one module. The planner keeps no state of its own between
two looks at the PR: the comments and the keys in Redis are its memory, and they
are what the module has as variables. A planner is the poller, which comes back,
or the goroutine of one webhook event. It fetches the PR with its comments
(`Fetch`), then reads the branch and Redis, posts an acknowledgement and starts a
run if one is wanted (`Decide`), and then goes through the acknowledgements it
saw (`UploadRead`, `UploadPost`), all on the comments of `Fetch`, which are out
of date by then. `Decide` is one step: what it reads from git and Redis only
grows, so that an earlier read is one the step could have made itself.

A run (`BeginRun`, `EndRun`) is what `Runner` says of a PR call in a few words: it
is turned away when the module is busy, it plans the head of the branch at that
moment, which need not be the commit of its acknowledgement, and it stores its
output under the commit it found. `BeginDefault` and `EndDefault` are a default
run of the module. Setting a key raises an event, and `Watch` handles one: it
reads the run that the key holds by then and patches the comment of that run, or
posts the output of an apply and cleans up.

A comment is a plan comment of a user, the notice that a draft is not planned, an
acknowledgement of a commit or an output. When an output replaces an
acknowledgement the model keeps the commit of the latter, so that the two can be
compared; the code does not. Of time there is `stale`, the acknowledgements older
than ten minutes. A failure is a call that fails, a comment posted without a
reply, an event that is lost, a crash, and a run that takes more than ten minutes
or an apply that takes more than an hour.

### Workspace

Runs that are in progress at once, whatever their modules. `stage[r]` is where a
run is: `link` (cloning the plugin cache in `pluginCache.new`), the stages of
`process` up to `NewTFRunner` (`Preparing`), `checkout`, `terraform`, `cleanUp`,
`end` (process has returned), `lock`, `merge` and `remove` (`pluginCache.done`).
What a run does to its module and to Redis is in `Runner`, and the two share
nothing: a stage that fails here is one that may fail there.

A plugin directory says of each file whether it is missing, whole, or what a
cut-off download has left. `LinkToClone` and `LinkToMain` link one file that is
missing on the other side, as `CopyDirWithHardLinks` does, in any order; a link
may fail at any point. `sync.RWMutex` is modelled from its documentation: a
writer that waits (`writer`) turns later readers away (`blocked`), goes on once
the readers have left, and lets in all of the waiting ones when it unlocks.

Of an environment there is where each name is from (`Origin`): `GlobalENV`,
`spec.env` or the environment of the controller itself, or the run, which stands for
the values it sets on its own. `envs` is a map, so what is written into a map the
run shares would be written into `global` too. A module may set any names
(`SpecEnvs`, of which `Fetch` takes one, `spec`): those of `GlobalENV`, those the
run has set before (`TF_PLUGIN_CACHE_DIR`, after which the clone is not used and the
directory terraform uses is one outside the model) or sets later (`VAULT`, `HOME`),
and those terraform-exec manages itself (`MANAGED`). For the sake of the latter
`Checkout` has two outcomes: `SetEnv` hands over all of the environment, or, since
it refuses a map with such a name and its error is dropped (`tfexec.go:141`), none
of it, and terraform has that of the controller (`ProcessEnv`). Of the accounts
there is which one `delegateToken` and `delegatedClient` are of, and with which ones
anything was read (`readAs`). `VaultAnswer` is what `callWithBackOff` may return
with; the callers look at the error and at the secret.

`Restart` is the death of the process at any moment and a new one, which clears
temporary directories (`cleanupTmpDir`, a flag) and stale plugins
(`newPluginCache`). `settled` is no part of the code: it is the main directory as
it was when the lock was last given back. `PluginCache` is implemented with it as
the cache, and with the clone of a run as what it was handed, from the moment its
cloning is over until its merge is.

### WebServer

One browser. A client is one of its tabs, or the script of the page in one: a
tab follows the redirect to the issuer, a script does not. `at[c]` is where a
client is: nothing under way, a request on its way (`sent`, with the cookie as it
was then), a response on its way (`reply`) or at the issuer's page (`login`). The
server keeps no sessions, so that one is a value which travels: `newUserSession`
makes it, the response sets it when it arrives, later responses replace it.

State, nonce, code verifier, the code and the token that belong together are one
name, the flow, which is fresh for every new session. `Accepts` is the comparison
of states in `processCallback` and the exchange of the code, which needs the
verifier. The issuer may say no, fail, or stop to know a token; a restart makes a
new cookie key. `ForceRun` is the request of the page's script, which is refused
without a login; whoever the token is of is looked up in the module's bindings
(`CanForceRun`), and the request then queued is `RunRequests`'. What it answers to the
script decides nothing further here: no property is about it.

## 3. Runs

| Run | Instance | Shows |
|--|--|--|
| `runner_faults` | 1 module, 1 PR call on it, 2 runs, 2 commits, 1 stop, faults of the API, terraform, Redis, timeout, crash | types, marks, statuses, Redis keys, shutdown, PR runs |
| `runner_live` | 1 module, 2 runs, polling or forced, 2 requests, spec edits between automatic apply and locked, faults of terraform, timeout, 1 stop, fair | every run ends, statuses are repaired, reports are implemented and stored runs final, policy and requests |
| `twin_runs` | 1 module, 1 PR call, no faults | `OneRunPerModule` is violated |
| `stale_mode` | 1 module whose spec is edited, no faults | `LockedModuleIsReadOnly` is violated |
| `lost_result` | 1 PR call, timeout | `FinishedRunIsStored` is violated |
| `requests` | 1 handler, the worker, 2 requests in 2 seconds, 1 spec edit or PR run, 1 failure, fair | the slot is implemented, replies are true, requests are served |
| `reconciler` | 1 module, 3 schedules, 5 minutes, 2 commits, 1 edit, request or PR run, 1 failure, fair | runs are triggered when, and only when, they are due, but for a module that was forgotten |
| `planner` | poller and 1 webhook, draft or not, merge, 1 push, plan comment or default run | outputs match, no storm of plans |
| `planner_live` | poller, merge, 1 push, plan comment or default run, 1 failure, fair | comments are seen, commits planned, outputs and applies reported |
| `dropped_request` | poller, a draft, 1 plan comment, 1 default run, fair | `CommentIsAnswered` is violated |
| `workspace` | 2 runs, over and over, 2 files, 3 choices of `spec.env`, one run with another account and a Vault request, failing links and calls, crashes, fair | the plugin cache is implemented, environments, directories and accounts are each run's own, every run returns |
| `webserver` | 2 clients, 2 pages, 1 restart, expired token or failing issuer, fair | tabs end where they wanted to go, logins are lost to others only, nobody goes in circles |

Bounds: `MaxCommit`, `MaxRequests`, `MaxStops` and `MaxRuns` cap counters that
the system leaves open. Two calls on one module are what it takes for any
interference between calls, since modules share nothing but the process; two
commits are enough for the ref to move between any two reads; two runs in a row
let the second start from whatever the first left behind, and one stop may hit
either. Two requests are one to run and one to arrive meanwhile. Deadlock is not
checked: a behaviour that has used up its runs stops.

In `requests`, `MaxRequests` and `MaxClock` allow a second request in the same
second as the first and in a later one. With `MaxLag` 1 a writer waits until
the cache has the previous write; a cache that is one update behind is enough
for every reader to miss the one write that matters to it, and `MaxTries` 2
lets a retry find either the old or the new object. `MaxFailures` is one lost
reply, failed call or crash, `MaxEvents` one spec edit or PR run. A second
handler would only add what `OverwriteRequest` does already: a request that
appears between the steps of the first. The theorems have no such bounds.

In `reconciler` a schedule repeats itself after 4 minutes and the module is polled
every 2, so that the two come in every order. The schedules are none, every other
minute, and two minutes in a row of which the first interval is too short when counted
from one start and not from the other; the last is the one that may be rejected. The
creation lies one minute ahead of the controller's clock. In the 5 minutes the second
schedule has two times, 3 and 5: one with the failure, the edit or a second reading of
the clock that comes too late, and one after it. `MaxEvents` and `MaxFailures` are one
each: a request, an edit or a PR run, and a lost patch, a failed read or a crash, at
any moment. `ScheduleIsMet` speaks of the times of schedules that are not rejected
(`Times`); the others would be exempt.

In `planner` two planners interleave at every step, which is where duplicates come
from; `Hooks` has one goroutine since a second would do what the first does.
`MaxChanges` 1 is one push, plan comment or default run at any moment; before it
there is the first commit with its acknowledgements, runs and outputs, so that
old and new meet. `planner_live` has no webhook, as if all were lost, and one
failure of any kind. In `dropped_request` `MaxChanges` is 2, a comment and a run
that is in its way, and nothing fails.

In `workspace` two runs are a reader and a writer, or two of either, at every step
of each other; a third would wait where the second does. Two files make a clone or
a merge that is half done, and leave room for a download that is cut off beside a
whole one. `SpecEnvs` are a module that overrides `GlobalENV`, one that overrides what
the run sets before and after, and one with a managed name, chosen anew by every run.
Nothing is bounded but these sets: runs start again for ever, and any
number of calls, links and processes fail. `CleanTmp` is set, as `NoLeftovers`
says nothing without it.

In `webserver` the second client is all the others, at every step of the first;
flows are reused once nothing holds them, so that logins can go on for ever.
`MaxFaults` is one restart, expired token or failing call at any moment of them.

Fairness (`runner_live`): goroutines are scheduled and API and Redis calls have
timeouts, so the steps between stages are taken; a stage may hang until `ctx` is
cancelled and ends then, because every command is started with `ctx`; the timer
fires and the grace period passes; the work queue returns to every module after
its poll interval; after TERM the process is gone at the latest when Kubernetes
kills it. Nothing is assumed about a stage of its own accord, or about crashes,
pushes, requests and edits.

Fairness (`requests`): the worker goes on (`Reconcile`), the queue returns to the
module (`Poll`), the watch delivers (`Deliver`), a PR run ends (`UnmarkPRRun`).
Handlers, users and faults need not do anything. That the worker gives up after
the last retry counts as a failure. The code tries five times, 10 ms apart
(`retry.DefaultRetry`), and a cache that lags for longer than that behind the
status patch at the end of a run makes every try a conflict: the request then
stays and is run once more. The model has this, once per unit of `MaxFailures`;
`RequestIsServed` needs that it does not happen for ever, and
`SecondRunMeansStaleRead` speaks of behaviours in which it has not happened.

Fairness (`reconciler`): the worker goes on, since runs end and calls have timeouts,
which `runner_live` shows of the runs; timers fire, the watch delivers and time passes.
It is enough that one of these steps is taken as long as any can be (`Progress`), since
none of them can go on for ever without the others. PR runs end. `CommitIsRun`,
`ScheduleIsMet` and `StaleRunningIsRepaired` exempt a schedule that may be rejected:
after an error the module is not looked at again before it is edited, as the code says
it intends, and with it commits and a wrong status wait too. They also exempt a module
that is forgotten (`Forgotten`), which the code makes possible: whatever comes to it
then waits for an edit, a request or a restart. That this exemption is no way out of
anything else is `RestIsNotDue`: only a module that has a scheduled time to make up for
is ever forgotten.

Fairness (`planner_live`, `dropped_request`): the ticker of the poller goes on and
its calls have timeouts (`Process`), the runs asked for begin and end, because a
run has a timeout, the watcher and the close event's goroutine go on, and time
passes (`SomeAge`). Users, pushes, merges, default runs and failures need not
happen.

Fairness (`workspace`): a run takes its next step (`Own`), because copying ends and
every call of `process` returns, at the latest when its context is cancelled,
which `runner_live` shows. Getting the lock for writing (`AskLock`) needs strong
fairness, as others may take it again and again: `sync.Mutex` hands itself to a
goroutine that has waited for a millisecond. That every reader gets in needs no
more than that, since a writer that leaves lets them in.

Fairness (`webserver`): the server answers and responses arrive (`Progress`), and a
user faced with the issuer's page logs in or leaves. `LoginEnds` exempts a tab
whose cookie others take away for ever: two tabs that log in at the same time can
do that to each other if their users go on.

`runner_live` has no PR calls: with one the requests and edits would be too much for
one run. A PR call goes through the same steps, and its safety is in
`runner_faults`; that it ends is not checked.

`RunsAreReported` is checked where no patch fails, which is the case in which
`ModuleRuns` promises most (`Lossy` is false); the theorem is for both.

That a stored run has ended is part of `RunsAreReported`, and true without API
faults only: when the patch that reports the start fails, the run ends without a
result and its record says `Running`.

The four violations are disagreements between the code and what it, or its
documentation, says of itself; `PROJECT.json` quotes the lines.

- `twin_runs`: `Load` and `Store` of the RunStatus map are two steps
  (`runner/runner.go:145-151`), so both calls may pass the check.
- `stale_mode`: the mode is computed when the run is created; `Start` reads the
  module again and only rechecks a Forced Apply.
- `lost_result`: `updateRedis` runs with the context the timeout cancelled
  (`runner/runner.go:157`); for a PR run the output is then never posted.
- `dropped_request`: any acknowledgement ends the search for plan comments, since
  `time.Until` of a past time is below ten minutes (`prplanner/requests.go:107`).
  If its run was turned away because the module was busy and commits are not
  planned (a draft), the comment is never answered.

Four more follow from the models, and no run shows them by itself:

- A module may be forgotten. The next scheduled time is computed at one reading of
  the clock and subtracted from at another (`controllers/module_controller.go:173`
  and `:195`). When it comes in between, `RequeueAfter` is not above zero and the
  module is neither run nor queued again, though the comment says "No action
  required so requeue module". The two readings are a moment apart and the window is
  as short; the model has no durations, and says what happens when the window is
  met. It is the second disjunct of `Requeue`, and the exemption `Forgotten` is
  needed for it. (A timer that fires late is only late, and starts a pass of its
  own.)
- With a name of terraform-exec in `spec.env`, `SetEnv` sets nothing at all and the
  error is dropped (`runner/tfexec.go:141`): terraform runs on the controller's
  environment, without the module's variables, its Vault credentials, its `HOME` or
  its plugin cache directory. The documentation says of such names that they should
  not be used (`README.md:103` of the repository), not that all others are then lost
  as well. It is the second disjunct of `Checkout`, and why `TerraformIsReady` has a
  condition on names.
- A run that found a diff in mode Apply is stored as the last apply also when it was
  interrupted before the apply (`runner/runner.go:522`).
- A handler whose update was stored but not confirmed finds its own request on the
  retry and refuses the user, because the stored time has lost its fraction of a
  second (`sysutil/k8s_req_api.go:25`).

## 4. Proofs

Every invariant, action property and refinement that a passing run checks is also a
theorem, for all values of the constants that satisfy the assumption of its module.
Only liveness is left to TLC.

`RunnerProofs` proves, for all sets of modules and planner calls, all faults and
all bounds, under `RunnerAssumption` (module and planner names are disjoint,
planner calls belong to modules, default runs are not PR runs):

| Theorem | Statement |
|--|--|
| `TypeCorrect` | `Spec => []TypeOK` |
| `RunnerInvariant` | `Spec => []RunnerInv` |
| `MarksDoNotLeak`, `AppliesAreIntended`, `AppliedStatusesAreTrue` | the invariants of the runs |
| `ShutdownIsObeyed`, `MarksAreOwned`, `PRRunsAreInvisible`, `NewerRequestsSurvive`, `ApplyKeyFollows` | the action properties of the runs |
| `StoredRunsEnded` | `"api" \notin Faults` implies `Spec => []StoredRunsHaveEnded` |

The inductive invariant is needed because the properties speak of one place and
depend on what happened before it. `AppliedStatusIsTrue` compares two commits
that are written by different steps: it holds because `process` reads the commit
before it clones the ref and the head only moves forward, which `CommitsInOrder`
says for every place in between, and because the copy of the status that a call
carries (`TrueStatuses`) never claims more than was applied. `ApplyIsIntended`
needs that a call keeps its type and mode, that only a call in mode Apply gets
past the plan, and that a Forced Apply was validated against the module the call
carries. PR calls are kept away from the module because their type makes them
skip the patch (`PRRunsSkipPatch`) and their mode keeps them from the apply.

`StoredRunsEnded` assumes what `runner_live` does, that no patch fails. Without it the
statement is false, for the reason given above. With it, every way from the mark to
`updateRedis` leads through `patch`, and each of the places that lead there has
given the run its result (`ResultIsKnown`); that is inductive together with the
property, since a key is only ever given the run at `redis`.

The proof has one lemma for the shape of each group of steps (`StageShape`,
`RecordShape`, `EndShape`), one for what a step leaves alone (`OtherCalls`,
`OtherModules`, `RequestFrame`, `KeyFrame`) and one per part of the invariant.

`ModuleRunsProofs` proves, under the same assumption:

| Theorem | Statement |
|--|--|
| `ReportsInvariant` | `Spec => []ReportsInv` |
| `RunsReported` | `Spec => RunsAreReported` |

A patch replaces the whole status by the copy of a run, which is a change of the
status that is there only if the copy is not out of date. `CopyIsFresh` says so from
`Start` to the result: nobody else changes the status of a module with a default call,
as the reconciler's own patches need its worker and PR runs skip theirs, so that
each step of another call leaves the module alone (`OthersSeen`). `ReportIsDue` says
that the copy then differs from the status by a report of the result and by nothing
else. `RunIsBrief` ties the run to the commit in the copy, so that the commit
recorded is the one reported as applied; that it is not after the one applied
comes from `CommitsInOrder` of `RunnerInv`. `StatusIsSettled` is why a run begins
only on a status that is not `Running`, unless a patch has failed: `Reconcile` repairs
it before it triggers. PR runs, the environment and the steps in between change nothing
that `ModuleRuns` knows of (`PRRunUnseen`, `EnvironmentSeen`).

`RunRequestsProofs` proves, for any number of handlers, any set of specs and all
bounds, under `RequestsAssumption` (the reconciler is not a handler; types and
specs are those of the code):

| Theorem | Statement |
|--|--|
| `TypeCorrect` | `Spec => []TypeOK` |
| `RequestsInvariant` | `Spec => []RequestsInv` |
| `QueuedRequestsWereWritten` | `Spec => []QueuedRequestWasWritten` |
| `SlotImplemented` | `Spec => ImplementsSlot` |
| `RequestsRunOnce` | `Spec => SecondRunMeansStaleRead` |

The refinement rests on optimistic concurrency. A stored update replaces the
whole object by a changed copy, which is an atomic step on the annotation only
if the copy still was the object: that is `Versions`, and it needs that the
cache, once everything has been delivered, is the object (`Newest`). What the
writer checked in its copy (`HandlerInv`, `ReconcilerInv`) then holds of the
object at the moment of the write. `History` says that whatever is read or
cached was in the annotation once, so that a run is never given a request that
nobody made, and that stored times are whole seconds.

`RequestsRunOnce` says that, unless something failed, a request is run again only
if the worker read it from a cache that was behind. Requests are told apart by their
number (`IdsInv`), so one that has left the annotation does not come back: every update
on its way agrees with the annotation from the one on that first has its request
(`FeedInv`). Hence the cache has the request that the worker has in hand for as long
as it is in the annotation (`HeldInv`), the removal at the end of the run finds
it, and a request that was given to a run and is still there is in the worker's
hand (`TakenInv`). A worker that starts another run with it has read a cache that
is behind. All this is true while `failures = 0`, which is why `OnceInv` puts it under
that condition: after the last retry the request stays.

`ReconcilerProofs` proves, for any schedules, intervals and bounds, under
`ReconcilerAssumption` (cycle and poll interval are positive, the creation is not at
time 0, which stands for no time):

| Theorem | Statement |
|--|--|
| `TypeCorrect` | `Spec => []TypeOK` |
| `ReconcilerInvariant` | `Spec => []ReconcilerInv` |
| `RestMissesNothing` | `Spec => []RestIsNotDue` |
| `ScheduledRunsAreDue` | `Spec => ScheduledRunIsDue` |

`RestIsNotDue` is not inductive: that nothing is due now says nothing of the next
minute. `RestInv` says that there is a timer, not later than the next due time,
counted from the last run, of the schedule that the cache has; or that the module is
forgotten and such a time has passed. Between the two readings of the clock
`NextRunInv` says what `nextRun` is, whatever the clock does meanwhile: a time of
the worker's schedule, after the last run, with none due before it. `Requeue` turns
it into either half of `RestInv`, by which side of the clock it is on. It holds at
the first reading because `NextTime` is the first due time after the one it counts
from (`NextTimeIsNext`, from the existence of least elements, and of a due time in
each cycle), and because the worker's copy of the schedule is that of the cache, or
the module is queued again (`ScheduleInv`). The time it counts from is that of a
copy of the status: `StartedInv` says that no copy is ahead of the last recorded
run, so that counting from a copy is never too late, and that, unless an old status
was read, a copy has that run or none, which is `ScheduledRunIsDue`.

`PRPlannerProofs` proves, for any finite number of webhook goroutines, under
`PlannerAssumption` (which says just that, and that the poller is none of them):

| Theorem | Statement |
|--|--|
| `TypeCorrect` | `Spec => []TypeOK` |
| `PlannerInvariant` | `Spec => []PlansInv` |
| `OutputsAreTheRequested` | `Spec => []OutputMatchesRequest` |
| `NoPlanIsAskedForTooOften` | `Spec => []NoPlanStorm` |

An output is posted several steps after the PR was read, by a planner that goes by
what it read then. The invariant relates what each holds: a key in Redis is an ended
run of its commit (`StoreInv`), a run was announced by a comment whose commit it is of,
or of a later one (`RunInv`), a comment that was an acknowledgement never becomes
anything but an output of an ended run that is its own or its commit's
(`CommentInv`), and what a planner has found is such a run for the comment it is
about to edit (`PlannerInv`). `NoPlanStorm` counts: in a calm PR whoever asks for the
latest commit leaves the set of those who read the PR before anyone had asked
(`Late`), and nobody enters it any more, so that the runs asked for and those who may
still ask are together never more than the planners (`StormInv`).

`WorkspaceProofs` proves, for any sets of runs, files and requirements, with the
flag or without it, under `WorkspaceAssumption` and `PluginFilesAssumption` (the
names of runs, of nobody, of no directory and of the origins of a value are different;
what modules and the flag `--controller-runtime-env` set is any set of names):

| Theorem | Statement |
|--|--|
| `TypeCorrect` | `Spec => []TypeOK` |
| `WorkspaceInvariant` | `Spec => []WorkspaceInv` |
| `EnvironmentsAreOwn`, `NothingIsLeftOver`, `TerraformStartsReady` | the invariants of the run |
| `PluginCacheImplemented` | `Spec => ClonesAreSnapshots` |

The refinement rests on the lock. `LockInv` says who holds it by the stages of the
runs; so while one run merges nobody links to a clone, and the clones of those who
wait are empty. `CacheInv` then says that the main directory differs from what it
was when unlocked only by files of the one run that merges, and that an unfinished
clone holds nothing but what the main directory holds: `Cloned` hands out the
cache as it is, and `Merged` adds to it in one step. The other invariants are about
one run at a time (`RunInv`): its directories (`DirInv`), where each name of its
environment is from before and after `spec.env` is copied in (`GlobalEnvIs`,
`ModuleEnvIs`, and with them `ReadyInv`), and what was read with which account
(`ReaderInv`). That the environment is the module's at `checkout` is true for any
`spec.env`; whether `SetEnv` takes it is then a matter of the names that are in it,
which is the condition in `TerraformIsReady`. A step of a run leaves what the others have
alone (`OthersAreKept`).

`WebServerProofs` proves, for any finite number of clients and any pages, under
`WebServerAssumption` (the names of pages, clients, flows and answers are different):

| Theorem | Statement |
|--|--|
| `TypeCorrect` | `Spec => []TypeOK` |
| `WebServerInvariant` | `Spec => []WebInv` |
| `LoginsEndWhereTheyBegan` | `Spec => []TabShowsWhatWasAsked` |
| `OwnLoginsAreAccepted` | `Spec => LoginIsLostToOthers` |

The cookie is shared and any client's response overwrites it, so nothing can be said
of it by itself. `BackInv` speaks of every session there is, in the cookie, in a request
or in a response: one that waits for its answer leads to a page, the one that was asked
for by the client that is, or will be, at the issuer with its flow. That no two clients
have the same flow is what the state parameter is for; the model uses flows again
when nothing refers to them, and `FlowLeft` shows that one is always left.
`AwaitedInv` says that a client's cookie waits for the flow it is at the issuer with,
or is the session of another client: its own steps never spoil it.

`NumberLemmas` has what these proofs need of sets of numbers, without induction:
least and greatest elements, from the cardinality of intervals.

Model-checked only: the liveness properties (`EveryRunEnds`, `RunningIsRepaired`,
`RequestIsServed`, `CommitIsRun`, `ScheduleIsMet`, `StaleRunningIsRepaired`,
`CommentIsSeen`, `LatestCommitIsPlanned`, `StoredPlanIsReported`, `ApplyIsReported`,
`EveryRunReturns`, `LoginEnds`), since TLAPS does not prove liveness under fairness.

## 5. Plan

1. Done: `Runner` and `ModuleRuns` with their proofs; `RunRequests` and
   `RequestSlot` with theirs.
2. Done: `Reconciler`, with the status patch, and its proofs. Left: `ModuleRuns` in
   place of the reduced run it has inside.
3. Done: `PRPlanner`, with its proofs.
4. Done: `PluginCache` and `Workspace`, with its proofs. Left: what terraform does
   with a plugin that was cut off, which depends on its lock file.
5. Done: `WebServer`, with its proofs.
6. Left: lemmas on the policy.

## 6. Not modelled

What pages show (`webserver/modules.go`, templates), metrics, the wall clock, flags
and generated code decide nothing that the properties speak of. The discovery of
the issuer and the parsing of its tokens, the requests to GitHub and Vault,
decryption and the command lines of terraform are I/O of one step each. The GitHub
app's token in `sysutil/creds.go` is kept until 20 minutes before it expires and
written without a lock by whoever finds it old, so that two who do race on it. That
removing a directory, or clearing stale plugins, may itself fail is left out; the
code logs it. The time-outs of `pluginCache.new` and `done` have no effect, since
copying does not look at its context. Leader election is left out: one process is
modelled at a time, and two of them would each have their own RunStatus map.
