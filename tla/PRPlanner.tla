----------------------------- MODULE PRPlanner -----------------------------
(***************************************************************************)
(* Plans for one pull request and one module: the poller and the webhook   *)
(* goroutines read the PR, acknowledge plan requests in comments and start *)
(* runs; runs store their output in Redis; the poller and the watcher of   *)
(* Redis key events put the output in place of the acknowledgement.  After *)
(* the merge the output of the default run is posted as well.              *)
(*                                                                         *)
(* The PR's comments are the planner's only memory besides Redis.          *)
(***************************************************************************)
EXTENDS Naturals, Sequences, FiniteSets

CONSTANTS Poller,      \* the goroutine of StartPRPoll
          Hooks,       \* goroutines, each for one webhook event
          Drafts,      \* whether the PR may be a draft at first: a set of Booleans
          MayMerge,    \* bound: whether the PR gets merged
          MaxChanges,  \* bound: pushes, plan comments of users, default runs
          MaxFailures  \* bound: failed calls, lost events, crashes, slow runs

ASSUME PlannerAssumption ==
  /\ IsFiniteSet(Hooks) /\ Poller \notin Hooks
  /\ Drafts \subseteq BOOLEAN /\ Drafts # {}
  /\ MayMerge \in BOOLEAN /\ MaxChanges \in Nat /\ MaxFailures \in Nat

Planners == {Poller} \cup Hooks

\* Commits of the branch are numbered; 0 is the empty hash of a run that failed
\* before it knew its commit.
Commit == 0..MaxChanges + 1

\* The key default:lastRun; the other keys are PR keys, named by their commit.
LastRun == MaxChanges + 2

VARIABLES
  head,     \* the latest commit of the branch, as mirrored, that touches the module
  draft, merged,
  comments, \* what is written on the PR, in order
  stale,    \* acknowledgements older than ten minutes
  runs,     \* the plan runs requested so far
  main,     \* the default run in progress: "none", of the "merge" or of an "other" commit
  store,    \* PR keys in Redis: commit -> run, 0 when there is none
  lastRun,  \* the commit of default:lastRun, "merge" or "other"
  pending,  \* the pending:apply_upload key of the merge commit
  events,   \* keys whose set events are on their way to the watcher
  closing,  \* the close event of the merged PR
  pc, snap, todo, found, \* a planner: place, PR it fetched, acknowledgements to update, run to show
  changes, failures \* counters for the bounds

pr      == <<head, draft, merged>>
board   == <<comments, stale>>
runner  == <<runs, main>>
redis   == <<store, lastRun, pending, events>>
planner == <<pc, snap, todo, found>>
spent   == <<changes, failures>>
vars    == <<pr, board, runner, redis, closing, planner, spent>>

\* asked is the commit an acknowledgement names; run the one whose output is
\* shown, 0 for a default run.
Comment == [kind : {"request", "notice", "ack", "output"}, asked : Commit, run : Nat]
Request == [kind |-> "request", asked |-> 0, run |-> 0]
Notice  == [Request EXCEPT !.kind = "notice"]
Ack(c)  == [Request EXCEPT !.kind = "ack", !.asked = c]
Show(comment, r) == [comment EXCEPT !.kind = "output", !.run = r]
ApplyOutput == Show(Request, 0)

Phase == {"asked", "running", "ended"}
Run == [comment : Nat, user : BOOLEAN, commit : Commit, phase : Phase]

NoSnap == [comments |-> <<>>, draft |-> FALSE]

Init ==
  /\ head = 1 /\ draft \in Drafts /\ merged = FALSE
  /\ comments = <<>> /\ stale = {}
  /\ runs = <<>> /\ main = "none"
  /\ store = [c \in Commit |-> 0] /\ lastRun = "other" /\ pending = FALSE /\ events = <<>>
  /\ closing = FALSE
  /\ pc \in [Planners -> {"none", "fetch"}] /\ pc[Poller] = "fetch"
  /\ Cardinality({h \in Hooks : pc[h] = "fetch"}) <= IF draft THEN 0 ELSE 1
  /\ snap = [p \in Planners |-> NoSnap]
  /\ todo = [p \in Planners |-> {}] /\ found = [p \in Planners |-> 0]
  /\ changes = 0 /\ failures = 0

Failure == failures < MaxFailures /\ failures' = failures + 1 /\ UNCHANGED changes
NoFailure == UNCHANGED spent
Change == changes < MaxChanges /\ changes' = changes + 1 /\ UNCHANGED failures

Goto(p, label) == pc' = [pc EXCEPT ![p] = label]

\* postComment, without a comment ID and with one.
Post(c) == comments' = Append(comments, c)
Patch(i, r) == comments' = [comments EXCEPT ![i] = Show(@, r)]

-----------------------------------------------------------------------------
(* Users, GitHub, time.                                                    *)

\* A webhook event starts a goroutine, unless it is lost.
Hook == \E h \in Hooks : pc[h] = "none" /\ Goto(h, "fetch")
Web(wanted) ==
  /\ (wanted /\ Hook) \/ UNCHANGED pc
  /\ UNCHANGED <<closing, snap, todo, found>>

\* That of a push to a draft is ignored.
Push ==
  /\ ~ merged /\ Change
  /\ head' = head + 1
  /\ Web(~ draft)
  /\ UNCHANGED <<draft, merged, board, runner, redis>>

\* "@terraform-applier plan": the planner's own comments raise no event.
AskForPlan ==
  /\ Change
  /\ Post(Request)
  /\ Web(TRUE)
  /\ UNCHANGED <<pr, stale, runner, redis>>

ReadyForReview ==
  /\ draft /\ draft' = FALSE
  /\ UNCHANGED <<head, merged, board, runner, redis, closing, planner, spent>>

Merge ==
  /\ MayMerge /\ ~ merged /\ ~ draft
  /\ merged' = TRUE /\ closing' = TRUE
  /\ UNCHANGED <<head, draft, board, runner, redis, planner, spent>>

Busy == main # "none" \/ \E r \in DOMAIN runs : runs[r].phase = "running"

\* Ten minutes pass.  That a run takes longer counts as a failure.  Once the
\* commit is stored its acknowledgement's age makes no difference.
Age(i) ==
  /\ comments[i].kind = "ack" /\ i \notin stale /\ store[comments[i].asked] = 0
  /\ stale' = stale \cup {i}
  /\ IF Busy \/ \E r \in DOMAIN runs : runs[r].comment = i /\ runs[r].phase = "asked"
       THEN Failure ELSE NoFailure
  /\ UNCHANGED <<pr, comments, runner, redis, closing, planner>>

-----------------------------------------------------------------------------
(* processPullRequest.                                                     *)

\* openPRs, or PR after a webhook event.
Fetch(p) ==
  /\ pc[p] = "fetch" /\ (p = Poller => ~ merged)
  /\ snap' = [snap EXCEPT ![p] = [comments |-> comments, draft |-> draft]]
  /\ Goto(p, "decide")
  /\ UNCHANGED <<pr, board, runner, redis, closing, todo, found, spent>>

\* isPlanOutputPostedForCommit.
OutputPosted(s, c) ==
  \E i \in DOMAIN s : s[i].run # 0 /\ runs[s[i].run].commit = c

\* Slips: an acknowledgement is valid for ever, or only as the last comment.
AckEverPosted(s, c) == \E i \in DOMAIN s : s[i] = Ack(c)
AckPostedLast(s, c) == s # <<>> /\ s[Len(s)] = Ack(c) /\ Len(s) \notin stale
\* isPlanRequestAckPostedForCommit: in the last ten minutes.
AckPosted(s, c) == \E i \in DOMAIN s \ stale : s[i] = Ack(c)

\* checkPRCommits asks for the latest commit of the module.
WantsCommit(p) ==
  LET s == snap[p].comments
  IN  /\ ~ snap[p].draft
      /\ ~ OutputPosted(s, head) /\ ~ AckPosted(s, head)
      /\ store[head] = 0

\* A slip: an acknowledgement or output anywhere ends the search.
WantsFirstComment(p) ==
  LET s == snap[p].comments
  IN  /\ \E i \in DOMAIN s : s[i].kind = "request"
      /\ \A j \in DOMAIN s : s[j].kind \notin {"ack", "output"}
\* checkPRCommentsForPlanRequests: the latest comment about the module is a
\* plan comment.  An acknowledgement of any age ends the search.
WantsComment(p) ==
  LET s == snap[p].comments
  IN  \E i \in DOMAIN s :
        /\ s[i].kind = "request"
        /\ \A j \in DOMAIN s : j > i => s[j].kind \notin {"ack", "output"}

\* A draft gets the notice that its commits are not planned, if there is none.
Notices(p) ==
  IF snap[p].draft /\ \A i \in DOMAIN snap[p].comments : snap[p].comments[i] # Notice
    THEN <<Notice>> ELSE <<>>

\* uploadRequestOutput goes on with the remaining acknowledgements.
Upload(p, acks) ==
  /\ todo' = [todo EXCEPT ![p] = acks]
  /\ found' = [found EXCEPT ![p] = 0]
  /\ Goto(p, IF acks # {} THEN "read" ELSE IF p = Poller THEN "fetch" ELSE "done")

\* A slip: only the acknowledgements of the latest commit are updated.
AcksOfHead(p) == {i \in DOMAIN snap[p].comments : snap[p].comments[i] = Ack(head)}
Acks(p) == {i \in DOMAIN snap[p].comments : snap[p].comments[i].kind = "ack"}

\* A slip: the run is given the comment before the one just posted.
PlanOffByOne(cs, user) ==
  /\ comments' = Append(cs, Ack(head))
  /\ runs' = Append(runs, [comment |-> Len(cs), user |-> user, commit |-> 0, phase |-> "asked"])
\* addNewRequest and the new goroutine for Start: an acknowledgement after cs.
Plan(cs, user) ==
  /\ comments' = Append(cs, Ack(head))
  /\ runs' = Append(runs, [comment |-> Len(cs) + 1, user |-> user,
                           commit |-> 0, phase |-> "asked"])

\* The rest of processPullRequest before the uploads, in one step: all that is
\* read here only grows.  Wanted plans are asked for whether the notice was posted
\* or not.  A failed call may be one to Redis or GitHub; of the latter the comment
\* may be there without a reply.  When BranchCommits fails, as it does once a
\* merged branch is gone, nothing is done.
Decide(p) ==
  /\ pc[p] = "decide"
  /\ snap' = [snap EXCEPT ![p] = NoSnap]
  /\ LET wanted == WantsCommit(p) \/ WantsComment(p)
         noticed == comments \o Notices(p)
     IN  \/ /\ IF wanted THEN Plan(noticed, ~ WantsCommit(p))
                         ELSE comments' = noticed /\ UNCHANGED runs
            /\ Upload(p, Acks(p)) /\ NoFailure
         \/ /\ \/ wanted /\ Plan(comments, ~ WantsCommit(p))
               \/ wanted /\ comments' = Append(noticed, Ack(head)) /\ UNCHANGED runs
               \/ comments' \in {comments, noticed} /\ UNCHANGED runs
            /\ Upload(p, Acks(p)) /\ Failure
         \/ /\ UNCHANGED <<comments, runs>>
            /\ Upload(p, {}) /\ IF merged THEN NoFailure ELSE Failure
  /\ UNCHANGED <<pr, stale, main, redis, closing>>

\* From the last acknowledgement to the first: PRRun of its commit.
Latest(p) == CHOOSE i \in todo[p] : \A j \in todo[p] : j <= i
\* A slip: the output is looked up by the branch's latest commit.
KeyOfHead(i) == head
KeyOf(i) == comments[i].asked
UploadRead(p) ==
  /\ pc[p] = "read"
  /\ LET i == Latest(p)
         r == store[KeyOf(i)]
     IN  \/ /\ r # 0 /\ NoFailure
            /\ found' = [found EXCEPT ![p] = r]
            /\ Goto(p, "upload") /\ UNCHANGED todo
         \/ /\ IF r = 0 THEN NoFailure ELSE Failure
            /\ Upload(p, todo[p] \ {i})
  /\ UNCHANGED <<pr, board, runner, redis, closing, snap>>

UploadPost(p) ==
  /\ pc[p] = "upload"
  /\ \/ Patch(Latest(p), found[p]) /\ NoFailure
     \/ Failure /\ UNCHANGED comments
  /\ Upload(p, todo[p] \ {Latest(p)})
  /\ UNCHANGED <<pr, stale, runner, redis, closing, snap>>

-----------------------------------------------------------------------------
(* Runner.Start, as the planner sees it.                                   *)

SetRun(r, phase, c) == runs' = [runs EXCEPT ![r].phase = phase, ![r].commit = c]

\* Turned away when the module is busy; else the run is on the head of the branch.
BeginRun(r) ==
  /\ runs[r].phase = "asked"
  /\ \/ Busy /\ SetRun(r, "ended", 0) /\ NoFailure
     \/ ~ Busy /\ SetRun(r, "running", head) /\ NoFailure
     \/ ~ Busy /\ Failure /\ SetRun(r, "running", 0)
     \/ Failure /\ SetRun(r, "ended", 0)
  /\ UNCHANGED <<pr, board, main, redis, closing, planner>>

\* Set announces the key to the watcher, if it listens.
Announce(key) ==
  \/ events' = Append(events, key) /\ NoFailure
  \/ Failure /\ UNCHANGED events

\* updateRedis.
EndRun(r) ==
  /\ runs[r].phase = "running"
  /\ SetRun(r, "ended", runs[r].commit)
  /\ \/ store' = [store EXCEPT ![runs[r].commit] = r] /\ Announce(runs[r].commit)
     \/ Failure /\ UNCHANGED <<store, events>>
  /\ UNCHANGED <<pr, board, main, lastRun, pending, closing, planner>>

BeginDefault ==
  /\ ~ Busy /\ Change
  /\ main' \in {"other"} \cup (IF merged THEN {"merge"} ELSE {})
  /\ UNCHANGED <<pr, board, runs, redis, closing, planner>>

EndDefault ==
  /\ main # "none" /\ main' = "none"
  /\ \/ lastRun' = main /\ Announce(LastRun)
     \/ Failure /\ UNCHANGED <<lastRun, events>>
  /\ UNCHANGED <<pr, board, runs, store, pending, closing, planner>>

-----------------------------------------------------------------------------
(* The merge and the watcher.                                              *)

\* ProcessPRCloseEvent, only for a PR that had plan runs.  That the event is lost
\* is a failure.
Close ==
  /\ closing /\ closing' = FALSE
  /\ \/ pending' = (pending \/ \E c \in Commit : store[c] # 0) /\ NoFailure
     \/ Failure /\ UNCHANGED pending
  /\ UNCHANGED <<pr, board, runner, store, lastRun, events, planner>>

\* The key expires after an hour; that no run ends in an hour counts as a failure.
Expire ==
  /\ pending /\ pending' = FALSE /\ Failure
  /\ UNCHANGED <<pr, board, runner, store, lastRun, events, closing, planner>>

Cleaned == store' = [c \in Commit |-> 0] /\ pending' = FALSE
\* A slip: CleanupPRKeys after every output.
CleanupAlways(key) ==
  \/ Cleaned /\ NoFailure
  \/ Failure /\ UNCHANGED <<store, pending>>
Cleanup(key) ==
  \/ key = LastRun /\ Cleaned /\ NoFailure
  \/ key = LastRun /\ Failure /\ UNCHANGED <<store, pending>>
  \/ key # LastRun /\ NoFailure /\ UNCHANGED <<store, pending>>

\* processRedisKeySetMsg: the output of the run that the key holds by now goes to
\* its comment.  That of the merge commit's default run goes to a new one, and
\* CleanupPRKeys follows.
Watch ==
  /\ events # <<>> /\ events' = Tail(events)
  /\ LET key == Head(events)
         wanted == IF key = LastRun THEN lastRun = "merge" /\ pending ELSE store[key] # 0
     IN  \/ /\ wanted
            /\ IF key = LastRun THEN Post(ApplyOutput)
                               ELSE Patch(runs[store[key]].comment, store[key])
            /\ Cleanup(key)
         \/ /\ IF wanted THEN Failure ELSE NoFailure
            /\ UNCHANGED <<comments, store, pending>>
  /\ UNCHANGED <<pr, stale, runner, lastRun, closing, planner>>

\* The process ends and is started again: what is in memory is lost.
Crash ==
  /\ Failure
  /\ runs' = [r \in DOMAIN runs |-> [runs[r] EXCEPT !.phase = "ended"]]
  /\ main' = "none" /\ events' = <<>> /\ closing' = FALSE
  /\ pc' = [p \in Planners |-> IF p = Poller THEN "fetch"
                               ELSE IF pc[p] = "none" THEN "none" ELSE "done"]
  /\ snap' = [p \in Planners |-> NoSnap]
  /\ todo' = [p \in Planners |-> {}] /\ found' = [p \in Planners |-> 0]
  /\ UNCHANGED <<pr, board, store, lastRun, pending>>

-----------------------------------------------------------------------------
Process(p) == Fetch(p) \/ Decide(p) \/ UploadRead(p) \/ UploadPost(p)
Work(r) == BeginRun(r) \/ EndRun(r)

Next ==
  \/ Push \/ AskForPlan \/ ReadyForReview \/ Merge
  \/ \E i \in DOMAIN comments : Age(i)
  \/ \E p \in Planners : Process(p)
  \/ \E r \in DOMAIN runs : Work(r)
  \/ BeginDefault \/ EndDefault
  \/ Close \/ Expire \/ Watch
  \/ Crash

Spec == Init /\ [][Next]_vars

SomeAge == \E i \in DOMAIN comments : Age(i)
SomeWork == \E r \in DOMAIN runs : Work(r)

\* The poller comes back, goroutines are scheduled, calls have timeouts, runs
\* end, time passes.
Fairness ==
  /\ \A p \in Planners : WF_vars(Process(p))
  /\ WF_vars(SomeWork) /\ WF_vars(EndDefault) /\ WF_vars(SomeAge)
  /\ WF_vars(Watch) /\ WF_vars(Close)

FairSpec == Spec /\ Fairness

-----------------------------------------------------------------------------
(* Properties.                                                             *)

Key == Commit \cup {LastRun}
RunId == 0..Len(runs)

\* Every variable has a value of its type; what refers to a run or a comment
\* refers to one there is.
TypeOK ==
  /\ head \in 1..MaxChanges + 1 /\ draft \in BOOLEAN /\ merged \in BOOLEAN
  /\ comments \in Seq(Comment) /\ stale \subseteq DOMAIN comments
  /\ runs \in Seq(Run) /\ \A r \in DOMAIN runs : runs[r].comment \in DOMAIN comments
  /\ main \in {"none", "merge", "other"}
  /\ store \in [Commit -> RunId] /\ lastRun \in {"merge", "other"} /\ pending \in BOOLEAN
  /\ events \in Seq(Key)
  /\ closing \in BOOLEAN
  /\ pc \in [Planners -> {"none", "fetch", "decide", "read", "upload", "done"}]
  /\ snap \in [Planners -> [comments : Seq(Comment), draft : BOOLEAN]]
  /\ \A p \in Planners : Len(snap[p].comments) <= Len(comments)
  /\ todo \in [Planners -> SUBSET DOMAIN comments] /\ found \in [Planners -> RunId]
  /\ changes \in 0..MaxChanges
  /\ failures \in 0..MaxFailures

\* What is shown in place of an acknowledgement is the output of a run that has
\* ended, and either that of the run it announced or one of the commit it names
\* (the watcher and uploadRequestOutput find it in these two ways).
OutputMatchesRequest ==
  \A i \in DOMAIN comments : LET r == comments[i].run IN
    r # 0 => /\ runs[r].phase = "ended"
             /\ runs[r].comment = i \/ runs[r].commit = comments[i].asked

\* Unless a call fails, something is lost or a plan takes more than ten minutes,
\* the poller and each webhook goroutine ask at most once for a plan of a commit,
\* however they interleave (acknowledgements and outputs are found again).
Asked(c) == {r \in DOMAIN runs : ~ runs[r].user /\ comments[runs[r].comment].asked = c}
NoPlanStorm ==
  failures = 0 /\ stale = {} =>
    \A c \in Commit : Cardinality(Asked(c)) <= Cardinality(Planners)

SeenAfter(i, kinds) == \E j \in DOMAIN comments : j > i /\ comments[j].kind \in kinds
Follows(kinds) ==
  merged \/ \A i \in DOMAIN comments : comments[i].kind = "request" => SeenAfter(i, kinds)

\* Plan comments on an open PR are acknowledged, or overtaken by the
\* acknowledgement or output of a plan asked for meanwhile (again and again
\* there is none that waits).
CommentIsSeen == []<>Follows({"ack", "output"})

\* The latest commit of an open PR that is no draft gets planned, through lost
\* webhooks, a busy module, failed calls and crashes.
LatestCommitIsPlanned ==
  \A c \in 1..MaxChanges + 1 :
    (head = c /\ ~ draft /\ ~ merged) ~> (head # c \/ merged \/ store[c] # 0)

\* An acknowledgement whose commit has a stored plan is replaced by an output,
\* also when the key event is lost.
StoredPlanIsReported ==
  []<>(merged \/ \A i \in DOMAIN comments :
                   comments[i].kind = "ack" => store[comments[i].asked] = 0)

\* A default run of the merge commit that begins after the close event was
\* processed is reported on the PR; there is no second way for it, so nothing
\* may fail.
Applied == \E i \in DOMAIN comments : comments[i] = ApplyOutput
ApplyIsReported == (main = "merge" /\ pending) ~> (Applied \/ failures > 0)

\* "no outstanding requests": after a plan comment there is, one day, an output.
CommentIsAnswered == []<>Follows({"output"})
=============================================================================
