--------------------------- MODULE PRPlannerProofs ---------------------------
(***************************************************************************)
(* What holds of PRPlanner for every number of webhook goroutines, pushes  *)
(* and failures: an output is never shown for another commit's plan, and   *)
(* the goroutines do not ask for the same plan over and over.              *)
(***************************************************************************)
EXTENDS PRPlanner, NumberLemmas, SequenceTheorems, TLAPS

-----------------------------------------------------------------------------
(* The inductive invariant.                                                *)

\* No call has failed and no plan has taken ten minutes.
Calm == failures = 0 /\ stale = {}

\* A comment names a commit there is.  Once it has been an acknowledgement it is
\* one, or shows an ended run that is its own or its commit's.
CommentInv(i) ==
  LET m == comments[i] IN
  /\ m.asked <= head
  /\ m.asked # 0 => m = Ack(m.asked) \/ m.run # 0
  /\ m.run # 0 => /\ m.run \in DOMAIN runs
                  /\ runs[m.run].phase = "ended"
                  /\ runs[m.run].comment = i \/ runs[m.run].commit = m.asked
                  /\ Calm => runs[m.run].commit # 0

\* A run was announced by a comment, and is of its commit or of a later one.
RunInv(r) ==
  LET n == runs[r]
      asked == comments[n.comment].asked
  IN  /\ n.commit <= head
      /\ asked # 0
      /\ n.commit = 0 \/ asked <= n.commit
      /\ Calm /\ n.phase = "running" => n.commit # 0

\* A key holds an ended run of its commit.
StoreInv(c) ==
  store[c] # 0 => /\ runs[store[c]].phase = "ended"
                  /\ runs[store[c]].commit = c
                  /\ Calm => c # 0

\* What a planner has read of a run is final; what it is about to show is the run
\* of the commit the comment names.
PlannerInv(p) ==
  /\ \A i \in DOMAIN snap[p].comments :
       LET r == snap[p].comments[i].run
       IN  r # 0 => r \in DOMAIN runs /\ runs[r].phase = "ended"
  /\ pc[p] \in {"read", "upload"} => todo[p] # {}
  /\ pc[p] = "upload" => /\ found[p] # 0
                         /\ runs[found[p]].phase = "ended"
                         /\ runs[found[p]].commit = comments[Latest(p)].asked
                         /\ Calm => runs[found[p]].commit # 0

\* Planners that read the PR before the latest commit was asked for.
Late ==
  {p \in Planners : /\ pc[p] = "decide"
                    /\ ~ OutputPosted(snap[p].comments, head)
                    /\ ~ AckPosted(snap[p].comments, head)}

\* Whoever has asked for the latest commit is not among those who still may.
StormInv ==
  Calm => /\ \A c \in Commit : Cardinality(Asked(c)) <= Cardinality(Planners)
          /\ Asked(head) # {} =>
               Cardinality(Asked(head)) + Cardinality(Late) <= Cardinality(Planners)

PlansInv ==
  /\ TypeOK
  /\ head <= changes + 1
  /\ \A i \in DOMAIN comments : CommentInv(i)
  /\ \A r \in DOMAIN runs : RunInv(r)
  /\ \A c \in Commit : StoreInv(c)
  /\ \A p \in Planners : PlannerInv(p)

-----------------------------------------------------------------------------
(* Comments and runs.                                                      *)

LEMMA Appended ==
  ASSUME NEW S, NEW s \in Seq(S), NEW e \in S
  PROVE  /\ Append(s, e) \in Seq(S)
         /\ Len(s) \in Nat /\ Len(Append(s, e)) = Len(s) + 1
         /\ DOMAIN s = 1 .. Len(s) /\ DOMAIN Append(s, e) = 1 .. Len(s) + 1
         /\ \A i \in 1 .. Len(s) : Append(s, e)[i] = s[i]
         /\ Append(s, e)[Len(s) + 1] = e
BY AppendProperties, LenProperties

LEMMA TypeParts ==
  ASSUME TypeOK
  PROVE  /\ head \in 1 .. MaxChanges + 1 /\ head \in Nat /\ head \in Commit /\ head # 0
         /\ MaxChanges \in Nat /\ MaxFailures \in Nat
         /\ changes \in Nat /\ failures \in Nat
         /\ comments \in Seq(Comment) /\ Len(comments) \in Nat
         /\ DOMAIN comments = 1 .. Len(comments)
         /\ runs \in Seq(Run) /\ Len(runs) \in Nat /\ DOMAIN runs = 1 .. Len(runs)
BY PlannerAssumption, LenProperties DEF TypeOK, Commit

LEMMA ElementTypes ==
  ASSUME TypeOK
  PROVE  /\ \A i \in DOMAIN comments : /\ comments[i] \in Comment
                                       /\ comments[i].asked \in Commit /\ comments[i].asked \in Nat
                                       /\ comments[i].run \in Nat
         /\ \A r \in DOMAIN runs : /\ runs[r] \in Run
                                   /\ runs[r].commit \in Commit /\ runs[r].commit \in Nat
                                   /\ runs[r].phase \in Phase /\ runs[r].user \in BOOLEAN
                                   /\ runs[r].comment \in DOMAIN comments
<1>1. Commit \in SUBSET Nat
  BY PlannerAssumption DEF Commit
<1>2. \A i \in DOMAIN comments : comments[i] \in Comment
  BY TypeParts, ElementOfSeq
<1>3. \A r \in DOMAIN runs : runs[r] \in Run
  BY TypeParts, ElementOfSeq
<1> QED BY <1>1, <1>2, <1>3 DEF Comment, Run, TypeOK

\* The comments there may be.
LEMMA CommentTypes ==
  ASSUME TypeOK
  PROVE  /\ Request \in Comment /\ Notice \in Comment /\ ApplyOutput \in Comment
         /\ Ack(head) \in Comment
         /\ \A m \in {Request, Notice, ApplyOutput} : m.asked = 0 /\ m.run = 0
         /\ Ack(head).asked = head /\ Ack(head).run = 0
<1>1. head \in Commit /\ 0 \in Commit
  BY TypeParts DEF Commit
<1>2. Request \in Comment /\ Request.asked = 0 /\ Request.run = 0
  BY <1>1 DEF Comment, Request
<1>3. Notice \in Comment /\ Notice.asked = 0 /\ Notice.run = 0
  BY <1>1 DEF Comment, Request, Notice
<1>4. ApplyOutput \in Comment /\ ApplyOutput.asked = 0 /\ ApplyOutput.run = 0
  BY <1>1 DEF Comment, Request, ApplyOutput, Show
<1>5. Ack(head) \in Comment /\ Ack(head).asked = head /\ Ack(head).run = 0
  BY <1>1 DEF Comment, Request, Ack
<1> QED BY <1>2, <1>3, <1>4, <1>5

\* The last of some acknowledgements.
LEMMA LatestIsLatest ==
  ASSUME TypeOK, NEW p \in Planners, todo[p] \subseteq DOMAIN comments, todo[p] # {}
  PROVE  Latest(p) \in todo[p]
<1>1. todo[p] \in SUBSET Nat /\ \A i \in todo[p] : i <= Len(comments)
  BY TypeParts
<1>2. \E i \in todo[p] : \A j \in todo[p] : j <= i
  BY <1>1, TypeParts, GreatestElement
<1> QED BY <1>2 DEF Latest

\* Comments have been added, those there were are as they were.
Added(new) ==
  /\ new \in Seq(Comment)
  /\ Len(comments) <= Len(new)
  /\ \A i \in DOMAIN comments : new[i] = comments[i]
  /\ \A i \in DOMAIN new \ DOMAIN comments :
       new[i] \in {Request, Notice, ApplyOutput, Ack(head)}

LEMMA AddOne ==
  ASSUME TypeOK, NEW cs, Added(cs), NEW m \in {Request, Notice, ApplyOutput, Ack(head)}
  PROVE  /\ Added(Append(cs, m))
         /\ Len(Append(cs, m)) = Len(cs) + 1
         /\ Append(cs, m)[Len(cs) + 1] = m
         /\ Len(cs) \in Nat
<1>1. cs \in Seq(Comment) /\ m \in Comment
  BY CommentTypes DEF Added
<1>2. /\ Append(cs, m) \in Seq(Comment)
      /\ Len(cs) \in Nat /\ Len(Append(cs, m)) = Len(cs) + 1
      /\ DOMAIN cs = 1 .. Len(cs) /\ DOMAIN Append(cs, m) = 1 .. Len(cs) + 1
      /\ \A i \in 1 .. Len(cs) : Append(cs, m)[i] = cs[i]
      /\ Append(cs, m)[Len(cs) + 1] = m
  BY <1>1, Appended
<1>3. Len(comments) \in Nat /\ DOMAIN comments = 1 .. Len(comments)
  BY TypeParts
<1> QED BY <1>2, <1>3 DEF Added

LEMMA AddNone ==
  ASSUME TypeOK
  PROVE  Added(comments)
BY TypeParts DEF Added

LEMMA AddNotices ==
  ASSUME TypeOK, NEW p \in Planners
  PROVE  Added(comments \o Notices(p))
<1>1. Notices(p) = <<>> \/ Notices(p) = <<Notice>>
  BY DEF Notices
<1>2. comments \in Seq(Comment) /\ Notice \in Comment
  BY TypeParts, CommentTypes
<1>3. comments \o <<>> = comments
  BY <1>2, ConcatEmptySeq
<1>4. comments \o <<Notice>> = Append(comments, Notice)
  BY <1>2, AppendIsConcat
<1> QED BY <1>1, <1>3, <1>4, AddNone, AddOne

\* An acknowledgement, or another output, makes place for the output of run r.
LEMMA Patched ==
  ASSUME TypeOK, NEW i \in DOMAIN comments, NEW r \in Nat, Patch(i, r)
  PROVE  /\ comments' \in Seq(Comment) /\ Len(comments') = Len(comments)
         /\ \A j \in DOMAIN comments \ {i} : comments'[j] = comments[j]
         /\ comments'[i].asked = comments[i].asked /\ comments'[i].run = r
<1>1. comments \in Seq(Comment) /\ i \in 1 .. Len(comments) /\ comments[i] \in Comment
  BY TypeParts, ElementOfSeq
<1>2. /\ Show(comments[i], r) \in Comment
      /\ Show(comments[i], r).asked = comments[i].asked /\ Show(comments[i], r).run = r
  BY <1>1 DEF Show, Comment
<1>3. comments' = [comments EXCEPT ![i] = Show(comments[i], r)]
  BY DEF Patch
<1> QED BY <1>1, <1>2, <1>3, ExceptSeq, TypeParts

LEMMA RunSet ==
  ASSUME TypeOK, NEW r \in DOMAIN runs, NEW phase \in Phase, NEW c \in Commit,
         SetRun(r, phase, c)
  PROVE  /\ runs' \in Seq(Run) /\ Len(runs') = Len(runs)
         /\ \A q \in DOMAIN runs \ {r} : runs'[q] = runs[q]
         /\ runs'[r].phase = phase /\ runs'[r].commit = c
         /\ runs'[r].comment = runs[r].comment /\ runs'[r].user = runs[r].user
<1> DEFINE n == [runs[r] EXCEPT !.phase = phase, !.commit = c]
<1>1. runs \in Seq(Run) /\ r \in 1 .. Len(runs) /\ runs[r] \in Run
  BY TypeParts, ElementOfSeq
<1>2. /\ n \in Run /\ n.phase = phase /\ n.commit = c
      /\ n.comment = runs[r].comment /\ n.user = runs[r].user
  BY <1>1 DEF Run
<1>3. runs' = [runs EXCEPT ![r] = n]
  BY <1>1 DEF SetRun, Run
<1> HIDE DEF n
<1> QED BY <1>1, <1>2, <1>3, ExceptSeq, TypeParts

-----------------------------------------------------------------------------
(* What no step takes back.                                                *)

\* Comments name the commits they named, ended runs stay what they are, the branch
\* goes on and a disturbance stays one.
Grows ==
  /\ runs' \in Seq(Run) /\ Len(runs) <= Len(runs')
  /\ \A r \in DOMAIN runs :
       /\ runs'[r].comment = runs[r].comment /\ runs'[r].user = runs[r].user
       /\ runs[r].phase = "ended" =>
            runs'[r].phase = "ended" /\ runs'[r].commit = runs[r].commit
  /\ comments' \in Seq(Comment) /\ Len(comments) <= Len(comments')
  /\ \A i \in DOMAIN comments : comments'[i].asked = comments[i].asked
  /\ head <= head' /\ head' \in Nat
  /\ Calm' => Calm

\* Nothing new is asked for, and whoever reads the PR reads it as it is.
Steady ==
  /\ Grows /\ UNCHANGED head /\ Len(runs') = Len(runs)
  /\ \A p \in Planners : \/ snap'[p] = snap[p] /\ pc'[p] = pc[p]
                         \/ pc'[p] # "decide"
                         \/ snap'[p].comments = comments /\ UNCHANGED <<comments, runs, stale>>

LEMMA GrowsDomains ==
  ASSUME TypeOK, Grows
  PROVE  /\ DOMAIN comments' = 1 .. Len(comments') /\ DOMAIN comments \subseteq DOMAIN comments'
         /\ DOMAIN runs' = 1 .. Len(runs') /\ DOMAIN runs \subseteq DOMAIN runs'
         /\ Len(comments') \in Nat /\ Len(runs') \in Nat
<1>1. /\ DOMAIN comments' = 1 .. Len(comments') /\ Len(comments') \in Nat
      /\ DOMAIN runs' = 1 .. Len(runs') /\ Len(runs') \in Nat
  BY LenProperties DEF Grows
<1> QED BY <1>1, TypeParts DEF Grows

LEMMA CommentKept ==
  ASSUME TypeOK, Grows, NEW i \in DOMAIN comments, CommentInv(i), comments'[i] = comments[i]
  PROVE  CommentInv(i)'
<1>1. comments[i].asked \in Nat /\ head \in Nat
  BY TypeParts, ElementTypes
<1>2. comments[i].asked <= head'
  BY <1>1 DEF CommentInv, Grows
<1> QED BY <1>2, GrowsDomains DEF CommentInv, Grows, Ack, Request

LEMMA CommentNew ==
  ASSUME TypeOK, Grows, NEW i \in DOMAIN comments',
         comments'[i] \in {Request, Notice, ApplyOutput, Ack(head)}
  PROVE  CommentInv(i)'
<1>1. comments'[i].run = 0 /\ comments'[i].asked \in {0, head}
  BY CommentTypes
<1>2. comments'[i].asked <= head'
  BY <1>1, TypeParts DEF Grows
<1>3. comments'[i].asked # 0 => comments'[i] = Ack(comments'[i].asked)
  BY CommentTypes
<1> QED BY <1>1, <1>2, <1>3 DEF CommentInv, Ack, Request

LEMMA RunKept ==
  ASSUME TypeOK, Grows, NEW r \in DOMAIN runs, RunInv(r),
         runs'[r].phase = runs[r].phase, runs'[r].commit = runs[r].commit
  PROVE  RunInv(r)'
<1>1. runs[r].comment \in DOMAIN comments /\ runs[r].commit \in Nat /\ head \in Nat
  BY TypeParts, ElementTypes
<1>2. runs[r].commit <= head'
  BY <1>1 DEF RunInv, Grows
<1> QED BY <1>1, <1>2 DEF RunInv, Grows

LEMMA StoreKept ==
  ASSUME TypeOK, Grows, NEW c \in Commit, StoreInv(c), store'[c] \in {0, store[c]}
  PROVE  StoreInv(c)'
<1>1. store[c] # 0 => store[c] \in DOMAIN runs
  BY TypeParts DEF TypeOK, RunId
<1> QED BY <1>1 DEF StoreInv, Grows

LEMMA PlannerKept ==
  ASSUME TypeOK, Grows, NEW p \in Planners, PlannerInv(p),
         snap'[p] \in {snap[p], NoSnap},
         \/ pc'[p] \notin {"read", "upload"}
         \/ pc'[p] = "read" /\ todo'[p] # {}
         \/ pc'[p] = pc[p] /\ todo'[p] = todo[p] /\ found'[p] = found[p]
  PROVE  PlannerInv(p)'
<1>1. \A i \in DOMAIN snap'[p].comments :
        LET r == snap'[p].comments[i].run
        IN  r # 0 => r \in DOMAIN runs' /\ runs'[r].phase = "ended"
  <2>1. \A i \in DOMAIN snap[p].comments :
          LET r == snap[p].comments[i].run
          IN  r # 0 => r \in DOMAIN runs /\ runs[r].phase = "ended"
    BY DEF PlannerInv
  <2>2. \A r \in DOMAIN runs : runs[r].phase = "ended" =>
          r \in DOMAIN runs' /\ runs'[r].phase = "ended"
    BY GrowsDomains DEF Grows
  <2>3. CASE snap'[p] = snap[p]
    BY <2>1, <2>2, <2>3
  <2>4. CASE snap'[p] = NoSnap
    <3>1. DOMAIN snap'[p].comments = {}
      BY <2>4 DEF NoSnap
    <3> QED BY <3>1
  <2> QED BY <2>3, <2>4
<1>2. pc'[p] \in {"read", "upload"} => todo'[p] # {}
  BY DEF PlannerInv
<1>3. ASSUME pc'[p] = "upload"
      PROVE  /\ found'[p] # 0
             /\ runs'[found'[p]].phase = "ended"
             /\ runs'[found'[p]].commit = comments'[Latest(p)'].asked
             /\ Calm' => runs'[found'[p]].commit # 0
  <2>1. pc[p] = "upload" /\ todo'[p] = todo[p] /\ found'[p] = found[p]
    BY <1>3
  <2>2. found[p] \in DOMAIN runs /\ todo[p] # {} /\ todo[p] \subseteq DOMAIN comments
    <3>1. found[p] \in RunId /\ todo[p] \in SUBSET DOMAIN comments
      BY DEF TypeOK
    <3>2. found[p] # 0 /\ todo[p] # {}
      BY <2>1 DEF PlannerInv
    <3>3. RunId = 0 .. Len(runs) /\ DOMAIN runs = 1 .. Len(runs) /\ Len(runs) \in Nat
      BY TypeParts DEF RunId
    <3> QED BY <3>1, <3>2, <3>3
  <2>3. Latest(p) \in todo[p]
    BY <2>2, LatestIsLatest
  <2>4. Latest(p)' = Latest(p)
    BY <2>1 DEF Latest
  <2> QED BY <2>1, <2>2, <2>3, <2>4 DEF PlannerInv, Grows
<1> QED BY <1>1, <1>2, <1>3 DEF PlannerInv

\* What refers to a comment or a run goes on to.
LEMMA TypeKept ==
  ASSUME TypeOK, Grows
  PROVE  /\ stale \subseteq DOMAIN comments'
         /\ \A r \in DOMAIN runs : runs'[r].comment \in DOMAIN comments'
         /\ store \in [Commit -> RunId'] /\ found \in [Planners -> RunId']
         /\ todo \in [Planners -> SUBSET DOMAIN comments']
         /\ \A p \in Planners : Len(snap[p].comments) \in Nat
                                /\ Len(snap[p].comments) <= Len(comments')
<1>1. DOMAIN comments \subseteq DOMAIN comments' /\ RunId \subseteq RunId'
  BY GrowsDomains, TypeParts DEF RunId, Grows
<1>2. \A p \in Planners : Len(snap[p].comments) \in Nat
                          /\ Len(snap[p].comments) <= Len(comments')
  <2> TAKE p \in Planners
  <2>1. Len(snap[p].comments) \in Nat /\ Len(snap[p].comments) <= Len(comments)
    BY LenProperties DEF TypeOK
  <2> QED BY <2>1, TypeParts, GrowsDomains DEF Grows
<1>3. \A r \in DOMAIN runs : runs'[r].comment \in DOMAIN comments'
  BY <1>1 DEF TypeOK, Grows
<1> QED BY <1>1, <1>2, <1>3 DEF TypeOK

-----------------------------------------------------------------------------
(* Steps that leave comments and runs alone.                               *)

\* What no property depends on.
SideType ==
  /\ draft \in BOOLEAN /\ merged \in BOOLEAN
  /\ main \in {"none", "merge", "other"}
  /\ lastRun \in {"merge", "other"} /\ pending \in BOOLEAN
  /\ events \in Seq(Key) /\ closing \in BOOLEAN
  /\ changes \in 0..MaxChanges /\ failures \in 0..MaxFailures
  /\ head \in 1..MaxChanges + 1

PCType == pc \in [Planners -> {"none", "fetch", "decide", "read", "upload", "done"}]

LEMMA Spending ==
  ASSUME TypeOK, Failure \/ NoFailure \/ Change
  PROVE  /\ changes' \in 0..MaxChanges /\ failures' \in 0..MaxFailures
         /\ changes' \in Nat /\ changes <= changes'
         /\ failures' = 0 => failures = 0 /\ ~ Failure
<1>1. changes \in 0..MaxChanges /\ failures \in 0..MaxFailures /\ MaxChanges \in Nat /\ MaxFailures \in Nat
  BY PlannerAssumption DEF TypeOK
<1>2. CASE Failure
  BY <1>1, <1>2 DEF Failure
<1>3. CASE NoFailure
  BY <1>1, <1>3 DEF NoFailure, Failure, spent
<1>4. CASE Change
  BY <1>1, <1>4 DEF Change, Failure
<1> QED BY <1>2, <1>3, <1>4

\* A step of the world outside, of a default run or of the merge.
Aside ==
  /\ UNCHANGED <<comments, runs, snap, todo, found>>
  /\ stale \subseteq stale' /\ stale' \subseteq DOMAIN comments
  /\ store' = store \/ store' = [c \in Commit |-> 0]
  /\ \A p \in Planners : pc'[p] = pc[p] \/ pc'[p] = "fetch"
  /\ failures' = 0 => failures = 0
  /\ head <= head' /\ head' <= changes' + 1
  /\ SideType' /\ PCType'

LEMMA AsideGrows ==
  ASSUME TypeOK, Aside
  PROVE  Grows
<1>1. head' \in Nat
  BY PlannerAssumption DEF Aside, SideType
<1> QED BY <1>1, TypeParts DEF Aside, Grows, Calm

LEMMA AsideStep ==
  ASSUME PlansInv, Aside
  PROVE  PlansInv'
<1>0. TypeOK /\ Grows
  BY AsideGrows DEF PlansInv
<1>1. store' \in [Commit -> RunId']
  <2>1. 0 \in RunId'
    BY <1>0, GrowsDomains DEF RunId
  <2> QED BY <1>0, <2>1, TypeKept DEF Aside
<1>2. TypeOK'
  BY <1>0, <1>1 DEF TypeOK, Aside, SideType, PCType, RunId
<1>3. \A i \in DOMAIN comments' : CommentInv(i)'
  BY <1>0, CommentKept DEF PlansInv, Aside
<1>4. \A r \in DOMAIN runs' : RunInv(r)'
  BY <1>0, RunKept DEF PlansInv, Aside
<1>5. \A c \in Commit : StoreInv(c)'
  BY <1>0, StoreKept DEF PlansInv, Aside
<1>6. \A p \in Planners : PlannerInv(p)'
  BY <1>0, PlannerKept DEF PlansInv, Aside
<1>7. head' <= changes' + 1
  BY DEF Aside
<1> QED BY <1>2, <1>3, <1>4, <1>5, <1>6, <1>7 DEF PlansInv

LEMMA HeadCounted ==
  ASSUME PlansInv, Failure \/ NoFailure \/ Change
  PROVE  head <= head /\ head <= changes' + 1
<1>1. TypeOK /\ head <= changes + 1
  BY DEF PlansInv
<1> QED BY <1>1, Spending, TypeParts

LEMMA SideParts ==
  ASSUME TypeOK
  PROVE  SideType /\ PCType
BY DEF TypeOK, SideType, PCType

LEMMA PushAside ==
  ASSUME PlansInv, Push
  PROVE  Aside
<1>0. TypeOK /\ head <= changes + 1
  BY DEF PlansInv
<1>1. /\ head' = head + 1 /\ changes' = changes + 1 /\ changes < MaxChanges
      /\ UNCHANGED failures
  BY DEF Push, Change
<1>2. head <= head' /\ head' <= changes' + 1 /\ head' \in 1..MaxChanges + 1
      /\ changes' \in 0..MaxChanges
  BY <1>0, <1>1, TypeParts
<1>3. PCType' /\ \A p \in Planners : pc'[p] = pc[p] \/ pc'[p] = "fetch"
  BY <1>0, SideParts DEF Push, Web, Hook, Goto, PCType, Planners
<1>4. /\ UNCHANGED <<draft, merged, comments, stale, runs, main, store, lastRun, pending, events>>
      /\ UNCHANGED <<closing, snap, todo, found>>
  BY DEF Push, Web, board, runner, redis
<1>5. SideType'
  BY <1>0, <1>1, <1>2, <1>4, SideParts DEF SideType
<1> QED BY <1>0, <1>1, <1>2, <1>3, <1>4, <1>5 DEF Aside, TypeOK

LEMMA OutsideAside ==
  ASSUME PlansInv, ReadyForReview \/ Merge \/ \E i \in DOMAIN comments : Age(i)
  PROVE  Aside /\ Steady
<1>0. TypeOK
  BY DEF PlansInv
<1>1. NoFailure \/ Failure
  BY DEF ReadyForReview, Merge, Age, NoFailure, spent
<1>2. /\ UNCHANGED <<comments, runs, main, store, lastRun, pending, events, head>>
      /\ UNCHANGED <<pc, snap, todo, found>>
      /\ draft' \in {draft, FALSE} /\ merged' \in {merged, TRUE} /\ closing' \in {closing, TRUE}
  BY DEF ReadyForReview, Merge, Age, pr, board, runner, redis, planner
<1>3. stale \subseteq stale' /\ stale' \subseteq DOMAIN comments
  BY <1>0 DEF ReadyForReview, Merge, Age, board, TypeOK
<1>4. SideType' /\ PCType'
  BY <1>0, <1>1, <1>2, SideParts, Spending DEF SideType, PCType
<1>5. Aside
  BY <1>0, <1>1, <1>2, <1>3, <1>4, HeadCounted, Spending DEF Aside
<1> QED BY <1>0, <1>2, <1>5, AsideGrows DEF Steady

LEMMA DefaultAside ==
  ASSUME PlansInv, BeginDefault \/ EndDefault \/ Close \/ Expire
  PROVE  Aside /\ Steady
<1>0. TypeOK
  BY DEF PlansInv
<1>1. NoFailure \/ Failure \/ Change
  BY DEF BeginDefault, EndDefault, Announce, Close, Expire
<1>2. /\ UNCHANGED <<comments, stale, runs, store, head, draft, merged>>
      /\ UNCHANGED <<pc, snap, todo, found>>
      /\ main' \in {"none", "merge", "other"} /\ lastRun' \in {lastRun, main}
      /\ closing' \in {closing, FALSE}
  BY <1>0 DEF TypeOK, BeginDefault, EndDefault, Announce, Close, Expire,
              pr, board, runner, redis, planner
<1>3. pending' \in BOOLEAN
  BY <1>0 DEF TypeOK, BeginDefault, EndDefault, Close, Expire, redis
<1>4. events' = events \/ events' = Append(events, LastRun)
  BY DEF BeginDefault, EndDefault, Announce, Close, Expire, redis
<1>5. events' \in Seq(Key)
  <2>1. events \in Seq(Key) /\ LastRun \in Key
    BY <1>0 DEF TypeOK, Key
  <2> QED BY <1>4, <2>1, Appended
<1>6. lastRun' \in {"merge", "other"}
  BY <1>0 DEF TypeOK, BeginDefault, EndDefault, Close, Expire, redis
<1>7. SideType' /\ PCType'
  BY <1>0, <1>1, <1>2, <1>3, <1>5, <1>6, SideParts, Spending DEF SideType, PCType
<1>8. stale' \subseteq DOMAIN comments
  BY <1>0, <1>2 DEF TypeOK
<1>9. Aside
  BY <1>0, <1>1, <1>2, <1>7, <1>8, HeadCounted, Spending DEF Aside
<1> QED BY <1>0, <1>2, <1>9, AsideGrows DEF Steady

-----------------------------------------------------------------------------
(* Steps of a planner.                                                     *)

\* Only planner p has moved.
Moved(p) ==
  /\ \A q \in Planners \ {p} : /\ pc'[q] = pc[q] /\ snap'[q] = snap[q]
                               /\ todo'[q] = todo[q] /\ found'[q] = found[q]
  /\ PCType'

LEMMA PlannerOthers ==
  ASSUME PlansInv, Grows, NEW p \in Planners, Moved(p), PlannerInv(p)'
  PROVE  \A q \in Planners : PlannerInv(q)'
<1> TAKE q \in Planners
<1>1. CASE q = p
  BY <1>1
<1>2. CASE q # p
  BY <1>2, PlannerKept DEF Moved, PlansInv
<1> QED BY <1>1, <1>2

\* Upload leaves a planner with acknowledgements to read, or without.
LEMMA UploadMoves ==
  ASSUME TypeOK, NEW p \in Planners, NEW acks, Upload(p, acks)
  PROVE  /\ todo'[p] = acks /\ found'[p] = 0
         /\ pc'[p] \in {"read", "fetch", "done"} /\ (pc'[p] = "read" => acks # {})
         /\ \A q \in Planners \ {p} : pc'[q] = pc[q] /\ todo'[q] = todo[q] /\ found'[q] = found[q]
         /\ PCType'
BY DEF TypeOK, Upload, Goto, PCType

LEMMA UploadTypes ==
  ASSUME TypeOK, Grows, NEW p \in Planners,
         NEW acks \in SUBSET DOMAIN comments', Upload(p, acks)
  PROVE  todo' \in [Planners -> SUBSET DOMAIN comments'] /\ found' \in [Planners -> RunId']
<1>1. 0 \in RunId'
  BY GrowsDomains DEF RunId
<1> QED BY <1>1, TypeKept DEF Upload

LEMMA SpendingSide ==
  ASSUME TypeOK, Failure \/ NoFailure,
         UNCHANGED <<head, draft, merged, main, lastRun, pending, events, closing>>
  PROVE  SideType'
BY SideParts, Spending DEF SideType

LEMMA QuietGrows ==
  ASSUME TypeOK, Failure \/ NoFailure, UNCHANGED <<head, comments, stale, runs>>
  PROVE  Grows
<1>1. Calm' => Calm
  BY Spending DEF Calm
<1> QED BY <1>1, TypeParts DEF Grows

LEMMA FetchStep ==
  ASSUME PlansInv, NEW p \in Planners, Fetch(p)
  PROVE  PlansInv' /\ Steady
<1>0. /\ TypeOK /\ NoFailure
      /\ UNCHANGED <<head, draft, merged, comments, stale, runs, main>>
      /\ UNCHANGED <<store, lastRun, pending, events, closing, todo, found>>
  BY DEF PlansInv, Fetch, NoFailure, pr, board, runner, redis
<1>1. Grows
  BY <1>0, QuietGrows
<1>2. /\ snap'[p] = [comments |-> comments, draft |-> draft] /\ pc'[p] = "decide"
      /\ Moved(p)
  BY <1>0, SideParts DEF Fetch, Goto, Moved, TypeOK, PCType
<1>3. snap' \in [Planners -> [comments : Seq(Comment), draft : BOOLEAN]]
  BY <1>0 DEF Fetch, TypeOK
<1>4. \A q \in Planners : Len(snap'[q].comments) <= Len(comments')
  <2> TAKE q \in Planners
  <2>1. CASE q = p
    BY <1>0, <1>2, <2>1, TypeParts
  <2>2. CASE q # p
    BY <1>0, <1>2, <2>2 DEF TypeOK, Moved
  <2> QED BY <2>1, <2>2
<1>5. SideType' /\ store' \in [Commit -> RunId'] /\ found' \in [Planners -> RunId']
  BY <1>0, <1>1, SpendingSide, TypeKept
<1>6. TypeOK'
  BY <1>0, <1>2, <1>3, <1>4, <1>5 DEF TypeOK, SideType, PCType, Moved
<1>7. PlannerInv(p)'
  <2>1. \A i \in DOMAIN comments : comments[i].run # 0 =>
          comments[i].run \in DOMAIN runs /\ runs[comments[i].run].phase = "ended"
    BY DEF PlansInv, CommentInv
  <2> QED BY <1>0, <1>2, <2>1 DEF PlannerInv
<1>8. \A i \in DOMAIN comments' : CommentInv(i)'
  BY <1>0, <1>1, CommentKept DEF PlansInv
<1>9. \A r \in DOMAIN runs' : RunInv(r)'
  BY <1>0, <1>1, RunKept DEF PlansInv
<1>10. \A c \in Commit : StoreInv(c)'
  BY <1>0, <1>1, StoreKept DEF PlansInv
<1>11. head' <= changes' + 1
  BY <1>0 DEF PlansInv, NoFailure, spent
<1>12. Steady
  BY <1>0, <1>1, <1>2 DEF Steady, Moved
<1> QED BY <1>1, <1>2, <1>6, <1>7, <1>8, <1>9, <1>10, <1>11, <1>12, PlannerOthers DEF PlansInv

LEMMA UploadReadStep ==
  ASSUME PlansInv, NEW p \in Planners, UploadRead(p)
  PROVE  PlansInv' /\ Steady
<1> DEFINE i == Latest(p)
           r == store[KeyOf(i)]
<1>0. /\ TypeOK /\ (NoFailure \/ Failure) /\ pc[p] = "read"
      /\ UNCHANGED <<head, draft, merged, comments, stale, runs, main>>
      /\ UNCHANGED <<store, lastRun, pending, events, closing, snap>>
  BY DEF PlansInv, UploadRead, pr, board, runner, redis
<1>1. Grows
  BY <1>0, QuietGrows
<1>2. todo[p] \subseteq DOMAIN comments /\ i \in todo[p] /\ KeyOf(i) \in Commit
  <2>1. todo[p] # {} /\ todo[p] \subseteq DOMAIN comments
    BY <1>0 DEF PlansInv, PlannerInv, TypeOK
  <2>2. i \in todo[p]
    BY <1>0, <2>1, LatestIsLatest
  <2> QED BY <1>0, <2>1, <2>2, ElementTypes DEF KeyOf
<1>3. \/ /\ r # 0 /\ found' = [found EXCEPT ![p] = r] /\ Goto(p, "upload") /\ UNCHANGED todo
      \/ Upload(p, todo[p] \ {i})
  BY DEF UploadRead
<1>4. r \in RunId
  BY <1>0, <1>2 DEF TypeOK
<1>5. /\ todo' \in [Planners -> SUBSET DOMAIN comments'] /\ found' \in [Planners -> RunId']
      /\ Moved(p) /\ PlannerInv(p)' /\ pc'[p] # "decide"
  <2>1. CASE Upload(p, todo[p] \ {i})
    <3>1. todo[p] \ {i} \in SUBSET DOMAIN comments'
      BY <1>0, <1>2
    <3>2. /\ Moved(p) /\ (pc'[p] \notin {"read", "upload"} \/ (pc'[p] = "read" /\ todo'[p] # {}))
          /\ pc'[p] # "decide"
      BY <1>0, <2>1, UploadMoves DEF Moved
    <3>3. PlannerInv(p)'
      BY <1>0, <1>1, <3>2, PlannerKept DEF PlansInv
    <3> QED BY <1>0, <1>1, <2>1, <3>1, <3>2, <3>3, UploadTypes
  <2>2. CASE r # 0 /\ found' = [found EXCEPT ![p] = r] /\ Goto(p, "upload") /\ UNCHANGED todo
    <3>1. /\ found' \in [Planners -> RunId] /\ found'[p] = r /\ pc'[p] = "upload" /\ Moved(p)
      BY <1>0, <1>4, <2>2, SideParts DEF TypeOK, Goto, Moved, PCType
    <3>2. RunId' = RunId
      BY <1>0 DEF RunId
    <3>3. runs[r].phase = "ended" /\ runs[r].commit = comments[i].asked
          /\ (Calm => runs[r].commit # 0)
      BY <1>2, <2>2 DEF PlansInv, StoreInv, KeyOf
    <3>4. Latest(p)' = i
      BY <2>2 DEF Latest
    <3>5. Calm' => Calm
      BY <1>1 DEF Grows
    <3>6. PlannerInv(p)
      BY DEF PlansInv
    <3>7. PlannerInv(p)'
      BY <1>0, <1>2, <2>2, <3>1, <3>3, <3>4, <3>5, <3>6 DEF PlannerInv
    <3> QED BY <1>0, <2>2, <3>1, <3>2, <3>7 DEF TypeOK
  <2> QED BY <1>3, <2>1, <2>2
<1>6. SideType' /\ store' \in [Commit -> RunId']
  BY <1>0, <1>1, SpendingSide, TypeKept
<1>7. TypeOK'
  BY <1>0, <1>5, <1>6 DEF TypeOK, SideType, PCType, Moved
<1>8. \A j \in DOMAIN comments' : CommentInv(j)'
  BY <1>0, <1>1, CommentKept DEF PlansInv
<1>9. \A q \in DOMAIN runs' : RunInv(q)'
  BY <1>0, <1>1, RunKept DEF PlansInv
<1>10. \A c \in Commit : StoreInv(c)'
  BY <1>0, <1>1, StoreKept DEF PlansInv
<1>11. head' <= changes' + 1
  BY <1>0, HeadCounted
<1>12. Steady
  BY <1>0, <1>1, <1>5 DEF Steady, Moved
<1> QED BY <1>1, <1>5, <1>7, <1>8, <1>9, <1>10, <1>11, <1>12, PlannerOthers DEF PlansInv

-----------------------------------------------------------------------------
(* Steps of a run.                                                         *)

\* Run r goes on; planners and comments do not.
RunMoves(r) ==
  /\ UNCHANGED <<head, draft, merged, comments, stale, main, lastRun, pending, closing>>
  /\ UNCHANGED <<pc, snap, todo, found>>
  /\ Failure \/ NoFailure
  /\ runs[r].phase # "ended"
  /\ \E phase \in Phase, c \in Commit : SetRun(r, phase, c)

LEMMA RunGrows ==
  ASSUME TypeOK, NEW r \in DOMAIN runs, RunMoves(r)
  PROVE  Grows
<1>1. Calm' => Calm
  BY Spending DEF RunMoves, Calm
<1>2. PICK phase \in Phase, c \in Commit : SetRun(r, phase, c)
  BY DEF RunMoves
<1>3. /\ runs' \in Seq(Run) /\ Len(runs') = Len(runs)
      /\ \A q \in DOMAIN runs : /\ runs'[q].comment = runs[q].comment
                                /\ runs'[q].user = runs[q].user
                                /\ q # r => runs'[q] = runs[q]
  BY <1>2, RunSet
<1> QED BY <1>1, <1>3, TypeParts DEF Grows, RunMoves

LEMMA RunStep ==
  ASSUME PlansInv, NEW r \in DOMAIN runs, RunMoves(r), RunInv(r)',
         store' \in [Commit -> RunId], \A c \in Commit : StoreInv(c)',
         events' \in Seq(Key)
  PROVE  PlansInv' /\ Steady
<1>0. TypeOK
  BY DEF PlansInv
<1>1. Grows
  BY <1>0, RunGrows
<1>2. PICK phase \in Phase, d \in Commit : SetRun(r, phase, d)
  BY DEF RunMoves
<1>3. /\ Len(runs') = Len(runs) /\ runs' \in Seq(Run)
      /\ \A q \in DOMAIN runs : q # r => runs'[q] = runs[q]
  BY <1>0, <1>2, RunSet
<1>4. DOMAIN runs' = DOMAIN runs /\ RunId' = RunId
  BY <1>0, <1>1, <1>3, TypeParts, GrowsDomains DEF RunId
<1>5. SideType'
  BY <1>0, SideParts, Spending DEF RunMoves, SideType
<1>6. TypeOK'
  BY <1>0, <1>1, <1>3, <1>4, <1>5, TypeKept DEF TypeOK, SideType, RunMoves
<1>7. \A i \in DOMAIN comments' : CommentInv(i)'
  BY <1>0, <1>1, CommentKept DEF PlansInv, RunMoves
<1>8. \A q \in DOMAIN runs' : RunInv(q)'
  BY <1>0, <1>1, <1>3, <1>4, RunKept DEF PlansInv
<1>9. \A p \in Planners : PlannerInv(p)'
  BY <1>0, <1>1, PlannerKept DEF PlansInv, RunMoves
<1>10. head' <= changes' + 1
  BY HeadCounted DEF RunMoves
<1>11. Steady
  BY <1>1, <1>3 DEF Steady, RunMoves
<1> QED BY <1>6, <1>7, <1>8, <1>9, <1>10, <1>11 DEF PlansInv

LEMMA BeginRunStep ==
  ASSUME PlansInv, NEW r \in DOMAIN runs, BeginRun(r)
  PROVE  PlansInv' /\ Steady
<1>0. TypeOK /\ 0 \in Commit /\ head \in Commit /\ head \in Nat /\ head # 0
  BY TypeParts DEF PlansInv, Commit
<1>1. PICK phase \in {"running", "ended"}, c \in {0, head} :
        /\ SetRun(r, phase, c) /\ (NoFailure \/ Failure)
        /\ phase = "running" => c = head \/ Failure
  BY Zenon DEF BeginRun
<1>2. /\ UNCHANGED <<head, draft, merged, comments, stale, main, lastRun, pending, closing>>
      /\ UNCHANGED <<pc, snap, todo, found, store, events>>
      /\ runs[r].phase = "asked"
  BY DEF BeginRun, pr, board, redis, planner
<1>3. RunMoves(r)
  BY <1>0, <1>1, <1>2 DEF RunMoves, Phase
<1>4. Grows
  BY <1>0, <1>3, RunGrows
<1>5. RunInv(r)'
  <2>1. runs'[r].phase = phase /\ runs'[r].commit = c /\ runs'[r].comment = runs[r].comment
    BY <1>0, <1>1, RunSet DEF Phase
  <2>2. /\ comments[runs[r].comment].asked # 0 /\ comments[runs[r].comment].asked <= head
        /\ comments[runs[r].comment].asked \in Nat
    BY <1>0, ElementTypes DEF PlansInv, RunInv, CommentInv
  <2>3. Calm' /\ phase = "running" => c # 0
    BY <1>0, <1>1, Spending DEF Calm
  <2>4. c <= head' /\ c \in Nat
    BY <1>0, <1>2
  <2> QED BY <1>0, <1>2, <2>1, <2>2, <2>3, <2>4 DEF RunInv
<1>6. \A d \in Commit : StoreInv(d)'
  BY <1>0, <1>2, <1>4, StoreKept DEF PlansInv
<1> QED BY <1>0, <1>2, <1>3, <1>5, <1>6, RunStep DEF TypeOK

LEMMA EndRunStep ==
  ASSUME PlansInv, NEW r \in DOMAIN runs, EndRun(r)
  PROVE  PlansInv' /\ Steady
<1> DEFINE c == runs[r].commit
<1>0. TypeOK /\ c \in Commit /\ c \in Nat /\ runs[r].phase = "running"
  BY ElementTypes DEF PlansInv, EndRun
<1>1. SetRun(r, "ended", c) /\ (NoFailure \/ Failure)
  BY DEF EndRun, Announce
<1>2. /\ UNCHANGED <<head, draft, merged, comments, stale, main, lastRun, pending, closing>>
      /\ UNCHANGED <<pc, snap, todo, found>>
  BY DEF EndRun, pr, board, planner
<1>3. RunMoves(r)
  BY <1>0, <1>1, <1>2 DEF RunMoves, Phase
<1>4. Grows
  BY <1>0, <1>3, RunGrows
<1>5. runs'[r].phase = "ended" /\ runs'[r].commit = c /\ runs'[r].comment = runs[r].comment
  BY <1>0, <1>1, RunSet DEF Phase
<1>6. RunInv(r)'
  BY <1>0, <1>2, <1>5 DEF PlansInv, RunInv
<1>7. store' = store \/ store' = [store EXCEPT ![c] = r]
  BY DEF EndRun
<1>8. store' \in [Commit -> RunId]
  <2>1. r \in RunId
    BY <1>0, TypeParts DEF RunId
  <2>2. store \in [Commit -> RunId]
    BY <1>0 DEF TypeOK
  <2> QED BY <1>7, <2>1, <2>2
<1>9. ASSUME NEW d \in Commit PROVE StoreInv(d)'
  <2>1. CASE store'[d] = store[d]
    BY <1>0, <1>4, <2>1, StoreKept DEF PlansInv
  <2>2. CASE store'[d] # store[d]
    <3>1. d = c /\ store'[d] = r
      BY <1>0, <1>7, <2>2 DEF TypeOK
    <3>2. Calm' => c # 0
      BY <1>0, <1>4 DEF PlansInv, RunInv, Grows
    <3> QED BY <1>5, <3>1, <3>2 DEF StoreInv
  <2> QED BY <2>1, <2>2
<1>10. events' \in Seq(Key)
  <2>1. events \in Seq(Key) /\ c \in Key
    BY <1>0 DEF TypeOK, Key
  <2>2. events' = events \/ events' = Append(events, c)
    BY DEF EndRun, Announce
  <2> QED BY <2>1, <2>2, Appended
<1> QED BY <1>3, <1>6, <1>8, <1>9, <1>10, RunStep

-----------------------------------------------------------------------------
(* A crash.                                                                *)

LEMMA CrashRuns ==
  ASSUME TypeOK, Crash
  PROVE  /\ runs' \in Seq(Run) /\ Len(runs') = Len(runs) /\ DOMAIN runs' = DOMAIN runs
         /\ \A r \in DOMAIN runs : /\ runs'[r].comment = runs[r].comment
                                   /\ runs'[r].user = runs[r].user
                                   /\ runs'[r].commit = runs[r].commit
                                   /\ runs'[r].phase = "ended"
<1>1. runs' = [r \in DOMAIN runs |-> [runs[r] EXCEPT !.phase = "ended"]]
  BY DEF Crash
<1>2. \A r \in DOMAIN runs : LET n == [runs[r] EXCEPT !.phase = "ended"]
        IN  n \in Run /\ n.comment = runs[r].comment /\ n.user = runs[r].user
            /\ n.commit = runs[r].commit /\ n.phase = "ended"
  BY ElementTypes DEF Run, Phase
<1>3. DOMAIN runs = 1 .. Len(runs) /\ Len(runs) \in Nat
  BY TypeParts
<1>4. runs' \in [1 .. Len(runs) -> Run]
  BY <1>1, <1>2, <1>3
<1>5. runs' \in Seq(Run)
  BY <1>3, <1>4, SeqDef
<1>6. Len(runs') = Len(runs) /\ DOMAIN runs' = DOMAIN runs
  BY <1>1, <1>3, <1>5, LenProperties
<1> QED BY <1>1, <1>2, <1>5, <1>6

LEMMA CrashStep ==
  ASSUME PlansInv, Crash
  PROVE  PlansInv'
<1>0. /\ TypeOK /\ Failure
      /\ UNCHANGED <<head, draft, merged, comments, stale, store, lastRun, pending>>
      /\ main' = "none" /\ events' = <<>> /\ closing' = FALSE
  BY DEF PlansInv, Crash, pr, board
<1>1. Grows
  <2>1. ~ Calm'
    BY <1>0, Spending DEF Calm
  <2> QED BY <1>0, <2>1, CrashRuns, TypeParts DEF Grows
<1>2. PCType' /\ \A p \in Planners : pc'[p] \notin {"read", "upload"} /\ snap'[p] = NoSnap
  BY <1>0 DEF Crash, PCType, TypeOK
<1>3. SideType'
  <2>1. events' \in Seq(Key)
    BY <1>0, EmptySeq
  <2> QED BY <1>0, <2>1, SideParts, Spending DEF SideType
<1>4. /\ snap' \in [Planners -> [comments : Seq(Comment), draft : BOOLEAN]]
      /\ \A p \in Planners : Len(snap'[p].comments) = 0
  BY DEF Crash, NoSnap
<1>5. /\ todo' \in [Planners -> SUBSET DOMAIN comments'] /\ found' \in [Planners -> RunId']
      /\ store' \in [Commit -> RunId'] /\ stale' \subseteq DOMAIN comments'
  <2>1. 0 \in RunId'
    BY <1>0, <1>1, GrowsDomains DEF RunId
  <2> QED BY <1>0, <1>1, <2>1, TypeKept DEF Crash
<1>6. \A r \in DOMAIN runs' : runs'[r].comment \in DOMAIN comments'
  BY <1>0, CrashRuns, ElementTypes
<1>7. TypeOK'
  BY <1>0, <1>1, <1>2, <1>3, <1>4, <1>5, <1>6, GrowsDomains DEF TypeOK, SideType, PCType, Grows
<1>8. \A i \in DOMAIN comments' : CommentInv(i)'
  BY <1>0, <1>1, CommentKept DEF PlansInv
<1>9. \A r \in DOMAIN runs' : RunInv(r)'
  BY <1>0, CrashRuns DEF PlansInv, RunInv
<1>10. \A c \in Commit : StoreInv(c)'
  BY <1>0, <1>1, StoreKept DEF PlansInv
<1>11. \A p \in Planners : PlannerInv(p)'
  BY <1>0, <1>1, <1>2, PlannerKept DEF PlansInv
<1>12. head' <= changes' + 1
  BY <1>0, HeadCounted
<1> QED BY <1>7, <1>8, <1>9, <1>10, <1>11, <1>12 DEF PlansInv

-----------------------------------------------------------------------------
(* Steps that write comments.                                              *)

\* Comments and runs are what they may be.
BoardOK ==
  /\ Grows /\ UNCHANGED <<head, stale>>
  /\ \A i \in DOMAIN comments' : CommentInv(i)'
  /\ \A r \in DOMAIN runs' : RunInv(r)' /\ runs'[r].comment \in DOMAIN comments'

LEMMA BoardStep ==
  ASSUME PlansInv, BoardOK, Failure \/ NoFailure \/ Change, SideType', PCType',
         store' = store \/ store' = [c \in Commit |-> 0],
         snap' \in [Planners -> [comments : Seq(Comment), draft : BOOLEAN]],
         \A p \in Planners : snap'[p] \in {snap[p], NoSnap},
         todo' \in [Planners -> SUBSET DOMAIN comments'],
         found' \in [Planners -> RunId'],
         \A p \in Planners : PlannerInv(p)'
  PROVE  PlansInv'
<1>0. TypeOK /\ Grows
  BY DEF PlansInv, BoardOK
<1>1. store' \in [Commit -> RunId']
  <2>1. 0 \in RunId'
    BY <1>0, GrowsDomains DEF RunId
  <2> QED BY <1>0, <2>1, TypeKept
<1>2. \A p \in Planners : Len(snap'[p].comments) <= Len(comments')
  <2>1. Len(NoSnap.comments) = 0 /\ Len(comments') \in Nat
    BY <1>0, GrowsDomains DEF NoSnap
  <2> TAKE p \in Planners
  <2>2. CASE snap'[p] = snap[p]
    BY <1>0, <2>2, TypeKept
  <2>3. CASE snap'[p] = NoSnap
    BY <2>1, <2>3
  <2> QED BY <2>2, <2>3
<1>3. stale' \subseteq DOMAIN comments'
  BY <1>0, TypeKept DEF BoardOK
<1>4. TypeOK'
  BY <1>1, <1>2, <1>3 DEF TypeOK, SideType, PCType, BoardOK, Grows
<1>5. \A c \in Commit : StoreInv(c)'
  BY <1>0, StoreKept DEF PlansInv
<1>6. head' <= changes' + 1
  BY HeadCounted DEF BoardOK
<1> QED BY <1>4, <1>5, <1>6 DEF PlansInv, BoardOK

\* A plan request is on the PR, and its run is asked for.
Asks(user) ==
  /\ Len(comments') \in DOMAIN comments' /\ comments'[Len(comments')] = Ack(head)
  /\ runs' = Append(runs, [comment |-> Len(comments'), user |-> user,
                           commit |-> 0, phase |-> "asked"])

LEMMA AskedRun ==
  ASSUME TypeOK, NEW user \in BOOLEAN, Asks(user), Len(comments') \in Nat
  PROVE  /\ runs' \in Seq(Run) /\ Len(runs') = Len(runs) + 1
         /\ DOMAIN runs' = 1 .. Len(runs) + 1
         /\ \A r \in DOMAIN runs : runs'[r] = runs[r]
         /\ runs'[Len(runs) + 1] = [comment |-> Len(comments'), user |-> user,
                                    commit |-> 0, phase |-> "asked"]
<1> DEFINE n == [comment |-> Len(comments'), user |-> user, commit |-> 0, phase |-> "asked"]
<1>1. n \in Run
  BY TypeParts DEF Run, Phase, Commit
<1>2. runs' = Append(runs, n)
  BY DEF Asks
<1> HIDE DEF n
<1>3. /\ runs' \in Seq(Run) /\ Len(runs') = Len(runs) + 1
      /\ DOMAIN runs' = 1 .. Len(runs) + 1
      /\ \A r \in DOMAIN runs : runs'[r] = runs[r]
      /\ runs'[Len(runs) + 1] = n
  BY <1>1, <1>2, Appended, TypeParts
<1> QED BY <1>3 DEF n

LEMMA AddedBoard ==
  ASSUME PlansInv, Added(comments'), UNCHANGED <<head, stale>>,
         failures' = 0 => failures = 0,
         \/ UNCHANGED runs
         \/ \E user \in BOOLEAN : Asks(user)
  PROVE  BoardOK
<1>0. TypeOK
  BY DEF PlansInv
<1>1. /\ comments' \in Seq(Comment) /\ Len(comments) <= Len(comments')
      /\ \A i \in DOMAIN comments : comments'[i] = comments[i]
      /\ Len(comments') \in Nat /\ DOMAIN comments' = 1 .. Len(comments')
  BY LenProperties DEF Added
<1>2. /\ runs' \in Seq(Run) /\ Len(runs) <= Len(runs')
      /\ \A r \in DOMAIN runs : runs'[r] = runs[r]
  <2>1. CASE UNCHANGED runs
    BY <1>0, <2>1, TypeParts
  <2>2. CASE \E user \in BOOLEAN : Asks(user)
    <3>1. PICK user \in BOOLEAN : Asks(user)
      BY <2>2
    <3>2. /\ runs' \in Seq(Run) /\ Len(runs') = Len(runs) + 1
          /\ \A r \in DOMAIN runs : runs'[r] = runs[r]
      BY <1>0, <1>1, <3>1, AskedRun
    <3> QED BY <1>0, <3>2, TypeParts
  <2> QED BY <2>1, <2>2
<1>3. Grows
  BY <1>0, <1>1, <1>2, TypeParts DEF Grows, Calm
<1>4. \A i \in DOMAIN comments' : CommentInv(i)'
  <2> TAKE i \in DOMAIN comments'
  <2>1. CASE i \in DOMAIN comments
    BY <1>0, <1>1, <1>3, <2>1, CommentKept DEF PlansInv
  <2>2. CASE i \notin DOMAIN comments
    BY <1>0, <1>3, <2>2, CommentNew DEF Added
  <2> QED BY <2>1, <2>2
<1>5. ASSUME NEW r \in DOMAIN runs' PROVE RunInv(r)' /\ runs'[r].comment \in DOMAIN comments'
  <2>1. CASE r \in DOMAIN runs
    BY <1>0, <1>2, <1>3, <2>1, RunKept, TypeKept DEF PlansInv
  <2>2. CASE r \notin DOMAIN runs
    <3>1. PICK user \in BOOLEAN : Asks(user)
      BY <2>2
    <3>2. runs'[r] = [comment |-> Len(comments'), user |-> user, commit |-> 0, phase |-> "asked"]
      <4>1. /\ DOMAIN runs' = 1 .. Len(runs) + 1
            /\ runs'[Len(runs) + 1] = [comment |-> Len(comments'), user |-> user,
                                       commit |-> 0, phase |-> "asked"]
        BY <1>0, <1>1, <3>1, AskedRun
      <4>2. r = Len(runs) + 1
        BY <1>0, <2>2, <4>1, TypeParts
      <4> QED BY <4>1, <4>2
    <3>3. comments'[Len(comments')].asked = head
      BY <1>0, <3>1, CommentTypes DEF Asks
    <3>4. /\ runs'[r].comment = Len(comments') /\ runs'[r].commit = 0
          /\ runs'[r].phase = "asked"
      BY <3>2
    <3>5. head' = head /\ head \in Nat /\ head # 0
      BY <1>0, TypeParts
    <3>6. RunInv(r)'
      BY <3>3, <3>4, <3>5 DEF RunInv
    <3> QED BY <3>1, <3>4, <3>6 DEF Asks
  <2> QED BY <2>1, <2>2
<1> QED BY <1>3, <1>4, <1>5 DEF BoardOK

LEMMA PatchedBoard ==
  ASSUME PlansInv, NEW i \in DOMAIN comments, NEW r \in DOMAIN runs,
         Patch(i, r), UNCHANGED <<head, stale, runs>>,
         failures' = 0 => failures = 0,
         runs[r].phase = "ended", runs[r].comment = i \/ runs[r].commit = comments[i].asked,
         Calm => runs[r].commit # 0
  PROVE  BoardOK
<1>0. TypeOK
  BY DEF PlansInv
<1>1. r \in Nat /\ r # 0
  BY <1>0, TypeParts
<1>2. /\ comments' \in Seq(Comment) /\ Len(comments') = Len(comments)
      /\ \A j \in DOMAIN comments \ {i} : comments'[j] = comments[j]
      /\ comments'[i].asked = comments[i].asked /\ comments'[i].run = r
  BY <1>0, <1>1, Patched
<1>3. Grows
  <2>1. \A j \in DOMAIN comments : comments'[j].asked = comments[j].asked
    BY <1>2
  <2>2. Len(comments) <= Len(comments') /\ Len(runs) <= Len(runs') /\ head <= head'
    BY <1>0, <1>2, TypeParts
  <2>3. runs' \in Seq(Run) /\ head' \in Nat
    BY <1>0, TypeParts
  <2>4. Calm' => Calm
    BY DEF Calm
  <2> QED BY <1>2, <2>1, <2>2, <2>3, <2>4 DEF Grows
<1>4. DOMAIN comments' = DOMAIN comments
  BY <1>0, <1>2, <1>3, GrowsDomains, TypeParts
<1>5. CommentInv(i)'
  <2>1. comments[i].asked <= head
    BY DEF PlansInv, CommentInv
  <2>2. Calm' => Calm
    BY <1>3 DEF Grows
  <2> QED BY <1>1, <1>2, <2>1, <2>2 DEF CommentInv
<1>6. \A j \in DOMAIN comments' : CommentInv(j)'
  BY <1>0, <1>2, <1>3, <1>4, <1>5, CommentKept DEF PlansInv
<1>7. \A q \in DOMAIN runs' : RunInv(q)' /\ runs'[q].comment \in DOMAIN comments'
  BY <1>0, <1>3, <1>4, RunKept, ElementTypes DEF PlansInv
<1> QED BY <1>3, <1>6, <1>7 DEF BoardOK

LEMMA SnapTypes ==
  ASSUME TypeOK, NEW p \in Planners
  PROVE  /\ [snap EXCEPT ![p] = NoSnap] \in [Planners -> [comments : Seq(Comment), draft : BOOLEAN]]
         /\ \A q \in Planners : [snap EXCEPT ![p] = NoSnap][q] = IF q = p THEN NoSnap ELSE snap[q]
<1>1. NoSnap \in [comments : Seq(Comment), draft : BOOLEAN]
  BY EmptySeq DEF NoSnap
<1> QED BY <1>1 DEF TypeOK

LEMMA AskForPlanStep ==
  ASSUME PlansInv, AskForPlan
  PROVE  PlansInv' /\ Steady
<1>0. /\ TypeOK /\ Change /\ comments' = Append(comments, Request)
      /\ UNCHANGED <<head, draft, merged, stale, runs, main>>
      /\ UNCHANGED <<store, lastRun, pending, events, closing, snap, todo, found>>
  BY DEF PlansInv, AskForPlan, Post, Web, pr, runner, redis
<1>1. Added(comments')
  BY <1>0, AddNone, AddOne
<1>2. BoardOK
  BY <1>0, <1>1, Spending, AddedBoard
<1>3. PCType' /\ \A p \in Planners : pc'[p] = pc[p] \/ pc'[p] = "fetch"
  BY <1>0, SideParts DEF AskForPlan, Web, Hook, Goto, PCType, Planners
<1>4. SideType'
  BY <1>0, SideParts, Spending DEF SideType
<1>5. /\ todo' \in [Planners -> SUBSET DOMAIN comments'] /\ found' \in [Planners -> RunId']
      /\ \A p \in Planners : PlannerInv(p)'
  BY <1>0, <1>2, <1>3, TypeKept, PlannerKept DEF BoardOK, PlansInv
<1>6. snap' \in [Planners -> [comments : Seq(Comment), draft : BOOLEAN]]
  BY <1>0 DEF TypeOK
<1>7. PlansInv'
  BY <1>0, <1>2, <1>3, <1>4, <1>5, <1>6, BoardStep
<1> QED BY <1>0, <1>2, <1>3, <1>7 DEF Steady, BoardOK

LEMMA UploadPostStep ==
  ASSUME PlansInv, NEW p \in Planners, UploadPost(p)
  PROVE  PlansInv' /\ Steady
<1> DEFINE i == Latest(p)
           r == found[p]
           acks == todo[p] \ {i}
<1>0. /\ TypeOK /\ (Failure \/ NoFailure) /\ pc[p] = "upload" /\ Upload(p, acks)
      /\ UNCHANGED <<head, draft, merged, stale, runs, main>>
      /\ UNCHANGED <<store, lastRun, pending, events, closing, snap>>
      /\ Patch(i, r) \/ UNCHANGED comments
  BY DEF PlansInv, UploadPost, pr, runner, redis
<1>1. /\ todo[p] # {} /\ todo[p] \subseteq DOMAIN comments /\ r # 0 /\ r \in RunId
      /\ runs[r].phase = "ended" /\ runs[r].commit = comments[i].asked
      /\ Calm => runs[r].commit # 0
  BY <1>0 DEF PlansInv, PlannerInv, TypeOK
<1>2. i \in DOMAIN comments /\ r \in DOMAIN runs
  BY <1>0, <1>1, LatestIsLatest, TypeParts DEF RunId
<1>3. BoardOK
  <2>1. CASE Patch(i, r)
    BY <1>0, <1>1, <1>2, <2>1, Spending, PatchedBoard
  <2>2. CASE UNCHANGED comments
    BY <1>0, <2>2, Spending, AddNone, AddedBoard
  <2> QED BY <1>0, <2>1, <2>2
<1>4. /\ Moved(p) /\ (pc'[p] \notin {"read", "upload"} \/ (pc'[p] = "read" /\ todo'[p] # {}))
      /\ pc'[p] # "decide"
  BY <1>0, UploadMoves DEF Moved
<1>5. todo' \in [Planners -> SUBSET DOMAIN comments'] /\ found' \in [Planners -> RunId']
  <2>1. acks \in SUBSET DOMAIN comments'
    BY <1>0, <1>1, <1>3, GrowsDomains DEF BoardOK
  <2> QED BY <1>0, <1>3, <2>1, UploadTypes DEF BoardOK
<1>6. \A q \in Planners : PlannerInv(q)'
  <2>1. PlannerInv(p)'
    BY <1>0, <1>3, <1>4, PlannerKept DEF BoardOK, PlansInv
  <2> QED BY <1>3, <1>4, <2>1, PlannerOthers DEF BoardOK
<1>7. SideType'
  BY <1>0, SpendingSide
<1>8. snap' \in [Planners -> [comments : Seq(Comment), draft : BOOLEAN]]
  BY <1>0 DEF TypeOK
<1>9. Steady
  BY <1>0, <1>3, <1>4 DEF Steady, BoardOK, Moved
<1> QED BY <1>0, <1>3, <1>4, <1>5, <1>6, <1>7, <1>8, <1>9, BoardStep DEF Moved

LEMMA WatchStep ==
  ASSUME PlansInv, Watch
  PROVE  PlansInv' /\ Steady
<1> DEFINE key == Head(events)
           r == store[key]
           i == runs[r].comment
<1>0. /\ TypeOK /\ (Failure \/ NoFailure) /\ events # <<>> /\ events' = Tail(events)
      /\ UNCHANGED <<head, draft, merged, stale, runs, main>>
      /\ UNCHANGED <<lastRun, closing, pc, snap, todo, found>>
  BY DEF PlansInv, Watch, Cleanup, pr, runner, planner
<1>1. key \in Key /\ events' \in Seq(Key)
  <2>1. events \in Seq(Key)
    BY <1>0 DEF TypeOK
  <2> QED BY <1>0, <2>1, HeadTailProperties
<1>2. /\ store' = store \/ store' = [c \in Commit |-> 0]
      /\ pending' \in {pending, FALSE}
  BY DEF Watch, Cleanup, Cleaned
<1>3. \/ comments' = Append(comments, ApplyOutput)
      \/ key # LastRun /\ r # 0 /\ Patch(i, r)
      \/ UNCHANGED comments
  BY DEF Watch, Post
<1>4. BoardOK
  <2>1. CASE comments' = Append(comments, ApplyOutput)
    BY <1>0, <2>1, Spending, AddNone, AddOne, AddedBoard
  <2>2. CASE key # LastRun /\ r # 0 /\ Patch(i, r)
    <3>1. key \in Commit
      BY <1>1, <2>2 DEF Key
    <3>2. r \in DOMAIN runs
      BY <1>0, <2>2, <3>1, TypeParts DEF TypeOK, RunId
    <3>3. i \in DOMAIN comments
      BY <1>0, <3>2, ElementTypes
    <3>4. runs[r].phase = "ended" /\ (Calm => runs[r].commit # 0)
      BY <2>2, <3>1 DEF PlansInv, StoreInv
    <3> QED BY <1>0, <2>2, <3>2, <3>3, <3>4, Spending, PatchedBoard
  <2>3. CASE UNCHANGED comments
    BY <1>0, <2>3, Spending, AddNone, AddedBoard
  <2> QED BY <1>3, <2>1, <2>2, <2>3
<1>5. SideType' /\ PCType'
  BY <1>0, <1>1, <1>2, SideParts, Spending DEF SideType, PCType
<1>6. /\ todo' \in [Planners -> SUBSET DOMAIN comments'] /\ found' \in [Planners -> RunId']
      /\ \A p \in Planners : PlannerInv(p)'
  BY <1>0, <1>4, TypeKept, PlannerKept DEF BoardOK, PlansInv
<1>7. snap' \in [Planners -> [comments : Seq(Comment), draft : BOOLEAN]]
  BY <1>0 DEF TypeOK
<1>8. Steady
  BY <1>0, <1>4 DEF Steady, BoardOK
<1> QED BY <1>0, <1>2, <1>4, <1>5, <1>6, <1>7, <1>8, BoardStep

LEMMA PlanAsks ==
  ASSUME TypeOK, NEW cs, Added(cs), NEW user, Plan(cs, user)
  PROVE  Added(comments') /\ Asks(user)
<1>1. /\ comments' = Append(cs, Ack(head))
      /\ runs' = Append(runs, [comment |-> Len(cs) + 1, user |-> user,
                               commit |-> 0, phase |-> "asked"])
  BY DEF Plan
<1>2. /\ Added(comments') /\ Len(comments') = Len(cs) + 1 /\ Len(cs) \in Nat
      /\ comments'[Len(cs) + 1] = Ack(head)
  BY <1>1, AddOne
<1>3. Len(comments') \in DOMAIN comments'
  BY <1>2, LenProperties DEF Added
<1> QED BY <1>1, <1>2, <1>3 DEF Asks

\* Decide adds comments, and asks for at most one run; of the commit only if the
\* planner saw neither output nor acknowledgement.
LEMMA DecideAsks ==
  ASSUME TypeOK, NEW p \in Planners, Decide(p)
  PROVE  /\ Added(comments')
         /\ UNCHANGED runs \/ Asks(TRUE) \/ (WantsCommit(p) /\ Asks(FALSE))
<1> DEFINE noticed == comments \o Notices(p)
<1>0. Added(comments) /\ Added(noticed) /\ Added(Append(noticed, Ack(head)))
  BY AddNone, AddNotices, AddOne
<1>1. ASSUME NEW cs \in {comments, noticed}, Plan(cs, ~ WantsCommit(p))
      PROVE  Added(comments') /\ (Asks(TRUE) \/ (WantsCommit(p) /\ Asks(FALSE)))
  <2>1. Added(comments') /\ Asks(~ WantsCommit(p))
    BY <1>0, <1>1, PlanAsks
  <2>2. CASE WantsCommit(p)
    <3>1. (~ WantsCommit(p)) = FALSE
      BY <2>2
    <3> QED BY <2>1, <2>2, <3>1, Zenon
  <2>3. CASE ~ WantsCommit(p)
    <3>1. (~ WantsCommit(p)) = TRUE
      BY <2>3
    <3> QED BY <2>1, <3>1, Zenon
  <2> QED BY <2>2, <2>3
<1>2. \/ \E cs \in {comments, noticed} : Plan(cs, ~ WantsCommit(p))
      \/ comments' \in {comments, noticed, Append(noticed, Ack(head))} /\ UNCHANGED runs
  BY DEF Decide
<1> QED BY <1>0, <1>1, <1>2

LEMMA DecideStep ==
  ASSUME PlansInv, NEW p \in Planners, Decide(p)
  PROVE  /\ PlansInv' /\ Grows /\ UNCHANGED head /\ pc'[p] # "decide"
         /\ \A q \in Planners \ {p} : snap'[q] = snap[q] /\ pc'[q] = pc[q]
<1>0. /\ TypeOK /\ (Failure \/ NoFailure) /\ snap' = [snap EXCEPT ![p] = NoSnap]
      /\ UNCHANGED <<head, draft, merged, stale, main>>
      /\ UNCHANGED <<store, lastRun, pending, events, closing>>
  BY DEF PlansInv, Decide, pr, redis
<1>1. BoardOK
  BY <1>0, DecideAsks, Spending, AddedBoard
<1>2. PICK acks \in {Acks(p), {}} : Upload(p, acks)
  BY DEF Decide
<1>3. Acks(p) \subseteq DOMAIN comments
  <2>1. /\ snap[p].comments \in Seq(Comment) /\ Len(snap[p].comments) <= Len(comments)
    BY <1>0 DEF TypeOK
  <2> QED BY <1>0, <2>1, LenProperties, TypeParts DEF Acks
<1>4. todo' \in [Planners -> SUBSET DOMAIN comments'] /\ found' \in [Planners -> RunId']
  <2>1. acks \in SUBSET DOMAIN comments'
    BY <1>0, <1>1, <1>3, GrowsDomains DEF BoardOK
  <2> QED BY <1>0, <1>1, <1>2, <2>1, UploadTypes DEF BoardOK
<1>5. /\ Moved(p) /\ (pc'[p] \notin {"read", "upload"} \/ (pc'[p] = "read" /\ todo'[p] # {}))
      /\ pc'[p] # "decide"
  BY <1>0, <1>2, UploadMoves, SnapTypes DEF Moved
<1>6. \A q \in Planners : PlannerInv(q)'
  <2>1. PlannerInv(p)'
    BY <1>0, <1>1, <1>5, SnapTypes, PlannerKept DEF BoardOK, PlansInv
  <2> QED BY <1>1, <1>5, <2>1, PlannerOthers DEF BoardOK
<1>7. SideType'
  BY <1>0, SpendingSide
<1>8. PlansInv'
  BY <1>0, <1>1, <1>4, <1>5, <1>6, <1>7, SnapTypes, BoardStep DEF Moved
<1> QED BY <1>1, <1>5, <1>8 DEF BoardOK, Moved

-----------------------------------------------------------------------------
(* The theorems on types and outputs.                                      *)

LEMMA PlansInit ==
  ASSUME Init
  PROVE  PlansInv
<1>1. /\ head = 1 /\ comments = <<>> /\ stale = {} /\ runs = <<>> /\ events = <<>>
      /\ DOMAIN comments = {} /\ DOMAIN runs = {} /\ Len(comments) = 0 /\ Len(runs) = 0
  BY DEF Init
<1>2. comments \in Seq(Comment) /\ runs \in Seq(Run) /\ events \in Seq(Key)
  BY <1>1, EmptySeq
<1>3. NoSnap \in [comments : Seq(Comment), draft : BOOLEAN] /\ Len(NoSnap.comments) = 0
      /\ DOMAIN NoSnap.comments = {}
  BY EmptySeq DEF NoSnap
<1>4. MaxChanges \in Nat /\ MaxFailures \in Nat
  BY PlannerAssumption
<1>5. TypeOK
  <2>1. SideType /\ PCType
    <3>1. PCType
      BY DEF Init, PCType
    <3>2. draft \in BOOLEAN
      BY PlannerAssumption DEF Init
    <3>3. /\ merged = FALSE /\ main = "none" /\ lastRun = "other" /\ pending = FALSE
          /\ closing = FALSE /\ changes = 0 /\ failures = 0
      BY DEF Init
    <3>4. head \in 1..MaxChanges + 1 /\ changes \in 0..MaxChanges /\ failures \in 0..MaxFailures
      BY <1>1, <1>4, <3>3
    <3> QED BY <1>2, <3>1, <3>2, <3>3, <3>4 DEF SideType
  <2>2. /\ snap \in [Planners -> [comments : Seq(Comment), draft : BOOLEAN]]
        /\ \A p \in Planners : Len(snap[p].comments) <= Len(comments)
    BY <1>1, <1>3 DEF Init
  <2>3. RunId = {0}
    BY <1>1 DEF RunId
  <2>4. store \in [Commit -> RunId] /\ found \in [Planners -> RunId]
    BY <2>3 DEF Init
  <2>5. todo \in [Planners -> SUBSET DOMAIN comments]
    BY DEF Init
  <2> QED BY <1>1, <1>2, <2>1, <2>2, <2>4, <2>5 DEF TypeOK, SideType, PCType
<1>6. head <= changes + 1
  BY DEF Init
<1>7. \A c \in Commit : StoreInv(c)
  BY DEF Init, StoreInv
<1>8. \A p \in Planners : PlannerInv(p)
  BY <1>3 DEF Init, PlannerInv
<1> QED BY <1>1, <1>5, <1>6, <1>7, <1>8 DEF PlansInv

LEMMA PlansStep ==
  ASSUME PlansInv, [Next]_vars
  PROVE  PlansInv'
<1>1. CASE UNCHANGED vars
  <2>0. /\ UNCHANGED <<head, changes, failures, stale>>
        /\ UNCHANGED <<comments, runs, store, pc, snap, todo, found>>
    BY <1>1 DEF vars, pr, board, runner, redis, planner, spent
  <2>1. TypeOK'
    BY <1>1 DEF vars, pr, board, runner, redis, planner, spent, PlansInv, TypeOK, RunId
  <2>2. \A i \in DOMAIN comments' : CommentInv(i)'
    BY <2>0 DEF PlansInv, CommentInv, Calm
  <2>3. \A r \in DOMAIN runs' : RunInv(r)'
    BY <2>0 DEF PlansInv, RunInv, Calm
  <2>4. \A c \in Commit : StoreInv(c)'
    BY <2>0 DEF PlansInv, StoreInv, Calm
  <2>5. \A p \in Planners : PlannerInv(p)'
    BY <2>0 DEF PlansInv, PlannerInv, Calm, Latest
  <2> QED BY <2>0, <2>1, <2>2, <2>3, <2>4, <2>5 DEF PlansInv
<1>2. ASSUME NEW p \in Planners, Process(p)
      PROVE  PlansInv'
  BY <1>2, FetchStep, DecideStep, UploadReadStep, UploadPostStep DEF Process
<1>3. ASSUME NEW r \in DOMAIN runs, Work(r)
      PROVE  PlansInv'
  BY <1>3, BeginRunStep, EndRunStep DEF Work
<1>4. ASSUME Aside
      PROVE  PlansInv'
  BY <1>4, AsideStep
<1> QED BY <1>1, <1>2, <1>3, <1>4, PushAside, OutsideAside, DefaultAside, AskForPlanStep,
        WatchStep, CrashStep DEF Next

\* What comments, runs, keys and planners say of each other is true in every
\* reachable state (requests.go, outputs.go).
THEOREM PlannerInvariant == Spec => []PlansInv
<1> QED BY PlansInit, PlansStep, PTL DEF Spec

\* Every variable of the planner keeps its type; what refers to a run or a comment
\* refers to one there is (requests.go, outputs.go).
THEOREM TypeCorrect == Spec => []TypeOK
<1>1. PlansInv => TypeOK
  BY DEF PlansInv
<1> QED BY <1>1, PlannerInvariant, PTL

\* The output that takes the place of an acknowledgement is that of an ended run,
\* the one it announced or one of the commit it names, whether the watcher or
\* uploadRequestOutput put it there, and whatever fails.
THEOREM OutputsAreTheRequested == Spec => []OutputMatchesRequest
<1>1. PlansInv => OutputMatchesRequest
  BY DEF PlansInv, CommentInv, OutputMatchesRequest
<1> QED BY <1>1, PlannerInvariant, PTL

-----------------------------------------------------------------------------
(* How often a plan is asked for.                                          *)

LEMMA PlannersFinite ==
  IsFiniteSet(Planners) /\ Cardinality(Planners) \in Nat
<1>1. IsFiniteSet(Hooks \cup {Poller})
  BY PlannerAssumption, FS_AddElement
<1>2. Hooks \cup {Poller} = Planners
  BY DEF Planners
<1> QED BY <1>1, <1>2, FS_CardinalityType

LEMMA AskedFinite ==
  ASSUME TypeOK, NEW c
  PROVE  IsFiniteSet(Asked(c)) /\ Cardinality(Asked(c)) \in Nat /\ Asked(c) \subseteq DOMAIN runs
<1>1. IsFiniteSet(DOMAIN runs)
  BY TypeParts, FS_Interval
<1>2. Asked(c) \in SUBSET DOMAIN runs
  BY DEF Asked
<1> QED BY <1>1, <1>2, FS_Subset, FS_CardinalityType

LEMMA LateFinite ==
  IsFiniteSet(Late) /\ Cardinality(Late) \in Nat /\ Cardinality(Late) <= Cardinality(Planners)
<1>1. Late \in SUBSET Planners
  BY DEF Late
<1> QED BY <1>1, PlannersFinite, FS_Subset, FS_CardinalityType

\* Once the latest commit has been asked for, the PR says so.
LEMMA AskedIsOnBoard ==
  ASSUME PlansInv, Calm, Asked(head) # {}
  PROVE  OutputPosted(comments, head) \/ AckPosted(comments, head)
<1>0. TypeOK /\ head \in Nat /\ head # 0
  BY TypeParts DEF PlansInv
<1>1. PICK r \in DOMAIN runs : comments[runs[r].comment].asked = head
  BY DEF Asked
<1> DEFINE i == runs[r].comment
           q == comments[i].run
<1>2. i \in DOMAIN comments /\ CommentInv(i)
  BY <1>0, ElementTypes DEF PlansInv
<1>3. CASE comments[i] = Ack(head)
  <2>1. i \in DOMAIN comments \ stale
    BY <1>2 DEF Calm
  <2> QED BY <1>3, <2>1 DEF AckPosted
<1>4. CASE q # 0
  <2>1. q \in DOMAIN runs /\ runs[q].commit # 0 /\ (runs[q].comment = i \/ runs[q].commit = head)
    BY <1>1, <1>2, <1>4 DEF CommentInv
  <2>2. runs[q].commit <= head /\ runs[q].commit \in Nat
    BY <1>0, <2>1, ElementTypes DEF PlansInv, RunInv
  <2>3. runs[q].comment = i => head <= runs[q].commit
    BY <1>1, <2>1 DEF PlansInv, RunInv
  <2>4. runs[q].commit = head
    BY <1>0, <2>1, <2>2, <2>3
  <2> QED BY <1>2, <1>4, <2>4 DEF OutputPosted
<1> QED BY <1>0, <1>1, <1>2, <1>3, <1>4 DEF CommentInv

\* What a planner has seen of a commit it goes on to have seen.
LEMMA LateKept ==
  ASSUME PlansInv, Grows, Calm', head' = head, NEW p \in Planners, snap'[p] = snap[p],
         pc'[p] = pc[p], p \in Late'
  PROVE  p \in Late
<1> DEFINE s == snap[p].comments
<1>1. ~ OutputPosted(s, head)' /\ ~ AckPosted(s, head)' /\ pc[p] = "decide"
  BY DEF Late
<1>2. \A i \in DOMAIN s : s[i].run # 0 => /\ s[i].run \in DOMAIN runs
                                        /\ runs'[s[i].run].commit = runs[s[i].run].commit
  BY DEF PlansInv, PlannerInv, Grows
<1>3. stale' = {}
  BY DEF Calm
<1>4. ~ OutputPosted(s, head)
  BY <1>1, <1>2 DEF OutputPosted
<1>5. ~ AckPosted(s, head)
  BY <1>1, <1>3 DEF AckPosted, Ack, Request
<1> QED BY <1>1, <1>4, <1>5 DEF Late

\* The runs asked for are those there were, while their comments name what they named.
LEMMA AskedKept ==
  ASSUME TypeOK, Grows, Len(runs') = Len(runs), NEW c
  PROVE  Asked(c)' = Asked(c)
<1>1. DOMAIN runs' = DOMAIN runs
  BY GrowsDomains, TypeParts
<1>2. \A r \in DOMAIN runs : /\ runs'[r].user = runs[r].user
                             /\ comments'[runs'[r].comment].asked = comments[runs[r].comment].asked
  BY ElementTypes DEF Grows
<1> QED BY <1>1, <1>2 DEF Asked

LEMMA StormSteady ==
  ASSUME PlansInv, StormInv, Steady
  PROVE  StormInv'
<1> SUFFICES ASSUME Calm'
             PROVE  /\ \A c \in Commit : Cardinality(Asked(c)') <= Cardinality(Planners)
                    /\ Asked(head)' # {} =>
                         Cardinality(Asked(head)') + Cardinality(Late') <= Cardinality(Planners)
  BY DEF StormInv
<1>0. TypeOK /\ Calm /\ Grows /\ head' = head
  BY DEF PlansInv, Steady, Grows
<1>1. (\A c \in Commit : Asked(c)' = Asked(c)) /\ Asked(head)' = Asked(head)
  <2>1. \A c : Asked(c)' = Asked(c)
    BY <1>0, AskedKept DEF Steady
  <2> QED BY <1>0, <2>1 DEF Asked
<1>2. ASSUME Asked(head) # {}
      PROVE  Cardinality(Late') \in Nat /\ Cardinality(Late') <= Cardinality(Late)
  <2>1. ASSUME NEW p \in Planners, p \in Late' PROVE p \in Late
    <3>1. pc'[p] = "decide"
      BY <2>1 DEF Late
    <3>2. CASE snap'[p] = snap[p] /\ pc'[p] = pc[p]
      BY <1>0, <2>1, <3>2, LateKept
    <3>3. CASE snap'[p].comments = comments /\ UNCHANGED <<comments, runs, stale>>
      <4>1. OutputPosted(snap[p].comments, head)' \/ AckPosted(snap[p].comments, head)'
        <5>1. OutputPosted(comments, head) \/ AckPosted(comments, head)
          BY <1>0, <1>2, AskedIsOnBoard
        <5> QED BY <1>0, <3>3, <5>1 DEF OutputPosted, AckPosted, Ack, Request
      <4> QED BY <2>1, <4>1 DEF Late
    <3> QED BY <3>1, <3>2, <3>3 DEF Steady
  <2>2. Late' \in SUBSET Late
    BY <2>1 DEF Late
  <2> QED BY <2>2, LateFinite, FS_Subset, FS_CardinalityType
<1>3. \A c \in Commit : Cardinality(Asked(c)') <= Cardinality(Planners)
  BY <1>0, <1>1 DEF StormInv
<1>4. ASSUME Asked(head) # {}
      PROVE  Cardinality(Asked(head)) + Cardinality(Late') <= Cardinality(Planners)
  <2>1. Cardinality(Asked(head)) + Cardinality(Late) <= Cardinality(Planners)
    BY <1>0, <1>4 DEF StormInv
  <2>2. /\ Cardinality(Asked(head)) \in Nat /\ Cardinality(Late) \in Nat
        /\ Cardinality(Planners) \in Nat
    BY <1>0, AskedFinite, LateFinite, PlannersFinite
  <2> QED BY <1>2, <1>4, <2>1, <2>2
<1> QED BY <1>1, <1>3, <1>4

\* Nobody has asked for a commit that has just been pushed.
LEMMA StormPush ==
  ASSUME PlansInv, StormInv, Push
  PROVE  StormInv'
<1>0. TypeOK /\ Grows /\ UNCHANGED <<comments, runs>> /\ head' = head + 1 /\ head \in Nat
  BY PushAside, AsideGrows, TypeParts DEF PlansInv, Aside, Push
<1>1. \A c : Asked(c)' = Asked(c)
  BY <1>0, AskedKept
<1>2. Asked(head)' = {}
  <2>1. \A r \in DOMAIN runs : comments[runs[r].comment].asked # head + 1
    <3> TAKE r \in DOMAIN runs
    <3>1. /\ comments[runs[r].comment].asked <= head
          /\ comments[runs[r].comment].asked \in Nat
      BY <1>0, ElementTypes DEF PlansInv, CommentInv
    <3> QED BY <1>0, <3>1
  <2> QED BY <1>0, <2>1 DEF Asked
<1>3. ASSUME Calm' PROVE \A c \in Commit : Cardinality(Asked(c)') <= Cardinality(Planners)
  BY <1>0, <1>1, <1>3 DEF StormInv, Grows
<1> QED BY <1>2, <1>3 DEF StormInv

\* A plan asked for a plan comment is not counted.
LEMMA DecideUser ==
  ASSUME PlansInv, Grows, Asks(TRUE), NEW c
  PROVE  Asked(c)' = Asked(c)
<1>0. TypeOK
  BY DEF PlansInv
<1>1. /\ DOMAIN runs' = DOMAIN runs \cup {Len(runs) + 1}
      /\ runs'[Len(runs) + 1].user = TRUE
      /\ \A r \in DOMAIN runs : runs'[r] = runs[r]
  <2>1. Len(comments') \in Nat /\ DOMAIN runs = 1 .. Len(runs) /\ Len(runs) \in Nat
    BY <1>0, GrowsDomains, TypeParts
  <2>2. /\ DOMAIN runs' = 1 .. Len(runs) + 1
        /\ \A r \in DOMAIN runs : runs'[r] = runs[r]
        /\ runs'[Len(runs) + 1] = [comment |-> Len(comments'), user |-> TRUE,
                                   commit |-> 0, phase |-> "asked"]
    BY <1>0, <2>1, AskedRun
  <2>3. 1 .. Len(runs) + 1 = 1 .. Len(runs) \cup {Len(runs) + 1}
    BY <2>1
  <2> QED BY <2>1, <2>2, <2>3
<1>2. \A r \in DOMAIN runs : comments'[runs[r].comment].asked = comments[runs[r].comment].asked
  BY <1>0, ElementTypes DEF Grows
<1> QED BY <1>1, <1>2 DEF Asked

\* One that is asked for the latest commit is.
LEMMA DecideCommit ==
  ASSUME PlansInv, Grows, UNCHANGED head, Asks(FALSE)
  PROVE  /\ Asked(head)' = Asked(head) \cup {Len(runs) + 1}
         /\ Len(runs) + 1 \notin Asked(head)
         /\ \A c \in Commit \ {head} : Asked(c)' = Asked(c)
<1>0. TypeOK
  BY DEF PlansInv
<1>1. /\ DOMAIN runs' = DOMAIN runs \cup {Len(runs) + 1}
      /\ runs'[Len(runs) + 1].user = FALSE
      /\ runs'[Len(runs) + 1].comment = Len(comments')
      /\ \A r \in DOMAIN runs : runs'[r] = runs[r]
  <2>1. Len(comments') \in Nat /\ DOMAIN runs = 1 .. Len(runs) /\ Len(runs) \in Nat
    BY <1>0, GrowsDomains, TypeParts
  <2>2. /\ DOMAIN runs' = 1 .. Len(runs) + 1
        /\ \A r \in DOMAIN runs : runs'[r] = runs[r]
        /\ runs'[Len(runs) + 1] = [comment |-> Len(comments'), user |-> FALSE,
                                   commit |-> 0, phase |-> "asked"]
    BY <1>0, <2>1, AskedRun
  <2>3. 1 .. Len(runs) + 1 = 1 .. Len(runs) \cup {Len(runs) + 1}
    BY <2>1
  <2> QED BY <2>1, <2>2, <2>3
<1>2. \A r \in DOMAIN runs : comments'[runs[r].comment].asked = comments[runs[r].comment].asked
  BY <1>0, ElementTypes DEF Grows
<1>3. comments'[Len(comments')].asked = head
  BY <1>0, CommentTypes DEF Asks
<1>4. Len(runs) + 1 \notin DOMAIN runs
  BY <1>0, TypeParts
<1> QED BY <1>1, <1>2, <1>3, <1>4 DEF Asked

LEMMA StormDecide ==
  ASSUME PlansInv, StormInv, NEW p \in Planners, Decide(p)
  PROVE  StormInv'
<1>0. /\ TypeOK /\ Grows /\ head' = head /\ pc[p] = "decide" /\ pc'[p] # "decide"
      /\ \A q \in Planners \ {p} : snap'[q] = snap[q] /\ pc'[q] = pc[q]
  BY DecideStep DEF PlansInv, Decide
<1>1. UNCHANGED runs \/ Asks(TRUE) \/ (WantsCommit(p) /\ Asks(FALSE))
  BY <1>0, DecideAsks
<1>2. CASE UNCHANGED runs
  BY <1>0, <1>2, StormSteady DEF Steady
<1> SUFFICES ASSUME Calm' PROVE StormInv'
  BY DEF StormInv
<1>3. Calm /\ Late' \in SUBSET (Late \ {p})
  <2>1. ASSUME NEW q \in Late' PROVE q \in Late \ {p}
    <3>1. q \in Planners /\ pc'[q] = "decide"
      BY DEF Late
    <3> QED BY <1>0, <3>1, LateKept
  <2> QED BY <1>0, <2>1 DEF Grows
<1>4. /\ IsFiniteSet(Late \ {p}) /\ Cardinality(Late') \in Nat
      /\ Cardinality(Late') <= Cardinality(Late \ {p}) /\ Cardinality(Late \ {p}) \in Nat
      /\ Cardinality(Late \ {p}) = IF p \in Late THEN Cardinality(Late) - 1
                                                 ELSE Cardinality(Late)
  BY <1>3, LateFinite, FS_RemoveElement, FS_Subset, FS_CardinalityType
<1>5. /\ Cardinality(Asked(head)) \in Nat /\ IsFiniteSet(Asked(head))
      /\ Cardinality(Late) \in Nat /\ Cardinality(Planners) \in Nat
  BY <1>0, AskedFinite, LateFinite, PlannersFinite
<1>6. \A c \in Commit : Cardinality(Asked(c)) <= Cardinality(Planners)
  BY <1>3 DEF StormInv
<1>7. CASE Asks(TRUE)
  <2>1. \A c : Asked(c)' = Asked(c)
    BY <1>0, <1>7, DecideUser
  <2>2. Asked(head)' = Asked(head)
    BY <1>0, <2>1 DEF Asked
  <2>3. ASSUME Asked(head) # {}
        PROVE  Cardinality(Asked(head)) + Cardinality(Late') <= Cardinality(Planners)
    <3>1. Cardinality(Asked(head)) + Cardinality(Late) <= Cardinality(Planners)
      BY <1>3, <2>3 DEF StormInv
    <3> QED BY <1>4, <1>5, <3>1
  <2> QED BY <1>6, <2>1, <2>2, <2>3 DEF StormInv
<1>8. CASE WantsCommit(p) /\ Asks(FALSE)
  <2>1. p \in Late
    BY <1>0, <1>8 DEF WantsCommit, Late
  <2>2. Cardinality(Late') <= Cardinality(Late) - 1
    BY <1>4, <1>5, <2>1
  <2>3. /\ Asked(head)' = Asked(head) \cup {Len(runs) + 1}
        /\ Len(runs) + 1 \notin Asked(head)
        /\ \A c \in Commit \ {head} : Asked(c)' = Asked(c)
    BY <1>0, <1>8, DecideCommit
  <2>4. Cardinality(Asked(head)') = Cardinality(Asked(head)) + 1
    BY <1>5, <2>3, FS_AddElement
  <2>5. Cardinality(Asked(head)) + Cardinality(Late) <= Cardinality(Planners)
    <3>1. CASE Asked(head) # {}
      BY <1>3, <3>1 DEF StormInv
    <3>2. CASE Asked(head) = {}
      <4>1. Cardinality(Asked(head)) = 0
        BY <3>2, FS_EmptySet
      <4> QED BY <1>5, <4>1, LateFinite
    <3> QED BY <3>1, <3>2
  <2>6. Cardinality(Asked(head)') + Cardinality(Late') <= Cardinality(Planners)
    BY <1>4, <1>5, <2>2, <2>4, <2>5
  <2>7. Cardinality(Asked(head)') <= Cardinality(Planners)
    BY <1>4, <1>5, <2>4, <2>6
  <2>8. ASSUME NEW c \in Commit
        PROVE  Cardinality(Asked(c)') <= Cardinality(Planners)
    <3>1. CASE c = head
      <4>1. Asked(c)' = Asked(head)'
        BY <1>0, <3>1 DEF Asked
      <4> QED BY <2>7, <4>1
    <3>2. CASE c # head
      BY <1>6, <2>3, <3>2
    <3> QED BY <3>1, <3>2
  <2> QED BY <2>6, <2>8 DEF StormInv
<1> QED BY <1>1, <1>2, <1>7, <1>8

LEMMA StormStep ==
  ASSUME PlansInv, StormInv, [Next]_vars
  PROVE  StormInv'
<1>1. CASE UNCHANGED vars
  BY <1>1 DEF vars, pr, board, runner, redis, planner, spent, StormInv, Calm, Asked, Late,
              OutputPosted, AckPosted, Ack, Request
<1>2. ASSUME NEW p \in Planners, Process(p)
      PROVE  StormInv'
  BY <1>2, FetchStep, UploadReadStep, UploadPostStep, StormSteady, StormDecide DEF Process
<1>3. ASSUME NEW r \in DOMAIN runs, Work(r)
      PROVE  StormInv'
  BY <1>3, BeginRunStep, EndRunStep, StormSteady DEF Work
<1>4. ASSUME Crash
      PROVE  StormInv'
  <2>1. Failure /\ TypeOK
    BY <1>4 DEF Crash, PlansInv
  <2>2. ~ Calm'
    BY <2>1, Spending DEF Calm
  <2> QED BY <2>2 DEF StormInv
<1>5. ASSUME Steady
      PROVE  StormInv'
  BY <1>5, StormSteady
<1> QED BY <1>1, <1>2, <1>3, <1>4, <1>5, StormPush, OutsideAside, DefaultAside,
        AskForPlanStep, WatchStep DEF Next

\* Unless a call fails or a plan takes more than ten minutes, checkPRCommits of the
\* poller and of any number of webhook goroutines asks for a plan of a commit no
\* more often than there are goroutines.
THEOREM NoPlanIsAskedForTooOften == Spec => []NoPlanStorm
<1>1. Init => StormInv
  <2> SUFFICES ASSUME Init PROVE StormInv
    OBVIOUS
  <2>1. \A c : Asked(c) = {}
    BY DEF Init, Asked
  <2> QED BY <2>1, FS_EmptySet, PlannersFinite DEF StormInv
<1>2. PlansInv /\ StormInv /\ [Next]_vars => StormInv'
  BY StormStep
<1>3. StormInv => NoPlanStorm
  BY DEF StormInv, NoPlanStorm, Calm
<1> QED BY <1>1, <1>2, <1>3, PlannerInvariant, PTL DEF Spec

=============================================================================
