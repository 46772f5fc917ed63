--------------------- MODULE DataLifecycleReadersProofs ---------------------
(***************************************************************************)
(* Proofs about what readers of DataLifecycle's collections see, for any   *)
(* number of Jobs, pages and disturbances: until a pod ends between a move *)
(* of the alias and the deletion after it, they have a whole collection    *)
(* for as long as no deletion is requested, and no longer the one they had *)
(* once it is done.                                                        *)
(***************************************************************************)
EXTENDS DataLifecycleProofs

-----------------------------------------------------------------------------
(* The inductive invariant.  A collection that readers have had is never   *)
(* staged or promoted again, so a collection looked up to be deleted       *)
(* remains one that readers have left.                                     *)

\* A restore that may still move the alias to its collection.
Staging(p) ==
  /\ jobs[p] # None
  /\ jobs[p].kind = "restore" /\ jobs[p].state = "running"
  /\ jobs[p].step \notin {"dropOld", "report"}

\* A collection that readers may have had.
Past(p) == p # None => p <= used /\ ~Staging(p)

\* What a Job has looked up is past, and what it deletes has been left; an export is of whole
\* collections; and only a deletion has a cleanup.
JobWhole(j) ==
  jobs[j] # None =>
    /\ Past(jobs[j].target)
    /\ jobs[j].step \in {"dropOld", "dropTarget"} => jobs[j].target \in {None} \/ jobs[j].target # alias
    /\ jobs[j].step = "export" => Len(jobs[j].got) <= Pages
    /\ jobs[j].step = "upload" => Len(jobs[j].got) = Pages
    /\ jobs[j].kind = "cleanup" => doomed # None

Whole(c) == c # None /\ Len(c) = Pages

ReadersInv ==
  /\ Past(alias) /\ Past(doomed)
  /\ alias = None => doomed # None
  /\ alias # None => Whole(collections[alias])
  /\ \A j \in JobNames : JobWhole(j)
  /\ \A i \in Ids : uploads[i] # None => Len(uploads[i]) = Pages
  /\ kb = "deleting" => doomed # None

UntilInterrupted == ~interrupted => ReadersInv

-----------------------------------------------------------------------------
(* The kinds of steps.                                                     *)

NewJobStep ==
  \E o \in Objects, from \in Ids \union {None} :
    /\ used < MaxIds /\ used' = used + 1
    /\ jobs' = [jobs EXCEPT ![used'] = NewJob(o, from)]
    /\ UNCHANGED <<alias, collections, uploads, interrupted, kb, doomed>>

QuietStep == UNCHANGED <<alias, collections, uploads, jobs, used, interrupted, kb, doomed>>

PodStep(j) == (Pod(j) \/ Kill(j) \/ Lose(j)) /\ UNCHANGED lifecycleVars

LEMMA StepKinds ==
  ASSUME LifecycleInv, [Next]_vars
  PROVE  \/ \E j \in JobNames : PodStep(j)
         \/ Ingest /\ UNCHANGED lifecycleVars
         \/ NewJobStep
         \/ CleanupPass
         \/ DeleteKnowledgeBase
         \/ CreateKnowledgeBase
         \/ QuietStep
  <1>1. ASSUME NEW o \in Objects, Pass(o)
        PROVE  NewJobStep \/ QuietStep
    <2>1. CASE CreateJob(o)
      <3>1. CASE /\ used < MaxIds
                 /\ used' = used + 1
                 /\ jobs' = [jobs EXCEPT ![used'] =
                      NewJob(o, IF o = "restore" THEN obj["backup"].location ELSE None)]
                 /\ UNCHANGED <<obj, budget>>
        <4>1. PICK from \in Ids \union {None} :
                from = IF o = "restore" THEN obj["backup"].location ELSE None
          BY <2>1, RestoreArchive DEF CreateJob
        <4>. QED
          BY <2>1, <3>1, <4>1 DEF CreateJob, NewJobStep
      <3>2. CASE UNCHANGED <<used, jobs>>
        BY <2>1, <3>2 DEF CreateJob, QuietStep
      <3>. QED
        BY <2>1, <3>1, <3>2 DEF CreateJob
    <2>2. CASE ~CreateJob(o)
      BY <1>1, <2>2
      DEF Pass, AddFinalizer, RemoveFinalizer, Refuse, RecordJob, ForgetMissing, FailJob,
          ConsumeResult, RecordResult, storeVars, QuietStep
    <2>. QED
      BY <2>1, <2>2
  <1>2. ASSUME NEW o \in Objects, Crash(o) \/ Delete(o) \/ Suspend(o) \/ Create(o) \/ Resume(o)
        PROVE  QuietStep
    BY <1>2 DEF Crash, Delete, Suspend, Create, Resume, storeVars, QuietStep
  <1>3. UNCHANGED vars => QuietStep
    BY DEF vars, storeVars, lifecycleVars, QuietStep
  <1>. QED
    BY <1>1, <1>2, <1>3 DEF Next, System, Pods, Disturb, Wish, PodStep

\* A pod's step changes its own Job.
LEMMA PodStepJob ==
  ASSUME LifecycleInv, NEW j \in JobNames, PodStep(j)
  PROVE  /\ jobs[j] # None /\ jobs[j] \in Jobs /\ JobOK(j)
         /\ \A i \in JobNames : i # j => jobs'[i] = jobs[i]
         /\ UNCHANGED <<used, kb, doomed>>
  <1>1. jobs[j] # None /\ UNCHANGED <<used, kb, doomed>>
    BY DEF PodStep, Pod, Kill, Lose, Raise, Running, At, Export, Upload, Report, Download,
           Recreate, Fill, Verify, FindTarget, MoveAlias, DropOld, DropAlias, DropTarget,
           lifecycleVars
  <1>2. ASSUME NEW i \in JobNames, i # j
        PROVE  jobs'[i] = jobs[i]
    <2>1. \/ \E step : Goto(j, step)
          \/ \E state : Ends(j, state)
          \/ Restarts(j)
          \/ \E job : jobs' = [jobs EXCEPT ![j] = job]
      <3>1. CASE Pod(j)
        BY <3>1 DEF Pod, Raise, PodEnds, Export, Upload, Report, Download, Complete,
           Recreate, Fill, Verify, FindTarget, MoveAlias, DropOld, DropAlias, DropTarget
      <3>2. CASE Kill(j) \/ Lose(j)
        BY <3>2 DEF Kill, Lose, PodEnds
      <3>. QED
        BY <3>1, <3>2 DEF PodStep
    <2>. QED
      BY <1>2, <2>1 DEF Goto, Ends, Restarts, LifecycleInv, TypeOK, StoreTypeOK
  <1>. QED
    BY <1>1, <1>2, JobType DEF LifecycleInv, TypeOK

\* The Job of a pod that goes on.
LEMMA MovedJob ==
  ASSUME LifecycleInv, NEW j \in JobNames, jobs[j] # None, NEW step, Goto(j, step)
  PROVE  jobs' = [jobs EXCEPT ![j] = [jobs[j] EXCEPT !.step = step]]
         /\ jobs'[j] = [jobs[j] EXCEPT !.step = step]
         /\ jobs'[j].kind = jobs[j].kind /\ jobs'[j].state = jobs[j].state
         /\ jobs'[j].target = jobs[j].target /\ jobs'[j].got = jobs[j].got
         /\ jobs'[j].step = step
  <1>1. StoreTypeOK /\ jobs[j] \in Jobs /\ \A x : [jobs EXCEPT ![j] = x][j] = x
    BY JobType DEF LifecycleInv, TypeOK, StoreTypeOK
  <1>2. PICK job : job = [jobs[j] EXCEPT !.step = step]
    OBVIOUS
  <1>3. jobs' = [jobs EXCEPT ![j] = job]
    BY <1>2 DEF Goto
  <1>4. jobs'[j] = job
    BY <1>1, <1>3
  <1>5. /\ job.kind = jobs[j].kind /\ job.state = jobs[j].state
        /\ job.target = jobs[j].target /\ job.got = jobs[j].got /\ job.step = step
    BY <1>1, <1>2 DEF Jobs
  <1>. QED
    BY <1>2, <1>3, <1>4, <1>5

\* The Job of a pod that has read a page.
LEMMA ExportedJob ==
  ASSUME LifecycleInv, NEW j \in JobNames, jobs[j] # None, NEW page \in Ids,
         jobs' = [jobs EXCEPT ![j].got = Append(@, page)]
  PROVE  /\ jobs'[j].kind = jobs[j].kind /\ jobs'[j].step = jobs[j].step
         /\ jobs'[j].target = jobs[j].target
         /\ Len(jobs'[j].got) = Len(jobs[j].got) + 1
  <1>1. StoreTypeOK /\ jobs[j] \in Jobs /\ \A x : [jobs EXCEPT ![j] = x][j] = x
    BY JobType DEF LifecycleInv, TypeOK, StoreTypeOK
  <1>2. PICK job : job = [jobs[j] EXCEPT !.got = Append(jobs[j].got, page)]
    OBVIOUS
  <1>3. jobs' = [jobs EXCEPT ![j] = job]
    BY <1>2
  <1>4. jobs'[j] = job
    BY <1>1, <1>3
  <1>a. jobs[j].got \in Seq(Ids)
    BY <1>1 DEF Jobs
  <1>b. /\ Append(jobs[j].got, page) \in Seq(Ids)
        /\ Len(Append(jobs[j].got, page)) = Len(jobs[j].got) + 1
    BY <1>a
  <1>5. PICK got : got = Append(jobs[j].got, page)
    OBVIOUS
  <1>6. job.kind = jobs[j].kind /\ job.step = jobs[j].step /\ job.target = jobs[j].target
        /\ job.got = got
    BY <1>1, <1>2, <1>5, <1>b DEF Jobs
  <1>7. Len(got) = Len(jobs[j].got) + 1
    BY <1>b, <1>5
  <1>. QED
    BY <1>4, <1>6, <1>7

\* The Job of a pod that has ended.
LEMMA EndedJob ==
  ASSUME LifecycleInv, NEW j \in JobNames, jobs[j] # None,
         Restarts(j) \/ \E state \in {"complete", "failed"} : Ends(j, state)
  PROVE  /\ jobs'[j].kind = jobs[j].kind
         /\ jobs'[j].target = None /\ jobs'[j].got = <<>>
         /\ jobs'[j].step \in {"export", "download", "find"}
         /\ ~Restarts(j) => jobs'[j].state # "running"
  <1>1. /\ StoreTypeOK /\ jobs[j] \in Jobs
        /\ \A x : [jobs EXCEPT ![j] = x][j] = x
    BY JobType DEF LifecycleInv, TypeOK, StoreTypeOK
  <1>2. PICK fresh : fresh = Fresh(jobs[j])
    OBVIOUS
  <1>3. /\ fresh \in Jobs /\ fresh.kind = jobs[j].kind /\ fresh.target = None
        /\ fresh.step \in {"export", "download", "find"}
    BY <1>1, <1>2, FreshType
  <1>4. fresh.got = <<>>
    BY <1>1, <1>2 DEF Fresh, Jobs
  <1>6. CASE Restarts(j)
    <2>1. jobs'[j] = [fresh EXCEPT !.retries = jobs[j].retries - 1]
      BY <1>1, <1>2, <1>6 DEF Restarts
    <2>. QED
      BY <1>3, <1>4, <1>6, <2>1 DEF Jobs
  <1>7. ASSUME NEW state \in {"complete", "failed"}, Ends(j, state)
        PROVE  /\ jobs'[j].kind = jobs[j].kind
               /\ jobs'[j].target = None /\ jobs'[j].got = <<>>
               /\ jobs'[j].step \in {"export", "download", "find"}
               /\ jobs'[j].state # "running"
    <2>1. jobs'[j] = [fresh EXCEPT !.state = state]
      BY <1>1, <1>2, <1>7 DEF Ends
    <2>. QED
      BY <1>3, <1>4, <2>1 DEF Jobs
  <1>. QED
    BY <1>6, <1>7

\* No pod's step makes a Job stage that does not, but one that counts as an interruption.
LEMMA PodStaging ==
  ASSUME LifecycleInv, NEW j \in JobNames, PodStep(j), ~interrupted',
         NEW p \in JobNames, Staging(p)'
  PROVE  Staging(p)
  <1>1. /\ jobs[j] # None /\ jobs[j] \in Jobs /\ \A x : [jobs EXCEPT ![j] = x][j] = x
        /\ p # j => jobs'[p] = jobs[p]
    BY PodStepJob DEF LifecycleInv, TypeOK, StoreTypeOK
  <1>2. CASE p # j
    BY <1>1, <1>2 DEF Staging
  <1>3. CASE p = j /\ \E state \in {"complete", "failed"} : Ends(j, state)
    <2>1. ~Restarts(j) => jobs'[j].state # "running"
      BY <1>1, <1>3, EndedJob
    <2>2. Restarts(j) => FALSE
      <3>1. PICK fresh : fresh = Fresh(jobs[j])
        OBVIOUS
      <3>2. fresh \in Jobs /\ fresh.state = jobs[j].state
        BY <1>1, <3>1, FreshType
      <3>3. PICK state \in {"complete", "failed"} : Ends(j, state)
        BY <1>3
      <3>4. PICK job : job = [fresh EXCEPT !.state = state]
        OBVIOUS
      <3>5. jobs' = [jobs EXCEPT ![j] = job]
        BY <3>1, <3>3, <3>4 DEF Ends
      <3>6. jobs'[j].state = state
        <4>1. jobs'[j] = job
          BY <1>1, <3>5
        <4>2. job.state = state
          BY <3>2, <3>4 DEF Jobs
        <4>. QED
          BY <4>1, <4>2
      <3>. QED
        BY <1>3, <3>6 DEF Staging
    <2>. QED
      BY <1>3, <2>1, <2>2 DEF Staging
  <1>4. CASE p = j /\ Restarts(j) /\ Interrupted(j)
    <2>1. jobs'[j].kind = jobs[j].kind
      BY <1>1, <1>4, EndedJob
    <2>2. jobs'[j].state = jobs[j].state
      <3>1. PICK fresh : fresh = Fresh(jobs[j])
        OBVIOUS
      <3>2. fresh \in Jobs /\ fresh.state = jobs[j].state
        BY <1>1, <3>1, FreshType
      <3>. QED
        BY <1>1, <1>4, <3>1, <3>2 DEF Restarts, Jobs
    <2>. QED
      BY <1>1, <1>4, <2>1, <2>2 DEF Staging, Interrupted, Running
  <1>5. CASE p = j /\ (Raise(j) \/ Kill(j))
    BY <1>3, <1>4, <1>5 DEF Raise, Kill, PodEnds
  <1>6. CASE p = j /\ Lose(j)
    BY <1>1, <1>6 DEF Lose, Staging
  <1>7. CASE p = j /\ (Report(j) \/ (DropAlias(j) /\ jobs[j].target = None) \/ DropTarget(j))
    BY <1>3, <1>7 DEF Report, DropAlias, DropTarget, Complete
  <1>8. CASE p = j /\ (Export(j) \/ Upload(j))
    <2>1. CASE \E step : Goto(j, step)
      BY <1>1, <1>8, <2>1, MovedJob DEF Export, Upload, At, Staging
    <2>2. CASE ~\E step : Goto(j, step)
      <3>1. PICK page : /\ page = collections[alias][Len(jobs[j].got) + 1]
                        /\ jobs' = [jobs EXCEPT ![j].got = Append(@, page)]
                        /\ Len(jobs[j].got) < Len(collections[alias])
                        /\ alias # None /\ collections[alias] # None
        BY <1>8, <2>2 DEF Export, Upload
      <3>2. page \in Ids
        <4>1. collections[alias] \in Seq(Ids) /\ jobs[j].got \in Seq(Ids)
          BY <1>1, <3>1 DEF Jobs, LifecycleInv, TypeOK, StoreTypeOK
        <4>. QED
          BY <3>1, <4>1
      <3>. QED
        BY <1>1, <1>8, <3>1, <3>2, ExportedJob DEF Export, Upload, At, Staging
    <2>. QED
      BY <2>1, <2>2
  <1>9. CASE p = j /\ DropAlias(j) /\ jobs[j].target # None
    BY <1>1, <1>9, MovedJob DEF DropAlias, At, Staging
  <1>10. CASE p = j /\ (Download(j) \/ Recreate(j) \/ Fill(j) \/ Verify(j))
    BY <1>1, <1>10 DEF Download, Recreate, Fill, Verify, At, Staging
  <1>11. CASE p = j /\ FindTarget(j)
    <2>1. /\ jobs[j].state = "running" /\ jobs[j].step = "find"
          /\ jobs'[j].kind = jobs[j].kind
      BY <1>1, <1>11 DEF FindTarget, At, Jobs
    <2>. QED
      BY <1>1, <1>11, <2>1 DEF Staging
  <1>12. CASE p = j /\ (MoveAlias(j) \/ DropOld(j))
    BY <1>1, <1>12, MovedJob DEF MoveAlias, DropOld, Staging
  <1>. QED
    BY <1>2, <1>5, <1>6, <1>7, <1>8, <1>9, <1>10, <1>11, <1>12 DEF PodStep, Pod

LEMMA NewStaging ==
  ASSUME LifecycleInv, NewJobStep, NEW p \in Ids, p <= used
  PROVE  jobs'[p] = jobs[p]
  BY DEF NewJobStep, LifecycleInv, TypeOK, StoreTypeOK, Ids, JobNames

\* What is past remains so.
LEMMA PastKept ==
  ASSUME LifecycleInv, [Next]_vars, ~interrupted', NEW p \in Ids \union {None}, Past(p)
  PROVE  Past(p)'
  <1>1. SUFFICES ASSUME p # None
                 PROVE  p <= used' /\ ~Staging(p)'
    BY DEF Past
  <1>2. /\ p \in Ids /\ p \in JobNames /\ p # Cleanup /\ used \in Ids
        /\ p <= used /\ ~Staging(p)
    BY <1>1 DEF Past, JobNames, Ids, Cleanup, LifecycleInv, TypeOK, StoreTypeOK
  <1>3. ASSUME NEW j \in JobNames, PodStep(j)
        PROVE  p <= used' /\ ~Staging(p)'
    BY <1>2, <1>3, PodStaging, PodStepJob
  <1>4. CASE Ingest
    BY <1>2, <1>4 DEF Ingest, Staging, Ids
  <1>5. CASE NewJobStep
    <2>1. jobs'[p] = jobs[p]
      BY <1>2, <1>5, NewStaging
    <2>2. p <= used'
      BY <1>2, <1>5 DEF NewJobStep, Ids
    <2>. QED
      BY <1>2, <2>1, <2>2 DEF Staging
  <1>6. CASE CleanupPass
    BY <1>2, <1>6
    DEF CleanupPass, CreateCleanup, RetryCleanup, Release, Staging, LifecycleInv, TypeOK,
        StoreTypeOK
  <1>7. CASE DeleteKnowledgeBase \/ CreateKnowledgeBase \/ QuietStep
    BY <1>2, <1>7 DEF DeleteKnowledgeBase, CreateKnowledgeBase, QuietStep, storeVars, Staging
  <1>. QED
    BY <1>3, <1>4, <1>5, <1>6, <1>7, StepKinds

\* Readers are not sent back to a collection they have left.
LEMMA NotAgain ==
  ASSUME LifecycleInv, [Next]_vars, NEW p \in Ids, Past(p), alias # p
  PROVE  alias' # p
  <1>1. SUFFICES ASSUME alias' = p
                 PROVE  FALSE
    OBVIOUS
  <1>2. p <= used /\ ~Staging(p) /\ used \in Ids
    BY StoreJobsAssumption DEF Past, Ids, LifecycleInv, TypeOK, StoreTypeOK
  <1>3. CASE Ingest
    BY <1>1, <1>2, <1>3 DEF Ingest, Ids
  <1>4. ASSUME NEW i \in JobNames, MoveAlias(i)
        PROVE  FALSE
    BY <1>1, <1>2, <1>4 DEF MoveAlias, At, Staging
  <1>. QED
    BY <1>1, <1>3, <1>4, AliasMoves

-----------------------------------------------------------------------------
(* What becomes of the alias.                                              *)

\* An interruption is remembered.
LEMMA Remembered ==
  ASSUME LifecycleInv, [Next]_vars, ~interrupted'
  PROVE  ~interrupted
  <1>1. ASSUME NEW j \in JobNames, PodStep(j), interrupted
        PROVE  FALSE
    BY <1>1
    DEF PodStep, Pod, Kill, Lose, Raise, PodEnds, Interrupted, Export, Upload, Report, Download,
        Recreate, Fill, Verify, FindTarget, MoveAlias, DropOld, DropAlias, DropTarget
  <1>. QED
    BY <1>1, StepKinds
    DEF Ingest, NewJobStep, CleanupPass, CreateCleanup, RetryCleanup, Release,
        DeleteKnowledgeBase, CreateKnowledgeBase, QuietStep, storeVars

\* Readers do not have a collection that is staged.
LEMMA StagedUnread ==
  ASSUME LifecycleInv, ReadersInv, NEW j \in JobNames, Staging(j)
  PROVE  alias # j
  <1>1. j # None
    BY StoreJobsAssumption DEF JobNames, Ids, Cleanup
  <1>. QED
    BY <1>1 DEF ReadersInv, Past

\* A collection that readers keep is not written.
LEMMA AliasedKept ==
  ASSUME LifecycleInv, ReadersInv, [Next]_vars, alias # None, alias' = alias
  PROVE  collections'[alias] = collections[alias]
  <1>1. /\ alias \in Ids /\ used \in Ids /\ alias <= used
        /\ collections \in [Ids -> Seq(Ids) \union {None}]
    BY DEF ReadersInv, Past, LifecycleInv, TypeOK, StoreTypeOK
  <1>2. ASSUME NEW c, Drop(c)
        PROVE  collections'[alias] = collections[alias]
    <2>1. c # alias
      BY <1>2 DEF Drop
    <2>. QED
      BY <1>1, <1>2, <2>1 DEF Drop
  <1>3. ASSUME NEW j \in JobNames, PodStep(j)
        PROVE  collections'[alias] = collections[alias]
    <2>1. CASE Recreate(j) \/ Fill(j)
      <3>1. alias # j
        BY <2>1, StagedUnread DEF Recreate, Fill, At, Staging
      <3>2. collections' = collections \/ \E x : collections' = [collections EXCEPT ![j] = x]
        BY <2>1 DEF Recreate, Fill
      <3>. QED
        BY <1>1, <3>1, <3>2
    <2>2. CASE ~(Recreate(j) \/ Fill(j))
      BY <1>2, <1>3, <2>2
      DEF PodStep, Pod, Kill, Lose, Raise, Export, Upload, Report, Download, Verify, FindTarget,
          MoveAlias, DropOld, DropAlias, DropTarget
    <2>. QED
      BY <2>1, <2>2
  <1>4. CASE Ingest
    BY <1>1, <1>4 DEF Ingest, Ids
  <1>5. CASE ~Ingest /\ ~\E j \in JobNames : PodStep(j)
    BY <1>5, StepKinds
    DEF NewJobStep, CleanupPass, CreateCleanup, RetryCleanup, Release,
        DeleteKnowledgeBase, CreateKnowledgeBase, QuietStep, storeVars
  <1>. QED
    BY <1>3, <1>4, <1>5

\* Only a cleanup takes readers' collection away without giving them another.
LEMMA AliasLost ==
  ASSUME LifecycleInv, ReadersInv, [Next]_vars, ~interrupted', alias # None, alias' = None
  PROVE  \E j \in JobNames : DropAlias(j) /\ jobs[j].target # None /\ doomed # None
  <1>1. alias \in Ids /\ used \in Ids
    BY DEF LifecycleInv, TypeOK, StoreTypeOK
  <1>2. ASSUME NEW j \in JobNames, PodStep(j), ~DropAlias(j)
        PROVE  FALSE
    <2>1. CASE Recreate(j)
      BY <2>1, StagedUnread DEF Recreate, At, Staging
    <2>2. CASE Raise(j)
      <3>1. jobs[j].kind = "restore" /\ jobs[j].step \in Staged /\ alias = j
        BY <2>2 DEF Raise, Drop
      <3>2. jobs[j].step # "dropOld" /\ Running(j)
        BY <2>2, <3>1 DEF Raise, PodEnds, Interrupted
      <3>. QED
        BY <3>1, <3>2, StagedUnread DEF Staging, Staged, Running
    <2>3. CASE DropOld(j) \/ DropTarget(j)
      <3>1. jobs[j] # None /\ alias = jobs[j].target /\ jobs[j].step \in {"dropOld", "dropTarget"}
        BY <2>3 DEF DropOld, DropTarget, Drop, At
      <3>. QED
        BY <3>1 DEF ReadersInv, JobWhole
    <2>4. CASE MoveAlias(j)
      BY <2>4, StoreJobsAssumption DEF MoveAlias, JobNames, Ids, Cleanup
    <2>. QED
      BY <1>2, <2>1, <2>2, <2>3, <2>4
      DEF PodStep, Pod, Kill, Lose, Export, Upload, Report, Download, Fill, Verify, FindTarget
  <1>3. ASSUME NEW j \in JobNames, PodStep(j), DropAlias(j)
        PROVE  jobs[j].target # None /\ doomed # None
    BY <1>3 DEF DropAlias, At, ReadersInv, JobWhole
  <1>4. CASE Ingest
    BY <1>1, <1>4, StoreJobsAssumption DEF Ingest, Ids
  <1>5. CASE ~Ingest /\ ~\E j \in JobNames : PodStep(j)
    BY <1>5, StepKinds
    DEF NewJobStep, CleanupPass, CreateCleanup, RetryCleanup, Release,
        DeleteKnowledgeBase, CreateKnowledgeBase, QuietStep, storeVars
  <1>. QED
    BY <1>2, <1>3, <1>4, <1>5

\* What readers are moved to is whole, and nobody stages it any more.
LEMMA Promoted ==
  ASSUME LifecycleInv, ReadersInv, [Next]_vars, alias' # None, alias' # alias
  PROVE  Whole(collections'[alias']) /\ Past(alias)'
  <1>1. PICK c \in Ids : c = alias'
    BY InvNext DEF LifecycleInv, TypeOK, StoreTypeOK
  <1>2. Ingest \/ \E i \in JobNames : MoveAlias(i)
    BY <1>1, AliasMoves
  <1>3. CASE Ingest
    <2>1. c = used + 1 /\ used' = c /\ used \in Ids /\ jobs' = jobs
      BY <1>1, <1>3 DEF Ingest, LifecycleInv, TypeOK, StoreTypeOK
    <2>2. collections'[c] = Corpus(c)
      BY <1>1, <1>3 DEF Ingest
    <2>3. Corpus(c) # None /\ Len(Corpus(c)) = Pages
      <3>1. Corpus(c) \in Seq(Ids) /\ Len(Corpus(c)) = Pages
        BY StoreJobsAssumption DEF Corpus
      <3>. QED
        BY <3>1, StoreJobsAssumption
    <2>4. jobs[c] = None
      BY <2>1 DEF LifecycleInv, JobOK, JobNames, Ids
    <2>. QED
      BY <1>1, <2>1, <2>2, <2>3, <2>4 DEF Whole, Past, Staging, Ids
  <1>4. ASSUME NEW i \in JobNames, MoveAlias(i)
        PROVE  Whole(collections'[alias']) /\ Past(alias)'
    <2>1. /\ jobs[i] # None /\ jobs[i] \in Jobs /\ JobOK(i)
          /\ jobs[i].kind = "restore" /\ jobs[i].step = "moveAlias" /\ i = c
      BY <1>1, <1>4, AtJob DEF MoveAlias
    <2>2. collections'[c] = uploads[jobs[i].from] /\ uploads[jobs[i].from] # None
      BY <1>4, <2>1 DEF MoveAlias, JobOK, Staged, Final
    <2>3. jobs[i].from \in Ids
      BY <2>1 DEF Jobs, JobOK, Final
    <2>4. Whole(collections'[c])
      BY <2>2, <2>3 DEF ReadersInv, Whole
    <2>5. jobs'[i].step = "dropOld"
      BY <1>4, <2>1, MovedJob DEF MoveAlias
    <2>6. c <= used /\ used' = used
      BY <1>4, <2>1 DEF MoveAlias, JobOK
    <2>. QED
      BY <1>1, <2>1, <2>4, <2>5, <2>6 DEF Past, Staging
  <1>. QED
    BY <1>2, <1>3, <1>4

\* Readers have a whole collection, or a deletion was requested.
LEMMA AliasStays ==
  ASSUME LifecycleInv, ReadersInv, [Next]_vars, ~interrupted'
  PROVE  /\ Past(alias)'
         /\ alias' = None => doomed # None
         /\ alias' # None => Whole(collections'[alias'])
  <1>1. alias \in Ids \union {None}
    BY DEF LifecycleInv, TypeOK, StoreTypeOK
  <1>2. CASE alias' = None
    <2>1. doomed # None
      BY <1>2, AliasLost DEF ReadersInv
    <2>. QED
      BY <1>2, <2>1 DEF Past
  <1>3. CASE alias' # None /\ alias' = alias
    <2>1. Past(alias)'
      <3>1. PICK p \in Ids \union {None} : p = alias /\ Past(p)
        BY <1>1 DEF ReadersInv
      <3>2. Past(p)'
        BY <3>1, PastKept
      <3>. QED
        BY <1>3, <3>1, <3>2 DEF Past, Staging
    <2>2. Whole(collections'[alias'])
      BY <1>3, AliasedKept DEF ReadersInv, Whole
    <2>. QED
      BY <1>3, <2>1, <2>2
  <1>4. CASE alias' # None /\ alias' # alias
    BY <1>4, Promoted
  <1>. QED
    BY <1>2, <1>3, <1>4

\* The collection a deletion is about.
LEMMA DoomedStays ==
  ASSUME LifecycleInv, ReadersInv, [Next]_vars, ~interrupted'
  PROVE  /\ Past(doomed)'
         /\ doomed # None => doomed' # None
         /\ kb' = "deleting" => doomed' # None
  <1>1. \/ doomed' = doomed /\ (kb' = "deleting" => kb = "deleting")
        \/ DeleteKnowledgeBase
    <2>1. ASSUME NEW j \in JobNames, PodStep(j)
          PROVE  doomed' = doomed /\ kb' = kb
      BY <2>1, PodStepJob
    <2>. QED
      BY <2>1, StepKinds
      DEF NewJobStep, CleanupPass, CreateCleanup, RetryCleanup, Release, CreateKnowledgeBase,
          QuietStep, storeVars, lifecycleVars
  <1>2. PICK p \in Ids \union {None} : p = doomed'
    BY InvNext DEF LifecycleInv, TypeOK
  <1>3. p \in {doomed, alias} /\ (doomed # None => p # None)
    BY <1>1, <1>2 DEF DeleteKnowledgeBase
  <1>4. Past(p)
    BY <1>3 DEF ReadersInv
  <1>5. Past(p)'
    BY <1>4, PastKept
  <1>6. Past(doomed)'
    BY <1>2, <1>5 DEF Past, Staging
  <1>7. kb' = "deleting" => doomed' # None
    BY <1>1 DEF DeleteKnowledgeBase, ReadersInv
  <1>. QED
    BY <1>2, <1>3, <1>6, <1>7

-----------------------------------------------------------------------------
(* What Jobs have looked up.                                               *)

\* A target stays past, and left.
LEMMA TargetKept ==
  ASSUME LifecycleInv, [Next]_vars, ~interrupted', NEW p \in Ids \union {None}, Past(p)
  PROVE  Past(p)' /\ (p # None /\ p # alias => p # alias')
  BY PastKept, NotAgain

LEMMA OtherWhole ==
  ASSUME LifecycleInv, ReadersInv, [Next]_vars, ~interrupted', NEW i \in JobNames,
         jobs'[i] = jobs[i]
  PROVE  JobWhole(i)'
  <1>1. CASE jobs[i] = None
    BY <1>1 DEF JobWhole
  <1>2. CASE jobs[i] # None
    <2>1. jobs[i] \in Jobs /\ JobWhole(i)
      BY <1>2, JobType DEF LifecycleInv, TypeOK, ReadersInv
    <2>2. PICK p \in Ids \union {None} : p = jobs[i].target /\ Past(p)
      BY <1>2, <2>1 DEF Jobs, JobWhole
    <2>3. Past(p)' /\ (p # None /\ p # alias => p # alias')
      BY <2>2, TargetKept
    <2>4. doomed # None => doomed' # None
      BY DoomedStays
    <2>5. Past(jobs[i].target)'
      BY <2>2, <2>3, <1>2 DEF Past, Staging
    <2>. QED
      BY <1>2, <2>1, <2>2, <2>3, <2>4 DEF JobWhole, Past, Staging
  <1>. QED
    BY <1>1, <1>2

\* A Job that has looked nothing up, or what it had, and is not about to delete or upload.
LEMMA QuietWhole ==
  ASSUME LifecycleInv, ReadersInv, [Next]_vars, ~interrupted', NEW i \in JobNames,
         jobs[i] # None,
         jobs'[i].kind = jobs[i].kind,
         jobs'[i].target \in {jobs[i].target, None},
         jobs'[i].step \notin {"dropOld", "dropTarget", "upload"},
         jobs'[i].step = "export" => Len(jobs'[i].got) <= Pages
  PROVE  JobWhole(i)'
  <1>1. jobs[i] \in Jobs /\ JobWhole(i)
    BY JobType DEF LifecycleInv, TypeOK, ReadersInv
  <1>2. PICK p \in Ids \union {None} : p = jobs'[i].target /\ Past(p)
    BY <1>1 DEF Jobs, JobWhole, Past
  <1>3. Past(p)'
    BY <1>2, TargetKept
  <1>4. doomed # None => doomed' # None
    BY DoomedStays
  <1>. QED
    BY <1>1, <1>2, <1>3, <1>4 DEF JobWhole, Past, Staging

LEMMA ExportWhole ==
  ASSUME LifecycleInv, ReadersInv, [Next]_vars, ~interrupted', NEW j \in JobNames, Export(j)
  PROVE  JobWhole(j)'
  <1>1. /\ jobs[j] # None /\ jobs[j] \in Jobs /\ jobs[j].step = "export" /\ JobWhole(j)
        /\ jobs[j].kind = "backup"
    BY AtJob DEF Export, ReadersInv
  <1>2. /\ collections[alias] \in Seq(Ids) /\ Len(collections[alias]) = Pages
        /\ jobs[j].got \in Seq(Ids) /\ Len(jobs[j].got) \in Nat /\ Len(jobs[j].got) <= Pages
        /\ Pages \in Nat
    <2>1. jobs[j].got \in Seq(Ids)
      BY <1>1 DEF Jobs
    <2>. QED
      BY <1>1, <2>1, StoreJobsAssumption
      DEF Export, ReadersInv, Whole, JobWhole, LifecycleInv, TypeOK, StoreTypeOK
  <1>3. CASE Len(jobs[j].got) < Len(collections[alias])
    <2>1. PICK page \in Ids : page = collections[alias][Len(jobs[j].got) + 1]
      BY <1>2, <1>3
    <2>2. jobs' = [jobs EXCEPT ![j].got = Append(@, page)]
      BY <1>3, <2>1 DEF Export
    <2>3. /\ jobs'[j].kind = jobs[j].kind /\ jobs'[j].step = jobs[j].step
          /\ jobs'[j].target = jobs[j].target
          /\ Len(jobs'[j].got) = Len(jobs[j].got) + 1
      BY <1>1, <2>2, ExportedJob
    <2>4. Len(jobs'[j].got) <= Pages
      BY <1>2, <1>3, <2>3
    <2>. QED
      BY <1>1, <2>3, <2>4, QuietWhole
  <1>4. CASE ~(Len(jobs[j].got) < Len(collections[alias]))
    <2>1. /\ jobs'[j].kind = "backup" /\ jobs'[j].target = jobs[j].target
          /\ jobs'[j].got = jobs[j].got /\ jobs'[j].step = "upload"
      BY <1>1, <1>4, MovedJob DEF Export
    <2>2. PICK p \in Ids \union {None} : p = jobs[j].target /\ Past(p)
      BY <1>1 DEF Jobs, JobWhole
    <2>3. Past(p)'
      BY <2>2, TargetKept
    <2>4. Len(jobs[j].got) = Pages
      BY <1>2, <1>4
    <2>. QED
      BY <2>1, <2>2, <2>3, <2>4 DEF JobWhole, Past, Staging
  <1>. QED
    BY <1>3, <1>4

LEMMA FindWhole ==
  ASSUME LifecycleInv, ReadersInv, [Next]_vars, ~interrupted', NEW j \in JobNames, FindTarget(j)
  PROVE  JobWhole(j)'
  <1>1. jobs[j] # None /\ jobs[j] \in Jobs /\ StoreTypeOK /\ JobWhole(j)
        /\ \A x : [jobs EXCEPT ![j] = x][j] = x
    BY AtJob DEF FindTarget, LifecycleInv, TypeOK, StoreTypeOK, ReadersInv
  <1>2. PICK step \in {"moveAlias", "dropAlias"} :
          jobs' = [jobs EXCEPT ![j].target = alias, ![j].step = step]
    BY DEF FindTarget
  <1>3. PICK job : job = [jobs[j] EXCEPT !.target = alias, !.step = step]
    OBVIOUS
  <1>4. jobs' = [jobs EXCEPT ![j] = job]
    BY <1>2, <1>3
  <1>5. jobs'[j] = job
    BY <1>1, <1>4
  <1>6. job.kind = jobs[j].kind /\ job.target = alias /\ job.step = step
    BY <1>1, <1>3 DEF Jobs
  <1>7. PICK p \in Ids \union {None} : p = alias /\ Past(p)
    BY <1>1 DEF StoreTypeOK, ReadersInv
  <1>8. Past(p)'
    BY <1>7, TargetKept
  <1>9. doomed # None => doomed' # None
    BY DoomedStays
  <1>. QED
    BY <1>1, <1>5, <1>6, <1>7, <1>8, <1>9 DEF JobWhole, Past, Staging

\* What is deleted next has been left: the alias has moved away from it, or is gone.
LEMMA LeaveWhole ==
  ASSUME LifecycleInv, ReadersInv, [Next]_vars, ~interrupted', NEW j \in JobNames,
         MoveAlias(j) \/ (DropAlias(j) /\ jobs[j].target # None)
  PROVE  JobWhole(j)'
  <1>1. jobs[j] # None /\ jobs[j] \in Jobs /\ JobWhole(j)
    BY AtJob DEF MoveAlias, DropAlias, ReadersInv
  <1>2. PICK p \in Ids \union {None} : p = jobs[j].target /\ Past(p)
    BY <1>1 DEF Jobs, JobWhole
  <1>3. Past(p)'
    BY <1>2, TargetKept
  <1>4. p # None => p # alias'
    <2>1. CASE MoveAlias(j)
      BY <1>2, <2>1 DEF MoveAlias, At, Past, Staging
    <2>2. CASE DropAlias(j) /\ jobs[j].target # None
      BY <2>2 DEF DropAlias
    <2>. QED
      BY <2>1, <2>2
  <1>5. /\ jobs'[j].kind = jobs[j].kind /\ jobs'[j].target = p
        /\ jobs'[j].step \in {"dropOld", "dropTarget"}
    BY <1>1, <1>2, MovedJob DEF MoveAlias, DropAlias
  <1>6. doomed # None => doomed' # None
    BY DoomedStays
  <1>. QED
    BY <1>1, <1>3, <1>4, <1>5, <1>6 DEF JobWhole, Past, Staging

LEMMA PodWhole ==
  ASSUME LifecycleInv, ReadersInv, [Next]_vars, ~interrupted', NEW j \in JobNames, PodStep(j)
  PROVE  JobWhole(j)'
  <1>1. /\ jobs[j] # None /\ jobs[j] \in Jobs /\ StoreTypeOK
        /\ \A x : [jobs EXCEPT ![j] = x][j] = x
    BY PodStepJob DEF LifecycleInv, TypeOK, StoreTypeOK
  <1>2. ASSUME Restarts(j) \/ \E state \in {"complete", "failed"} : Ends(j, state)
        PROVE  JobWhole(j)'
    <2>1. /\ jobs'[j].kind = jobs[j].kind
          /\ jobs'[j].target = None /\ jobs'[j].got = <<>>
          /\ jobs'[j].step \in {"export", "download", "find"}
      BY <1>1, <1>2, EndedJob
    <2>2. Len(jobs'[j].got) <= Pages
      BY <2>1, StoreJobsAssumption
    <2>. QED
      BY <1>1, <2>1, <2>2, QuietWhole
  <1>3. ASSUME NEW step \in {"report", "fill", "verify", "find"}, Goto(j, step)
        PROVE  JobWhole(j)'
    BY <1>1, <1>3, MovedJob, QuietWhole
  <1>4. CASE Lose(j)
    BY <1>1, <1>4 DEF Lose, JobWhole
  <1>5. CASE Download(j)
    <2>1. PICK got : jobs' = [jobs EXCEPT ![j].got = got, ![j].step = "recreate"]
      BY <1>5 DEF Download
    <2>2. PICK job : job = [jobs[j] EXCEPT !.got = got, !.step = "recreate"]
      OBVIOUS
    <2>3. jobs' = [jobs EXCEPT ![j] = job]
      BY <2>1, <2>2
    <2>4. jobs'[j] = job
      BY <1>1, <2>3
    <2>5. job.kind = jobs[j].kind /\ job.target = jobs[j].target /\ job.step = "recreate"
      BY <1>1, <2>2 DEF Jobs
    <2>. QED
      BY <1>1, <2>4, <2>5, QuietWhole
  <1>6. CASE Fill(j)
    <2>1. CASE Goto(j, "verify")
      BY <1>3, <2>1
    <2>2. CASE jobs' = [jobs EXCEPT ![j].sent = @ + 1]
      <3>1. PICK job : job = [jobs[j] EXCEPT !.sent = jobs[j].sent + 1]
        OBVIOUS
      <3>2. jobs' = [jobs EXCEPT ![j] = job]
        BY <2>2, <3>1
      <3>3. jobs'[j] = job
        BY <1>1, <3>2
      <3>4. job.kind = jobs[j].kind /\ job.target = jobs[j].target /\ job.step = "fill"
        BY <1>1, <1>6, <3>1 DEF Jobs, Fill, At
      <3>. QED
        BY <1>1, <3>3, <3>4, QuietWhole
    <2>. QED
      BY <1>6, <2>1, <2>2 DEF Fill
  <1>7. CASE Upload(j) \/ Recreate(j) \/ Verify(j) \/ DropOld(j)
    BY <1>3, <1>7 DEF Upload, Recreate, Verify, DropOld
  <1>8. CASE Report(j) \/ DropTarget(j) \/ (DropAlias(j) /\ jobs[j].target = None)
    BY <1>2, <1>8 DEF Report, DropTarget, DropAlias, Complete
  <1>9. CASE Raise(j) \/ Kill(j)
    BY <1>2, <1>9 DEF Raise, Kill, PodEnds
  <1>. QED
    BY <1>4, <1>5, <1>6, <1>7, <1>8, <1>9, ExportWhole, FindWhole, LeaveWhole
    DEF PodStep, Pod

LEMMA StartedWhole ==
  ASSUME NEW kind \in Kinds, NEW from \in Ids \union {None}, NEW i \in JobNames,
         jobs'[i] = NewJob(kind, from), kind = "cleanup" => doomed' # None
  PROVE  JobWhole(i)'
  <1>1. /\ FirstStep(kind) \notin {"dropOld", "dropTarget", "upload"}
    BY DEF FirstStep, Kinds
  <1>2. PICK first : first = FirstStep(kind)
    OBVIOUS
  <1>3. jobs'[i] = [kind |-> kind, state |-> "running", retries |-> 1, step |-> first,
                    got |-> <<>>, sent |-> 0, target |-> None, from |-> from]
    BY <1>2 DEF NewJob
  <1>4. /\ jobs'[i].kind = kind /\ jobs'[i].step = first
        /\ jobs'[i].target = None /\ jobs'[i].got = <<>>
    BY <1>3
  <1>5. Len(jobs'[i].got) <= Pages
    BY <1>4, StoreJobsAssumption
  <1>. QED
    BY <1>1, <1>2, <1>4, <1>5 DEF JobWhole, Past

LEMMA JobsWhole ==
  ASSUME LifecycleInv, ReadersInv, [Next]_vars, ~interrupted', NEW i \in JobNames
  PROVE  JobWhole(i)'
  <1>1. SUFFICES ASSUME jobs'[i] # jobs[i]
                 PROVE  JobWhole(i)'
    BY OtherWhole
  <1>2. ASSUME NEW j \in JobNames, PodStep(j)
        PROVE  JobWhole(i)'
    BY <1>1, <1>2, PodStepJob, PodWhole
  <1>3. CASE NewJobStep
    <2>1. PICK o \in Objects, from \in Ids \union {None} :
            jobs' = [jobs EXCEPT ![used'] = NewJob(o, from)]
      BY <1>3 DEF NewJobStep
    <2>2. i = used' /\ jobs'[i] = NewJob(o, from)
      BY <1>1, <2>1 DEF LifecycleInv, TypeOK, StoreTypeOK
    <2>. QED
      BY <2>2, StartedWhole DEF Objects, Kinds
  <1>4. CASE CleanupPass
    <2>1. jobs \in [JobNames -> Jobs \union {None}]
      BY DEF LifecycleInv, TypeOK, StoreTypeOK
    <2>2. CASE CreateCleanup
      <3>1. i = Cleanup /\ jobs'[i] = NewJob("cleanup", None)
        BY <1>1, <2>1, <2>2 DEF CreateCleanup
      <3>2. doomed' # None
        BY <2>2 DEF CreateCleanup, lifecycleVars, ReadersInv
      <3>. QED
        BY <3>1, <3>2, StartedWhole DEF Kinds
    <2>3. CASE RetryCleanup \/ Release
      <3>1. jobs'[i] = None
        BY <1>1, <2>1, <2>3 DEF RetryCleanup, Release
      <3>. QED
        BY <3>1 DEF JobWhole
    <2>. QED
      BY <1>4, <2>2, <2>3 DEF CleanupPass
  <1>5. CASE Ingest \/ DeleteKnowledgeBase \/ CreateKnowledgeBase \/ QuietStep
    BY <1>1, <1>5 DEF Ingest, DeleteKnowledgeBase, CreateKnowledgeBase, QuietStep, storeVars
  <1>. QED
    BY <1>2, <1>3, <1>4, <1>5, StepKinds

\* Only a whole export is uploaded.
LEMMA UploadsWhole ==
  ASSUME LifecycleInv, ReadersInv, [Next]_vars, NEW i \in Ids, uploads'[i] # None
  PROVE  Len(uploads'[i]) = Pages
  <1>1. uploads[i] # None => Len(uploads[i]) = Pages
    BY DEF ReadersInv
  <1>2. ASSUME NEW j \in JobNames, PodStep(j)
        PROVE  Len(uploads'[i]) = Pages
    <2>1. CASE Upload(j)
      <3>1. jobs[j] # None /\ jobs[j].step = "upload" /\ Len(jobs[j].got) = Pages
        BY <2>1 DEF Upload, At, ReadersInv, JobWhole
      <3>2. uploads' = [uploads EXCEPT ![j] = jobs[j].got]
        BY <2>1 DEF Upload
      <3>3. uploads'[i] = uploads[i] \/ uploads'[i] = jobs[j].got
        BY <3>2 DEF LifecycleInv, TypeOK, StoreTypeOK
      <3>. QED
        BY <1>1, <3>1, <3>3
    <2>2. CASE ~Upload(j)
      BY <1>1, <1>2, <2>2
      DEF PodStep, Pod, Kill, Lose, Raise, Export, Report, Download, Recreate, Fill, Verify,
          FindTarget, MoveAlias, DropOld, DropAlias, DropTarget
    <2>. QED
      BY <2>1, <2>2
  <1>3. CASE ~\E j \in JobNames : PodStep(j)
    BY <1>1, <1>3, StepKinds
    DEF Ingest, NewJobStep, CleanupPass, CreateCleanup, RetryCleanup, Release,
        DeleteKnowledgeBase, CreateKnowledgeBase, QuietStep, storeVars
  <1>. QED
    BY <1>2, <1>3

LEMMA ReadersNext ==
  ASSUME LifecycleInv, UntilInterrupted, [Next]_vars
  PROVE  UntilInterrupted'
  <1>1. SUFFICES ASSUME ~interrupted'
                 PROVE  ReadersInv'
    BY DEF UntilInterrupted
  <1>2. ReadersInv
    BY <1>1, Remembered DEF UntilInterrupted
  <1>3. /\ Past(alias)'
        /\ alias' = None => doomed # None
        /\ alias' # None => Whole(collections'[alias'])
    BY <1>1, <1>2, AliasStays
  <1>4. /\ Past(doomed)'
        /\ doomed # None => doomed' # None
        /\ kb' = "deleting" => doomed' # None
    BY <1>1, <1>2, DoomedStays
  <1>5. \A j \in JobNames : JobWhole(j)'
    BY <1>1, <1>2, JobsWhole
  <1>6. \A i \in Ids : uploads'[i] # None => Len(uploads'[i]) = Pages
    BY <1>2, UploadsWhole
  <1>. QED
    BY <1>3, <1>4, <1>5, <1>6 DEF ReadersInv, Whole

LEMMA ReadersInit ==
  ASSUME Init
  PROVE  UntilInterrupted
  <1>. USE DEF Init, StoreInit
  <1>1. 1 \in Ids /\ collections[1] = Corpus(1) /\ \A j \in JobNames : jobs[j] = None
    BY StoreJobsAssumption DEF Ids
  <1>2. Corpus(1) \in Seq(Ids) /\ Len(Corpus(1)) = Pages
    BY <1>1, StoreJobsAssumption DEF Corpus
  <1>3. Whole(collections[alias])
    BY <1>1, <1>2, StoreJobsAssumption DEF Whole
  <1>4. Past(alias) /\ Past(doomed)
    BY <1>1 DEF Past, Staging, JobNames
  <1>5. \A j \in JobNames : JobWhole(j)
    BY <1>1 DEF JobWhole
  <1>6. \A i \in Ids : uploads[i] = None
    OBVIOUS
  <1>7. alias # None /\ kb # "deleting"
    BY StoreJobsAssumption
  <1>. QED
    BY <1>3, <1>4, <1>5, <1>6, <1>7 DEF ReadersInv, UntilInterrupted

LEMMA Readers == Spec => [](LifecycleInv /\ UntilInterrupted)
  <1>1. Init => LifecycleInv /\ UntilInterrupted
    BY InitInv, ReadersInit
  <1>2. LifecycleInv /\ UntilInterrupted /\ [Next]_vars => (LifecycleInv /\ UntilInterrupted)'
    BY InvNext, ReadersNext
  <1>. QED
    BY <1>1, <1>2, PTL DEF Spec

\* Until a pod ends between a move of the alias and the deletion after it, readers have a
\* whole collection for as long as no deletion is requested, however exports, restores,
\* ingestions, cleanups and their retries overlap (stores.py: what a worker deletes is what
\* the alias pointed at before it was moved; restore.py: only a counted shadow is promoted).
THEOREM Serves == Spec => []ServesWhole
  <1>1. ASSUME UntilInterrupted
        PROVE  ServesWhole
    BY <1>1 DEF UntilInterrupted, ReadersInv, Whole, ServesWhole
  <1>. QED
    BY <1>1, Readers, PTL

-----------------------------------------------------------------------------
(* A deletion that is done.  The finalizer is released by a cleanup Job    *)
(* that is complete, and such a Job is one of this deletion: the one of an *)
(* earlier deletion was deleted when its finalizer was released.           *)

\* The cleanup has nothing to drop, or has only the collection left to drop.
Done(job) ==
  \/ job.state = "complete"
  \/ job.step = "dropTarget"
  \/ job.step = "dropAlias" /\ job.target = None

Detached == doomed # None => alias # doomed

CleanupInv ==
  /\ kb # "deleting" => jobs[Cleanup] = None
  /\ kb = "gone" => Detached
  /\ jobs[Cleanup] # None /\ Done(jobs[Cleanup]) => Detached

UntilInterruptedCleanup == ~interrupted => CleanupInv

LEMMA DetachedKept ==
  ASSUME LifecycleInv, ReadersInv, [Next]_vars, Detached, doomed' = doomed
  PROVE  Detached'
  BY NotAgain DEF Detached, ReadersInv, LifecycleInv, TypeOK

\* The steps of the cleanup's pod.
LEMMA CleanupPod ==
  ASSUME LifecycleInv, ReadersInv, CleanupInv, [Next]_vars, PodStep(Cleanup)
  PROVE  CleanupInv'
  <1>1. /\ Cleanup \in JobNames /\ jobs[Cleanup] # None /\ jobs[Cleanup] \in Jobs /\ StoreTypeOK
        /\ jobs[Cleanup].kind = "cleanup"
        /\ \A x : [jobs EXCEPT ![Cleanup] = x][Cleanup] = x
        /\ UNCHANGED <<kb, doomed>>
    BY PodStepJob DEF JobNames, JobOK, LifecycleInv, TypeOK, StoreTypeOK
  <1>2. kb = "deleting" /\ doomed # None
    BY <1>1 DEF CleanupInv, ReadersInv
  <1>3. Detached => Detached'
    BY <1>1, DetachedKept
  <1>4. SUFFICES ASSUME jobs'[Cleanup] # None, Done(jobs'[Cleanup])
                 PROVE  Detached'
    BY <1>1, <1>2 DEF CleanupInv
  <1>5. ASSUME Restarts(Cleanup), Running(Cleanup)
        PROVE  FALSE
    <2>1. PICK fresh : fresh = Fresh(jobs[Cleanup])
      OBVIOUS
    <2>2. /\ fresh \in Jobs /\ fresh.state = "running"
          /\ fresh.step \in {"export", "download", "find"}
      BY <1>1, <1>5, <2>1, FreshType DEF Running
    <2>3. PICK job : job = [fresh EXCEPT !.retries = jobs[Cleanup].retries - 1]
      OBVIOUS
    <2>4. jobs' = [jobs EXCEPT ![Cleanup] = job]
      BY <1>5, <2>1, <2>3 DEF Restarts
    <2>5. jobs'[Cleanup] = job
      BY <1>1, <2>4
    <2>6. job.state = fresh.state /\ job.step = fresh.step
      BY <2>2, <2>3 DEF Jobs
    <2>. QED
      BY <1>4, <2>2, <2>5, <2>6 DEF Done
  <1>6. ASSUME Ends(Cleanup, "failed")
        PROVE  FALSE
    <2>1. PICK fresh : fresh = Fresh(jobs[Cleanup])
      OBVIOUS
    <2>2. fresh \in Jobs /\ fresh.step \in {"export", "download", "find"}
      BY <1>1, <2>1, FreshType
    <2>3. PICK job : job = [fresh EXCEPT !.state = "failed"]
      OBVIOUS
    <2>4. jobs' = [jobs EXCEPT ![Cleanup] = job]
      BY <1>6, <2>1, <2>3 DEF Ends
    <2>5. jobs'[Cleanup] = job
      BY <1>1, <2>4
    <2>6. job.state = "failed" /\ job.step = fresh.step
      BY <2>2, <2>3 DEF Jobs
    <2>. QED
      BY <1>4, <2>2, <2>5, <2>6 DEF Done
  <1>7. CASE FindTarget(Cleanup)
    <2>1. CASE alias = None
      BY <1>2, <1>3, <2>1 DEF Detached
    <2>2. CASE alias # None
      <3>1. PICK job : job = [jobs[Cleanup] EXCEPT !.target = alias, !.step = "dropAlias"]
        OBVIOUS
      <3>2. jobs' = [jobs EXCEPT ![Cleanup] = job]
        BY <1>1, <1>7, <3>1 DEF FindTarget
      <3>3. jobs'[Cleanup] = job
        BY <1>1, <3>2
      <3>4. job.state = "running" /\ job.target = alias /\ job.step = "dropAlias"
        BY <1>1, <1>7, <3>1 DEF Jobs, FindTarget, At
      <3>. QED
        BY <1>4, <2>2, <3>3, <3>4 DEF Done
    <2>. QED
      BY <2>1, <2>2
  <1>8. CASE DropAlias(Cleanup)
    <2>1. CASE jobs[Cleanup].target = None
      BY <1>1, <1>3, <1>8, <2>1 DEF DropAlias, At, Done, CleanupInv
    <2>2. CASE jobs[Cleanup].target # None
      BY <1>1, <1>2, <1>8, <2>2 DEF DropAlias, Detached
    <2>. QED
      BY <2>1, <2>2
  <1>9. CASE DropTarget(Cleanup)
    BY <1>1, <1>3, <1>9 DEF DropTarget, At, Done, CleanupInv
  <1>10. CASE Raise(Cleanup) \/ Kill(Cleanup)
    BY <1>5, <1>6, <1>10 DEF Raise, Kill, PodEnds
  <1>11. CASE Lose(Cleanup)
    BY <1>1, <1>4, <1>11 DEF Lose
  <1>. QED
    BY <1>1, <1>7, <1>8, <1>9, <1>10, <1>11
    DEF PodStep, Pod, Export, Upload, Report, Download, Recreate, Fill, Verify, MoveAlias,
        DropOld, At

LEMMA CleanupNext ==
  ASSUME "undeleted" \notin Faults,
         LifecycleInv, UntilInterrupted, UntilInterruptedCleanup, [Next]_vars
  PROVE  UntilInterruptedCleanup'
  <1>1. SUFFICES ASSUME ~interrupted'
                 PROVE  CleanupInv'
    BY DEF UntilInterruptedCleanup
  <1>2. ReadersInv /\ CleanupInv
    BY <1>1, Remembered DEF UntilInterrupted, UntilInterruptedCleanup
  <1>3. Cleanup \in JobNames /\ Cleanup \notin Ids /\ jobs \in [JobNames -> Jobs \union {None}]
    BY DEF JobNames, Ids, Cleanup, LifecycleInv, TypeOK, StoreTypeOK
  <1>4. ASSUME UNCHANGED <<kb, doomed>>, jobs'[Cleanup] = jobs[Cleanup]
        PROVE  CleanupInv'
    BY <1>2, <1>4, DetachedKept DEF CleanupInv, Detached, Done
  <1>5. ASSUME NEW j \in JobNames, PodStep(j)
        PROVE  CleanupInv'
    <2>1. CASE j = Cleanup
      BY <1>2, <1>5, <2>1, CleanupPod
    <2>2. CASE j # Cleanup
      BY <1>3, <1>4, <1>5, <2>2, PodStepJob
    <2>. QED
      BY <2>1, <2>2
  <1>6. CASE NewJobStep
    <2>1. jobs'[Cleanup] = jobs[Cleanup]
      BY <1>3, <1>6 DEF NewJobStep, Ids, Cleanup, LifecycleInv, TypeOK, StoreTypeOK
    <2>. QED
      BY <1>4, <1>6, <2>1 DEF NewJobStep
  <1>7. CASE (Ingest /\ UNCHANGED lifecycleVars) \/ QuietStep
    BY <1>4, <1>7 DEF Ingest, QuietStep, lifecycleVars
  <1>8. CASE DeleteKnowledgeBase \/ CreateKnowledgeBase
    BY <1>2, <1>8
    DEF DeleteKnowledgeBase, CreateKnowledgeBase, CleanupInv, storeVars
  <1>9. CASE CreateCleanup
    <2>1. /\ jobs'[Cleanup] = NewJob("cleanup", None) /\ kb' = "deleting"
      BY <1>3, <1>9 DEF CreateCleanup, lifecycleVars
    <2>2. ~Done(jobs'[Cleanup])
      BY <2>1 DEF NewJob, FirstStep, Done
    <2>. QED
      BY <2>1, <2>2 DEF CleanupInv
  <1>10. CASE RetryCleanup
    BY <1>3, <1>10 DEF RetryCleanup, CleanupEnded, lifecycleVars, CleanupInv
  <1>11. CASE Release
    <2>1. jobs'[Cleanup] = None /\ doomed' = doomed
      BY <1>3, <1>11 DEF Release, Unless, Fault
    <2>2. Detached'
      BY <1>2, <1>11, <2>1, DetachedKept DEF Release, CleanupEnded, CleanupInv, Done
    <2>. QED
      BY <2>1, <2>2 DEF CleanupInv
  <1>. QED
    BY <1>5, <1>6, <1>7, <1>8, <1>9, <1>10, <1>11, StepKinds DEF CleanupPass

\* Until a pod ends between a move of the alias and the deletion after it, and with every
\* cleanup Job deleted when its finalizer is released, readers no longer reach the collection
\* they had when the deletion was requested (deletion_controller.go).
THEOREM Detaches ==
  ASSUME "undeleted" \notin Faults
  PROVE  Spec => []DetachedBeforeGone
  <1>1. Init => UntilInterruptedCleanup
    BY DEF Init, StoreInit, UntilInterruptedCleanup, CleanupInv, JobNames
  <1>2. LifecycleInv /\ UntilInterrupted /\ UntilInterruptedCleanup /\ [Next]_vars
          => UntilInterruptedCleanup'
    BY CleanupNext
  <1>3. Spec => []UntilInterruptedCleanup
    BY <1>1, <1>2, Readers, PTL DEF Spec
  <1>4. UntilInterruptedCleanup => DetachedBeforeGone
    BY DEF UntilInterruptedCleanup, CleanupInv, Detached, DetachedBeforeGone
  <1>. QED
    BY <1>3, <1>4, PTL

=============================================================================
