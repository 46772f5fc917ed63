--------------------------- MODULE DataLifecycle ---------------------------
(***************************************************************************)
(* One KnowledgeBase's data from backup to deletion: a Backup, a Restore   *)
(* of that Backup and the deletion of the KnowledgeBase, each driven by    *)
(* its reconciler (backup_controller.go, restore_controller.go and         *)
(* deletion_controller.go) through a Job of module StoreJobs.              *)
(*                                                                         *)
(* A reconcile that writes to the cluster and then to its object's status  *)
(* is a pass of two steps.  The status write carries the resourceVersion   *)
(* that was read: an edit in between makes it fail, and so does a crash,   *)
(* and the next pass starts again from the old status.                     *)
(***************************************************************************)
EXTENDS StoreJobs

VARIABLES
  kb,      \* the KnowledgeBase: "present", "deleting" with its finalizer, "gone"
  doomed,  \* history: the collection readers had when a deletion was last requested
  obj,     \* the Backup and the Restore, None where there is none
  wanted,  \* which of them the user is still to create
  pass     \* the reconcile under way, between its two writes

lifecycleVars == <<kb, doomed, obj, wanted, pass>>
vars == <<storeVars, lifecycleVars>>

Objects == {"backup", "restore"}
Terminal == {"Completed", "Failed"}

Resources ==
  [phase: {"", "Running"} \union Terminal, job: Ids \union {None},
   id: Ids \union {None}, location: Ids \union {None},
   suspend: BOOLEAN, finalizer: BOOLEAN, deleting: BOOLEAN]

Passes == [stage: {"created", "consumed"}, job: Ids]

TypeOK ==
  /\ StoreTypeOK
  /\ kb \in {"present", "deleting", "gone"}
  /\ doomed \in Ids \union {None}
  /\ obj \in [Objects -> Resources \union {None}]
  /\ wanted \subseteq Objects
  /\ pass \in [Objects -> Passes \union {None}]

Init ==
  /\ StoreInit
  /\ kb = "present"
  /\ doomed = None
  /\ obj = [o \in Objects |-> None]
  /\ wanted = Objects
  /\ pass = [o \in Objects |-> None]

-----------------------------------------------------------------------------
(* The reconcilers of Backup and Restore, which differ in what they refuse *)
(* and in the name of their Job.                                           *)

EndPass(o) == pass' = [pass EXCEPT ![o] = None]

\* Suspension comes before everything, deletion included.
Acts(o) == obj[o] # None /\ ~obj[o].suspend /\ pass[o] = None

AddFinalizer(o) ==
  /\ Acts(o) /\ ~obj[o].finalizer
  /\ obj' = [obj EXCEPT ![o].finalizer = TRUE]
  /\ UNCHANGED <<storeVars, kb, doomed, wanted, pass>>

RemoveFinalizer(o) ==
  /\ Acts(o) /\ obj[o].finalizer /\ obj[o].deleting
  /\ obj' = [obj EXCEPT ![o] = None]
  /\ UNCHANGED <<storeVars, kb, doomed, wanted, pass>>

Pending(o) ==
  /\ Acts(o) /\ obj[o].finalizer /\ ~obj[o].deleting
  /\ obj[o].phase \notin Terminal

\* What is referred to is looked up in every pass, while the Job runs as well.
Refused(o) ==
  \/ kb = "gone"
  \/ o = "restore" /\ ~(obj["backup"] # None /\ obj["backup"].phase = "Completed")

Refuse(o) ==
  /\ Pending(o) /\ Refused(o)
  /\ obj' = [obj EXCEPT ![o].phase = "Failed"]
  /\ UNCHANGED <<storeVars, kb, doomed, wanted, pass>>

\* A new Job, or for a Restore, whose Job is named after the second, the Job an earlier
\* pass has created in that second; or no Job for lack of quota.
CreateJob(o) ==
  /\ Pending(o) /\ ~Refused(o) /\ obj[o].job = None
  /\ \/ /\ used < MaxIds
        /\ used' = used + 1
        /\ jobs' = [jobs EXCEPT ![used'] =
             NewJob(o, IF o = "restore" THEN obj["backup"].location ELSE None)]
        /\ pass' = [pass EXCEPT ![o] = [stage |-> "created", job |-> used']]
        /\ UNCHANGED <<obj, budget>>
     \/ /\ o = "restore" /\ Running(used) /\ jobs[used].kind = "restore"
        /\ pass' = [pass EXCEPT ![o] = [stage |-> "created", job |-> used]]
        /\ UNCHANGED <<used, jobs, obj, budget>>
     \/ /\ Fault("quota")
        /\ obj' = [obj EXCEPT ![o].phase = "Failed"]
        /\ UNCHANGED <<used, jobs, pass>>
  /\ UNCHANGED <<alias, collections, uploads, results, interrupted, kb, doomed, wanted>>

\* Mutant: the backup keeps the id of its first attempt.
RecordJob_FirstId(o) ==
  /\ pass[o] # None /\ pass[o].stage = "created"
  /\ obj' = [obj EXCEPT ![o].phase = "Running", ![o].job = pass[o].job,
       ![o].id = IF o = "restore" \/ obj[o].id # None THEN obj[o].id ELSE pass[o].job]
  /\ EndPass(o)
  /\ UNCHANGED <<storeVars, kb, doomed, wanted>>

RecordJob(o) ==
  /\ pass[o] # None /\ pass[o].stage = "created"
  /\ obj' = [obj EXCEPT ![o].phase = "Running", ![o].job = pass[o].job,
                         ![o].id = IF o = "backup" THEN pass[o].job ELSE None]
  /\ EndPass(o)
  /\ UNCHANGED <<storeVars, kb, doomed, wanted>>

HasJob(o) == Pending(o) /\ ~Refused(o) /\ obj[o].job # None

\* Mutant: a Job that is gone is waited for.
ForgetMissing_Waits(o) ==
  /\ HasJob(o) /\ jobs[obj[o].job] = None
  /\ UNCHANGED vars

ForgetMissing(o) ==
  /\ HasJob(o) /\ jobs[obj[o].job] = None
  /\ obj' = [obj EXCEPT ![o].job = None]
  /\ UNCHANGED <<storeVars, kb, doomed, wanted, pass>>

Ended(o, state) ==
  /\ HasJob(o) /\ jobs[obj[o].job] # None
  /\ jobs[obj[o].job].state = state

\* The Job has failed, or it is complete and its result is not there, or not yet seen: the
\* caches of Jobs and of ConfigMaps are filled separately.
FailJob(o) ==
  /\ \E state \in {"failed", "complete"} : Ended(o, state)
  /\ Unless("unread", jobs[obj[o].job].state = "complete" /\ obj[o].job \in results)
  /\ obj' = [obj EXCEPT ![o].phase = "Failed"]
  /\ UNCHANGED <<alias, collections, uploads, results, jobs, used, interrupted,
                 kb, doomed, wanted, pass>>

\* The result is read and deleted ...
ConsumeResult(o) ==
  /\ Ended(o, "complete") /\ obj[o].job \in results
  /\ results' = results \ {obj[o].job}
  /\ pass' = [pass EXCEPT ![o] = [stage |-> "consumed", job |-> obj[o].job]]
  /\ UNCHANGED <<alias, collections, uploads, jobs, used, interrupted, budget,
                 kb, doomed, obj, wanted>>

\* ... before the status that records it is written.
RecordResult(o) ==
  /\ pass[o] # None /\ pass[o].stage = "consumed"
  /\ obj' = [obj EXCEPT ![o].phase = "Completed",
                         ![o].location = IF o = "backup" THEN pass[o].job ELSE None]
  /\ EndPass(o)
  /\ UNCHANGED <<storeVars, kb, doomed, wanted>>

Pass(o) ==
  \/ AddFinalizer(o) \/ RemoveFinalizer(o) \/ Refuse(o)
  \/ CreateJob(o) \/ RecordJob(o) \/ ForgetMissing(o)
  \/ FailJob(o) \/ ConsumeResult(o) \/ RecordResult(o)

\* The operator restarts, or a write is refused.
Crash(o) ==
  /\ Fault("crash")
  /\ pass[o] # None
  /\ EndPass(o)
  /\ UNCHANGED <<alias, collections, uploads, results, jobs, used, interrupted,
                 kb, doomed, obj, wanted>>

-----------------------------------------------------------------------------
(* reconcileDelete.                                                        *)

CreateCleanup ==
  /\ kb = "deleting" /\ jobs[Cleanup] = None
  /\ jobs' = [jobs EXCEPT ![Cleanup] = NewJob("cleanup", None)]
  /\ UNCHANGED <<alias, collections, uploads, results, used, interrupted, budget,
                 lifecycleVars>>

CleanupEnded(state) ==
  kb = "deleting" /\ jobs[Cleanup] # None /\ jobs[Cleanup].state = state

\* Mutant: the failed Job is left, and looked at again.
RetryCleanup_Keeps ==
  /\ CleanupEnded("failed")
  /\ UNCHANGED vars

RetryCleanup ==
  /\ CleanupEnded("failed")
  /\ jobs' = [jobs EXCEPT ![Cleanup] = None]
  /\ UNCHANGED <<alias, collections, uploads, results, used, interrupted, budget,
                 lifecycleVars>>

\* Mutant: a Job that has ended is enough.
Release_Ended ==
  /\ \E state \in {"complete", "failed"} : CleanupEnded(state)
  /\ jobs' = [jobs EXCEPT ![Cleanup] = None]
  /\ kb' = "gone"
  /\ UNCHANGED <<alias, collections, uploads, results, used, interrupted, budget,
                 doomed, obj, wanted, pass>>

\* The Job's deletion may fail unnoticed, and the finalizer's removal makes the next pass
\* start over.
Release ==
  /\ CleanupEnded("complete")
  /\ \E trouble \in {"", "undeleted", "crash"} :
       /\ Unless(trouble, trouble # "")
       /\ jobs' = IF trouble = "undeleted" THEN jobs ELSE [jobs EXCEPT ![Cleanup] = None]
       /\ kb' = IF trouble = "crash" THEN kb ELSE "gone"
  /\ UNCHANGED <<alias, collections, uploads, results, used, interrupted,
                 doomed, obj, wanted, pass>>

CleanupPass == CreateCleanup \/ RetryCleanup \/ Release

-----------------------------------------------------------------------------
(* The user.                                                               *)

\* A Restore is created when its Backup has ended (RUNBOOK.md waits for that).
Create(o) ==
  /\ o \in wanted /\ obj[o] = None
  /\ o = "restore" => obj["backup"] # None /\ obj["backup"].phase \in Terminal
  /\ obj' = [obj EXCEPT ![o] =
       [phase |-> "", job |-> None, id |-> None, location |-> None,
        suspend |-> FALSE, finalizer |-> FALSE, deleting |-> FALSE]]
  /\ wanted' = wanted \ {o}
  /\ UNCHANGED <<storeVars, kb, doomed, pass>>

\* Without its finalizer an object is gone at once; another one may be created later.
Delete(o) ==
  /\ Fault("delete")
  /\ obj[o] # None /\ ~obj[o].deleting
  /\ obj' = [obj EXCEPT ![o] = IF @.finalizer THEN [@ EXCEPT !.deleting = TRUE] ELSE None]
  /\ wanted' = wanted \union {o}
  /\ EndPass(o)
  /\ UNCHANGED <<alias, collections, uploads, results, jobs, used, interrupted, kb, doomed>>

Suspend(o) ==
  /\ Fault("suspend")
  /\ obj[o] # None /\ ~obj[o].suspend
  /\ obj' = [obj EXCEPT ![o].suspend = TRUE]
  /\ EndPass(o)
  /\ UNCHANGED <<alias, collections, uploads, results, jobs, used, interrupted,
                 kb, doomed, wanted>>

Resume(o) ==
  /\ obj[o] # None /\ obj[o].suspend
  /\ obj' = [obj EXCEPT ![o].suspend = FALSE]
  /\ EndPass(o)
  /\ UNCHANGED <<storeVars, kb, doomed, wanted>>

DeleteKnowledgeBase ==
  /\ Fault("deleteKb")
  /\ kb = "present"
  /\ kb' = "deleting"
  /\ doomed' = IF alias = None THEN doomed ELSE alias
  /\ UNCHANGED <<alias, collections, uploads, results, jobs, used, interrupted,
                 obj, wanted, pass>>

\* Another one of the same name.
CreateKnowledgeBase ==
  /\ kb = "gone"
  /\ kb' = "present"
  /\ UNCHANGED <<storeVars, doomed, obj, wanted, pass>>

-----------------------------------------------------------------------------

\* What goes on by itself: pods run, and a pass is repeated on a change of its object, every
\* few seconds while its Job runs, and after an error.
Pods == (\E j \in JobNames : Pod(j)) /\ UNCHANGED lifecycleVars
System == Pods \/ (\E o \in Objects : Pass(o)) \/ CleanupPass

Disturb ==
  \/ (\E j \in JobNames : Kill(j) \/ Lose(j)) /\ UNCHANGED lifecycleVars
  \/ Ingest /\ UNCHANGED lifecycleVars  \* its Job outlives its KnowledgeBase
  \/ \E o \in Objects : Crash(o) \/ Delete(o) \/ Suspend(o)
  \/ DeleteKnowledgeBase

Wish == (\E o \in Objects : Create(o) \/ Resume(o)) \/ CreateKnowledgeBase

Next == System \/ Disturb \/ Wish

\* As long as a pod or a reconciler can go on, one of them does.
Fairness == WF_vars(System)

Spec == Init /\ [][Next]_vars /\ Fairness

-----------------------------------------------------------------------------

\* A completed Backup's location is the archive that the attempt its status names uploaded,
\* however many Jobs were lost, orphaned or repeated before (backup_controller.go: the id is
\* renewed with every Job; the result is read from the Job of the same status).
ReportedIsUploaded ==
  LET b == obj["backup"]
  IN b # None /\ b.phase = "Completed" =>
       b.location # None /\ b.location = b.id /\ uploads[b.location] # None

\* Readers are only ever moved to a restored collection that holds, page by page, what the
\* archive holds: whatever batch went missing and whichever pod it is (restore.py counts
\* before it swaps).
RestorePromotesBackup ==
  [][\A j \in Ids : alias' = j /\ alias # j /\ jobs[j] # None =>
       jobs[j].kind = "restore" /\ collections[j] = uploads[jobs[j].from]]_vars

\* Unless a pod ended between the move of the alias and the deletion after it, readers have a
\* collection until a deletion is requested, and it is whole, while Jobs of every kind run
\* together (stores.py: the collection deleted is the one the alias was moved from).
ServesWhole ==
  ~interrupted =>
    \/ alias = None /\ doomed # None
    \/ alias # None /\ collections[alias] # None /\ Len(collections[alias]) = Pages

\* When the finalizer has been released, readers no longer reach the collection they had
\* when the deletion was requested, whatever was promoted meanwhile
\* (deletion_controller.go: only a cleanup that succeeded releases it).  A promotion that
\* overlaps another or the cleanup may leave a collection behind, with no alias to it.
DetachedBeforeGone == kb = "gone" /\ doomed # None /\ ~interrupted => alias # doomed

\* A Backup or Restore that is not suspended ends Completed, Failed or deleted: no pass waits
\* for a Job that is lost.
Settles ==
  <>[](\A o \in Objects :
         \/ obj[o] = None
         \/ obj[o].suspend
         \/ obj[o].phase \in Terminal /\ ~obj[o].deleting)

\* A KnowledgeBase is not left being deleted: a cleanup that failed is run again.
DeletionFinishes == <>[](kb # "deleting")
=============================================================================
