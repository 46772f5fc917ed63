----------------------------- MODULE StoreJobs -----------------------------
(***************************************************************************)
(* The Jobs that copy, replace and drop the data of a KnowledgeBase in its *)
(* vector store, as their workers run them (worker/rag_worker/backup.py,   *)
(* restore.py, cleanup.py), on a Qdrant store (stores.py): readers go      *)
(* through an alias to one of its physical collections.                    *)
(*                                                                         *)
(* A worker is one step per call to the store or the object storage.  It   *)
(* may raise or be killed between any two of them, and its Job starts one  *)
(* more pod.  Ingestions (module IngestWorker) are here only as another    *)
(* promotion of a whole collection.                                        *)
(*                                                                         *)
(* Data is a sequence of pages, the batches in which it is read and        *)
(* written, each named after the ingestion it is from.  Jobs, ingestions   *)
(* and the collections they make are numbered by a counter that stands for *)
(* the nanosecond clock.                                                   *)
(***************************************************************************)
EXTENDS Integers, Sequences, FiniteSets

CONSTANTS
  MaxIds,         \* no more Jobs and ingestions than this
  Pages,          \* the pages of a whole corpus
  Faults,         \* which kinds of disturbance can happen
  MaxDisturbances,\* how many of them can happen in total
  None            \* an absent value

Ids == 1..MaxIds

Cleanup == 0         \* the cleanup Job, the only one with a fixed name
JobNames == Ids \union {Cleanup}

ASSUME StoreJobsAssumption ==
  /\ MaxIds \in Nat \ {0} /\ Pages \in Nat \ {0} /\ MaxDisturbances \in Nat
  /\ None \notin Int /\ None \notin Seq(Ids)

VARIABLES
  alias,       \* the collection readers are directed to, or None
  collections, \* the pages of each physical collection, None where there is none
  uploads,     \* the archive each backup Job has uploaded
  results,     \* the Jobs whose result ConfigMap is there
  jobs,        \* the Jobs, None where there is none
  used,        \* the last number given out
  interrupted, \* history: a pod ended between a move of the alias and the deletion after it
  budget       \* disturbances left

storeVars == <<alias, collections, uploads, results, jobs, used, interrupted, budget>>

Kinds == {"backup", "restore", "cleanup"}
FirstStep(kind) ==
  CASE kind = "backup" -> "export" [] kind = "restore" -> "download" [] kind = "cleanup" -> "find"
Steps == {"export", "upload", "report", "download", "recreate", "fill", "verify",
          "find", "moveAlias", "dropOld", "dropAlias", "dropTarget"}

\* `got' is the data a pod works on, `sent' how much of it the pod has written, `target'
\* what the alias pointed at when it looked; `from' is the archive a restore is given.
Jobs ==
  [kind: Kinds, state: {"running", "complete", "failed"}, retries: 0..1, step: Steps,
   got: Seq(Ids), sent: Nat, target: Ids \union {None}, from: Ids \union {None}]

NewJob(kind, from) ==
  [kind |-> kind, state |-> "running", retries |-> 1, step |-> FirstStep(kind),
   got |-> <<>>, sent |-> 0, target |-> None, from |-> from]

StoreTypeOK ==
  /\ alias \in Ids \union {None}
  /\ collections \in [Ids -> Seq(Ids) \union {None}]
  /\ uploads \in [Ids -> Seq(Ids) \union {None}]
  /\ results \subseteq Ids
  /\ jobs \in [JobNames -> Jobs \union {None}]
  /\ used \in Ids
  /\ interrupted \in BOOLEAN
  /\ budget \in 0..MaxDisturbances

Corpus(v) == [p \in 1..Pages |-> v]

StoreInit ==
  /\ alias = 1
  /\ collections = [i \in Ids |-> IF i = 1 THEN Corpus(1) ELSE None]
  /\ uploads = [i \in Ids |-> None]
  /\ results = {}
  /\ jobs = [j \in JobNames |-> None]
  /\ used = 1
  /\ interrupted = FALSE
  /\ budget = MaxDisturbances

Fault(kind) == kind \in Faults /\ budget > 0 /\ budget' = budget - 1

\* One of two outcomes, the second of them a disturbance.
Unless(kind, bad) == IF bad THEN Fault(kind) ELSE UNCHANGED budget

At(j, kind, step) ==
  /\ jobs[j] # None
  /\ jobs[j].kind = kind /\ jobs[j].state = "running" /\ jobs[j].step = step

Goto(j, step) == jobs' = [jobs EXCEPT ![j].step = step]

\* With a pod goes what it had in memory.
Fresh(job) ==
  [job EXCEPT !.step = FirstStep(job.kind), !.got = <<>>, !.sent = 0, !.target = None]
Ends(j, state) == jobs' = [jobs EXCEPT ![j] = [Fresh(@) EXCEPT !.state = state]]
Complete(j) == Ends(j, "complete")

\* Qdrant deletes the aliases of a collection with it.
Drop(c) ==
  /\ collections' = [collections EXCEPT ![c] = None]
  /\ alias' = IF alias = c THEN None ELSE alias

-----------------------------------------------------------------------------
(* backup.py                                                               *)

\* A page of whatever collection the alias is at by then; the last one ends the export.
Export(j) ==
  /\ At(j, "backup", "export")
  /\ alias # None /\ collections[alias] # None
  /\ LET n == Len(jobs[j].got)
     IN IF n < Len(collections[alias])
          THEN jobs' = [jobs EXCEPT ![j].got = Append(@, collections[alias][n + 1])]
          ELSE Goto(j, "upload")
  /\ UNCHANGED <<alias, collections, uploads, results, used, interrupted, budget>>

Upload(j) ==
  /\ At(j, "backup", "upload")
  /\ uploads' = [uploads EXCEPT ![j] = jobs[j].got]
  /\ Goto(j, "report")
  /\ UNCHANGED <<alias, collections, results, used, interrupted, budget>>

\* Reporting never fails the Job; the result may stay unwritten.
Report(j) ==
  /\ \E kind \in {"backup", "restore"} : At(j, kind, "report")
  /\ Complete(j)
  /\ \E lost \in BOOLEAN : /\ Unless("unreported", lost)
                           /\ results' = IF lost THEN results ELSE results \union {j}
  /\ UNCHANGED <<alias, collections, uploads, used, interrupted>>

-----------------------------------------------------------------------------
(* restore.py, with Qdrant's swap_collection.                              *)

Download(j) ==
  /\ At(j, "restore", "download")
  /\ jobs' = [jobs EXCEPT ![j].got = uploads[jobs[j].from], ![j].step = "recreate"]
  /\ UNCHANGED <<alias, collections, uploads, results, used, interrupted, budget>>

\* The staging collection is the Job's, so a second pod empties what the first has filled:
\* it is deleted and created.
Recreate(j) ==
  /\ At(j, "restore", "recreate")
  /\ collections' = [collections EXCEPT ![j] = <<>>]
  /\ alias' = IF alias = j THEN None ELSE alias
  /\ Goto(j, "fill")
  /\ UNCHANGED <<uploads, results, used, interrupted, budget>>

\* A batch that is acknowledged may be missing.
Fill(j) ==
  /\ At(j, "restore", "fill")
  /\ collections[j] # None
  /\ IF jobs[j].sent < Len(jobs[j].got)
       THEN /\ jobs' = [jobs EXCEPT ![j].sent = @ + 1]
            /\ \E lost \in BOOLEAN :
                 /\ Unless("batch", lost)
                 /\ collections' = IF lost THEN collections
                      ELSE [collections EXCEPT ![j] = Append(@, jobs[j].got[jobs[j].sent + 1])]
       ELSE Goto(j, "verify") /\ UNCHANGED <<collections, budget>>
  /\ UNCHANGED <<alias, uploads, results, used, interrupted>>

\* Mutant: the batches sent are counted, not the points that arrived.
Verified_CountsSent(j) == jobs[j].sent = Len(jobs[j].got)
Verified(j) == Len(collections[j]) = Len(jobs[j].got)

Verify(j) ==
  /\ At(j, "restore", "verify")
  /\ collections[j] # None /\ Verified(j)
  /\ Goto(j, "find")
  /\ UNCHANGED <<alias, collections, uploads, results, used, interrupted, budget>>

\* Where the alias points now, which is what the worker will delete.
FindTarget(j) ==
  /\ \E kind \in {"restore", "cleanup"} : At(j, kind, "find")
  /\ jobs' = [jobs EXCEPT ![j].target = alias,
                          ![j].step = IF jobs[j].kind = "restore" THEN "moveAlias"
                                      ELSE "dropAlias"]
  /\ UNCHANGED <<alias, collections, uploads, results, used, interrupted, budget>>

MoveAlias(j) ==
  /\ At(j, "restore", "moveAlias")
  /\ collections[j] # None
  /\ alias' = j
  /\ Goto(j, "dropOld")
  /\ UNCHANGED <<collections, uploads, results, used, interrupted, budget>>

\* Mutant: the target is looked up again.
DropOld_Current(j) ==
  /\ At(j, "restore", "dropOld")
  /\ IF alias = None THEN UNCHANGED <<collections, alias>> ELSE Drop(alias)
  /\ Goto(j, "report")
  /\ UNCHANGED <<uploads, results, used, interrupted, budget>>

DropOld(j) ==
  /\ At(j, "restore", "dropOld")
  /\ IF jobs[j].target \in {None, j} THEN UNCHANGED <<collections, alias>>
                                     ELSE Drop(jobs[j].target)
  /\ Goto(j, "report")
  /\ UNCHANGED <<uploads, results, used, interrupted, budget>>

-----------------------------------------------------------------------------
(* cleanup.py, with Qdrant's drop.                                         *)

\* Nothing to drop, or its alias goes first.
DropAlias(j) ==
  /\ At(j, "cleanup", "dropAlias")
  /\ IF jobs[j].target = None
       THEN Complete(j) /\ alias' = alias
       ELSE Goto(j, "dropTarget") /\ alias' = None
  /\ UNCHANGED <<collections, uploads, results, used, interrupted, budget>>

DropTarget(j) ==
  /\ At(j, "cleanup", "dropTarget")
  /\ Drop(jobs[j].target)
  /\ Complete(j)
  /\ UNCHANGED <<uploads, results, used, interrupted, budget>>

-----------------------------------------------------------------------------
(* Pods and Jobs that end.                                                 *)

Running(j) == jobs[j] # None /\ jobs[j].state = "running"

Restarts(j) ==
  jobs' = [jobs EXCEPT ![j] = [Fresh(jobs[j]) EXCEPT !.retries = jobs[j].retries - 1]]

\* The alias has moved and what had to be deleted after it may still be there, or the
\* collection it moved to is the one a second pod empties.
Interrupted(j) ==
  interrupted' = (interrupted
    \/ (Running(j) /\ jobs[j].kind # "backup"
          /\ jobs[j].step \in {"dropOld", "dropTarget", "report"}))

\* Mutant: a Job never runs out of retries.
PodEnds_Unlimited(j) == Restarts(j) /\ Interrupted(j)

\* The Job starts another pod, or fails when its one retry is used.
PodEnds(j) ==
  /\ IF jobs[j].retries > 0 THEN Restarts(j) ELSE Ends(j, "failed")
  /\ Interrupted(j)

\* What makes a pod raise without a disturbance: nothing to export, a shadow dropped by
\* somebody else, a count that is wrong, and the bundled worker's archive, which it opens
\* in text mode and cannot write (spec.workerImage admits others).
Broken(j) ==
  \/ At(j, "backup", "export") /\ (alias = None \/ collections[alias] = None)
  \/ At(j, "backup", "upload")
  \/ /\ \E step \in {"fill", "verify", "moveAlias"} : At(j, "restore", step)
     /\ collections[j] = None
  \/ At(j, "restore", "verify") /\ collections[j] # None /\ ~Verified(j)

Staged == {"recreate", "fill", "verify", "find", "moveAlias", "dropOld"}

\* The handler of restore.py drops the shadow, if it can.
Raise(j) ==
  /\ Running(j)
  /\ Unless("store", ~Broken(j))
  /\ jobs[j].step # "report"
  /\ \/ jobs[j].kind = "restore" /\ jobs[j].step \in Staged /\ Drop(j)
     \/ UNCHANGED <<collections, alias>>
  /\ PodEnds(j)
  /\ UNCHANGED <<uploads, results, used>>

\* A pod is killed, or a Job overruns its deadline.
Kill(j) ==
  /\ Fault("kill")
  /\ Running(j)
  /\ \/ PodEnds(j)
     \/ Ends(j, "failed") /\ Interrupted(j)
  /\ UNCHANGED <<alias, collections, uploads, results, used>>

\* A Job is deleted with its pod, or collected after its TTL before anybody has looked.
Lose(j) ==
  /\ Fault("lose")
  /\ jobs[j] # None
  /\ jobs' = [jobs EXCEPT ![j] = None]
  /\ Interrupted(j)
  /\ UNCHANGED <<alias, collections, uploads, results, used>>

Pod(j) ==
  \/ Export(j) \/ Upload(j) \/ Report(j)
  \/ Download(j) \/ Recreate(j) \/ Fill(j) \/ Verify(j)
  \/ FindTarget(j) \/ MoveAlias(j) \/ DropOld(j)
  \/ DropAlias(j) \/ DropTarget(j) \/ Raise(j)

\* An ingestion promotes a whole new corpus and deletes the collection it replaces.
Ingest ==
  /\ Fault("ingest")
  /\ used < MaxIds
  /\ used' = used + 1
  /\ alias' = used'
  /\ collections' = [i \in Ids |-> IF i = used' THEN Corpus(i)
                                   ELSE IF i = alias THEN None ELSE collections[i]]
  /\ UNCHANGED <<uploads, results, jobs, interrupted>>

=============================================================================
