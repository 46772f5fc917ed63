---------------------------- MODULE IngestWorker ----------------------------
(***************************************************************************)
(* The ingest worker (worker/rag_worker/ingest.py) on a Qdrant collection: *)
(* the ingest Jobs of one KnowledgeBase, one after the other, each run by  *)
(* up to BackoffLimit + 1 pods.  A pod indexes every source into a shadow  *)
(* collection named after the Job's round and points the alias that        *)
(* readers use at it; an incremental pod first looks whether any source    *)
(* changed.  After each source it writes a checkpoint, which the Job's     *)
(* next pod reads.                                                         *)
(*                                                                         *)
(* What a collection holds is, for each source, the version whose chunks   *)
(* are in it.  A pod may raise an error, be killed or run into the Job's   *)
(* deadline between any two calls; sources change at any time.  Not here:  *)
(* other stores, a change of the vectors' dimension, the migration of      *)
(* collections made before the alias layout, and the shadows of earlier    *)
(* Jobs that were neither promoted nor dropped.                            *)
(***************************************************************************)
EXTENDS Naturals

CONSTANTS
  NumSources,    \* spec.sources, in order
  MaxVersion,    \* how often a source may change
  EmptyVersions, \* versions of a source from which no chunk comes
  BackoffLimit,  \* how many pods may fail before the Job does
  None

ASSUME SizeAssumption == NumSources \in Nat \ {0} /\ MaxVersion \in Nat \ {0}
ASSUME BackoffAssumption == BackoffLimit \in Nat

VARIABLES
  upstream,    \* the current version of each source
  job,         \* the latest ingest Job
  mode,        \* its INGEST_MODE
  recorded,    \* status.sources: the versions the last result read named
  lastCheckpoint, \* status.lastCheckpoint, of the last Job that failed
  podsLeft,    \* how many pods it may still start
  pc,          \* where its pod is, "none" without one
  i,           \* the source the pod comes to next
  completed,   \* what the pod read in the checkpoint
  results,     \* the pod's source_results, by source
  checkpoint,  \* the Job's checkpoint ConfigMap
  result,      \* its result ConfigMap
  collections, \* the physical collections
  alias,       \* the one that readers reach
  atStart,     \* history: upstream when the Job started
  interrupted  \* history: a checkpoint was resumed from, or a promotion undone

statusVars == <<recorded, lastCheckpoint>>
jobVars == <<job, mode, statusVars, podsLeft, atStart>>
podVars == <<pc, i, completed, results>>
storeVars == <<collections, alias>>
vars == <<upstream, jobVars, podVars, checkpoint, result, storeVars, interrupted>>

Sources == 1..NumSources
Versions == 1..MaxVersion
Contents == [Sources -> Versions \union {None}]
Nothing == [s \in Sources |-> None]

\* This round's shadow, and the collection that was live when the Job started.
Physical == {"staging", "current"}

ASSUME NoneAssumption == None \notin Nat /\ None \notin Contents /\ None \notin Physical

Served == IF alias = None THEN None ELSE collections[alias]

HasChunks(c) == \E s \in Sources : c[s] # None /\ c[s] \notin EmptyVersions

\* The types of the variables, and what a pod at each place can rely on: its shadow
\* is there, the alias it reads points at a collection, its Job runs.
TypeOK ==
  /\ upstream \in [Sources -> Versions] /\ atStart \in [Sources -> Versions]
  /\ job \in {"none", "running", "complete", "failed"}
  /\ mode \in {"full", "incremental"}
  /\ recorded \in Contents /\ lastCheckpoint \in Contents
  /\ podsLeft \in 0..(BackoffLimit + 1)
  /\ pc \in {"none", "ensure", "probe", "stage", "index", "report"}
  /\ i \in 1..(NumSources + 1)
  /\ completed \in Contents /\ results \in Contents /\ checkpoint \in Contents
  /\ result \in Contents \union {None}
  /\ collections \in [Physical -> Contents \union {None}]
  /\ alias \in Physical \union {None}
  /\ interrupted \in BOOLEAN
  /\ pc = "index" => collections["staging"] # None
  /\ alias # None => collections[alias] # None
  /\ pc = "probe" => alias # None
  /\ pc # "none" => job = "running"

Init ==
  /\ upstream = [s \in Sources |-> 1] /\ atStart = upstream
  /\ job = "none" /\ mode = "full" /\ podsLeft = 0
  /\ recorded = Nothing /\ lastCheckpoint = Nothing
  /\ pc = "none" /\ i = 1 /\ completed = Nothing /\ results = Nothing
  /\ checkpoint = Nothing /\ result = None
  /\ collections = [p \in Physical |-> None] /\ alias = None
  /\ interrupted = FALSE

-----------------------------------------------------------------------------
(* The Job and its pods.                                                   *)

\* finalizeIngest takes over the result of a Job, or the checkpoint of one that
\* failed; it does not run for a Job that was cancelled, overdue or collected.
Finalized ==
  \/ job = "complete" /\ result # None /\ recorded' = result /\ lastCheckpoint' = Nothing
  \/ job = "failed" /\ recorded' = recorded /\ lastCheckpoint' \in {checkpoint, Nothing}
  \/ UNCHANGED statusVars

\* startIngest: a new round, so a new shadow name and a new, empty checkpoint.
\* A deferred schedule fire makes any Job incremental.
StartJob ==
  /\ job # "running"
  /\ Finalized
  /\ job' = "running" /\ mode' \in {"full", "incremental"}
  /\ podsLeft' = BackoffLimit + 1
  /\ checkpoint' = Nothing /\ result' = None
  /\ collections' = [staging |-> None, current |-> Served]
  /\ alias' = IF alias = None THEN None ELSE "current"
  /\ atStart' = upstream
  /\ UNCHANGED <<upstream, podVars, interrupted>>

\* Mutant: there is no limit to the pods of a Job.
StartPod_Unlimited ==
  /\ job = "running" /\ pc = "none" /\ podsLeft > 0
  /\ pc' = IF mode = "full" THEN "stage" ELSE "ensure"
  /\ i' = 1 /\ completed' = Nothing /\ results' = Nothing
  /\ UNCHANGED <<upstream, jobVars, checkpoint, result, storeVars, interrupted>>

\* Mutant: one pod too many.
StartPod_OneMore ==
  /\ job = "running" /\ pc = "none" /\ podsLeft >= 0
  /\ podsLeft' = podsLeft - 1
  /\ pc' = IF mode = "full" THEN "stage" ELSE "ensure"
  /\ i' = 1 /\ completed' = Nothing /\ results' = Nothing
  /\ UNCHANGED <<upstream, job, mode, statusVars, atStart, checkpoint, result, storeVars, interrupted>>

StartPod ==
  /\ job = "running" /\ pc = "none" /\ podsLeft > 0
  /\ podsLeft' = podsLeft - 1
  /\ pc' = IF mode = "full" THEN "stage" ELSE "ensure"
  /\ i' = 1 /\ completed' = Nothing /\ results' = Nothing
  /\ UNCHANGED <<upstream, job, mode, statusVars, atStart, checkpoint, result, storeVars, interrupted>>

JobFails ==
  /\ job = "running" /\ pc = "none" /\ podsLeft = 0
  /\ job' = "failed"
  /\ UNCHANGED <<upstream, mode, statusVars, podsLeft, atStart, podVars, checkpoint,
                 result, storeVars, interrupted>>

\* activeDeadlineSeconds is over, or the operator deletes the Job: its pod is killed.
Deadline ==
  /\ job = "running"
  /\ job' = "failed" /\ pc' = "none"
  /\ UNCHANGED <<upstream, mode, statusVars, podsLeft, atStart, i, completed, results, checkpoint,
                 result, storeVars, interrupted>>

\* Eviction, preemption, out of memory, or an error outside the try block of
\* _full_ingest: nothing is cleaned up.
Kill ==
  /\ pc # "none" /\ pc' = "none"
  /\ UNCHANGED <<upstream, jobVars, i, completed, results, checkpoint, result, storeVars, interrupted>>

-----------------------------------------------------------------------------
(* _full_ingest.                                                           *)

\* The shadow is dropped; if the alias points at it, readers lose it.
DropShadow ==
  /\ collections' = [collections EXCEPT !["staging"] = None]
  /\ alias' = IF alias = "staging" THEN None ELSE alias

\* What read_checkpoint returns: nothing when the API server does not answer.
ReadCheckpoint == completed' \in {checkpoint, Nothing}

\* recreate_collection, then the checkpoint is read.  From here a pod that has
\* read something, or that emptied what readers see, cannot keep the promise.
Stage ==
  /\ pc = "stage" /\ pc' = "index"
  /\ collections' = [collections EXCEPT !["staging"] = Nothing]
  /\ alias' = IF alias = "staging" THEN None ELSE alias
  /\ ReadCheckpoint
  /\ results' = completed' /\ i' = 1
  /\ interrupted' = (interrupted \/ completed' # Nothing \/ alias = "staging")
  /\ UNCHANGED <<upstream, jobVars, checkpoint, result>>

SkipCompleted ==
  /\ pc = "index" /\ i \in Sources
  /\ completed[i] # None
  /\ i' = i + 1
  /\ UNCHANGED <<upstream, jobVars, pc, completed, results, checkpoint, result, storeVars, interrupted>>

\* A source is fetched, chunked, embedded and written to the shadow; then the
\* checkpoint is written, as far as the API server lets it.
IndexSource ==
  /\ pc = "index" /\ i \in Sources
  /\ completed[i] = None
  /\ collections' = [collections EXCEPT !["staging"][i] = upstream[i]]
  /\ results' = [results EXCEPT ![i] = upstream[i]]
  /\ checkpoint' \in {checkpoint, results'}
  /\ i' = i + 1
  /\ UNCHANGED <<upstream, jobVars, pc, completed, result, alias, interrupted>>

\* Mutant: the last source is not waited for.
AllIndexed_OffByOne == pc = "index" /\ i >= NumSources
AllIndexed == pc = "index" /\ i > NumSources

\* The count that the code compares with zero is the larger of the shadow's and
\* the results'.
NoChunks == ~HasChunks(collections["staging"]) /\ ~HasChunks(results)

RefuseEmpty ==
  /\ AllIndexed /\ NoChunks
  /\ DropShadow
  /\ pc' = "none"
  /\ UNCHANGED <<upstream, jobVars, i, completed, results, checkpoint, result, interrupted>>

\* swap_collection: the alias moves in one call, then its old target is dropped.
Promote ==
  /\ AllIndexed /\ ~NoChunks
  /\ alias' = "staging"
  /\ collections' = IF alias = "current" THEN [collections EXCEPT !["current"] = None]
                    ELSE collections
  /\ pc' = "report"
  /\ UNCHANGED <<upstream, jobVars, i, completed, results, checkpoint, result, interrupted>>

\* write_result, which never fails the Job.
WriteResult ==
  /\ result' \in {None, results}
  /\ job' = "complete" /\ pc' = "none"
  /\ UNCHANGED <<upstream, mode, statusVars, podsLeft, atStart, i, completed, results, checkpoint,
                 storeVars, interrupted>>

Report == pc = "report" /\ WriteResult

\* Any exception inside the try block drops the shadow, promoted or not.
Raise ==
  /\ pc \in {"index", "report"}
  /\ DropShadow
  /\ pc' = "none"
  /\ interrupted' = (interrupted \/ pc = "report")
  /\ UNCHANGED <<upstream, jobVars, i, completed, results, checkpoint, result>>

-----------------------------------------------------------------------------
(* _incremental_ingest.                                                    *)

\* The collection is created, empty, where there is none; the checkpoint is
\* read, and a source that is in it will be in no result of this pod's.
EnsureCollection ==
  /\ pc = "ensure" /\ pc' = "probe"
  /\ alias' = IF alias = None THEN "current" ELSE alias
  /\ collections' = IF alias = None THEN [collections EXCEPT !["current"] = Nothing]
                    ELSE collections
  /\ ReadCheckpoint
  /\ interrupted' = (interrupted \/ completed' # Nothing)
  /\ UNCHANGED <<upstream, jobVars, i, results, checkpoint, result>>

\* PRIOR_SOURCES_JSON: status.sources, and for a source that is not in it what
\* the checkpoint of a failed Job says.
Prior(s) == IF recorded[s] # None THEN recorded[s] ELSE lastCheckpoint[s]

\* Mutant: a source that has been indexed before is unchanged.
Unchanged_IfRecorded(s) == Prior(s) # None

\* The source's revision is the recorded one.
Unchanged(s) == upstream[s] = Prior(s)

ProbeCompleted ==
  /\ pc = "probe" /\ i \in Sources
  /\ completed[i] # None
  /\ i' = i + 1
  /\ UNCHANGED <<upstream, jobVars, pc, completed, results, checkpoint, result, storeVars, interrupted>>

\* An unchanged source keeps its chunks, if it has any: a source that only the
\* checkpoint of an earlier Job knows was in a shadow that is gone.
CarryOver ==
  /\ pc = "probe" /\ i \in Sources
  /\ completed[i] = None /\ Unchanged(i)
  /\ results' = [results EXCEPT ![i] = Prior(i)]
  /\ i' = i + 1
  /\ interrupted' = (interrupted \/ recorded[i] = None)
  /\ UNCHANGED <<upstream, jobVars, pc, completed, checkpoint, result, storeVars>>

\* A changed source, or a collection without chunks: everything is rebuilt.
Rebuild ==
  /\ pc = "probe"
  /\ \/ i \in Sources /\ completed[i] = None /\ ~Unchanged(i)
     \/ i > NumSources /\ ~HasChunks(Served)
  /\ pc' = "stage"
  /\ UNCHANGED <<upstream, jobVars, i, completed, results, checkpoint, result, storeVars, interrupted>>

\* Mutant: a look at the first source is enough.
AllProbed_First == pc = "probe" /\ i > 1
AllProbed == pc = "probe" /\ i > NumSources

Retain == AllProbed /\ HasChunks(Served) /\ WriteResult

-----------------------------------------------------------------------------
Publish ==
  /\ \E s \in Sources :
       /\ upstream[s] < MaxVersion
       /\ upstream' = [upstream EXCEPT ![s] = @ + 1]
  /\ UNCHANGED <<jobVars, podVars, checkpoint, result, storeVars, interrupted>>

FullIngest == Stage \/ SkipCompleted \/ IndexSource \/ RefuseEmpty \/ Promote \/ Report
IncrementalIngest == EnsureCollection \/ ProbeCompleted \/ CarryOver \/ Rebuild \/ Retain
Pod == StartPod \/ FullIngest \/ IncrementalIngest \/ JobFails
Failure == Kill \/ Raise \/ Deadline

Next == StartJob \/ Pod \/ Failure \/ Publish

Spec == Init /\ [][Next]_vars

\* Pods run and the Job controller replaces or fails them; the operator, the
\* sources and the failures owe nothing.
FairSpec == Spec /\ WF_vars(Pod)

-----------------------------------------------------------------------------
Reader == INSTANCE Collection WITH served <- Served, intact <- ~interrupted

\* Readers see whole corpora, replaced at once and never by older ones, up to
\* the first interruption (the shadow, the verification and the alias swap of
\* _full_ingest, the probes of _incremental_ingest).
ServesWholeCorpora == Reader!Spec

\* The same without the reservation: what the docstring of _full_ingest and the
\* architecture document say of an interrupted ingestion.
AlwaysWhole == Served # None => Served \in [Sources -> Versions] \union {Nothing}

\* What a Job reports as indexed is what readers get from then on: every
\* source, in the version that is served (write_result, _carry_chunks).
ReportedIsServed ==
  (job = "complete" /\ result # None /\ ~interrupted) => result = Served

\* A Job that completes leaves nothing older than the sources were when it
\* started, also if it only compared revisions.
CompleteIsFresh ==
  (job = "complete" /\ ~interrupted) => \A s \in Sources : Served[s] >= atStart[s]

\* Every Job ends, whatever its pods run into.
JobsEnd == job = "running" ~> job # "running"

=============================================================================
