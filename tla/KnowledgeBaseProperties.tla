---------------------- MODULE KnowledgeBaseProperties ----------------------
(***************************************************************************)
(* What the KnowledgeBase reconciler promises about the specification of   *)
(* module KnowledgeBase.  Which of the promises hold depends on the        *)
(* disturbances a configuration allows; the README says which and why.     *)
(***************************************************************************)
EXTENDS KnowledgeBase

Running == {j \in jobs : j.state = "running"}

\* One Job of a KnowledgeBase, ingest or eval, is in flight at a time
\* (README "One in-flight Job per KnowledgeBase"): startIngest and startEval
\* are only reached once the active Job has been finalized or deleted.
OneJobInFlight == \A i, j \in Running : i = j

\* No two ingest workers stage the same physical collection: the shadow is
\* named after INGEST_ROUND alone, so their Jobs' rounds must differ even when
\* one of them is only lingering.
NoSharedShadow == \A p, q \in pods : p.name.round = q.name.round => p = q

\* Between passes, a KnowledgeBase that reports Ready or Degraded and owes no
\* re-index serves what its status says: the observed spec, chunked with the
\* effective chunking.
ServedAsRecorded ==
  (/\ pc = "idle"
   /\ status.phase \in {"Ready", "Degraded"}
   /\ ~status.pendingRetune
   /\ status.effectiveChunking # None)
  => store = [spec |-> status.observedSpecHash, chunking |-> status.effectiveChunking]

\* Phase Ingesting means that a Job is in flight (the phase table of the
\* runbook): no pass leaves the phase behind without an active Job.
IngestingHasJob ==
  (pc = "idle" /\ status.phase = "Ingesting") => status.activeJob # None

\* Auto-tune never gives up on a worse configuration than the best one it
\* measured: a Degraded KnowledgeBase that owes no re-index is on it.
SettledOnBest ==
  (/\ AutoTune
   /\ status.phase = "Degraded" /\ ~status.pendingRetune
   /\ status.bestChunking # None /\ status.effectiveChunking # None)
  => status.effectiveChunking = status.bestChunking

\* A configuration that has yet to be indexed carries no evaluation, so that
\* its re-index is always followed by a measurement of its own.
RetuneIsUnevaluated ==
  status.pendingRetune =>
    /\ ~status.evaluated
    /\ status.activeJob # None => status.activeJob.type = "ingest"

\* The attempt counter and the best recall never outrun the loop: at most
\* MaxAttempts steps, and a remembered recall is one below the target.
TuningIsBounded ==
  /\ status.autoTuneAttempts <= MaxAttempts
  /\ status.bestChunking # None => status.bestRecallPercent < Target
  /\ status.bestChunking = None => status.bestRecallPercent = 0

NewIngests == {j \in jobs' : j.name.type = "ingest" /\ Named(j.name) = {}}

\* After a failed ingestion of a spec, no new Job is created for that spec
\* until the retry delay is over (ingestFailureRetryAfter).
NoHotRetry ==
  [][\A j \in NewIngests : clock.cooling => j.name.spec # status.lastFailedSpecHash]_vars

\* A worker may skip sources on their revision only if the collection already
\* holds what it is to index, the same spec and the same chunking: any change of
\* either forces mode full (startIngest).
IncrementalOnlyWhenUnchanged ==
  [][\A p \in pods' \ pods :
       (p.mode = "incremental" /\ store # None) =>
         store = [spec |-> p.name.spec, chunking |-> p.name.chunking]]_vars

Excused == kb.suspend \/ kb.spec \in OversizeSpecs

\* Once the disturbances stop, the corpus follows the spec: it is indexed, no
\* re-index and no deferred or due freshness run is owed, no Job is active.
Converges ==
  <>[](Excused \/ /\ status.observedSpecHash = kb.spec
                  /\ ~status.pendingRetune /\ ~status.deferCronIngest
                  /\ ~clock.freshDue
                  /\ status.activeJob = None)

\* A fire of the freshness schedule during an ingestion is honoured by another
\* one: once flagged, an ingest Job is created before the flag is gone for good.
DeferredTickRuns ==
  [][(status.deferCronIngest /\ ~status'.deferCronIngest) => status'.activeJob # None]_vars

=============================================================================
