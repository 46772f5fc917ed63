--------------------------- MODULE KnowledgeBase ---------------------------
(***************************************************************************)
(* The KnowledgeBase reconciler: one control loop that turns a             *)
(* KnowledgeBase resource into ingest and eval Jobs and records their      *)
(* outcome in the resource's status (internal/controller:                  *)
(* knowledgebase_controller.go, ingestion_controller.go,                   *)
(* evaluation_controller.go, decision_helpers.go, jobs.go).                *)
(*                                                                         *)
(* One pass of Reconcile is several steps here, cut at every call to the   *)
(* API server that changes something, because a crash, an error or a       *)
(* leader handoff loses the in-memory status between two such calls, and   *)
(* because users, Jobs and worker pods move between them.  A pass reads    *)
(* the resource once, so `seen' is the spec it works from throughout and   *)
(* `mem' is the status it edits in memory; only StatusUpdate writes `mem'  *)
(* back.                                                                   *)
(*                                                                         *)
(* Abstractions.  A corpus spec stands for its hash (corpusHash is         *)
(* injective on them) and includes the embedding model; a chunking         *)
(* configuration is an element of Chunkings, stepped by NextChunking (the  *)
(* concrete ladder is module AutoTune).  A Job is known by the parts of    *)
(* its name.  ConfigMaps are not modelled except as the outcome a Job      *)
(* leaves (or fails to leave) in its result ConfigMap.  Reads are taken to *)
(* be fresh; the informer cache's lag is not modelled here.                *)
(***************************************************************************)
EXTENDS Integers, FiniteSets

CONSTANTS
  Specs,          \* corpus specs the user may ask for
  InitialSpec,    \* the one the KnowledgeBase is created with
  Edits,          \* pairs <<s, t>>: the user may replace s by t
  OversizeSpecs,  \* specs whose worker ConfigMap exceeds the size limit
  SecretVersions, \* values of the referenced Secrets, by fingerprint
  Chunkings,      \* chunking configurations
  SpecChunking,   \* Specs -> Chunkings: what the spec asks for
  NextChunking,   \* Chunkings -> Chunkings: the auto-tune ladder
  Recalls,        \* recall percentages an evaluation may measure
  Target,         \* spec.retrievalQuality.minimumRecallPercent
  EvalEnabled,    \* spec.retrievalQuality is present and not disabled
  AutoTune,       \* spec.retrievalQuality.autoTune.enabled
  MaxAttempts,    \* spec.retrievalQuality.autoTune.maxAttempts
  IngestMode,     \* spec.ingestion.mode: "incremental" or "full"
  PodsLinger,     \* a deleted Job's pod runs on for its grace period
  Faults,         \* which kinds of disturbance can happen
  MaxDisturbances,\* how many user edits and faults can happen in total
  None            \* an absent value

FaultKinds == {"crash", "quota", "identity", "undeleted", "fail", "lose", "overdue",
               "gc", "rotate", "suspend", "tick", "evalTick"}
Percents == 0..100

ASSUME SpecAssumption ==
  /\ InitialSpec \in Specs
  /\ Edits \subseteq Specs \X Specs
  /\ OversizeSpecs \subseteq Specs
  /\ None \notin Specs
ASSUME ChunkingAssumption ==
  /\ SpecChunking \in [Specs -> Chunkings]
  /\ NextChunking \in [Chunkings -> Chunkings]
  /\ None \notin Chunkings
ASSUME EvalAssumption ==
  /\ Recalls \subseteq Percents
  /\ Target \in Percents
  /\ EvalEnabled \in BOOLEAN
  /\ AutoTune \in BOOLEAN
  /\ MaxAttempts \in Nat \ {0}
ASSUME EnvironmentAssumption ==
  /\ SecretVersions # {}
  /\ IngestMode \in {"incremental", "full"}
  /\ PodsLinger \in BOOLEAN
  /\ Faults \subseteq FaultKinds
  /\ MaxDisturbances \in Nat

VARIABLES
  kb,      \* the resource's spec side, as the user last wrote it
  status,  \* the resource's status, as the API server holds it
  jobs,    \* the Job objects of this KnowledgeBase
  pods,    \* ingest worker processes that can still promote a collection
  runs,    \* the IngestionRun objects whose phase is Running
  store,   \* what the live collection holds
  clock,   \* which time conditions hold: cron due, eval due, cooling down
  pc,      \* where the reconcile worker is in its pass
  mem,     \* the status as the pass has it in memory
  seen,    \* the resource's spec side as the pass read it
  current, \* the Job the pass is creating or finalizing
  stamp,   \* which timestamp `mem' has just been given
  next,    \* where the pass goes once `mem' is persisted
  budget   \* disturbances left

passVars == <<pc, mem, seen, current, stamp, next>>
vars == <<kb, status, jobs, pods, runs, store, clock, passVars, budget>>

-----------------------------------------------------------------------------
Phases == {"", "Pending", "Ingesting", "Ready", "Degraded", "Failed", "Suspended"}

\* An ingest Job's name carries the round, the attempt counter, the chunking
\* fingerprint and the spec hash; an eval Job's name carries its round only.
IngestNames == [type: {"ingest"}, round: Nat, attempts: Nat,
                chunking: Chunkings, spec: Specs]
EvalNames == [type: {"eval"}, round: Nat, attempts: {0}, chunking: {None}, spec: {None}]
Names == IngestNames \union EvalNames

\* No Job is named like an absent one: status.activeJob is "" between Jobs.
ASSUME NameAssumption == None \notin Names

IngestName(st, spec, chunking) ==
  [type |-> "ingest", round |-> st.ingestRound, attempts |-> st.autoTuneAttempts,
   chunking |-> chunking, spec |-> spec]

EvalName(st) ==
  [type |-> "eval", round |-> st.evalRound, attempts |-> 0,
   chunking |-> None, spec |-> None]

\* `outcome' is what the result ConfigMap says once the Job is complete: "ok"
\* (for an evaluation, with a recall), "noDataset", or "lost" when the worker
\* could not write it.
Jobs == [name: Names, secrets: SecretVersions,
         state: {"running", "complete", "failed"},
         outcome: {"none", "ok", "noDataset", "lost"},
         recall: Percents, overdue: BOOLEAN]

NewJob(name) ==
  [name |-> name, secrets |-> seen.secrets, state |-> "running",
   outcome |-> "none", recall |-> 0, overdue |-> FALSE]

Statuses ==
  [phase: Phases, activeJob: Names \union {None},
   observedSpecHash: Specs \union {None},
   effectiveChunking: Chunkings \union {None},
   autoTuneAttempts: Nat, pendingRetune: BOOLEAN,
   bestChunking: Chunkings \union {None}, bestRecallPercent: Percents,
   evaluated: BOOLEAN, deferCronIngest: BOOLEAN,
   lastFailedSpecHash: Specs \union {None},
   oversize: Nat,   \* generation at which Ready says SpecConfigTooLarge, or 0
   ingestRound: Nat, evalRound: Nat]

InitialStatus ==
  [phase |-> "", activeJob |-> None, observedSpecHash |-> None,
   effectiveChunking |-> None, autoTuneAttempts |-> 0, pendingRetune |-> FALSE,
   bestChunking |-> None, bestRecallPercent |-> 0, evaluated |-> FALSE,
   deferCronIngest |-> FALSE, lastFailedSpecHash |-> None, oversize |-> 0,
   ingestRound |-> 0, evalRound |-> 0]

KnowledgeBases == [spec: Specs, secrets: SecretVersions, suspend: BOOLEAN,
                   generation: Nat \ {0}]

TypeOK ==
  /\ kb \in KnowledgeBases
  /\ status \in Statuses
  /\ jobs \subseteq Jobs
  /\ pods \subseteq [name: IngestNames, mode: {"full", "incremental"}]
  /\ runs \subseteq IngestNames
  /\ store \in [spec: Specs, chunking: Chunkings] \union {None}
  /\ clock \in [freshDue: BOOLEAN, evalDue: BOOLEAN, cooling: BOOLEAN]
  /\ pc \in {"idle", "active", "decide", "record", "persist", "cleanup"}
  /\ mem \in Statuses
  /\ seen \in KnowledgeBases \union {None}
  /\ pc # "idle" => seen \in KnowledgeBases
  /\ current \in Names \union {None}
  /\ pc = "record" => current \in IngestNames
  /\ stamp \in {"none", "failed", "indexed", "evaluated"}
  /\ next \in {"idle", "decide", "cleanup"}
  /\ budget \in Nat

Init ==
  /\ \E v \in SecretVersions :
       kb = [spec |-> InitialSpec, secrets |-> v, suspend |-> FALSE, generation |-> 1]
  /\ status = InitialStatus
  /\ jobs = {}
  /\ pods = {}
  /\ runs = {}
  /\ store = None
  /\ clock = [freshDue |-> FALSE, evalDue |-> FALSE, cooling |-> FALSE]
  /\ pc = "idle" /\ mem = InitialStatus /\ seen = None
  /\ current = None /\ stamp = "none" /\ next = "idle"
  /\ budget = MaxDisturbances

-----------------------------------------------------------------------------
(* Helpers of the pass.                                                    *)

Disturb == budget > 0 /\ budget' = budget - 1
Fault(kind) == kind \in Faults /\ Disturb

\* Reconcile returns: whatever was only in memory is gone.
EndPass ==
  /\ pc' = "idle" /\ mem' = status /\ seen' = None
  /\ current' = None /\ stamp' = "none" /\ next' = "idle"
  /\ UNCHANGED status

\* The pass is about to call statusUpdate with `st', and goes on at `after'.
Persist(st, time, after) ==
  /\ pc' = "persist" /\ mem' = st /\ stamp' = time /\ next' = after
  /\ UNCHANGED status

Named(name) == {j \in jobs : j.name = name}
PodsOf(name) == {p \in pods : p.name = name}

\* Deleting a Job sends its pod SIGTERM; the worker has no handler and may run
\* on until the grace period ends.  The call's error is ignored.
DeleteJob(j) ==
  \/ /\ jobs' = jobs \ {j}
     /\ pods' = IF PodsLinger THEN pods ELSE pods \ PodsOf(j.name)
     /\ UNCHANGED budget
  \/ Fault("undeleted") /\ UNCHANGED <<jobs, pods>>

Effective(st, spec) ==
  IF st.effectiveChunking # None THEN st.effectiveChunking ELSE SpecChunking[spec]

UserEditedSpec(st, spec) ==
  /\ st.effectiveChunking # None
  /\ st.observedSpecHash # None
  /\ st.observedSpecHash # spec

\* An edited spec discards the auto-tuned override and its memory.
DropStaleTuning(st, spec) ==
  IF UserEditedSpec(st, spec)
    THEN [st EXCEPT !.effectiveChunking = None, !.autoTuneAttempts = 0,
                    !.bestChunking = None, !.bestRecallPercent = 0,
                    !.pendingRetune = FALSE]
    ELSE st

ActiveIngestIsStale(j) ==
  /\ j.name.type = "ingest"
  /\ j.name.spec # seen.spec \/ j.secrets # seen.secrets

\* Mutant: the failed spec is compared with the last ingested one.
CoolingDown_ObservedHash ==
  /\ mem.phase = "Failed"
  /\ mem.lastFailedSpecHash = mem.observedSpecHash
  /\ clock.cooling

CoolingDown ==
  /\ mem.phase = "Failed"
  /\ mem.lastFailedSpecHash = seen.spec
  /\ clock.cooling

SpecConfigTooLargeUnchanged == mem.oversize = seen.generation

\* The first reason that applies.
NeedsIngest ==
  IF mem.deferCronIngest /\ mem.activeJob = None THEN "deferred"
  ELSE IF mem.pendingRetune                      THEN "retune"
  ELSE IF mem.observedSpecHash = None            THEN "initial"
  ELSE IF mem.observedSpecHash # seen.spec       THEN "spec"
  ELSE IF clock.freshDue                         THEN "freshness"
  ELSE "none"

EvalDue ==
  /\ EvalEnabled
  /\ mem.phase \in {"Ready", "Degraded"}
  /\ mem.evaluated => clock.evalDue

MayWork == pc = "decide" /\ ~CoolingDown /\ ~SpecConfigTooLargeUnchanged

AttemptsRemain_OffByOne == AutoTune /\ mem.autoTuneAttempts <= MaxAttempts
AttemptsRemain == AutoTune /\ mem.autoTuneAttempts < MaxAttempts

\* Mutant: remembers how far the recall is from the target.
RecordBest_Shortfall(st, recall) ==
  IF st.bestChunking = None \/ recall > st.bestRecallPercent
    THEN [st EXCEPT !.bestChunking = Effective(st, seen.spec),
                    !.bestRecallPercent = recall - Target]
    ELSE st

RecordBest(st, recall) ==
  IF st.bestChunking = None \/ recall > st.bestRecallPercent
    THEN [st EXCEPT !.bestChunking = Effective(st, seen.spec),
                    !.bestRecallPercent = recall]
    ELSE st

-----------------------------------------------------------------------------
(* The head of a pass: Reconcile up to the first look at the active Job.   *)

\* The worker identity is missing or the quota forbids it: Phase=Pending.
BlockedOnIdentity ==
  /\ pc = "idle"
  /\ Fault("identity")
  /\ seen' = kb
  /\ Persist([status EXCEPT !.phase = "Pending", !.oversize = 0], "none", "idle")
  /\ UNCHANGED <<kb, jobs, pods, runs, store, clock, current>>

ReflectSuspend ==
  /\ pc = "idle"
  /\ kb.suspend /\ status.phase # "Suspended"
  /\ seen' = kb
  /\ Persist([status EXCEPT !.phase = "Suspended", !.oversize = 0], "none", "idle")
  /\ UNCHANGED <<kb, jobs, pods, runs, store, clock, current, budget>>

BeginPass ==
  /\ pc = "idle"
  /\ ~kb.suspend
  /\ seen' = kb
  /\ mem' = DropStaleTuning(status, kb.spec)
  /\ pc' = IF status.activeJob = None THEN "decide" ELSE "active"
  /\ UNCHANGED <<kb, status, jobs, pods, runs, store, clock, current, stamp, next, budget>>

-----------------------------------------------------------------------------
(* The active Job: cancelled, cleared, forgotten, awaited or finalized.    *)

\* Mutant: the stale Job is forgotten but not deleted.
CancelStaleIngest_Forgets ==
  /\ pc = "active"
  /\ \E j \in Named(mem.activeJob) : ActiveIngestIsStale(j)
  /\ Persist([mem EXCEPT !.activeJob = None], "none", "decide")
  /\ UNCHANGED <<kb, jobs, pods, runs, store, clock, seen, current, budget>>

CancelStaleIngest ==
  /\ pc = "active"
  /\ \E j \in Named(mem.activeJob) : ActiveIngestIsStale(j) /\ DeleteJob(j)
  /\ Persist([mem EXCEPT !.activeJob = None], "none", "decide")
  /\ UNCHANGED <<kb, runs, store, clock, seen, current>>

ClearTimedOut ==
  /\ pc = "active"
  /\ \E j \in Named(mem.activeJob) :
       ~ActiveIngestIsStale(j) /\ j.overdue /\ DeleteJob(j)
  /\ Persist([mem EXCEPT !.activeJob = None, !.phase = "Failed", !.oversize = 0,
                         !.lastFailedSpecHash = seen.spec], "failed", "decide")
  /\ UNCHANGED <<kb, runs, store, clock, seen, current>>

\* Mutant: a missing Job is awaited like a running one.
ForgetMissing_Waits ==
  /\ pc = "active"
  /\ Named(mem.activeJob) = {}
  /\ EndPass
  /\ UNCHANGED <<kb, jobs, pods, runs, store, clock, budget>>

ForgetMissing ==
  /\ pc = "active"
  /\ Named(mem.activeJob) = {}
  /\ Persist([mem EXCEPT !.activeJob = None], "none", "decide")
  /\ UNCHANGED <<kb, jobs, pods, runs, store, clock, seen, current, budget>>

\* The active Job, when it is neither stale nor overdue.
Settled(j) == j \in Named(mem.activeJob) /\ ~ActiveIngestIsStale(j) /\ ~j.overdue

AwaitRunning ==
  /\ pc = "active"
  /\ \E j \in jobs :
       /\ Settled(j) /\ j.state = "running"
       /\ IF j.name.type = "ingest" /\ clock.freshDue
            THEN /\ Persist([mem EXCEPT !.deferCronIngest = TRUE], "none", "idle")
                 /\ UNCHANGED <<seen, current>>
            ELSE EndPass
  /\ UNCHANGED <<kb, jobs, pods, runs, store, clock, budget>>

\* Mutant: the phase is left as it was.
FinalizeFailedIngest_KeepsPhase ==
  /\ pc = "active"
  /\ \E j \in jobs :
       /\ Settled(j) /\ j.name.type = "ingest" /\ j.state = "failed"
       /\ current' = j.name
       /\ Persist([mem EXCEPT !.activeJob = None, !.oversize = 0,
                              !.lastFailedSpecHash = j.name.spec], "failed", "cleanup")
  /\ UNCHANGED <<kb, jobs, pods, runs, store, clock, seen, budget>>

FinalizeFailedIngest ==
  /\ pc = "active"
  /\ \E j \in jobs :
       /\ Settled(j) /\ j.name.type = "ingest" /\ j.state = "failed"
       /\ current' = j.name
       /\ Persist([mem EXCEPT !.phase = "Failed", !.activeJob = None, !.oversize = 0,
                              !.lastFailedSpecHash = j.name.spec], "failed", "cleanup")
  /\ UNCHANGED <<kb, jobs, pods, runs, store, clock, seen, budget>>

\* Mutant: any ingestion counts as the deferred one.
FinalizeIngest_DropsDeferral ==
  /\ pc = "active"
  /\ \E j \in jobs :
       /\ Settled(j) /\ j.name.type = "ingest" /\ j.state = "complete"
       /\ j.outcome = "ok"
       /\ current' = j.name
       /\ Persist([mem EXCEPT !.phase = "Ready", !.activeJob = None, !.oversize = 0,
                              !.observedSpecHash = j.name.spec,
                              !.effectiveChunking = j.name.chunking,
                              !.pendingRetune = FALSE, !.deferCronIngest = FALSE,
                              !.lastFailedSpecHash = None], "indexed", "cleanup")
  /\ UNCHANGED <<kb, jobs, pods, runs, store, clock, seen, budget>>

FinalizeIngest ==
  /\ pc = "active"
  /\ \E j \in jobs :
       /\ Settled(j) /\ j.name.type = "ingest" /\ j.state = "complete"
       /\ j.outcome = "ok"
       /\ current' = j.name
       /\ Persist([mem EXCEPT !.phase = "Ready", !.activeJob = None, !.oversize = 0,
                              !.observedSpecHash = j.name.spec,
                              !.effectiveChunking = j.name.chunking,
                              !.pendingRetune = FALSE,
                              !.lastFailedSpecHash = None], "indexed", "cleanup")
  /\ UNCHANGED <<kb, jobs, pods, runs, store, clock, seen, budget>>

\* finalizeIngestionRun, then the ConfigMaps and the Job are deleted.  An error
\* of any of these calls is at most logged.
CleanUpIngest ==
  /\ pc = "cleanup"
  /\ \/ runs' = runs \ {current} /\ jobs' = jobs \ Named(current) /\ UNCHANGED budget
     \/ /\ Fault("undeleted")
        /\ runs' \in {runs, runs \ {current}}
        /\ jobs' \in {jobs, jobs \ Named(current)}
  /\ EndPass
  /\ UNCHANGED <<kb, pods, store, clock>>

\* The result ConfigMap cannot be read (yet): nothing is persisted.
AwaitResult ==
  /\ pc = "active"
  /\ \E j \in jobs : Settled(j) /\ j.state = "complete" /\ j.outcome = "lost"
  /\ EndPass
  /\ UNCHANGED <<kb, jobs, pods, runs, store, clock, budget>>

-----------------------------------------------------------------------------
(* finalizeEval: the recall gate and the auto-tune loop.                   *)

FinalizeFailedEval ==
  /\ pc = "active"
  /\ \E j \in jobs : Settled(j) /\ j.name.type = "eval" /\ j.state = "failed"
  /\ Persist([mem EXCEPT !.activeJob = None], "none", "idle")
  /\ UNCHANGED <<kb, jobs, pods, runs, store, clock, seen, current, budget>>

\* The in-memory status once the evaluation is recorded.
Evaluated == [mem EXCEPT !.activeJob = None, !.evaluated = TRUE]

\* The active Job, when it is an evaluation that has completed.
EvalResults ==
  {j \in jobs : Settled(j) /\ j.name.type = "eval" /\ j.state = "complete"}

Below(j) == j.outcome = "ok" /\ Target > 0 /\ j.recall < Target

NoDataset ==
  /\ pc = "active"
  /\ \E j \in EvalResults : j.outcome = "noDataset"
  /\ Persist(Evaluated, "evaluated", "idle")
  /\ UNCHANGED <<kb, jobs, pods, runs, store, clock, seen, current, budget>>

RecallMet ==
  /\ pc = "active"
  /\ \E j \in EvalResults : j.outcome = "ok" /\ ~Below(j)
  /\ Persist([Evaluated EXCEPT !.phase = "Ready", !.autoTuneAttempts = 0,
                               !.bestChunking = None, !.bestRecallPercent = 0],
             "evaluated", "idle")
  /\ UNCHANGED <<kb, jobs, pods, runs, store, clock, seen, current, budget>>

\* Mutant: the evaluation of the abandoned configuration is kept.
ApplyAutoTune_KeepsEvaluation ==
  /\ pc = "active"
  /\ AttemptsRemain
  /\ \E j \in EvalResults :
       /\ Below(j)
       /\ Persist([RecordBest(Evaluated, j.recall) EXCEPT
                     !.effectiveChunking = NextChunking[Effective(mem, seen.spec)],
                     !.autoTuneAttempts = @ + 1, !.pendingRetune = TRUE],
                  "evaluated", "idle")
  /\ UNCHANGED <<kb, jobs, pods, runs, store, clock, seen, current, budget>>

\* Mutant: the new configuration is recorded but no re-index is owed.
ApplyAutoTune_OwesNothing ==
  /\ pc = "active"
  /\ AttemptsRemain
  /\ \E j \in EvalResults :
       /\ Below(j)
       /\ Persist([RecordBest(Evaluated, j.recall) EXCEPT
                     !.effectiveChunking = NextChunking[Effective(mem, seen.spec)],
                     !.autoTuneAttempts = @ + 1, !.evaluated = FALSE],
                  "evaluated", "idle")
  /\ UNCHANGED <<kb, jobs, pods, runs, store, clock, seen, current, budget>>

ApplyAutoTune ==
  /\ pc = "active"
  /\ AttemptsRemain
  /\ \E j \in EvalResults :
       /\ Below(j)
       /\ Persist([RecordBest(Evaluated, j.recall) EXCEPT
                     !.effectiveChunking = NextChunking[Effective(mem, seen.spec)],
                     !.autoTuneAttempts = @ + 1, !.pendingRetune = TRUE,
                     !.evaluated = FALSE], "evaluated", "idle")
  /\ UNCHANGED <<kb, jobs, pods, runs, store, clock, seen, current, budget>>

\* Mutant: the loop stops where its last step happens to be.
BetterKnown_Never(j) == FALSE

\* Whether, after recordBest, a better configuration than this one is known.
BetterKnown(j) ==
  AutoTune /\ RecordBest(Evaluated, j.recall).bestChunking # Effective(mem, seen.spec)

SettleOnBest ==
  /\ pc = "active"
  /\ ~AttemptsRemain
  /\ \E j \in EvalResults :
       /\ Below(j) /\ BetterKnown(j)
       /\ LET best == RecordBest(Evaluated, j.recall)
          IN  Persist([best EXCEPT !.effectiveChunking = best.bestChunking,
                                   !.pendingRetune = TRUE, !.evaluated = FALSE],
                      "evaluated", "idle")
  /\ UNCHANGED <<kb, jobs, pods, runs, store, clock, seen, current, budget>>

Degrade ==
  /\ pc = "active"
  /\ ~AttemptsRemain
  /\ \E j \in EvalResults :
       /\ Below(j) /\ ~BetterKnown(j)
       /\ Persist([RecordBest(Evaluated, j.recall) EXCEPT
                     !.phase = "Degraded", !.oversize = 0], "evaluated", "idle")
  /\ UNCHANGED <<kb, jobs, pods, runs, store, clock, seen, current, budget>>

-----------------------------------------------------------------------------
(* Deciding work: ingestion first, then evaluation.                        *)

\* Cooldown, an oversized spec, or the steady state.
Rest ==
  /\ pc = "decide"
  /\ CoolingDown \/ SpecConfigTooLargeUnchanged \/ (NeedsIngest = "none" /\ ~EvalDue)
  /\ EndPass
  /\ UNCHANGED <<kb, jobs, pods, runs, store, clock, budget>>

\* The in-memory status with which startIngest tries to create its Job.
\* Mutant: a retry reuses the round.
NextRound_Reused == [mem EXCEPT !.deferCronIngest = FALSE]
NextRound == [mem EXCEPT !.deferCronIngest = FALSE, !.ingestRound = @ + 1]
NextIngest == IngestName(NextRound, seen.spec, Effective(mem, seen.spec))
\* Mutant: an auto-tune re-index may skip unchanged sources.
Mode_RetuneToo == IF NeedsIngest \in {"initial", "spec"} THEN "full" ELSE IngestMode
Mode == IF NeedsIngest \in {"freshness", "deferred"} THEN IngestMode ELSE "full"

RefuseOversize ==
  /\ MayWork /\ NeedsIngest # "none"
  /\ seen.spec \in OversizeSpecs
  /\ Persist([NextRound EXCEPT !.phase = "Failed", !.oversize = seen.generation],
             "none", "idle")
  /\ UNCHANGED <<kb, jobs, pods, runs, store, clock, seen, current, budget>>

\* A quota refuses the spec, result or checkpoint ConfigMap, or the Job.
IngestOverQuota ==
  /\ MayWork /\ NeedsIngest # "none"
  /\ seen.spec \notin OversizeSpecs
  /\ Fault("quota")
  /\ Persist([NextRound EXCEPT !.oversize = 0], "none", "idle")
  /\ UNCHANGED <<kb, jobs, pods, runs, store, clock, seen, current>>

\* AlreadyExists is swallowed: the pass ends with nothing persisted.
IngestJobExists ==
  /\ MayWork /\ NeedsIngest # "none"
  /\ seen.spec \notin OversizeSpecs
  /\ Named(NextIngest) # {}
  /\ EndPass
  /\ UNCHANGED <<kb, jobs, pods, runs, store, clock, budget>>

CreateIngestJob ==
  /\ MayWork /\ NeedsIngest # "none"
  /\ seen.spec \notin OversizeSpecs
  /\ Named(NextIngest) = {}
  /\ jobs' = jobs \union {NewJob(NextIngest)}
  /\ pods' = pods \union {[name |-> NextIngest, mode |-> Mode]}
  /\ mem' = NextRound
  /\ current' = NextIngest
  /\ pc' = "record"
  /\ UNCHANGED <<kb, status, runs, store, clock, seen, stamp, next, budget>>

\* The IngestionRun is created (or found) and the Job becomes the active one.
RecordIngest ==
  /\ pc = "record"
  /\ runs' = runs \union {current}
  /\ Persist([mem EXCEPT !.phase = "Ingesting", !.activeJob = current, !.oversize = 0],
             "none", "idle")
  /\ UNCHANGED <<kb, jobs, pods, store, clock, seen, current, budget>>

\* A quota refuses the IngestionRun: the Job already runs, unrecorded.
RunOverQuota ==
  /\ pc = "record"
  /\ Fault("quota")
  /\ Persist([mem EXCEPT !.oversize = 0], "none", "idle")
  /\ UNCHANGED <<kb, jobs, pods, runs, store, clock, seen, current>>

NextEvalRound == [mem EXCEPT !.evalRound = @ + 1]

EvalOverQuota ==
  /\ MayWork /\ NeedsIngest = "none" /\ EvalDue
  /\ Fault("quota")
  /\ Persist([NextEvalRound EXCEPT !.oversize = 0], "none", "idle")
  /\ UNCHANGED <<kb, jobs, pods, runs, store, clock, seen, current>>

EvalJobExists ==
  /\ MayWork /\ NeedsIngest = "none" /\ EvalDue
  /\ Named(EvalName(NextEvalRound)) # {}
  /\ EndPass
  /\ UNCHANGED <<kb, jobs, pods, runs, store, clock, budget>>

StartEval ==
  /\ MayWork /\ NeedsIngest = "none" /\ EvalDue
  /\ LET name == EvalName(NextEvalRound)
     IN  /\ Named(name) = {}
         /\ jobs' = jobs \union {NewJob(name)}
         /\ Persist([NextEvalRound EXCEPT !.activeJob = name], "none", "idle")
  /\ UNCHANGED <<kb, pods, runs, store, clock, seen, current, budget>>

-----------------------------------------------------------------------------
(* Writing the status back, and losing the pass.                           *)

\* statusUpdate: the whole status is replaced by the in-memory one.
StatusUpdate ==
  /\ pc = "persist"
  /\ status' = mem
  /\ clock' = CASE stamp = "failed"    -> [clock EXCEPT !.cooling = TRUE]
                [] stamp = "indexed"   -> [clock EXCEPT !.freshDue = FALSE]
                [] stamp = "evaluated" -> [clock EXCEPT !.evalDue = FALSE]
                [] OTHER               -> clock
  /\ pc' = next
  /\ IF next = "idle" THEN seen' = None /\ current' = None ELSE UNCHANGED <<seen, current>>
  /\ stamp' = "none" /\ next' = "idle"
  /\ UNCHANGED <<kb, jobs, pods, runs, store, mem, budget>>

\* A crash, a leader handoff or an API error in the middle of a pass.
PassFails ==
  /\ pc # "idle"
  /\ Fault("crash")
  /\ EndPass
  /\ UNCHANGED <<kb, jobs, pods, runs, store, clock>>

-----------------------------------------------------------------------------
(* Users and time.                                                         *)

EditSpec ==
  /\ Disturb
  /\ \E s \in Specs :
       /\ <<kb.spec, s>> \in Edits
       /\ kb' = [kb EXCEPT !.spec = s, !.generation = @ + 1]
  /\ UNCHANGED <<status, jobs, pods, runs, store, clock, passVars>>

RotateSecret ==
  /\ Fault("rotate")
  /\ \E v \in SecretVersions \ {kb.secrets} : kb' = [kb EXCEPT !.secrets = v]
  /\ UNCHANGED <<status, jobs, pods, runs, store, clock, passVars>>

ToggleSuspend ==
  /\ Fault("suspend")
  /\ kb' = [kb EXCEPT !.suspend = ~@, !.generation = @ + 1]
  /\ UNCHANGED <<status, jobs, pods, runs, store, clock, passVars>>

FreshnessTick ==
  /\ Fault("tick")
  /\ ~clock.freshDue
  /\ clock' = [clock EXCEPT !.freshDue = TRUE]
  /\ UNCHANGED <<kb, status, jobs, pods, runs, store, passVars>>

\* Until the first ingestion a fire is only due for a minute (cronDue).
TickExpires ==
  /\ clock.freshDue /\ status.observedSpecHash = None
  /\ clock' = [clock EXCEPT !.freshDue = FALSE]
  /\ UNCHANGED <<kb, status, jobs, pods, runs, store, passVars, budget>>

EvalTick ==
  /\ Fault("evalTick")
  /\ ~clock.evalDue
  /\ clock' = [clock EXCEPT !.evalDue = TRUE]
  /\ UNCHANGED <<kb, status, jobs, pods, runs, store, passVars>>

CooldownElapses ==
  /\ clock.cooling
  /\ clock' = [clock EXCEPT !.cooling = FALSE]
  /\ UNCHANGED <<kb, status, jobs, pods, runs, store, passVars, budget>>

-----------------------------------------------------------------------------
(* Jobs and the worker processes in them.                                  *)

Update(j, k) == jobs' = (jobs \ {j}) \union {k}

\* A worker swaps its finished collection in (worker/rag_worker/ingest.py).
PromoteShadow ==
  /\ \E p \in pods :
       /\ store' = [spec |-> p.name.spec, chunking |-> p.name.chunking]
       /\ pods' = pods \ {p}
  /\ UNCHANGED <<kb, status, jobs, runs, clock, passVars, budget>>

\* An incremental worker finds every source's revision unchanged.
SkipUnchanged ==
  /\ store # None
  /\ \E p \in pods : p.mode = "incremental" /\ pods' = pods \ {p}
  /\ UNCHANGED <<kb, status, jobs, runs, store, clock, passVars, budget>>

LingeringPodDies ==
  /\ \E p \in pods : Named(p.name) = {} /\ pods' = pods \ {p}
  /\ UNCHANGED <<kb, status, jobs, runs, store, clock, passVars, budget>>

Done(j) == j.state = "running" /\ PodsOf(j.name) = {}

FinishIngest ==
  /\ \E j \in jobs :
       /\ j.name.type = "ingest" /\ Done(j)
       /\ Update(j, [j EXCEPT !.state = "complete", !.outcome = "ok"])
  /\ UNCHANGED <<kb, status, pods, runs, store, clock, passVars, budget>>

FinishEval ==
  /\ \E j \in jobs :
       /\ j.name.type = "eval" /\ Done(j)
       /\ \/ \E r \in Recalls :
               Update(j, [j EXCEPT !.state = "complete", !.outcome = "ok", !.recall = r])
          \/ Update(j, [j EXCEPT !.state = "complete", !.outcome = "noDataset"])
  /\ UNCHANGED <<kb, status, pods, runs, store, clock, passVars, budget>>

\* The Job completes but its worker could not write the result ConfigMap.
LoseResult ==
  /\ Fault("lose")
  /\ \E j \in jobs : Done(j) /\ Update(j, [j EXCEPT !.state = "complete", !.outcome = "lost"])
  /\ UNCHANGED <<kb, status, pods, runs, store, clock, passVars>>

FailJob ==
  /\ Fault("fail")
  /\ \E j \in jobs :
       /\ j.state = "running"
       /\ Update(j, [j EXCEPT !.state = "failed"])
       /\ pods' = pods \ PodsOf(j.name)
  /\ UNCHANGED <<kb, status, runs, store, clock, passVars>>

\* The active Job outlives its deadline and the ten minutes of grace.
JobOverdue ==
  /\ Fault("overdue")
  /\ \E j \in Named(status.activeJob) :
       ~j.overdue /\ Update(j, [j EXCEPT !.overdue = TRUE])
  /\ UNCHANGED <<kb, status, pods, runs, store, clock, passVars>>

\* The TTL of a finished Job that the reconciler has no more use for.  (The
\* TTL is minutes, so it does not run out on a Job within the pass that made it.)
ExpireJob ==
  /\ \E j \in jobs :
       /\ j.state # "running"
       /\ \/ j.name \notin {status.activeJob, mem.activeJob, current}
          \/ j.outcome = "lost"
       /\ jobs' = jobs \ {j}
  /\ UNCHANGED <<kb, status, pods, runs, store, clock, passVars, budget>>

\* The TTL of a finished Job that the reconciler has not looked at yet.
ExpireUnseenJob ==
  /\ Fault("gc")
  /\ \E j \in Named(status.activeJob) : j.state # "running" /\ jobs' = jobs \ {j}
  /\ UNCHANGED <<kb, status, pods, runs, store, clock, passVars>>

-----------------------------------------------------------------------------
FinalizeEval == FinalizeFailedEval \/ NoDataset \/ RecallMet \/ ApplyAutoTune
                  \/ SettleOnBest \/ Degrade
ActiveJobStep == CancelStaleIngest \/ ClearTimedOut \/ ForgetMissing \/ AwaitRunning
                   \/ FinalizeFailedIngest \/ FinalizeIngest \/ AwaitResult
                   \/ FinalizeEval
DecideStep == Rest \/ RefuseOversize \/ IngestJobExists \/ CreateIngestJob
                \/ EvalJobExists \/ StartEval
\* The reconcile worker when nothing goes wrong.
Reconcile == BeginPass \/ ReflectSuspend \/ ActiveJobStep \/ DecideStep
               \/ RecordIngest \/ CleanUpIngest \/ StatusUpdate
\* What the reconcile worker meets when the cluster refuses.
Refused == BlockedOnIdentity \/ IngestOverQuota \/ RunOverQuota \/ EvalOverQuota
             \/ PassFails
Worker == PromoteShadow \/ SkipUnchanged \/ LingeringPodDies
            \/ FinishIngest \/ FinishEval
Cluster == LoseResult \/ FailJob \/ JobOverdue \/ ExpireUnseenJob
User == EditSpec \/ RotateSecret \/ ToggleSuspend
Time == FreshnessTick \/ TickExpires \/ EvalTick

Next == Reconcile \/ Refused \/ Worker \/ Cluster \/ ExpireJob \/ CooldownElapses
          \/ User \/ Time

Spec == Init /\ [][Next]_vars

\* controller-runtime requeues a key until a pass returns, and every Job event
\* and every requested delay brings the next one; worker processes run; a
\* finished Job's TTL and the cooldown run out.
Fairness ==
  /\ WF_vars(Reconcile)
  /\ WF_vars(Worker)
  /\ WF_vars(ExpireJob)
  /\ WF_vars(CooldownElapses)

FairSpec == Spec /\ Fairness

=============================================================================
