------------------------ MODULE KnowledgeBaseProofs ------------------------
(***************************************************************************)
(* Proofs about the KnowledgeBase reconciler, for every set of specs,      *)
(* chunking configurations and Secrets, every auto-tune ladder and every   *)
(* number of disturbances.                                                 *)
(***************************************************************************)
EXTENDS KnowledgeBaseProperties, TLAPS

-----------------------------------------------------------------------------
(* The types of what the helpers return.                                   *)

\* Zero, the percentage a reset writes, is one.
LEMMA ZeroPercent == 0 \in Percents
  BY DEF Percents

\* The chunking in use is always a configuration.
LEMMA EffectiveType ==
  ASSUME NEW st \in Statuses, NEW spec \in Specs
  PROVE  Effective(st, spec) \in Chunkings
  BY ChunkingAssumption DEF Effective, Statuses

\* Dropping the tuning of an edited spec leaves a status.
LEMMA DropStaleTuningType ==
  ASSUME NEW st \in Statuses, NEW spec \in Specs
  PROVE  DropStaleTuning(st, spec) \in Statuses
  BY ZeroPercent DEF DropStaleTuning, Statuses

\* Remembering the best configuration leaves a status.
LEMMA RecordBestType ==
  ASSUME NEW st \in Statuses, NEW recall \in Percents, seen \in KnowledgeBases
  PROVE  RecordBest(st, recall) \in Statuses
  <1>1. seen.spec \in Specs
    BY DEF KnowledgeBases
  <1>2. Effective(st, seen.spec) \in Chunkings
    BY <1>1, EffectiveType
  <1>. QED
    BY <1>2 DEF RecordBest, Statuses

\* startIngest's first edit of the in-memory status leaves a status.
LEMMA NextRoundType ==
  ASSUME mem \in Statuses
  PROVE  NextRound \in Statuses
  <1>1. mem.ingestRound + 1 \in Nat
    BY DEF Statuses
  <1>. QED
    BY <1>1 DEF NextRound, Statuses

\* So does startEval's.
LEMMA NextEvalRoundType ==
  ASSUME mem \in Statuses
  PROVE  NextEvalRound \in Statuses
  BY DEF NextEvalRound, Statuses

\* Deleting a Job, whether the call succeeds or not, leaves Jobs and pods.
LEMMA DeleteJobType ==
  ASSUME TypeOK, NEW j \in jobs, DeleteJob(j)
  PROVE  /\ budget' \in Nat /\ jobs' \subseteq Jobs
         /\ pods' \subseteq [name: IngestNames, mode: {"full", "incremental"}]
  BY DEF TypeOK, DeleteJob, PodsOf, Fault, Disturb

\* A Job remains one when its controller updates it.
LEMMA JobFields ==
  ASSUME NEW j \in Jobs
  PROVE  /\ \A s \in {"complete", "failed"} : [j EXCEPT !.state = s] \in Jobs
         /\ \A o \in {"ok", "noDataset", "lost"} :
              [j EXCEPT !.state = "complete", !.outcome = o] \in Jobs
         /\ \A r \in Percents :
              [j EXCEPT !.state = "complete", !.outcome = "ok", !.recall = r] \in Jobs
         /\ [j EXCEPT !.overdue = TRUE] \in Jobs
  BY DEF Jobs

-----------------------------------------------------------------------------
(* Type correctness.                                                       *)

\* A new KnowledgeBase, with an empty status and an idle reconciler, is well typed.
LEMMA TypeInit == Init => TypeOK
  <1>. SUFFICES ASSUME Init PROVE TypeOK
    OBVIOUS
  <1>1. InitialStatus \in Statuses
    BY ZeroPercent DEF InitialStatus, Statuses, Phases
  <1>2. kb \in KnowledgeBases
    BY SpecAssumption DEF Init, KnowledgeBases
  <1>3. budget \in Nat
    BY EnvironmentAssumption DEF Init
  <1>. QED
    BY <1>1, <1>2, <1>3 DEF Init, TypeOK

\* Every step of the reconciler, of the cluster and of the users keeps the types.
LEMMA TypeNext == TypeOK /\ [Next]_vars => TypeOK'
  <1>. SUFFICES ASSUME TypeOK, [Next]_vars PROVE TypeOK'
    OBVIOUS
  <1>. USE DEF TypeOK
  <1>1. CASE BlockedOnIdentity
    <2>1. mem' \in Statuses
      BY <1>1 DEF BlockedOnIdentity, Persist, Statuses, Phases
    <2>2. budget' \in Nat
      BY <1>1 DEF BlockedOnIdentity, Fault, Disturb
    <2>. QED
      BY <1>1, <2>1, <2>2 DEF BlockedOnIdentity, Persist
  <1>2. CASE ReflectSuspend
    <2>1. mem' \in Statuses
      BY <1>2 DEF ReflectSuspend, Persist, Statuses, Phases
    <2>. QED
      BY <1>2, <2>1 DEF ReflectSuspend, Persist
  <1>3. CASE BeginPass
    <2>1. mem' \in Statuses
      BY <1>3, DropStaleTuningType DEF BeginPass, KnowledgeBases
    <2>. QED
      BY <1>3, <2>1 DEF BeginPass
  <1>4. CASE CancelStaleIngest
    <2>1. mem' \in Statuses
      BY <1>4 DEF CancelStaleIngest, Persist, Statuses
    <2>. QED
      BY <1>4, <2>1, DeleteJobType DEF CancelStaleIngest, Named, Persist
  <1>5. CASE ClearTimedOut
    <2>1. seen.spec \in Specs
      BY <1>5 DEF ClearTimedOut, KnowledgeBases
    <2>2. mem' \in Statuses
      BY <1>5, <2>1 DEF ClearTimedOut, Persist, Statuses, Phases
    <2>. QED
      BY <1>5, <2>2, DeleteJobType DEF ClearTimedOut, Named, Persist
  <1>6. CASE ForgetMissing
    <2>1. mem' \in Statuses
      BY <1>6 DEF ForgetMissing, Persist, Statuses
    <2>. QED
      BY <1>6, <2>1 DEF ForgetMissing, Persist
  <1>7. CASE AwaitRunning
    <2>1. CASE EndPass
      BY <1>7, <2>1 DEF AwaitRunning, EndPass
    <2>2. CASE /\ Persist([mem EXCEPT !.deferCronIngest = TRUE], "none", "idle")
               /\ UNCHANGED <<seen, current>>
      <3>1. mem' \in Statuses
        BY <2>2 DEF Persist, Statuses
      <3>. QED
        BY <1>7, <2>2, <3>1 DEF AwaitRunning, Persist
    <2>. QED
      BY <1>7, <2>1, <2>2 DEF AwaitRunning
  <1>8. CASE FinalizeFailedIngest
    <2>1. PICK j \in jobs :
            /\ j.name.type = "ingest" /\ current' = j.name
            /\ Persist([mem EXCEPT !.phase = "Failed", !.activeJob = None, !.oversize = 0,
                                   !.lastFailedSpecHash = j.name.spec], "failed", "cleanup")
      BY <1>8 DEF FinalizeFailedIngest
    <2>2. j.name \in IngestNames
      BY <2>1 DEF Jobs, Names, IngestNames, EvalNames
    <2>3. mem' \in Statuses
      BY <2>1, <2>2 DEF Persist, Statuses, Phases, IngestNames
    <2>. QED
      BY <1>8, <2>1, <2>2, <2>3 DEF FinalizeFailedIngest, Persist, Names
  <1>9. CASE FinalizeIngest
    <2>1. PICK j \in jobs :
            /\ j.name.type = "ingest" /\ current' = j.name
            /\ Persist([mem EXCEPT !.phase = "Ready", !.activeJob = None, !.oversize = 0,
                                   !.observedSpecHash = j.name.spec,
                                   !.effectiveChunking = j.name.chunking,
                                   !.pendingRetune = FALSE,
                                   !.lastFailedSpecHash = None], "indexed", "cleanup")
      BY <1>9 DEF FinalizeIngest
    <2>2. j.name \in IngestNames
      BY <2>1 DEF Jobs, Names, IngestNames, EvalNames
    <2>3. mem' \in Statuses
      BY <2>1, <2>2 DEF Persist, Statuses, Phases, IngestNames
    <2>. QED
      BY <1>9, <2>1, <2>2, <2>3 DEF FinalizeIngest, Persist, Names
  <1>10. CASE CleanUpIngest
    <2>1. budget' \in Nat /\ runs' \subseteq runs /\ jobs' \subseteq jobs
      BY <1>10 DEF CleanUpIngest, Fault, Disturb
    <2>. QED
      BY <1>10, <2>1 DEF CleanUpIngest, EndPass
  <1>11. CASE AwaitResult
    BY <1>11 DEF AwaitResult, EndPass
  <1>12. CASE FinalizeFailedEval
    <2>1. mem' \in Statuses
      BY <1>12 DEF FinalizeFailedEval, Persist, Statuses
    <2>. QED
      BY <1>12, <2>1 DEF FinalizeFailedEval, Persist
  <1>13. Evaluated \in Statuses
    BY DEF Evaluated, Statuses
  <1>14. CASE NoDataset
    BY <1>13, <1>14 DEF NoDataset, Persist
  <1>15. CASE RecallMet
    <2>1. mem' \in Statuses
      BY <1>13, <1>15, ZeroPercent DEF RecallMet, Persist, Statuses, Phases
    <2>. QED
      BY <1>15, <2>1 DEF RecallMet, Persist
  <1>16. ASSUME NEW j \in EvalResults, pc = "active"
         PROVE  RecordBest(Evaluated, j.recall) \in Statuses
    <2>1. j.recall \in Percents
      BY DEF EvalResults, Jobs
    <2>. QED
      BY <1>13, <1>16, <2>1, RecordBestType
  <1>17. CASE ApplyAutoTune
    <2>1. PICK j \in EvalResults :
            Persist([RecordBest(Evaluated, j.recall) EXCEPT
                       !.effectiveChunking = NextChunking[Effective(mem, seen.spec)],
                       !.autoTuneAttempts = @ + 1, !.pendingRetune = TRUE,
                       !.evaluated = FALSE], "evaluated", "idle")
      BY <1>17 DEF ApplyAutoTune
    <2>2. RecordBest(Evaluated, j.recall) \in Statuses
      BY <1>16, <1>17 DEF ApplyAutoTune
    <2>3. RecordBest(Evaluated, j.recall).autoTuneAttempts + 1 \in Nat
      BY <2>2 DEF Statuses
    <2>4. NextChunking[Effective(mem, seen.spec)] \in Chunkings
      BY <1>17, EffectiveType, ChunkingAssumption DEF ApplyAutoTune, KnowledgeBases
    <2>5. mem' \in Statuses
      BY <2>1, <2>2, <2>3, <2>4 DEF Persist, Statuses
    <2>. QED
      BY <1>17, <2>1, <2>5 DEF ApplyAutoTune, Persist
  <1>18. CASE SettleOnBest
    <2>1. PICK j \in EvalResults :
            Persist([RecordBest(Evaluated, j.recall) EXCEPT
                       !.effectiveChunking = RecordBest(Evaluated, j.recall).bestChunking,
                       !.pendingRetune = TRUE, !.evaluated = FALSE], "evaluated", "idle")
      BY <1>18 DEF SettleOnBest
    <2>2. RecordBest(Evaluated, j.recall) \in Statuses
      BY <1>16, <1>18 DEF SettleOnBest
    <2>3. mem' \in Statuses
      BY <2>1, <2>2 DEF Persist, Statuses
    <2>. QED
      BY <1>18, <2>1, <2>3 DEF SettleOnBest, Persist
  <1>19. CASE Degrade
    <2>1. PICK j \in EvalResults :
            Persist([RecordBest(Evaluated, j.recall) EXCEPT
                       !.phase = "Degraded", !.oversize = 0], "evaluated", "idle")
      BY <1>19 DEF Degrade
    <2>2. RecordBest(Evaluated, j.recall) \in Statuses
      BY <1>16, <1>19 DEF Degrade
    <2>3. mem' \in Statuses
      BY <2>1, <2>2 DEF Persist, Statuses, Phases
    <2>. QED
      BY <1>19, <2>1, <2>3 DEF Degrade, Persist
  <1>20. CASE Rest
    BY <1>20 DEF Rest, EndPass
  <1>21. NextRound \in Statuses
    BY NextRoundType
  <1>22. CASE RefuseOversize
    <2>1. seen.generation \in Nat
      BY <1>22 DEF RefuseOversize, MayWork, KnowledgeBases
    <2>2. mem' \in Statuses
      BY <1>21, <1>22, <2>1 DEF RefuseOversize, Persist, Statuses, Phases
    <2>. QED
      BY <1>22, <2>2 DEF RefuseOversize, MayWork, Persist
  <1>23. CASE IngestOverQuota
    <2>1. mem' \in Statuses
      BY <1>21, <1>23 DEF IngestOverQuota, Persist, Statuses
    <2>2. budget' \in Nat
      BY <1>23 DEF IngestOverQuota, Fault, Disturb
    <2>. QED
      BY <1>23, <2>1, <2>2 DEF IngestOverQuota, MayWork, Persist
  <1>24. CASE IngestJobExists
    BY <1>24 DEF IngestJobExists, EndPass
  <1>25. CASE CreateIngestJob
    <2>1. seen \in KnowledgeBases
      BY <1>25 DEF CreateIngestJob, MayWork
    <2>2. seen.spec \in Specs /\ seen.secrets \in SecretVersions
      BY <2>1 DEF KnowledgeBases
    <2>3. Effective(mem, seen.spec) \in Chunkings
      BY <2>2, EffectiveType
    <2>4. NextIngest \in IngestNames
      BY <1>21, <2>2, <2>3 DEF NextIngest, IngestName, IngestNames, Statuses
    <2>5. NewJob(NextIngest) \in Jobs
      BY <2>2, <2>4, ZeroPercent DEF NewJob, Jobs, Names
    <2>6. Mode \in {"full", "incremental"}
      BY EnvironmentAssumption DEF Mode
    <2>. QED
      BY <1>21, <1>25, <2>1, <2>4, <2>5, <2>6 DEF CreateIngestJob, MayWork, Names
  <1>26. CASE RecordIngest
    <2>1. mem' \in Statuses
      BY <1>26 DEF RecordIngest, Persist, Statuses, Phases
    <2>. QED
      BY <1>26, <2>1 DEF RecordIngest, Persist
  <1>27. CASE RunOverQuota
    <2>1. mem' \in Statuses
      BY <1>27 DEF RunOverQuota, Persist, Statuses
    <2>2. budget' \in Nat
      BY <1>27 DEF RunOverQuota, Fault, Disturb
    <2>. QED
      BY <1>27, <2>1, <2>2 DEF RunOverQuota, Persist
  <1>28. NextEvalRound \in Statuses
    BY NextEvalRoundType
  <1>29. CASE EvalOverQuota
    <2>1. mem' \in Statuses
      BY <1>28, <1>29 DEF EvalOverQuota, Persist, Statuses
    <2>2. budget' \in Nat
      BY <1>29 DEF EvalOverQuota, Fault, Disturb
    <2>. QED
      BY <1>29, <2>1, <2>2 DEF EvalOverQuota, MayWork, Persist
  <1>30. CASE EvalJobExists
    BY <1>30 DEF EvalJobExists, EndPass
  <1>31. CASE StartEval
    <2>1. seen \in KnowledgeBases
      BY <1>31 DEF StartEval, MayWork
    <2>2. EvalName(NextEvalRound) \in Names
      BY <1>28 DEF EvalName, Names, EvalNames, Statuses
    <2>3. NewJob(EvalName(NextEvalRound)) \in Jobs
      BY <2>1, <2>2, ZeroPercent DEF NewJob, Jobs, KnowledgeBases
    <2>4. [NextEvalRound EXCEPT !.activeJob = EvalName(NextEvalRound)] \in Statuses
      BY <1>28, <2>2 DEF Statuses
    <2>. QED
      BY <1>31, <2>1, <2>3, <2>4 DEF StartEval, MayWork, Persist
  <1>32. CASE StatusUpdate
    BY <1>32 DEF StatusUpdate
  <1>33. CASE PassFails
    BY <1>33 DEF PassFails, Fault, Disturb, EndPass
  <1>34. CASE EditSpec
    <2>1. PICK s \in Specs : kb' = [kb EXCEPT !.spec = s, !.generation = @ + 1]
      BY <1>34 DEF EditSpec
    <2>2. kb.generation + 1 \in Nat \ {0}
      BY DEF KnowledgeBases
    <2>3. kb' \in KnowledgeBases
      BY <2>1, <2>2 DEF KnowledgeBases
    <2>. QED
      BY <1>34, <2>3 DEF EditSpec, Disturb, passVars
  <1>35. CASE RotateSecret
    <2>1. kb' \in KnowledgeBases
      BY <1>35 DEF RotateSecret, KnowledgeBases
    <2>. QED
      BY <1>35, <2>1 DEF RotateSecret, Fault, Disturb, passVars
  <1>36. CASE ToggleSuspend
    <2>1. kb.generation + 1 \in Nat \ {0}
      BY DEF KnowledgeBases
    <2>2. kb' \in KnowledgeBases
      BY <1>36, <2>1 DEF ToggleSuspend, KnowledgeBases
    <2>. QED
      BY <1>36, <2>2 DEF ToggleSuspend, Fault, Disturb, passVars
  <1>37. CASE Time \/ CooldownElapses
    <2>1. clock' \in [freshDue: BOOLEAN, evalDue: BOOLEAN, cooling: BOOLEAN]
      BY <1>37 DEF Time, FreshnessTick, TickExpires, EvalTick, CooldownElapses
    <2>2. budget' \in Nat
      BY <1>37
      DEF Time, FreshnessTick, TickExpires, EvalTick, CooldownElapses, Fault, Disturb
    <2>3. UNCHANGED <<kb, status, jobs, pods, runs, store, passVars>>
      BY <1>37 DEF Time, FreshnessTick, TickExpires, EvalTick, CooldownElapses
    <2>. QED
      BY <2>1, <2>2, <2>3 DEF passVars
  <1>38. CASE PromoteShadow
    <2>1. store' \in [spec : Specs, chunking : Chunkings]
      BY <1>38 DEF PromoteShadow, IngestNames
    <2>. QED
      BY <1>38, <2>1 DEF PromoteShadow, passVars
  <1>39. CASE SkipUnchanged \/ LingeringPodDies
    BY <1>39 DEF SkipUnchanged, LingeringPodDies, passVars
  <1>40. CASE FinishIngest
    <2>1. PICK j \in jobs :
            Update(j, [j EXCEPT !.state = "complete", !.outcome = "ok"])
      BY <1>40 DEF FinishIngest
    <2>2. jobs' \subseteq Jobs
      BY <2>1, JobFields DEF Update
    <2>. QED
      BY <1>40, <2>2 DEF FinishIngest, passVars
  <1>41. CASE FinishEval
    <2>1. PICK j \in jobs :
            \/ \E r \in Recalls :
                 Update(j, [j EXCEPT !.state = "complete", !.outcome = "ok", !.recall = r])
            \/ Update(j, [j EXCEPT !.state = "complete", !.outcome = "noDataset"])
      BY <1>41 DEF FinishEval
    <2>2. /\ \A r \in Recalls :
               [j EXCEPT !.state = "complete", !.outcome = "ok", !.recall = r] \in Jobs
          /\ [j EXCEPT !.state = "complete", !.outcome = "noDataset"] \in Jobs
      BY JobFields, EvalAssumption
    <2>3. jobs' \subseteq Jobs
      BY <2>1, <2>2 DEF Update
    <2>4. UNCHANGED <<kb, status, pods, runs, store, clock, passVars, budget>>
      BY <1>41 DEF FinishEval
    <2>. QED
      BY <2>3, <2>4 DEF passVars
  <1>42. CASE LoseResult
    <2>1. PICK j \in jobs :
            Update(j, [j EXCEPT !.state = "complete", !.outcome = "lost"])
      BY <1>42 DEF LoseResult
    <2>2. jobs' \subseteq Jobs
      BY <2>1, JobFields DEF Update
    <2>. QED
      BY <1>42, <2>2 DEF LoseResult, Fault, Disturb, passVars
  <1>43. CASE FailJob
    <2>1. PICK j \in jobs :
            Update(j, [j EXCEPT !.state = "failed"]) /\ pods' = pods \ PodsOf(j.name)
      BY <1>43 DEF FailJob
    <2>2. jobs' \subseteq Jobs
      BY <2>1, JobFields DEF Update
    <2>3. budget' \in Nat /\ UNCHANGED <<kb, status, runs, store, clock, passVars>>
      BY <1>43 DEF FailJob, Fault, Disturb
    <2>. QED
      BY <2>1, <2>2, <2>3 DEF PodsOf, passVars
  <1>44. CASE JobOverdue
    <2>1. PICK j \in jobs : Update(j, [j EXCEPT !.overdue = TRUE])
      BY <1>44 DEF JobOverdue, Named
    <2>2. jobs' \subseteq Jobs
      BY <2>1, JobFields DEF Update
    <2>. QED
      BY <1>44, <2>2 DEF JobOverdue, Fault, Disturb, passVars
  <1>45. CASE ExpireJob \/ ExpireUnseenJob
    BY <1>45 DEF ExpireJob, ExpireUnseenJob, Named, Fault, Disturb, passVars
  <1>46. CASE UNCHANGED vars
    BY <1>46 DEF vars, passVars
  <1>. QED
    BY <1>1, <1>2, <1>3, <1>4, <1>5, <1>6, <1>7, <1>8, <1>9, <1>10, <1>11, <1>12,
       <1>14, <1>15, <1>17, <1>18, <1>19, <1>20, <1>22, <1>23, <1>24, <1>25, <1>26,
       <1>27, <1>29, <1>30, <1>31, <1>32, <1>33, <1>34, <1>35, <1>36, <1>37, <1>38,
       <1>39, <1>40, <1>41, <1>42, <1>43, <1>44, <1>45, <1>46
    DEF Next, Reconcile, Refused, Worker, Cluster, User, ActiveJobStep,
        FinalizeEval, DecideStep

\* Every variable keeps its type whatever happens: the statuses the API server
\* and the pass hold are well formed, a pass at work has read a resource, and
\* only the workers of ingest Jobs ever promote a collection.
THEOREM TypeCorrect == Spec => []TypeOK
  BY TypeInit, TypeNext, PTL DEF Spec

-----------------------------------------------------------------------------
(* The auto-tune loop: what the status says of attempts, of the best       *)
(* configuration and of an owed re-index, under every disturbance.  The    *)
(* three properties are about the persisted status; they are inductive     *)
(* once they are also required of the copy that the pass holds in memory,  *)
(* because any later step may write that copy back or drop it.             *)

\* TuningIsBounded, RetuneIsUnevaluated and SettledOnBest as predicates of a status.
Bounded(st) ==
  /\ st.autoTuneAttempts <= MaxAttempts
  /\ st.bestChunking # None => st.bestRecallPercent < Target
  /\ st.bestChunking = None => st.bestRecallPercent = 0

Unevaluated(st) ==
  st.pendingRetune =>
    /\ ~st.evaluated
    /\ st.activeJob # None => st.activeJob.type = "ingest"

OnBest(st) ==
  (/\ AutoTune
   /\ st.phase = "Degraded" /\ ~st.pendingRetune
   /\ st.bestChunking # None /\ st.effectiveChunking # None)
  => st.effectiveChunking = st.bestChunking

Sound(st) == Bounded(st) /\ Unevaluated(st) /\ OnBest(st)

TuningInv == TypeOK /\ Sound(status) /\ Sound(mem)

-----------------------------------------------------------------------------
(* Steps that share an argument.                                           *)

\* A pass that returns keeps the persisted status and drops its own copy.
LEMMA ReturnsKeepStatus ==
  ASSUME \/ CleanUpIngest \/ AwaitResult \/ Rest \/ IngestJobExists \/ EvalJobExists
         \/ PassFails
  PROVE  status' = status /\ mem' = status
  BY DEF CleanUpIngest, AwaitResult, Rest, IngestJobExists, EvalJobExists, PassFails, EndPass

\* Users, time, Jobs and workers do not touch the status or the pass.
LEMMA OthersKeepPass ==
  ASSUME Worker \/ Cluster \/ ExpireJob \/ CooldownElapses \/ User \/ Time
  PROVE  UNCHANGED <<status, pc, mem, seen, current, stamp, next>>
  BY DEF Worker, Cluster, ExpireJob, CooldownElapses, User, Time, PromoteShadow,
         SkipUnchanged, LingeringPodDies, FinishIngest, FinishEval, LoseResult, FailJob,
         JobOverdue, ExpireUnseenJob, EditSpec, RotateSecret, ToggleSuspend,
         FreshnessTick, TickExpires, EvalTick, passVars

\* Leaving Degraded, or any phase, for another one than Degraded.
LEMMA SoundPhase ==
  ASSUME NEW st \in Statuses, Sound(st), NEW ph \in Phases \ {"Degraded"}, NEW n \in Nat
  PROVE  Sound([st EXCEPT !.phase = ph, !.oversize = n])
  BY DEF Sound, Bounded, Unevaluated, OnBest, Statuses

\* Forgetting the active Job.
LEMMA SoundNoJob ==
  ASSUME NEW st \in Statuses, Sound(st)
  PROVE  Sound([st EXCEPT !.activeJob = None])
  BY DEF Sound, Bounded, Unevaluated, OnBest, Statuses

\* Reconcile's reset of the tuning of an edited spec keeps a status sound: it
\* clears the attempts, the best configuration and the owed re-index together.
LEMMA SoundDropStaleTuning ==
  ASSUME NEW st \in Statuses, Sound(st), NEW spec \in Specs
  PROVE  Sound(DropStaleTuning(st, spec))
  BY ZeroPercent, EvalAssumption
  DEF DropStaleTuning, Sound, Bounded, Unevaluated, OnBest, Statuses

\* startIngest's first edits, of the deferral and the round, keep a status sound.
LEMMA SoundNextRound ==
  ASSUME mem \in Statuses, Sound(mem)
  PROVE  Sound(NextRound)
  BY DEF NextRound, Sound, Bounded, Unevaluated, OnBest, Statuses

\* An evaluation is only finalized when no re-index is owed.
LEMMA EvaluatedOwesNothing ==
  ASSUME TypeOK, Sound(mem), NEW j \in EvalResults
  PROVE  /\ j.name = mem.activeJob /\ mem.activeJob # None
         /\ mem.pendingRetune = FALSE
  <1>1. j.name \in Names /\ j.name = mem.activeJob /\ j.name.type = "eval"
    BY DEF EvalResults, Settled, Named, TypeOK, Jobs
  <1>. QED
    BY <1>1, NameAssumption DEF Sound, Unevaluated, TypeOK, Statuses

\* What recordBest leaves, given a recall below the target.
LEMMA RecordBestSound ==
  ASSUME TypeOK, Sound(mem), pc = "active", NEW j \in EvalResults, Below(j)
  PROVE  LET best == RecordBest(Evaluated, j.recall)
         IN  /\ best \in Statuses
             /\ Bounded(best)
             /\ best.pendingRetune = FALSE /\ best.activeJob = None
             /\ best.bestChunking \in Chunkings
             /\ best.effectiveChunking = mem.effectiveChunking
             /\ best.autoTuneAttempts = mem.autoTuneAttempts
  <1>1. Evaluated \in Statuses
    BY DEF Evaluated, TypeOK, Statuses
  <1>2. j.recall \in Percents /\ j.recall < Target
    BY DEF EvalResults, TypeOK, Jobs, Below
  <1>3. seen \in KnowledgeBases
    BY DEF TypeOK
  <1>4. RecordBest(Evaluated, j.recall) \in Statuses
    BY <1>1, <1>2, <1>3, RecordBestType
  <1>5. Effective(Evaluated, seen.spec) \in Chunkings
    BY <1>1, <1>3, EffectiveType DEF KnowledgeBases
  <1>6. mem.pendingRetune = FALSE
    BY EvaluatedOwesNothing
  <1>7. /\ Evaluated.autoTuneAttempts = mem.autoTuneAttempts
        /\ Evaluated.bestChunking = mem.bestChunking
        /\ Evaluated.bestRecallPercent = mem.bestRecallPercent
        /\ Evaluated.effectiveChunking = mem.effectiveChunking
        /\ Evaluated.pendingRetune = FALSE /\ Evaluated.activeJob = None
    BY <1>6 DEF Evaluated, TypeOK, Statuses
  <1>. QED
    BY <1>1, <1>2, <1>4, <1>5, <1>7, ChunkingAssumption
    DEF RecordBest, Sound, Bounded, Statuses

-----------------------------------------------------------------------------
\* The empty status of a new KnowledgeBase is sound.
LEMMA TuningInit == Init => TuningInv
  <1>. SUFFICES ASSUME Init PROVE TuningInv
    OBVIOUS
  <1>1. TypeOK
    BY TypeInit
  <1>2. Sound(InitialStatus)
    BY EvalAssumption DEF Sound, Bounded, Unevaluated, OnBest, InitialStatus
  <1>. QED
    BY <1>1, <1>2 DEF TuningInv, Init

\* Every step keeps both copies of the status sound: what finalizeEval does to the
\* one in memory, and statusUpdate, which makes it the persisted one.
LEMMA TuningNext == TuningInv /\ [Next]_vars => TuningInv'
  <1>. SUFFICES ASSUME TuningInv, [Next]_vars PROVE TuningInv'
    OBVIOUS
  <1>. USE DEF TuningInv
  <1>1. TypeOK'
    BY TypeNext
  <1>2. SUFFICES Sound(status)' /\ Sound(mem)'
    BY <1>1
  <1>3. status \in Statuses /\ mem \in Statuses
    BY DEF TypeOK
  <1>4. ASSUME Sound(mem'), status' = status
        PROVE  Sound(status)' /\ Sound(mem)'
    BY <1>4 DEF Sound, Bounded, Unevaluated, OnBest
  <1>5. CASE \/ CleanUpIngest \/ AwaitResult \/ Rest \/ IngestJobExists \/ EvalJobExists
             \/ PassFails
    BY <1>4, <1>5, ReturnsKeepStatus
  <1>6. CASE \/ Worker \/ Cluster \/ ExpireJob \/ CooldownElapses \/ User \/ Time
             \/ UNCHANGED vars
    BY <1>4, <1>6, OthersKeepPass DEF vars, passVars
  <1>7. CASE BlockedOnIdentity
    BY <1>3, <1>4, <1>7, SoundPhase DEF BlockedOnIdentity, Persist, Phases
  <1>8. CASE ReflectSuspend
    BY <1>3, <1>4, <1>8, SoundPhase DEF ReflectSuspend, Persist, Phases
  <1>9. CASE BeginPass
    BY <1>3, <1>4, <1>9, SoundDropStaleTuning DEF BeginPass, TypeOK, KnowledgeBases
  <1>10. CASE CancelStaleIngest \/ ForgetMissing \/ FinalizeFailedEval
    BY <1>3, <1>4, <1>10, SoundNoJob
    DEF CancelStaleIngest, ForgetMissing, FinalizeFailedEval, Persist
  <1>11. CASE ClearTimedOut
    BY <1>3, <1>4, <1>11
    DEF ClearTimedOut, Persist, Sound, Bounded, Unevaluated, OnBest, Statuses
  <1>12. CASE AwaitRunning
    BY <1>3, <1>4, <1>12
    DEF AwaitRunning, EndPass, Persist, Sound, Bounded, Unevaluated, OnBest, Statuses
  <1>13. CASE FinalizeFailedIngest
    BY <1>3, <1>4, <1>13
    DEF FinalizeFailedIngest, Persist, Sound, Bounded, Unevaluated, OnBest, Statuses
  <1>14. CASE FinalizeIngest
    BY <1>3, <1>4, <1>14
    DEF FinalizeIngest, Persist, Sound, Bounded, Unevaluated, OnBest, Statuses
  <1>15. CASE NoDataset
    <2>1. mem.pendingRetune = FALSE
      BY <1>15, EvaluatedOwesNothing DEF NoDataset
    <2>. QED
      BY <1>3, <1>4, <1>15, <2>1
      DEF NoDataset, Evaluated, Persist, Sound, Bounded, Unevaluated, OnBest, Statuses
  <1>16. CASE RecallMet
    <2>1. mem.pendingRetune = FALSE
      BY <1>16, EvaluatedOwesNothing DEF RecallMet
    <2>. QED
      BY <1>3, <1>4, <1>16, <2>1, EvalAssumption
      DEF RecallMet, Evaluated, Persist, Sound, Bounded, Unevaluated, OnBest, Statuses
  <1>17. CASE ApplyAutoTune
    <2>1. PICK j \in EvalResults :
            /\ Below(j)
            /\ Persist([RecordBest(Evaluated, j.recall) EXCEPT
                          !.effectiveChunking = NextChunking[Effective(mem, seen.spec)],
                          !.autoTuneAttempts = @ + 1, !.pendingRetune = TRUE,
                          !.evaluated = FALSE], "evaluated", "idle")
      BY <1>17 DEF ApplyAutoTune
    <2>2. mem.autoTuneAttempts < MaxAttempts
      BY <1>17 DEF ApplyAutoTune, AttemptsRemain
    <2>3. mem.autoTuneAttempts + 1 <= MaxAttempts
      BY <1>3, <2>2, EvalAssumption DEF Statuses
    <2>4. /\ RecordBest(Evaluated, j.recall) \in Statuses
          /\ Bounded(RecordBest(Evaluated, j.recall))
          /\ RecordBest(Evaluated, j.recall).activeJob = None
          /\ RecordBest(Evaluated, j.recall).autoTuneAttempts = mem.autoTuneAttempts
      BY <1>17, <2>1, RecordBestSound DEF ApplyAutoTune
    <2>5. /\ mem'.autoTuneAttempts = mem.autoTuneAttempts + 1
          /\ mem'.bestChunking = RecordBest(Evaluated, j.recall).bestChunking
          /\ mem'.bestRecallPercent = RecordBest(Evaluated, j.recall).bestRecallPercent
          /\ mem'.activeJob = None /\ mem'.pendingRetune = TRUE /\ mem'.evaluated = FALSE
          /\ status' = status
      BY <2>1, <2>4 DEF Persist, Statuses
    <2>. QED
      BY <1>4, <2>3, <2>4, <2>5 DEF Sound, Bounded, Unevaluated, OnBest
  <1>18. CASE SettleOnBest
    <2>1. PICK j \in EvalResults :
            /\ Below(j)
            /\ Persist([RecordBest(Evaluated, j.recall) EXCEPT
                          !.effectiveChunking = RecordBest(Evaluated, j.recall).bestChunking,
                          !.pendingRetune = TRUE, !.evaluated = FALSE], "evaluated", "idle")
      BY <1>18 DEF SettleOnBest
    <2>. QED
      BY <1>3, <1>4, <1>18, <2>1, RecordBestSound
      DEF SettleOnBest, Persist, Sound, Bounded, Unevaluated, OnBest, Statuses
  <1>19. CASE Degrade
    <2>1. PICK j \in EvalResults :
            /\ Below(j) /\ ~BetterKnown(j)
            /\ Persist([RecordBest(Evaluated, j.recall) EXCEPT
                          !.phase = "Degraded", !.oversize = 0], "evaluated", "idle")
      BY <1>19 DEF Degrade
    <2>2. AutoTune /\ mem.effectiveChunking # None
          => RecordBest(Evaluated, j.recall).bestChunking = mem.effectiveChunking
      BY <2>1 DEF BetterKnown, Effective
    <2>. QED
      BY <1>3, <1>4, <1>19, <2>1, <2>2, RecordBestSound
      DEF Degrade, Persist, Sound, Bounded, Unevaluated, OnBest, Statuses
  <1>20. NextRound \in Statuses /\ Sound(NextRound)
    BY <1>3, NextRoundType, SoundNextRound
  <1>21. CASE RefuseOversize
    BY <1>4, <1>20, <1>21
    DEF RefuseOversize, Persist, Sound, Bounded, Unevaluated, OnBest, Statuses
  <1>22. CASE IngestOverQuota
    BY <1>4, <1>20, <1>22
    DEF IngestOverQuota, Persist, Sound, Bounded, Unevaluated, OnBest, Statuses
  <1>23. CASE CreateIngestJob
    BY <1>4, <1>20, <1>23 DEF CreateIngestJob
  <1>24. CASE RecordIngest
    <2>1. current.type = "ingest"
      BY <1>24 DEF RecordIngest, TypeOK, IngestNames
    <2>. QED
      BY <1>3, <1>4, <1>24, <2>1
      DEF RecordIngest, Persist, Sound, Bounded, Unevaluated, OnBest, Statuses
  <1>25. CASE RunOverQuota
    BY <1>3, <1>4, <1>25
    DEF RunOverQuota, Persist, Sound, Bounded, Unevaluated, OnBest, Statuses
  <1>26. CASE EvalOverQuota
    BY <1>3, <1>4, <1>26
    DEF EvalOverQuota, NextEvalRound, Persist, Sound, Bounded, Unevaluated, OnBest, Statuses
  <1>27. CASE StartEval
    <2>1. mem.pendingRetune = FALSE
      BY <1>3, <1>27 DEF StartEval, NeedsIngest, Statuses
    <2>. QED
      BY <1>3, <1>4, <1>27, <2>1
      DEF StartEval, NextEvalRound, Persist, Sound, Bounded, Unevaluated, OnBest, Statuses
  <1>28. CASE StatusUpdate
    BY <1>28 DEF StatusUpdate, Sound, Bounded, Unevaluated, OnBest
  <1>. QED
    BY <1>5, <1>6, <1>7, <1>8, <1>9, <1>10, <1>11, <1>12, <1>13, <1>14, <1>15, <1>16,
       <1>17, <1>18, <1>19, <1>21, <1>22, <1>23, <1>24, <1>25, <1>26, <1>27, <1>28
    DEF Next, Reconcile, Refused, ActiveJobStep, FinalizeEval, DecideStep

\* The persisted status and the pass's copy are sound at all times, so whichever
\* of them a crash or a statusUpdate makes the other is sound too.
THEOREM TuningInvariant == Spec => []TuningInv
  BY TuningInit, TuningNext, PTL DEF Spec

\* Auto-tune takes at most maxAttempts steps, and the recall it remembers is
\* one that missed the target (applyAutoTune, recordBest, finalizeEval).
THEOREM TuningBounded == Spec => []TuningIsBounded
  <1>1. TuningInv => TuningIsBounded
    BY DEF TuningInv, Sound, Bounded, TuningIsBounded
  <1>. QED
    BY <1>1, TuningInvariant, PTL

\* An owed re-index carries no evaluation and no eval Job runs meanwhile, so
\* the new configuration is always measured by itself (applyAutoTune,
\* settleOnBest, needsIngest before evalDue).
THEOREM RetuneUnevaluated == Spec => []RetuneIsUnevaluated
  <1>1. TuningInv => RetuneIsUnevaluated
    BY DEF TuningInv, Sound, Unevaluated, RetuneIsUnevaluated
  <1>. QED
    BY <1>1, TuningInvariant, PTL

\* Auto-tune gives up on the best configuration it has measured, whatever
\* failed, crashed or was edited on the way (settleOnBest).
THEOREM DegradedOnBest == Spec => []SettledOnBest
  <1>1. TuningInv => SettledOnBest
    BY DEF TuningInv, Sound, OnBest, SettledOnBest
  <1>. QED
    BY <1>1, TuningInvariant, PTL

=============================================================================
