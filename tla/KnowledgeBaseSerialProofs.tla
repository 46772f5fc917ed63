--------------------- MODULE KnowledgeBaseSerialProofs ---------------------
(***************************************************************************)
(* One Job at a time, and one worker per shadow collection.  Both rest on  *)
(* the reconciler's memory of the Job it created: between the creation and *)
(* the status update that records it, a crash or a quota error forgets the *)
(* Job, and TLC shows what happens then.  Without those two faults, for    *)
(* any edits, rotations, failures, timeouts and lingering pods, they hold. *)
(***************************************************************************)
EXTENDS KnowledgeBaseForwardProofs

\* Nothing separates the creation of a Job from the statusUpdate that records it,
\* and a Job that is cancelled is deleted.
NoForgetting == Faults \intersect {"crash", "quota", "undeleted"} = {}

\* An object's name is unique: Create answers AlreadyExists.
UniqueNames == \A i, j \in jobs : i.name = j.name => i = j

\* The name of the only Job that may be running.
TrackedName == IF pc = "record" THEN current ELSE mem.activeJob

Tracked == \A j \in jobs : j.state = "running" => j.name = TrackedName

\* When the pass's copy of the active Job's name is the recorded one, and when
\* it is empty.
ActiveJobKnown ==
  /\ pc \in {"idle", "active"} => mem.activeJob = status.activeJob
  /\ pc \in {"decide", "cleanup"} => mem.activeJob = None
  /\ pc = "persist" /\ next \in {"decide", "cleanup"} => mem.activeJob = None

\* The round in memory covers every round that a worker ever got.
RoundsCovered ==
  /\ pc \notin {"record", "persist"} => mem.ingestRound = status.ingestRound
  /\ \A p \in pods : p.name.round <= mem.ingestRound

SerialInv ==
  /\ TypeOK
  /\ UniqueNames /\ Tracked /\ ActiveJobKnown
  /\ RoundsCovered /\ NoSharedShadow

-----------------------------------------------------------------------------
\* Users, time and the cluster only settle Jobs or remove them.
LEMMA OthersSettleJobs ==
  ASSUME TypeOK, UniqueNames,
         Worker \/ Cluster \/ ExpireJob \/ CooldownElapses \/ User \/ Time
  PROVE  /\ UniqueNames'
         /\ \A k \in jobs' : \E j \in jobs :
              j.name = k.name /\ (k.state = "running" => j.state = "running")
         /\ pods' \subseteq pods
  <1>1. ASSUME NEW j \in jobs, NEW k,
               k.name = j.name, k.state = "running" => j.state = "running", Update(j, k)
        PROVE  /\ UniqueNames'
               /\ \A l \in jobs' : \E i \in jobs :
                    i.name = l.name /\ (l.state = "running" => i.state = "running")
    BY <1>1 DEF Update, UniqueNames
  <1>2. ASSUME jobs' \subseteq jobs
        PROVE  /\ UniqueNames'
               /\ \A l \in jobs' : \E i \in jobs :
                    i.name = l.name /\ (l.state = "running" => i.state = "running")
    BY <1>2 DEF UniqueNames
  <1>3. CASE User \/ Time \/ CooldownElapses \/ PromoteShadow \/ SkipUnchanged
             \/ LingeringPodDies \/ ExpireJob \/ ExpireUnseenJob
    <2>1. jobs' \subseteq jobs /\ pods' \subseteq pods
      BY <1>3
      DEF User, EditSpec, RotateSecret, ToggleSuspend, Time, FreshnessTick, TickExpires,
          EvalTick, CooldownElapses, PromoteShadow, SkipUnchanged, LingeringPodDies,
          ExpireJob, ExpireUnseenJob
    <2>. QED
      BY <1>2, <2>1
  <1>4. ASSUME NEW j \in jobs
        PROVE  /\ \A s \in {"complete", "failed"} :
                    LET k == [j EXCEPT !.state = s]
                    IN  k.name = j.name /\ k.state # "running"
               /\ \A o \in {"ok", "noDataset", "lost"} :
                    LET k == [j EXCEPT !.state = "complete", !.outcome = o]
                    IN  k.name = j.name /\ k.state # "running"
               /\ \A r \in Percents :
                    LET k == [j EXCEPT !.state = "complete", !.outcome = "ok", !.recall = r]
                    IN  k.name = j.name /\ k.state # "running"
               /\ LET k == [j EXCEPT !.overdue = TRUE]
                  IN  k.name = j.name /\ k.state = j.state
    BY <1>4 DEF TypeOK, Jobs
  <1>5. CASE FinishIngest
    <2>1. PICK j \in jobs :
            Update(j, [j EXCEPT !.state = "complete", !.outcome = "ok"]) /\ pods' = pods
      BY <1>5 DEF FinishIngest
    <2>. QED
      BY <1>1, <1>4, <2>1
  <1>6. CASE FinishEval
    <2>1. PICK j \in jobs :
            /\ pods' = pods
            /\ \/ \E r \in Recalls :
                    Update(j, [j EXCEPT !.state = "complete", !.outcome = "ok", !.recall = r])
               \/ Update(j, [j EXCEPT !.state = "complete", !.outcome = "noDataset"])
      BY <1>6 DEF FinishEval
    <2>. QED
      BY <1>1, <1>4, <2>1, EvalAssumption
  <1>7. CASE LoseResult
    <2>1. PICK j \in jobs :
            Update(j, [j EXCEPT !.state = "complete", !.outcome = "lost"]) /\ pods' = pods
      BY <1>7 DEF LoseResult
    <2>. QED
      BY <1>1, <1>4, <2>1
  <1>8. CASE FailJob
    <2>1. PICK j \in jobs :
            Update(j, [j EXCEPT !.state = "failed"]) /\ pods' \subseteq pods
      BY <1>8 DEF FailJob
    <2>. QED
      BY <1>1, <1>4, <2>1
  <1>9. CASE JobOverdue
    <2>1. PICK j \in jobs : Update(j, [j EXCEPT !.overdue = TRUE]) /\ pods' = pods
      BY <1>9 DEF JobOverdue, Named
    <2>. QED
      BY <1>1, <1>4, <2>1
  <1>. QED
    BY <1>3, <1>5, <1>6, <1>7, <1>8, <1>9 DEF Worker, Cluster

\* A pass that persists or returns without creating a Job keeps the parts of
\* the invariant that speak of Jobs and pods, if it still knows the active Job.
LEMMA KeepsSerial ==
  ASSUME SerialInv,
         jobs' \subseteq jobs, pods' \subseteq pods, pc' # "record",
         \A j \in jobs' : j.state = "running" => j.name = mem'.activeJob,
         mem'.ingestRound \in Nat, mem.ingestRound <= mem'.ingestRound
  PROVE  /\ UniqueNames' /\ Tracked' /\ NoSharedShadow'
         /\ \A p \in pods' : p.name.round <= mem'.ingestRound
  <1>1. UniqueNames' /\ NoSharedShadow'
    BY DEF SerialInv, UniqueNames, NoSharedShadow
  <1>2. Tracked'
    BY DEF Tracked, TrackedName
  <1>3. ASSUME NEW p \in pods' PROVE p.name.round <= mem'.ingestRound
    <2>1. p.name.round \in Nat /\ p.name.round <= mem.ingestRound /\ mem.ingestRound \in Nat
      BY DEF SerialInv, TypeOK, IngestNames, Statuses, RoundsCovered
    <2>. QED
      BY <2>1
  <1>. QED
    BY <1>1, <1>2, <1>3

-----------------------------------------------------------------------------
\* A new KnowledgeBase has no Job and no worker.
LEMMA SerialInit == Init => SerialInv
  <1>. SUFFICES ASSUME Init PROVE SerialInv
    OBVIOUS
  <1>1. TypeOK
    BY TypeInit
  <1>. QED
    BY <1>1
    DEF Init, SerialInv, UniqueNames, Tracked, ActiveJobKnown, RoundsCovered, NoSharedShadow

\* Every step but a crash or a quota refusal keeps the one running Job known to
\* the pass: startIngest and startEval create one only when no other is left, and
\* Persist carries its name to the status.
LEMMA SerialNext ==
  ASSUME NoForgetting
  PROVE  SerialInv /\ [Next]_vars => SerialInv'
  <1>. SUFFICES ASSUME SerialInv, [Next]_vars PROVE SerialInv'
    OBVIOUS
  <1>1. TypeOK'
    BY TypeNext DEF SerialInv
  <1>2. /\ status \in Statuses /\ mem \in Statuses
        /\ mem.ingestRound \in Nat /\ status.ingestRound \in Nat
        /\ mem'.ingestRound \in Nat
    BY <1>1 DEF SerialInv, TypeOK, Statuses
  <1>3. \A j \in jobs : j.name \in Names /\ j.name # None
    BY NameAssumption DEF SerialInv, TypeOK, Jobs
  \* The pass persists: what is left to show is how `mem' tracks the Job.
  <1>4. ASSUME pc' = "persist", jobs' \subseteq jobs, pods' \subseteq pods,
               \A j \in jobs' : j.state = "running" => j.name = mem'.activeJob,
               mem.ingestRound <= mem'.ingestRound,
               next' = "idle" \/ mem'.activeJob = None
        PROVE  SerialInv'
    <2>1. UniqueNames' /\ Tracked' /\ NoSharedShadow'
          /\ \A p \in pods' : p.name.round <= mem'.ingestRound
      BY <1>2, <1>4, KeepsSerial
    <2>. QED
      BY <1>1, <1>4, <2>1 DEF SerialInv, ActiveJobKnown, RoundsCovered
  \* The pass returns, and `mem' becomes the persisted status.
  <1>5. ASSUME EndPass, pc \notin {"record", "persist"}, pods' = pods, jobs' \subseteq jobs
        PROVE  SerialInv'
    <2>1. mem' = status /\ status' = status /\ pc' = "idle"
      BY <1>5 DEF EndPass
    <2>2. mem.ingestRound = status.ingestRound
      BY <1>5 DEF SerialInv, RoundsCovered
    <2>3. \A j \in jobs' : j.state = "running" => j.name = status.activeJob
      BY <1>3, <1>5 DEF SerialInv, TypeOK, Tracked, TrackedName, ActiveJobKnown
    <2>4. UniqueNames' /\ Tracked' /\ NoSharedShadow'
          /\ \A p \in pods' : p.name.round <= mem'.ingestRound
      BY <1>2, <1>5, <2>1, <2>2, <2>3, KeepsSerial
    <2>. QED
      BY <1>1, <2>1, <2>4 DEF SerialInv, ActiveJobKnown, RoundsCovered
  <1>6. CASE BlockedOnIdentity
    <2>1. pc = "idle" /\ UNCHANGED <<jobs, pods>>
      BY <1>6 DEF BlockedOnIdentity
    <2>2. /\ pc' = "persist" /\ next' = "idle"
          /\ mem'.activeJob = status.activeJob /\ mem'.ingestRound = status.ingestRound
      BY <1>2, <1>6 DEF BlockedOnIdentity, Persist, Statuses
    <2>. QED
      BY <1>2, <1>4, <2>1, <2>2
      DEF SerialInv, Tracked, TrackedName, ActiveJobKnown, RoundsCovered
  <1>7. CASE ReflectSuspend
    <2>1. pc = "idle" /\ UNCHANGED <<jobs, pods>>
      BY <1>7 DEF ReflectSuspend
    <2>2. /\ pc' = "persist" /\ next' = "idle"
          /\ mem'.activeJob = status.activeJob /\ mem'.ingestRound = status.ingestRound
      BY <1>2, <1>7 DEF ReflectSuspend, Persist, Statuses
    <2>. QED
      BY <1>2, <1>4, <2>1, <2>2
      DEF SerialInv, Tracked, TrackedName, ActiveJobKnown, RoundsCovered
  <1>8. CASE BeginPass
    <2>1. /\ pc = "idle" /\ UNCHANGED <<jobs, pods, status>>
          /\ mem' = DropStaleTuning(status, kb.spec)
          /\ pc' = IF status.activeJob = None THEN "decide" ELSE "active"
      BY <1>8 DEF BeginPass
    <2>2. /\ mem'.activeJob = status.activeJob
          /\ mem'.ingestRound = status.ingestRound
      BY <1>2, <2>1 DEF DropStaleTuning, Statuses
    <2>3. UniqueNames' /\ Tracked' /\ NoSharedShadow'
          /\ \A p \in pods' : p.name.round <= mem'.ingestRound
      BY <1>2, <2>1, <2>2, KeepsSerial
      DEF SerialInv, Tracked, TrackedName, ActiveJobKnown, RoundsCovered
    <2>. QED
      BY <1>1, <2>1, <2>2, <2>3 DEF SerialInv, ActiveJobKnown, RoundsCovered
  \* The active Job is deleted or gone: nothing else was running.
  <1>9. ASSUME pc = "active"
         PROVE  \A j \in jobs : j.state = "running" => j.name = mem.activeJob
    BY <1>9 DEF SerialInv, Tracked, TrackedName
  <1>10. CASE CancelStaleIngest
    <2>1. PICK j \in Named(mem.activeJob) : DeleteJob(j)
      BY <1>10 DEF CancelStaleIngest
    <2>2. /\ jobs' \subseteq jobs /\ pods' \subseteq pods
          /\ \A i \in jobs' : i.state # "running"
      BY <1>9, <1>10, <2>1
      DEF CancelStaleIngest, DeleteJob, Fault, NoForgetting, Named, PodsOf, SerialInv, UniqueNames
    <2>3. /\ pc' = "persist"
          /\ mem'.activeJob = None /\ mem'.ingestRound = mem.ingestRound
      BY <1>2, <1>10 DEF CancelStaleIngest, Persist, Statuses
    <2>. QED
      BY <1>2, <1>4, <2>2, <2>3
  <1>11. CASE ClearTimedOut
    <2>1. PICK j \in Named(mem.activeJob) : DeleteJob(j)
      BY <1>11 DEF ClearTimedOut
    <2>2. /\ jobs' \subseteq jobs /\ pods' \subseteq pods
          /\ \A i \in jobs' : i.state # "running"
      BY <1>9, <1>11, <2>1
      DEF ClearTimedOut, DeleteJob, Fault, NoForgetting, Named, PodsOf, SerialInv, UniqueNames
    <2>3. /\ pc' = "persist"
          /\ mem'.activeJob = None /\ mem'.ingestRound = mem.ingestRound
      BY <1>2, <1>11 DEF ClearTimedOut, Persist, Statuses
    <2>. QED
      BY <1>2, <1>4, <2>2, <2>3
  <1>12. CASE ForgetMissing
    <2>1. /\ pods' = pods /\ jobs' = jobs /\ \A i \in jobs' : i.state # "running"
      BY <1>9, <1>12 DEF ForgetMissing, Named
    <2>2. /\ pc' = "persist"
          /\ mem'.activeJob = None /\ mem'.ingestRound = mem.ingestRound
      BY <1>2, <1>12 DEF ForgetMissing, Persist, Statuses
    <2>. QED
      BY <1>2, <1>4, <2>1, <2>2
  <1>13. CASE AwaitRunning
    <2>1. pc = "active" /\ UNCHANGED <<jobs, pods>>
      BY <1>13 DEF AwaitRunning
    <2>2. CASE EndPass
      BY <1>5, <2>1, <2>2
    <2>3. CASE Persist([mem EXCEPT !.deferCronIngest = TRUE], "none", "idle")
      <3>1. /\ pc' = "persist" /\ next' = "idle"
            /\ mem'.activeJob = mem.activeJob /\ mem'.ingestRound = mem.ingestRound
        BY <1>2, <2>3 DEF Persist, Statuses
      <3>. QED
        BY <1>2, <1>4, <1>9, <2>1, <3>1
    <2>. QED
      BY <1>13, <2>2, <2>3 DEF AwaitRunning
  \* The active Job is finished, so no Job is running.
  <1>14. ASSUME NEW j \in jobs, pc = "active", j.name = mem.activeJob, j.state # "running"
         PROVE  \A i \in jobs : i.state # "running"
    BY <1>9, <1>14 DEF SerialInv, UniqueNames
  <1>15. CASE FinalizeFailedIngest
    <2>1. PICK j \in jobs :
            /\ Settled(j) /\ j.state = "failed"
            /\ Persist([mem EXCEPT !.phase = "Failed", !.activeJob = None, !.oversize = 0,
                                   !.lastFailedSpecHash = j.name.spec], "failed", "cleanup")
            /\ pc = "active" /\ UNCHANGED <<jobs, pods>>
      BY <1>15 DEF FinalizeFailedIngest
    <2>2. \A i \in jobs : i.state # "running"
      BY <1>14, <2>1 DEF Settled, Named
    <2>3. /\ pc' = "persist"
          /\ mem'.activeJob = None /\ mem'.ingestRound = mem.ingestRound
      BY <1>2, <2>1 DEF Persist, Statuses
    <2>. QED
      BY <1>2, <1>4, <2>1, <2>2, <2>3
  <1>16. CASE FinalizeIngest
    <2>1. PICK j \in jobs :
            /\ Settled(j) /\ j.state = "complete"
            /\ Persist([mem EXCEPT !.phase = "Ready", !.activeJob = None, !.oversize = 0,
                                   !.observedSpecHash = j.name.spec,
                                   !.effectiveChunking = j.name.chunking,
                                   !.pendingRetune = FALSE,
                                   !.lastFailedSpecHash = None], "indexed", "cleanup")
            /\ pc = "active" /\ UNCHANGED <<jobs, pods>>
      BY <1>16 DEF FinalizeIngest
    <2>2. \A i \in jobs : i.state # "running"
      BY <1>14, <2>1 DEF Settled, Named
    <2>3. /\ pc' = "persist"
          /\ mem'.activeJob = None /\ mem'.ingestRound = mem.ingestRound
      BY <1>2, <2>1 DEF Persist, Statuses
    <2>. QED
      BY <1>2, <1>4, <2>1, <2>2, <2>3
  <1>17. CASE CleanUpIngest
    BY <1>5, <1>17 DEF CleanUpIngest, Fault, NoForgetting
  <1>18. CASE AwaitResult \/ Rest \/ IngestJobExists \/ EvalJobExists
    BY <1>5, <1>18 DEF AwaitResult, Rest, IngestJobExists, EvalJobExists, MayWork
  <1>19. CASE FinalizeEval
    <2>1. /\ pc = "active" /\ UNCHANGED <<jobs, pods>>
          /\ \E j \in jobs : j.name = mem.activeJob /\ j.state # "running"
      BY <1>19
      DEF FinalizeEval, FinalizeFailedEval, NoDataset, RecallMet, ApplyAutoTune,
          SettleOnBest, Degrade, EvalResults, Settled, Named
    <2>2. \A i \in jobs : i.state # "running"
      BY <1>14, <2>1
    <2>3. /\ Evaluated.ingestRound = mem.ingestRound
          /\ Evaluated \in Statuses
      BY <1>2 DEF Evaluated, Statuses
    <2>4. ASSUME NEW r \in Percents
          PROVE  /\ RecordBest(Evaluated, r).ingestRound = mem.ingestRound
                 /\ RecordBest(Evaluated, r) \in Statuses
      <3>1. seen \in KnowledgeBases
        BY <2>1 DEF SerialInv, TypeOK
      <3>2. RecordBest(Evaluated, r) \in Statuses
        BY <2>3, <3>1, RecordBestType
      <3>. QED
        BY <2>3, <3>2 DEF RecordBest, Statuses
    <2>5. \A j \in EvalResults : j.recall \in Percents
      BY DEF EvalResults, SerialInv, TypeOK, Jobs
    <2>6. mem'.ingestRound = mem.ingestRound
      <3>1. CASE FinalizeFailedEval
        BY <1>2, <3>1 DEF FinalizeFailedEval, Persist, Statuses
      <3>2. CASE NoDataset
        BY <2>3, <3>2 DEF NoDataset, Persist
      <3>3. CASE RecallMet
        BY <2>3, <3>3 DEF RecallMet, Persist, Statuses
      <3>4. CASE ApplyAutoTune
        BY <2>4, <2>5, <3>4 DEF ApplyAutoTune, Persist, Statuses
      <3>5. CASE SettleOnBest
        BY <2>4, <2>5, <3>5 DEF SettleOnBest, Persist, Statuses
      <3>6. CASE Degrade
        BY <2>4, <2>5, <3>6 DEF Degrade, Persist, Statuses
      <3>. QED
        BY <1>19, <3>1, <3>2, <3>3, <3>4, <3>5, <3>6 DEF FinalizeEval
    <2>7. pc' = "persist" /\ next' = "idle"
      BY <1>19
      DEF FinalizeEval, FinalizeFailedEval, NoDataset, RecallMet, ApplyAutoTune,
          SettleOnBest, Degrade, Persist
    <2>. QED
      BY <1>2, <1>4, <2>1, <2>2, <2>6, <2>7
  \* Deciding work: the pass has found no active Job, so no Job is running.
  <1>20. ASSUME pc = "decide"
         PROVE  /\ \A j \in jobs : j.state # "running"
                /\ mem.activeJob = None
    BY <1>3, <1>20 DEF SerialInv, Tracked, TrackedName, ActiveJobKnown
  <1>21. /\ NextRound.ingestRound = mem.ingestRound + 1
         /\ NextRound.activeJob = mem.activeJob
         /\ NextRound \in Statuses
    BY <1>2, NextRoundType DEF NextRound, Statuses
  <1>22. CASE RefuseOversize
    <2>1. /\ pc = "decide" /\ UNCHANGED <<jobs, pods>>
          /\ Persist([NextRound EXCEPT !.phase = "Failed", !.oversize = seen.generation],
                     "none", "idle")
      BY <1>22 DEF RefuseOversize, MayWork
    <2>2. mem.ingestRound <= mem'.ingestRound /\ pc' = "persist" /\ next' = "idle"
      BY <1>2, <1>21, <2>1 DEF Persist, Statuses
    <2>. QED
      BY <1>2, <1>4, <1>20, <2>1, <2>2
  <1>23. CASE CreateIngestJob
    <2>1. /\ pc = "decide" /\ pc' = "record" /\ mem' = NextRound /\ current' = NextIngest
          /\ jobs' = jobs \union {NewJob(NextIngest)} /\ Named(NextIngest) = {}
          /\ pods' = pods \union {[name |-> NextIngest, mode |-> Mode]}
      BY <1>23 DEF CreateIngestJob, MayWork
    <2>2. NewJob(NextIngest).name = NextIngest
      BY DEF NewJob
    <2>3. NextIngest.round = mem.ingestRound + 1
      BY <1>21 DEF NextIngest, IngestName
    <2>4. \A p \in pods : p.name.round \in Nat /\ p.name.round < NextIngest.round
      BY <1>2, <2>3 DEF SerialInv, TypeOK, IngestNames, RoundsCovered
    <2>5. UniqueNames'
      BY <2>1, <2>2 DEF SerialInv, UniqueNames, Named
    <2>6. Tracked'
      BY <1>20, <2>1, <2>2 DEF Tracked, TrackedName
    <2>7. NoSharedShadow' /\ RoundsCovered'
      BY <1>2, <1>21, <2>1, <2>3, <2>4 DEF SerialInv, NoSharedShadow, RoundsCovered
    <2>. QED
      BY <1>1, <2>1, <2>5, <2>6, <2>7 DEF SerialInv, ActiveJobKnown
  <1>24. CASE RecordIngest
    <2>1. /\ pc = "record" /\ UNCHANGED <<jobs, pods>>
          /\ Persist([mem EXCEPT !.phase = "Ingesting", !.activeJob = current, !.oversize = 0],
                     "none", "idle")
      BY <1>24 DEF RecordIngest
    <2>2. /\ pc' = "persist" /\ next' = "idle"
          /\ mem'.activeJob = current /\ mem'.ingestRound = mem.ingestRound
      BY <1>2, <2>1 DEF Persist, Statuses
    <2>. QED
      BY <1>2, <1>4, <2>1, <2>2 DEF SerialInv, Tracked, TrackedName
  <1>25. CASE StartEval
    <2>1. /\ pc = "decide" /\ UNCHANGED pods
          /\ Named(EvalName(NextEvalRound)) = {}
          /\ jobs' = jobs \union {NewJob(EvalName(NextEvalRound))}
          /\ pc' = "persist" /\ next' = "idle"
          /\ mem' = [NextEvalRound EXCEPT !.activeJob = EvalName(NextEvalRound)]
      BY <1>25 DEF StartEval, MayWork, Persist
    <2>2. /\ mem'.activeJob = EvalName(NextEvalRound)
          /\ mem'.ingestRound = mem.ingestRound
      BY <1>2, <2>1, NextEvalRoundType DEF NextEvalRound, Statuses
    <2>3. NewJob(EvalName(NextEvalRound)).name = EvalName(NextEvalRound)
      BY DEF NewJob
    <2>4. UniqueNames'
      BY <2>1, <2>3 DEF SerialInv, UniqueNames, Named
    <2>5. Tracked'
      BY <1>20, <2>1, <2>2, <2>3 DEF Tracked, TrackedName
    <2>6. NoSharedShadow' /\ RoundsCovered'
      BY <2>1, <2>2 DEF SerialInv, NoSharedShadow, RoundsCovered
    <2>. QED
      BY <1>1, <2>1, <2>4, <2>5, <2>6 DEF SerialInv, ActiveJobKnown
  <1>26. CASE StatusUpdate
    BY <1>1, <1>26
    DEF StatusUpdate, SerialInv, TypeOK, UniqueNames, Tracked, TrackedName, ActiveJobKnown,
        RoundsCovered, NoSharedShadow
  <1>27. CASE IngestOverQuota \/ RunOverQuota \/ EvalOverQuota \/ PassFails
    BY <1>27
    DEF IngestOverQuota, RunOverQuota, EvalOverQuota, PassFails, Fault, NoForgetting
  <1>28. CASE Worker \/ Cluster \/ ExpireJob \/ CooldownElapses \/ User \/ Time
    <2>1. UNCHANGED <<status, pc, mem, seen, current, stamp, next>>
      BY <1>28, OthersKeepPass
    <2>2. /\ UniqueNames'
          /\ \A k \in jobs' : \E j \in jobs :
               j.name = k.name /\ (k.state = "running" => j.state = "running")
          /\ pods' \subseteq pods
      BY <1>28, OthersSettleJobs DEF SerialInv
    <2>3. Tracked'
      BY <2>1, <2>2 DEF SerialInv, Tracked, TrackedName
    <2>4. NoSharedShadow' /\ RoundsCovered' /\ ActiveJobKnown'
      BY <2>1, <2>2 DEF SerialInv, NoSharedShadow, RoundsCovered, ActiveJobKnown
    <2>. QED
      BY <1>1, <2>2, <2>3, <2>4 DEF SerialInv
  <1>29. CASE UNCHANGED vars
    BY <1>1, <1>29
    DEF vars, passVars, SerialInv, UniqueNames, Tracked, TrackedName, ActiveJobKnown,
        RoundsCovered, NoSharedShadow
  <1>. QED
    BY <1>6, <1>7, <1>8, <1>10, <1>11, <1>12, <1>13, <1>15, <1>16, <1>17, <1>18, <1>19,
       <1>22, <1>23, <1>24, <1>25, <1>26, <1>27, <1>28, <1>29
    DEF Next, Reconcile, Refused, ActiveJobStep, DecideStep

\* One Job at a time, when no crash and no quota error separates the creation
\* of a Job from the status update that records it.
THEOREM SerialJobs ==
  ASSUME NoForgetting
  PROVE  Spec => []OneJobInFlight
  <1>1. Init => SerialInv
    BY SerialInit
  <1>2. SerialInv /\ [Next]_vars => SerialInv'
    BY SerialNext
  <1>3. SerialInv => OneJobInFlight
    BY DEF SerialInv, OneJobInFlight, Running, Tracked, UniqueNames
  <1>. QED
    BY <1>1, <1>2, <1>3, PTL DEF Spec

\* No two workers stage the same shadow collection, under the same condition,
\* even when the pod of a deleted Job uses its grace period.
THEOREM OwnShadow ==
  ASSUME NoForgetting
  PROVE  Spec => []NoSharedShadow
  <1>1. Init => SerialInv
    BY SerialInit
  <1>2. SerialInv /\ [Next]_vars => SerialInv'
    BY SerialNext
  <1>3. SerialInv => NoSharedShadow
    BY DEF SerialInv
  <1>. QED
    BY <1>1, <1>2, <1>3, PTL DEF Spec

-----------------------------------------------------------------------------
(* What is served.  Where a deleted Job's pod stops at once, every worker  *)
(* belongs to the one Job in flight.                                       *)

\* What the collection holds once the Job of this name has run.
Holding(name) == [spec |-> name.spec, chunking |-> name.chunking]

PodsWork == \A p \in pods : \E j \in jobs : j.name = p.name /\ j.state = "running"

\* An ingest Job whose worker is done, well or by skipping, has left its content.
WorkServed ==
  \A j \in jobs :
    (/\ j.name = TrackedName /\ j.name.type = "ingest" /\ PodsOf(j.name) = {}
     /\ j.state = "running" \/ (j.state = "complete" /\ j.outcome = "ok"))
    => store = Holding(j.name)

PodUnchanged ==
  \A p \in pods : (p.mode = "incremental" /\ store # None) => store = Holding(p.name)

\* The content recorded by a status that no ingestion is about to replace.
Serves(st) ==
  (/\ st.phase \in {"Ready", "Degraded"} \/ IsEval(st.activeJob)
   /\ ~st.pendingRetune /\ st.effectiveChunking # None)
  => store = [spec |-> st.observedSpecHash, chunking |-> st.effectiveChunking]

NotIndexing(st) == IsIngest(st.activeJob) => st.phase \notin {"Ready", "Degraded"}

NoneLeft == pc \in {"decide", "cleanup"} => status.activeJob = None

ServeInv ==
  /\ SerialInv /\ NoneLeft
  /\ PodsWork /\ WorkServed /\ PodUnchanged
  /\ pc \notin {"record", "persist"} => Serves(status)
  /\ pc # "record" => Serves(mem)
  /\ NotIndexing(status) /\ NotIndexing(mem)

\* The step starts incremental workers only on content that is unchanged.
StartsUnchanged ==
  \A p \in pods' \ pods :
    (p.mode = "incremental" /\ store # None) => store = Holding(p.name)

\* A step that changes the record of one Job keeps what is said of workers, if
\* the Job does not finish under its worker.
LEMMA UpdateServes ==
  ASSUME ServeInv, NEW j \in jobs, NEW k, k.name = j.name, Update(j, k),
         IF k.state = "failed"
           THEN pods' \subseteq pods /\ pods \ pods' \subseteq PodsOf(j.name)
           ELSE pods' = pods,
         UNCHANGED <<store, TrackedName>>,
         k.state = j.state \/ PodsOf(j.name)' = {},
         \/ k.state = j.state /\ k.outcome = j.outcome
         \/ k.state = "complete" /\ j.state = "running" /\ PodsOf(j.name) = {}
         \/ k.state = "failed"
  PROVE  PodsWork' /\ WorkServed' /\ PodUnchanged'
  <1>1. UniqueNames /\ PodsWork /\ WorkServed /\ PodUnchanged
    BY DEF ServeInv, SerialInv
  <1>2. PodsWork'
    <2>. SUFFICES ASSUME NEW p \in pods'
                  PROVE  \E i \in jobs' : i.name = p.name /\ i.state = "running"
      BY DEF PodsWork
    <2>1. PICK i \in jobs : i.name = p.name /\ i.state = "running"
      BY <1>1 DEF PodsWork
    <2>2. CASE i = j
      <3>1. k.state = j.state
        BY <2>1, <2>2 DEF PodsOf
      <3>. QED
        BY <2>1, <2>2, <3>1 DEF Update
    <2>. QED
      BY <2>1, <2>2 DEF Update
  <1>3. WorkServed'
    <2>. SUFFICES ASSUME NEW i \in jobs', i.name = TrackedName, i.name.type = "ingest",
                         PodsOf(i.name)' = {},
                         i.state = "running" \/ (i.state = "complete" /\ i.outcome = "ok")
                  PROVE  store = Holding(i.name)
      BY DEF WorkServed, Holding
    <2>1. CASE i = k
      <3>1. PodsOf(j.name) = {}
        BY <2>1 DEF PodsOf
      <3>. QED
        BY <1>1, <2>1, <3>1 DEF WorkServed
    <2>2. CASE i # k
      <3>1. i \in jobs /\ i # j /\ i.name # j.name
        BY <1>1, <2>2 DEF Update, UniqueNames
      <3>2. PodsOf(i.name) = {}
        BY <3>1 DEF PodsOf
      <3>. QED
        BY <1>1, <3>1, <3>2 DEF WorkServed
    <2>. QED
      BY <2>1, <2>2
  <1>4. PodUnchanged'
    BY <1>1 DEF PodUnchanged, Holding
  <1>. QED
    BY <1>2, <1>3, <1>4

\* The pass a worker runs in: its Job is the active one, and the status says so.
LEMMA WorkerTracked ==
  ASSUME ServeInv, NEW p \in pods
  PROVE  /\ p.name = TrackedName /\ p.name \in IngestNames
         /\ pc # "record" => mem.activeJob = p.name /\ mem.phase \notin {"Ready", "Degraded"}
         /\ pc \notin {"record", "persist"} =>
              status.activeJob = p.name /\ status.phase \notin {"Ready", "Degraded"}
  <1>1. p.name \in IngestNames /\ p.name # None /\ p.name.type = "ingest"
    BY NameAssumption DEF ServeInv, SerialInv, TypeOK, Names, IngestNames
  <1>2. p.name = TrackedName
    BY DEF ServeInv, SerialInv, PodsWork, Tracked
  <1>3. pc # "record" => mem.activeJob = p.name /\ mem.phase \notin {"Ready", "Degraded"}
    BY <1>1, <1>2 DEF TrackedName, ServeInv, NotIndexing, IsIngest
  <1>4. ASSUME pc \notin {"record", "persist"}
        PROVE  status.activeJob = p.name /\ status.phase \notin {"Ready", "Degraded"}
    <2>1. pc \in {"idle", "active"}
      BY <1>1, <1>3, <1>4 DEF ServeInv, SerialInv, TypeOK, ActiveJobKnown
    <2>. QED
      BY <1>1, <1>3, <1>4, <2>1
      DEF ServeInv, SerialInv, ActiveJobKnown, NotIndexing, IsIngest
  <1>. QED
    BY <1>1, <1>2, <1>3, <1>4

\* Users, time, Jobs and workers keep what is said of workers, and the content
\* that a status records is not replaced under it.
LEMMA OthersServe ==
  ASSUME ServeInv,
         Worker \/ Cluster \/ ExpireJob \/ CooldownElapses \/ User \/ Time
  PROVE  /\ PodsWork' /\ WorkServed' /\ PodUnchanged'
         /\ store' = store \/ pods # {}
  <1>1. TrackedName' = TrackedName
    BY OthersKeepPass DEF TrackedName
  <1>2. UniqueNames /\ PodsWork /\ WorkServed /\ PodUnchanged
    BY DEF ServeInv, SerialInv
  <1>3. ASSUME UNCHANGED <<jobs, pods, store>>
        PROVE  PodsWork' /\ WorkServed' /\ PodUnchanged'
    BY <1>1, <1>2, <1>3 DEF PodsWork, WorkServed, PodUnchanged, PodsOf, Holding
  <1>4. CASE User \/ Time \/ CooldownElapses
    BY <1>3, <1>4
    DEF User, EditSpec, RotateSecret, ToggleSuspend, Time, FreshnessTick, TickExpires,
        EvalTick, CooldownElapses
  <1>5. CASE PromoteShadow
    <2>1. PICK p \in pods : store' = Holding(p.name) /\ pods' = pods \ {p} /\ jobs' = jobs
      BY <1>5 DEF PromoteShadow, Holding
    <2>2. p.name = TrackedName /\ \A q \in pods : q.name = TrackedName
      BY WorkerTracked
    <2>. QED
      BY <1>1, <1>2, <2>1, <2>2 DEF PodsWork, WorkServed, PodUnchanged, Holding
  <1>6. CASE SkipUnchanged
    <2>1. PICK p \in pods : /\ p.mode = "incremental" /\ store # None
                            /\ pods' = pods \ {p} /\ UNCHANGED <<store, jobs>>
      BY <1>6 DEF SkipUnchanged
    <2>2. p.name = TrackedName /\ store = Holding(p.name)
      BY <1>2, <2>1, WorkerTracked DEF PodUnchanged
    <2>. QED
      BY <1>1, <1>2, <2>1, <2>2 DEF PodsWork, WorkServed, PodUnchanged, Holding
  <1>7. CASE LingeringPodDies
    BY <1>2, <1>7 DEF LingeringPodDies, PodsWork, Named
  <1>8. CASE ExpireJob \/ ExpireUnseenJob
    <2>1. PICK j \in jobs : /\ j.state # "running" /\ jobs' = jobs \ {j}
                            /\ UNCHANGED <<store, pods>>
      BY <1>8 DEF ExpireJob, ExpireUnseenJob, Named
    <2>. QED
      BY <1>1, <1>2, <2>1 DEF PodsWork, WorkServed, PodUnchanged, PodsOf, Holding
  <1>9. CASE FinishIngest
    <2>1. PICK j \in jobs : /\ Done(j) /\ UNCHANGED <<store, pods>>
                            /\ Update(j, [j EXCEPT !.state = "complete", !.outcome = "ok"])
      BY <1>9 DEF FinishIngest
    <2>2. LET k == [j EXCEPT !.state = "complete", !.outcome = "ok"]
          IN  k.name = j.name /\ k.state = "complete"
      BY DEF ServeInv, SerialInv, TypeOK, Jobs
    <2>. QED
      BY <1>1, <2>1, <2>2, UpdateServes DEF Done, PodsOf
  <1>10. CASE FinishEval
    <2>1. PICK j \in jobs :
            /\ Done(j) /\ UNCHANGED <<store, pods>>
            /\ \E k \in {[j EXCEPT !.state = "complete", !.outcome = "noDataset"]}
                        \union {[j EXCEPT !.state = "complete", !.outcome = "ok",
                                          !.recall = r] : r \in Recalls} :
                 Update(j, k)
      BY <1>10 DEF FinishEval
    <2>2. PICK k : k.name = j.name /\ k.state = "complete" /\ Update(j, k)
      BY <2>1 DEF ServeInv, SerialInv, TypeOK, Jobs
    <2>. QED
      BY <1>1, <2>1, <2>2, UpdateServes DEF Done, PodsOf
  <1>11. CASE LoseResult
    <2>1. PICK j \in jobs : /\ Done(j) /\ UNCHANGED <<store, pods>>
                            /\ Update(j, [j EXCEPT !.state = "complete", !.outcome = "lost"])
      BY <1>11 DEF LoseResult
    <2>2. LET k == [j EXCEPT !.state = "complete", !.outcome = "lost"]
          IN  k.name = j.name /\ k.state = "complete"
      BY DEF ServeInv, SerialInv, TypeOK, Jobs
    <2>. QED
      BY <1>1, <2>1, <2>2, UpdateServes DEF Done, PodsOf
  <1>12. CASE FailJob
    <2>1. PICK j \in jobs : /\ pods' = pods \ PodsOf(j.name) /\ store' = store
                            /\ Update(j, [j EXCEPT !.state = "failed"])
      BY <1>12 DEF FailJob
    <2>2. LET k == [j EXCEPT !.state = "failed"] IN k.name = j.name /\ k.state = "failed"
      BY DEF ServeInv, SerialInv, TypeOK, Jobs
    <2>3. PodsOf(j.name)' = {} /\ pods \ pods' \subseteq PodsOf(j.name)
      BY <2>1 DEF PodsOf
    <2>. QED
      BY <1>1, <2>1, <2>2, <2>3, UpdateServes
  <1>13. CASE JobOverdue
    <2>1. PICK j \in jobs : /\ UNCHANGED <<store, pods>>
                            /\ Update(j, [j EXCEPT !.overdue = TRUE])
      BY <1>13 DEF JobOverdue, Named
    <2>2. LET k == [j EXCEPT !.overdue = TRUE]
          IN  k.name = j.name /\ k.state = j.state /\ k.outcome = j.outcome
      BY DEF ServeInv, SerialInv, TypeOK, Jobs
    <2>. QED
      BY <1>1, <2>1, <2>2, UpdateServes
  <1>. QED
    BY <1>4, <1>5, <1>6, <1>7, <1>8, <1>9, <1>10, <1>11, <1>12, <1>13 DEF Worker, Cluster

LEMMA ServeInit == Init => ServeInv
  <1>. SUFFICES ASSUME Init PROVE ServeInv
    OBVIOUS
  <1>1. SerialInv
    BY SerialInit
  <1>2. /\ pods = {} /\ jobs = {} /\ pc = "idle"
        /\ mem = status /\ status.phase = "" /\ status.activeJob = None
    BY DEF Init, InitialStatus
  <1>. QED
    BY <1>1, <1>2
    DEF ServeInv, NoneLeft, PodsWork, WorkServed, PodUnchanged, Serves, NotIndexing,
        IsIngest, IsEval

\* Where deleted pods stop and incremental workers start on unchanged content, an
\* ingestion that is finalized has left the content it records, and nothing
\* replaces it while the status vouches for it.
LEMMA ServeNext ==
  ASSUME NoForgetting, ~PodsLinger
  PROVE  ServeInv /\ StartsUnchanged /\ [Next]_vars => ServeInv'
  <1>. SUFFICES ASSUME ServeInv, StartsUnchanged, [Next]_vars PROVE ServeInv'
    OBVIOUS
  <1>1. SerialInv' /\ TypeOK'
    BY SerialNext DEF ServeInv, SerialInv
  <1>2. /\ SerialInv /\ TypeOK /\ status \in Statuses /\ mem \in Statuses /\ mem' \in Statuses
    BY <1>1 DEF ServeInv, SerialInv, TypeOK
  <1>3. \A j \in jobs : j.name # None
    BY <1>2, NameAssumption DEF TypeOK, Jobs
  \* Jobs and pods go, but none that works.
  <1>4. ASSUME UNCHANGED store, jobs' \subseteq jobs, pods' \subseteq pods,
               \A j \in jobs \ jobs' : PodsOf(j.name)' = {},
               \/ pods' = pods /\ TrackedName' = TrackedName
               \/ TrackedName' = None
        PROVE  PodsWork' /\ WorkServed' /\ PodUnchanged'
    <2>1. PodsWork'
      BY <1>4 DEF ServeInv, PodsWork, PodsOf
    <2>2. WorkServed'
      BY <1>3, <1>4 DEF ServeInv, WorkServed, PodsOf, Holding
    <2>3. PodUnchanged'
      BY <1>4 DEF ServeInv, PodUnchanged, Holding
    <2>. QED
      BY <2>1, <2>2, <2>3
  \* The pass has edited its copy and persists it.
  <1>5. ASSUME pc' = "persist", UNCHANGED <<status, store>>,
               Serves(mem'), NotIndexing(mem'),
               PodsWork', WorkServed', PodUnchanged'
        PROVE  ServeInv'
    BY <1>1, <1>5 DEF ServeInv, NoneLeft, Serves, NotIndexing
  \* The pass returns with nothing to persist.
  <1>6. ASSUME EndPass, pc \notin {"record", "persist"}, UNCHANGED <<store, pods>>,
               jobs' \subseteq jobs, \A j \in jobs \ jobs' : PodsOf(j.name) = {}
        PROVE  ServeInv'
    <2>1. pc' = "idle" /\ mem' = status /\ status' = status
      BY <1>6 DEF EndPass
    <2>2. TrackedName' = TrackedName
      BY <1>2, <1>6, <2>1
      DEF TrackedName, SerialInv, ActiveJobKnown, ServeInv, NoneLeft, TypeOK
    <2>3. PodsWork' /\ WorkServed' /\ PodUnchanged'
      BY <1>4, <1>6, <2>2 DEF PodsOf
    <2>. QED
      BY <1>1, <1>6, <2>1, <2>3 DEF ServeInv, NoneLeft, Serves, NotIndexing
  <1>7. CASE BlockedOnIdentity \/ ReflectSuspend
    <2>1. /\ pc = "idle" /\ pc' = "persist" /\ UNCHANGED <<status, store, jobs, pods>>
          /\ mem'.phase \notin {"Ready", "Degraded"} /\ mem'.activeJob = status.activeJob
          /\ mem'.pendingRetune = status.pendingRetune
          /\ mem'.effectiveChunking = status.effectiveChunking
          /\ mem'.observedSpecHash = status.observedSpecHash
      BY <1>2, <1>7 DEF BlockedOnIdentity, ReflectSuspend, Persist, Statuses
    <2>2. TrackedName' = TrackedName
      BY <1>2, <2>1 DEF TrackedName, SerialInv, ActiveJobKnown
    <2>3. PodsWork' /\ WorkServed' /\ PodUnchanged'
      BY <1>4, <2>1, <2>2
    <2>4. Serves(mem') /\ NotIndexing(mem')
      BY <2>1 DEF ServeInv, Serves, NotIndexing
    <2>. QED
      BY <1>5, <2>1, <2>3, <2>4
  <1>8. CASE BeginPass
    <2>1. /\ pc = "idle" /\ UNCHANGED <<status, store, jobs, pods>>
          /\ pc' = IF status.activeJob = None THEN "decide" ELSE "active"
          /\ mem' = DropStaleTuning(status, kb.spec)
      BY <1>8 DEF BeginPass
    <2>2. /\ mem'.phase = status.phase /\ mem'.activeJob = status.activeJob
          /\ mem'.observedSpecHash = status.observedSpecHash
          /\ \/ /\ mem'.effectiveChunking = status.effectiveChunking
                /\ mem'.pendingRetune = status.pendingRetune
             \/ mem'.effectiveChunking = None
      BY <1>2, <2>1, DropStaleTuningFields
    <2>3. TrackedName' = TrackedName
      BY <1>2, <2>1, <2>2 DEF TrackedName, SerialInv, ActiveJobKnown
    <2>4. PodsWork' /\ WorkServed' /\ PodUnchanged'
      BY <1>4, <2>1, <2>3
    <2>5. Serves(mem') /\ NotIndexing(mem')
      BY <2>1, <2>2 DEF ServeInv, Serves, NotIndexing
    <2>. QED
      BY <1>1, <2>1, <2>4, <2>5 DEF ServeInv, NoneLeft, Serves, NotIndexing
  \* The active Job goes, and its worker with it.
  <1>9. ASSUME NEW j \in Named(mem.activeJob), DeleteJob(j), UNCHANGED store,
               pc' = "persist", mem'.activeJob = None
        PROVE  PodsWork' /\ WorkServed' /\ PodUnchanged'
    <2>1. jobs' = jobs \ {j} /\ pods' = pods \ PodsOf(j.name)
      BY <1>9 DEF DeleteJob, Fault, NoForgetting
    <2>2. PodsOf(j.name)' = {} /\ TrackedName' = None
      BY <1>9, <2>1 DEF PodsOf, TrackedName
    <2>. QED
      BY <1>4, <1>9, <2>1, <2>2
  <1>10. CASE CancelStaleIngest
    <2>1. PICK j \in Named(mem.activeJob) : ActiveIngestIsStale(j) /\ DeleteJob(j)
      BY <1>10 DEF CancelStaleIngest
    <2>2. /\ pc = "active" /\ pc' = "persist" /\ UNCHANGED <<status, store>>
          /\ mem'.activeJob = None /\ mem'.phase = mem.phase
      BY <1>2, <1>10 DEF CancelStaleIngest, Persist, Statuses
    <2>3. IsIngest(mem.activeJob)
      BY <1>3, <2>1 DEF Named, ActiveIngestIsStale, IsIngest
    <2>. QED
      BY <1>5, <1>9, <2>1, <2>2, <2>3 DEF ServeInv, Serves, NotIndexing, IsEval, IsIngest
  <1>11. CASE ClearTimedOut
    <2>1. PICK j \in Named(mem.activeJob) : DeleteJob(j)
      BY <1>11 DEF ClearTimedOut
    <2>2. /\ pc' = "persist" /\ UNCHANGED <<status, store>>
          /\ mem'.activeJob = None /\ mem'.phase = "Failed"
      BY <1>2, <1>11 DEF ClearTimedOut, Persist, Statuses
    <2>. QED
      BY <1>5, <1>9, <2>1, <2>2 DEF Serves, NotIndexing, IsEval, IsIngest
  <1>12. CASE ForgetMissing
    <2>1. /\ pc = "active" /\ pc' = "persist" /\ UNCHANGED <<status, store, jobs, pods>>
          /\ mem'.activeJob = None /\ mem'.phase = mem.phase
          /\ mem'.pendingRetune = mem.pendingRetune
          /\ mem'.effectiveChunking = mem.effectiveChunking
          /\ mem'.observedSpecHash = mem.observedSpecHash
      BY <1>2, <1>12 DEF ForgetMissing, Persist, Statuses
    <2>2. PodsWork' /\ WorkServed' /\ PodUnchanged'
      BY <1>4, <2>1 DEF TrackedName
    <2>. QED
      BY <1>5, <2>1, <2>2 DEF ServeInv, Serves, NotIndexing, IsEval, IsIngest
  <1>13. CASE AwaitRunning
    <2>1. pc = "active" /\ UNCHANGED <<jobs, pods, store>>
      BY <1>13 DEF AwaitRunning
    <2>2. CASE EndPass
      BY <1>6, <2>1, <2>2
    <2>3. CASE Persist([mem EXCEPT !.deferCronIngest = TRUE], "none", "idle")
      <3>1. /\ pc' = "persist" /\ status' = status
            /\ mem'.activeJob = mem.activeJob /\ mem'.phase = mem.phase
            /\ mem'.pendingRetune = mem.pendingRetune
            /\ mem'.effectiveChunking = mem.effectiveChunking
            /\ mem'.observedSpecHash = mem.observedSpecHash
        BY <1>2, <2>3 DEF Persist, Statuses
      <3>2. PodsWork' /\ WorkServed' /\ PodUnchanged'
        BY <1>4, <2>1, <3>1 DEF TrackedName
      <3>. QED
        BY <1>5, <2>1, <3>1, <3>2 DEF ServeInv, Serves, NotIndexing
    <2>. QED
      BY <1>13, <2>2, <2>3 DEF AwaitRunning
  \* A finished Job has no worker left.
  <1>14. ASSUME NEW j \in jobs, j.state # "running"
         PROVE  PodsOf(j.name) = {}
    BY <1>2, <1>14 DEF ServeInv, SerialInv, PodsWork, PodsOf, UniqueNames
  <1>15. CASE FinalizeFailedIngest
    <2>1. /\ pc = "active" /\ pc' = "persist" /\ UNCHANGED <<status, store, jobs, pods>>
          /\ mem'.activeJob = None /\ mem'.phase = "Failed"
      BY <1>2, <1>15 DEF FinalizeFailedIngest, Persist, Statuses
    <2>2. PodsWork' /\ WorkServed' /\ PodUnchanged'
      BY <1>4, <2>1 DEF TrackedName
    <2>. QED
      BY <1>5, <2>1, <2>2 DEF Serves, NotIndexing, IsEval, IsIngest
  <1>16. CASE FinalizeIngest
    <2>1. PICK j \in jobs :
            /\ Settled(j) /\ j.name.type = "ingest" /\ j.state = "complete"
            /\ j.outcome = "ok"
            /\ Persist([mem EXCEPT !.phase = "Ready", !.activeJob = None, !.oversize = 0,
                                   !.observedSpecHash = j.name.spec,
                                   !.effectiveChunking = j.name.chunking,
                                   !.pendingRetune = FALSE,
                                   !.lastFailedSpecHash = None], "indexed", "cleanup")
      BY <1>16 DEF FinalizeIngest
    <2>2. pc = "active" /\ UNCHANGED <<status, store, jobs, pods>>
      BY <1>16 DEF FinalizeIngest, Persist
    <2>3. /\ pc' = "persist" /\ mem'.activeJob = None
          /\ mem'.observedSpecHash = j.name.spec
          /\ mem'.effectiveChunking = j.name.chunking
      BY <1>2, <2>1 DEF Persist, Statuses
    <2>4. PodsWork' /\ WorkServed' /\ PodUnchanged'
      BY <1>4, <2>2, <2>3 DEF TrackedName
    <2>5. j.name = TrackedName /\ PodsOf(j.name) = {}
      BY <1>14, <2>1, <2>2 DEF Settled, Named, TrackedName
    <2>6. store = Holding(j.name)
      BY <2>1, <2>5 DEF ServeInv, WorkServed
    <2>. QED
      BY <1>5, <2>2, <2>3, <2>4, <2>6 DEF Serves, NotIndexing, IsIngest, Holding
  <1>17. CASE CleanUpIngest
    <2>1. /\ pc = "cleanup" /\ EndPass /\ UNCHANGED <<store, pods>> /\ jobs' \subseteq jobs
      BY <1>17 DEF CleanUpIngest
    <2>2. \A j \in jobs : j.state # "running"
      BY <1>2, <1>3, <2>1 DEF SerialInv, Tracked, TrackedName, ActiveJobKnown
    <2>. QED
      BY <1>6, <1>14, <2>1, <2>2
  <1>18. CASE AwaitResult \/ Rest \/ IngestJobExists \/ EvalJobExists
    BY <1>6, <1>18 DEF AwaitResult, Rest, IngestJobExists, EvalJobExists, MayWork
  <1>19. CASE FinalizeEval
    <2>1. /\ pc = "active" /\ IsEval(mem.activeJob) /\ pc' = "persist"
          /\ UNCHANGED <<status, jobs, pods, store>>
          /\ mem'.activeJob = None
          /\ mem'.observedSpecHash = mem.observedSpecHash
          /\ \/ mem'.pendingRetune /\ mem'.effectiveChunking # None
             \/ /\ mem'.effectiveChunking = mem.effectiveChunking
                /\ mem'.pendingRetune = mem.pendingRetune
      BY <1>2, <1>19, FinalizeEvalFields
    <2>2. PodsWork' /\ WorkServed' /\ PodUnchanged'
      BY <1>4, <2>1 DEF TrackedName
    <2>. QED
      BY <1>5, <2>1, <2>2 DEF ServeInv, Serves, NotIndexing, IsIngest
  \* Deciding work: no Job is running, and so no worker.
  <1>20. ASSUME pc = "decide"
         PROVE  pods = {} /\ mem.activeJob = None
    BY <1>2, <1>3, <1>20
    DEF ServeInv, PodsWork, SerialInv, Tracked, TrackedName, ActiveJobKnown
  <1>21. CASE RefuseOversize
    <2>1. /\ pc = "decide" /\ UNCHANGED <<status, jobs, pods, store>>
          /\ Persist([NextRound EXCEPT !.phase = "Failed", !.oversize = seen.generation],
                     "none", "idle")
      BY <1>21 DEF RefuseOversize, MayWork, Persist
    <2>2. pc' = "persist" /\ mem'.phase = "Failed" /\ mem'.activeJob = mem.activeJob
      BY <1>2, <2>1, NextRoundType DEF NextRound, Persist, Statuses
    <2>3. PodsWork' /\ WorkServed' /\ PodUnchanged'
      BY <1>4, <2>1, <2>2 DEF TrackedName
    <2>. QED
      BY <1>5, <1>20, <2>1, <2>2, <2>3 DEF Serves, NotIndexing, IsIngest, IsEval
  <1>22. CASE CreateIngestJob
    <2>1. /\ pc = "decide" /\ pc' = "record" /\ mem' = NextRound /\ current' = NextIngest
          /\ Named(NextIngest) = {} /\ UNCHANGED <<status, store>>
          /\ jobs' = jobs \union {NewJob(NextIngest)}
          /\ pods' = pods \union {[name |-> NextIngest, mode |-> Mode]}
      BY <1>22 DEF CreateIngestJob, MayWork
    <2>2. NewJob(NextIngest).name = NextIngest /\ NewJob(NextIngest).state = "running"
      BY DEF NewJob
    <2>3. mem'.activeJob = None
      BY <1>2, <1>20, <2>1 DEF NextRound, Statuses
    <2>4. PodsWork'
      BY <1>20, <2>1, <2>2 DEF PodsWork
    <2>5. WorkServed'
      <3>1. TrackedName' = NextIngest
        BY <2>1 DEF TrackedName
      <3>2. /\ [name |-> NextIngest, mode |-> Mode] \in pods'
            /\ [name |-> NextIngest, mode |-> Mode].name = TrackedName'
        BY <2>1, <3>1
      <3>. QED
        BY <3>2 DEF WorkServed, PodsOf
    <2>6. PodUnchanged'
      BY <1>20, <2>1 DEF PodUnchanged, StartsUnchanged, Holding
    <2>. QED
      BY <1>1, <2>1, <2>3, <2>4, <2>5, <2>6
      DEF ServeInv, NoneLeft, NotIndexing, IsIngest
  <1>23. CASE RecordIngest
    <2>1. /\ pc = "record" /\ UNCHANGED <<status, jobs, pods, store>>
          /\ pc' = "persist" /\ mem'.phase = "Ingesting" /\ mem'.activeJob = current
      BY <1>2, <1>23 DEF RecordIngest, Persist, Statuses
    <2>2. current.type = "ingest"
      BY <1>2, <2>1 DEF TypeOK, IngestNames
    <2>3. PodsWork' /\ WorkServed' /\ PodUnchanged'
      BY <1>4, <2>1 DEF TrackedName
    <2>. QED
      BY <1>5, <2>1, <2>2, <2>3 DEF Serves, NotIndexing, IsEval
  <1>24. CASE StartEval
    <2>1. /\ pc = "decide" /\ UNCHANGED <<status, pods, store>>
          /\ jobs' = jobs \union {NewJob(EvalName(NextEvalRound))}
          /\ pc' = "persist"
          /\ mem' = [NextEvalRound EXCEPT !.activeJob = EvalName(NextEvalRound)]
          /\ mem.phase \in {"Ready", "Degraded"}
      BY <1>24 DEF StartEval, MayWork, EvalDue, Persist
    <2>2. /\ mem'.activeJob = EvalName(NextEvalRound) /\ mem'.phase = mem.phase
          /\ mem'.pendingRetune = mem.pendingRetune
          /\ mem'.effectiveChunking = mem.effectiveChunking
          /\ mem'.observedSpecHash = mem.observedSpecHash
      BY <1>2, <2>1, NextEvalRoundType DEF NextEvalRound, Statuses
    <2>3. EvalName(NextEvalRound).type = "eval"
      BY DEF EvalName
    <2>4. PodsWork' /\ PodUnchanged'
      BY <1>20, <2>1 DEF PodsWork, PodUnchanged
    <2>5. WorkServed'
      BY <2>1, <2>2, <2>3 DEF WorkServed, TrackedName
    <2>. QED
      BY <1>5, <2>1, <2>2, <2>3, <2>4, <2>5 DEF ServeInv, Serves, NotIndexing, IsIngest
  <1>25. CASE StatusUpdate
    <2>1. /\ pc = "persist" /\ status' = mem /\ mem' = mem /\ pc' = next
          /\ UNCHANGED <<store, jobs, pods>>
          /\ next \in {"idle", "decide", "cleanup"}
      BY <1>2, <1>25 DEF StatusUpdate, TypeOK
    <2>2. PodsWork' /\ WorkServed' /\ PodUnchanged'
      BY <1>4, <2>1 DEF TrackedName
    <2>. QED
      BY <1>1, <1>2, <2>1, <2>2
      DEF ServeInv, NoneLeft, SerialInv, ActiveJobKnown, Serves, NotIndexing
  <1>26. CASE IngestOverQuota \/ RunOverQuota \/ EvalOverQuota \/ PassFails
    BY <1>26
    DEF IngestOverQuota, RunOverQuota, EvalOverQuota, PassFails, Fault, NoForgetting
  <1>27. CASE Worker \/ Cluster \/ ExpireJob \/ CooldownElapses \/ User \/ Time
    <2>1. UNCHANGED <<status, pc, mem, seen, current, stamp, next>>
      BY <1>27, OthersKeepPass
    <2>2. /\ PodsWork' /\ WorkServed' /\ PodUnchanged'
          /\ store' = store \/ pods # {}
      BY <1>27, OthersServe
    <2>3. NoneLeft' /\ NotIndexing(status') /\ NotIndexing(mem')
      BY <2>1 DEF ServeInv, NoneLeft, NotIndexing
    <2>4. CASE store' = store
      <3>1. /\ pc' \notin {"record", "persist"} => Serves(status)'
            /\ pc' # "record" => Serves(mem)'
        BY <2>1, <2>4 DEF ServeInv, Serves
      <3>. QED
        BY <1>1, <2>2, <2>3, <3>1 DEF ServeInv, Serves, NotIndexing
    <2>5. CASE pods # {}
      <3>1. PICK p \in pods : TRUE
        BY <2>5
      <3>2. /\ p.name.type = "ingest"
            /\ pc # "record" => mem.activeJob = p.name /\ mem.phase \notin {"Ready", "Degraded"}
            /\ pc \notin {"record", "persist"} =>
                 status.activeJob = p.name /\ status.phase \notin {"Ready", "Degraded"}
        BY <3>1, WorkerTracked DEF IngestNames
      <3>3. /\ pc' \notin {"record", "persist"} => Serves(status)'
            /\ pc' # "record" => Serves(mem)'
        BY <2>1, <3>2 DEF Serves, IsEval
      <3>. QED
        BY <1>1, <2>2, <2>3, <3>3 DEF ServeInv, Serves, NotIndexing
    <2>. QED
      BY <2>2, <2>4, <2>5
  <1>28. CASE UNCHANGED vars
    <2>1. PodsWork' /\ WorkServed' /\ PodUnchanged'
      BY <1>4, <1>28 DEF vars, passVars, TrackedName
    <2>. QED
      BY <1>1, <1>28, <2>1 DEF vars, passVars, ServeInv, NoneLeft, Serves, NotIndexing
  <1>. QED
    BY <1>7, <1>8, <1>10, <1>11, <1>12, <1>13, <1>15, <1>16, <1>17, <1>18, <1>19, <1>21,
       <1>22, <1>23, <1>24, <1>25, <1>26, <1>27, <1>28
    DEF Next, Reconcile, Refused, ActiveJobStep, DecideStep

\* Only startIngest brings a worker.
LEMMA NewPodIsNext ==
  ASSUME [Next]_vars, NEW p \in pods' \ pods
  PROVE  CreateIngestJob /\ p = [name |-> NextIngest, mode |-> Mode]
  <1>1. ~(pods' \subseteq pods)
    OBVIOUS
  <1>2. CreateIngestJob
    BY <1>1
    DEF Next, Reconcile, Refused, ActiveJobStep, DecideStep, Worker, User, Time, Cluster,
        FinalizeEval, BlockedOnIdentity, ReflectSuspend, BeginPass, CancelStaleIngest,
        ClearTimedOut, DeleteJob, ForgetMissing, AwaitRunning, FinalizeFailedIngest,
        FinalizeIngest, CleanUpIngest, AwaitResult, FinalizeFailedEval, NoDataset,
        RecallMet, ApplyAutoTune, SettleOnBest, Degrade, Rest, RefuseOversize,
        IngestOverQuota, IngestJobExists, RecordIngest, RunOverQuota, EvalOverQuota,
        EvalJobExists, StartEval, StatusUpdate, PassFails, EditSpec, RotateSecret,
        ToggleSuspend, FreshnessTick, TickExpires, EvalTick, CooldownElapses,
        PromoteShadow, SkipUnchanged, LingeringPodDies, FinishIngest, FinishEval,
        LoseResult, FailJob, JobOverdue, ExpireJob, ExpireUnseenJob, vars
  <1>. QED
    BY <1>2 DEF CreateIngestJob

LEMMA ServeIsServed == ServeInv => ServedAsRecorded
  BY DEF ServeInv, Serves, ServedAsRecorded

\* A KnowledgeBase that reports Ready or Degraded serves the spec and the chunking
\* its status records, if incremental workers only ever start on unchanged content:
\* the one place where the record can part from the collection is the Mode that
\* startIngest gives a worker.
THEOREM ServedIfUnchanged ==
  ASSUME NoForgetting, ~PodsLinger
  PROVE  Spec /\ IncrementalOnlyWhenUnchanged => []ServedAsRecorded
  <1>. DEFINE Starts ==
         \A p \in pods' \ pods :
           (p.mode = "incremental" /\ store # None) =>
             store = [spec |-> p.name.spec, chunking |-> p.name.chunking]
  <1>1. [Starts]_vars => StartsUnchanged
    BY DEF StartsUnchanged, Holding, vars
  <1>2. Init => ServeInv
    BY ServeInit
  <1>3. ServeInv /\ [Starts]_vars /\ [Next]_vars => ServeInv'
    BY <1>1, ServeNext
  <1>4. ServeInv => ServedAsRecorded
    BY ServeIsServed
  <1>. QED
    BY <1>2, <1>3, <1>4, PTL DEF Spec, IncrementalOnlyWhenUnchanged

\* In mode full, what is served is what is recorded, whatever the user edits and
\* the cluster fails.
THEOREM ServedInModeFull ==
  ASSUME NoForgetting, ~PodsLinger, IngestMode = "full"
  PROVE  Spec => []ServedAsRecorded
  <1>1. [Next]_vars => StartsUnchanged
    <2>. SUFFICES ASSUME [Next]_vars, NEW p \in pods' \ pods, p.mode = "incremental"
                  PROVE  FALSE
      BY DEF StartsUnchanged
    <2>. QED
      BY NewPodIsNext DEF Mode
  <1>2. Init => ServeInv
    BY ServeInit
  <1>3. ServeInv /\ [Next]_vars => ServeInv'
    BY <1>1, ServeNext
  <1>4. ServeInv => ServedAsRecorded
    BY ServeIsServed
  <1>. QED
    BY <1>2, <1>3, <1>4, PTL DEF Spec

-----------------------------------------------------------------------------
(* When incremental workers start on unchanged content.                    *)

\* A pass creates a Job for a deferred fire of the schedule although the spec has
\* changed too, or a re-index is owed: startIngest then sees the deferral only.
DeferralHidesChange ==
  /\ pc = "decide" /\ mem.deferCronIngest
  /\ mem.observedSpecHash # seen.spec \/ mem.pendingRetune

\* An indexed spec keeps its chunking until it is edited.
Untuned(older, st, spec) ==
  /\ (st.observedSpecHash # None /\ st.effectiveChunking = None)
       => <<st.observedSpecHash, spec>> \in older
  /\ (st.effectiveChunking # None \/ IsEval(st.activeJob)) => st.observedSpecHash # None

Kept(st) == st.effectiveChunking # None /\ ~st.pendingRetune

\* What is served is what is recorded, or content of a later spec.
MovedOn(older, st) ==
  Kept(st) => \/ store = None
              \/ store = [spec |-> st.observedSpecHash, chunking |-> st.effectiveChunking]
              \/ <<st.observedSpecHash, store.spec>> \in older

\* The Job in flight indexes what is recorded, or a later spec.
MayMoveOn(older, st) ==
  (Kept(st) /\ IsIngest(TrackedName)) =>
    \/ /\ TrackedName.spec = st.observedSpecHash
       /\ TrackedName.chunking = st.effectiveChunking
    \/ <<st.observedSpecHash, TrackedName.spec>> \in older

MoveInv(older) ==
  /\ ServeInv /\ ForwardInv(older)
  /\ Untuned(older, status, kb.spec)
  /\ pc # "idle" => Untuned(older, mem, seen.spec)
  /\ MovedOn(older, mem) /\ MayMoveOn(older, mem)
  /\ pc \notin {"record", "persist"} =>
       MovedOn(older, status) /\ MayMoveOn(older, status)

LEMMA MoveInit ==
  ASSUME NEW older
  PROVE  Init => MoveInv(older)
  <1>. SUFFICES ASSUME Init PROVE MoveInv(older)
    OBVIOUS
  <1>1. ServeInv /\ ForwardInv(older)
    BY ServeInit, ForwardInit
  <1>2. /\ pc = "idle" /\ mem = status
        /\ status.observedSpecHash = None /\ status.effectiveChunking = None
        /\ status.activeJob = None
    BY DEF Init, InitialStatus
  <1>. QED
    BY <1>1, <1>2 DEF MoveInv, Untuned, MovedOn, MayMoveOn, Kept, IsEval

\* An incremental worker is started for the schedule alone: the spec is the one
\* that is recorded, and content of a later one cannot be there yet.
LEMMA MoveStarts ==
  ASSUME NEW older \in SUBSET (Specs \X Specs), Order(older)
  PROVE  MoveInv(older) /\ ~DeferralHidesChange /\ [Next]_vars => StartsUnchanged
  <1>. SUFFICES ASSUME MoveInv(older), ~DeferralHidesChange, [Next]_vars,
                       NEW p \in pods' \ pods, p.mode = "incremental", store # None
                PROVE  store = Holding(p.name)
    BY DEF StartsUnchanged
  <1>1. CreateIngestJob /\ p = [name |-> NextIngest, mode |-> Mode]
    BY NewPodIsNext
  <1>2. pc = "decide" /\ NeedsIngest \in {"freshness", "deferred"}
    BY <1>1 DEF CreateIngestJob, MayWork, Mode
  <1>3. seen.spec \in Specs /\ seen.spec # None
    BY <1>2, SpecAssumption DEF MoveInv, ForwardInv, TypeOK, KnowledgeBases
  <1>4. mem.observedSpecHash = seen.spec /\ ~mem.pendingRetune
    <2>1. mem.pendingRetune \in BOOLEAN
      BY DEF MoveInv, ForwardInv, TypeOK, Statuses
    <2>2. CASE mem.deferCronIngest
      BY <1>2, <2>2 DEF DeferralHidesChange
    <2>3. CASE ~mem.deferCronIngest
      BY <1>2, <2>1, <2>3 DEF NeedsIngest
    <2>. QED
      BY <2>2, <2>3
  <1>5. <<seen.spec, seen.spec>> \notin older
    BY <1>3 DEF Order
  <1>6. mem.effectiveChunking # None
    BY <1>2, <1>3, <1>4, <1>5 DEF MoveInv, Untuned
  <1>7. Reaches(older, store.spec, seen.spec)
    BY <1>2 DEF MoveInv, ForwardInv, WorkBehind
  <1>8. <<seen.spec, store.spec>> \notin older
    BY <1>5, <1>7, ReachesOn
  <1>9. store = [spec |-> seen.spec, chunking |-> mem.effectiveChunking]
    BY <1>4, <1>6, <1>8 DEF MoveInv, MovedOn, Kept
  <1>. QED
    BY <1>1, <1>6, <1>9 DEF NextIngest, IngestName, Effective, Holding

\* What is served and what is being indexed only ever moves ahead of the record,
\* along the edits.
LEMMA MoveNext ==
  ASSUME NEW older \in SUBSET (Specs \X Specs), Order(older), NoForgetting, ~PodsLinger
  PROVE  MoveInv(older) /\ ~DeferralHidesChange /\ [Next]_vars => MoveInv(older)'
  <1>. SUFFICES ASSUME MoveInv(older), ~DeferralHidesChange, [Next]_vars
                PROVE  MoveInv(older)'
    OBVIOUS
  <1>1. ServeInv' /\ ForwardInv(older)' /\ TypeOK'
    BY MoveStarts, ServeNext, ForwardNext DEF MoveInv, ForwardInv
  <1>2. /\ ServeInv /\ SerialInv /\ TypeOK /\ ForwardInv(older)
        /\ status \in Statuses /\ mem \in Statuses /\ mem' \in Statuses
    BY <1>1 DEF MoveInv, ServeInv, SerialInv, TypeOK
  \* What is served stays, and so does the Job in flight, or it goes.
  <1>3. ASSUME NEW st, MovedOn(older, st), MayMoveOn(older, st),
               UNCHANGED store, TrackedName' \in {TrackedName, None},
               \/ /\ mem'.effectiveChunking = st.effectiveChunking
                  /\ mem'.pendingRetune = st.pendingRetune
                  /\ mem'.observedSpecHash = st.observedSpecHash
               \/ ~Kept(mem')
        PROVE  MovedOn(older, mem)' /\ MayMoveOn(older, mem)'
    BY <1>3 DEF MovedOn, MayMoveOn, Kept, IsIngest
  \* The pass goes on, or persists, with an edited copy.
  <1>4. ASSUME pc' \in {"record", "persist"}, UNCHANGED <<kb, status>>,
               Untuned(older, mem', seen'.spec),
               MovedOn(older, mem)', MayMoveOn(older, mem)'
        PROVE  MoveInv(older)'
    BY <1>1, <1>4 DEF MoveInv, Untuned, MovedOn, MayMoveOn
  <1>5. ASSUME EndPass, pc \notin {"record", "persist"}, UNCHANGED <<kb, store>>
        PROVE  MoveInv(older)'
    <2>1. pc' = "idle" /\ mem' = status /\ status' = status
      BY <1>5 DEF EndPass
    <2>2. TrackedName' = TrackedName
      BY <1>2, <1>5, <2>1
      DEF TrackedName, SerialInv, ActiveJobKnown, ServeInv, NoneLeft, TypeOK
    <2>3. MovedOn(older, status) /\ MayMoveOn(older, status)
      BY <1>5 DEF MoveInv
    <2>4. MovedOn(older, mem)' /\ MayMoveOn(older, mem)'
      BY <1>3, <1>5, <2>1, <2>2, <2>3
    <2>. QED
      BY <1>1, <1>5, <2>1, <2>4 DEF MoveInv, Untuned, MovedOn, MayMoveOn
  \* A pass that persists what it has, but for its Job and other parts.
  <1>6. ASSUME pc \notin {"idle", "record", "persist"}, pc' = "persist",
               UNCHANGED <<kb, status, store, seen>>,
               mem'.activeJob \in {mem.activeJob, None},
               mem'.effectiveChunking = mem.effectiveChunking,
               mem'.pendingRetune = mem.pendingRetune,
               mem'.observedSpecHash = mem.observedSpecHash
        PROVE  MoveInv(older)'
    <2>1. TrackedName' \in {TrackedName, None}
      BY <1>6 DEF TrackedName
    <2>2. MovedOn(older, mem)' /\ MayMoveOn(older, mem)'
      BY <1>3, <1>6, <2>1 DEF MoveInv
    <2>3. Untuned(older, mem', seen'.spec)
      BY <1>6 DEF MoveInv, Untuned, IsEval
    <2>. QED
      BY <1>4, <1>6, <2>2, <2>3
  <1>7. CASE BlockedOnIdentity \/ ReflectSuspend
    <2>1. /\ pc = "idle" /\ pc' = "persist" /\ UNCHANGED <<kb, status, store>>
          /\ seen' = kb
          /\ mem'.activeJob = status.activeJob
          /\ mem'.pendingRetune = status.pendingRetune
          /\ mem'.effectiveChunking = status.effectiveChunking
          /\ mem'.observedSpecHash = status.observedSpecHash
      BY <1>2, <1>7 DEF BlockedOnIdentity, ReflectSuspend, Persist, Statuses
    <2>2. TrackedName' = TrackedName
      BY <1>2, <2>1 DEF TrackedName, SerialInv, ActiveJobKnown
    <2>3. MovedOn(older, status) /\ MayMoveOn(older, status)
      BY <2>1 DEF MoveInv
    <2>4. MovedOn(older, mem)' /\ MayMoveOn(older, mem)'
      BY <1>3, <2>1, <2>2, <2>3
    <2>5. Untuned(older, mem', seen'.spec)
      BY <2>1 DEF MoveInv, Untuned
    <2>. QED
      BY <1>4, <2>1, <2>4, <2>5
  <1>8. CASE BeginPass
    <2>1. /\ pc = "idle" /\ UNCHANGED <<kb, status, store>> /\ seen' = kb
          /\ pc' \in {"decide", "active"}
          /\ mem' = DropStaleTuning(status, kb.spec)
      BY <1>8 DEF BeginPass
    <2>2. /\ mem'.activeJob = status.activeJob
          /\ mem'.observedSpecHash = status.observedSpecHash
          /\ \/ /\ mem'.effectiveChunking = status.effectiveChunking
                /\ mem'.pendingRetune = status.pendingRetune
             \/ /\ mem'.effectiveChunking = None
                /\ status.observedSpecHash # None /\ status.observedSpecHash # kb.spec
      BY <1>2, <2>1, DropStaleTuningFields
    <2>3. TrackedName' = TrackedName
      BY <1>2, <2>1, <2>2 DEF TrackedName, SerialInv, ActiveJobKnown
    <2>4. MovedOn(older, status) /\ MayMoveOn(older, status)
      BY <2>1 DEF MoveInv
    <2>5. MovedOn(older, mem)' /\ MayMoveOn(older, mem)'
      BY <1>3, <2>1, <2>2, <2>3, <2>4 DEF Kept
    <2>6. Untuned(older, mem', kb.spec)
      BY <2>2 DEF MoveInv, Untuned, ForwardInv, StatusBehind, Reaches
    <2>7. MovedOn(older, status)' /\ MayMoveOn(older, status)'
      BY <2>1, <2>3, <2>4 DEF MovedOn, MayMoveOn
    <2>8. Untuned(older, status, kb.spec)
      BY DEF MoveInv
    <2>. QED
      BY <1>1, <2>1, <2>5, <2>6, <2>7, <2>8 DEF MoveInv, Untuned, MovedOn, MayMoveOn
  <1>9. CASE \/ CancelStaleIngest \/ ClearTimedOut \/ ForgetMissing
             \/ FinalizeFailedIngest
    <2>1. /\ pc = "active" /\ pc' = "persist" /\ UNCHANGED <<kb, status, store, seen>>
          /\ mem'.activeJob = None
          /\ mem'.effectiveChunking = mem.effectiveChunking
          /\ mem'.pendingRetune = mem.pendingRetune
          /\ mem'.observedSpecHash = mem.observedSpecHash
      BY <1>2, <1>9
      DEF CancelStaleIngest, ClearTimedOut, ForgetMissing, FinalizeFailedIngest, Persist,
          Statuses
    <2>. QED
      BY <1>6, <2>1
  <1>10. CASE AwaitRunning
    <2>1. pc = "active" /\ UNCHANGED <<kb, status, store>>
      BY <1>10 DEF AwaitRunning, Persist, EndPass
    <2>2. CASE EndPass
      BY <1>5, <2>1, <2>2
    <2>3. CASE /\ Persist([mem EXCEPT !.deferCronIngest = TRUE], "none", "idle")
               /\ UNCHANGED seen
      <3>1. /\ pc' = "persist"
            /\ mem'.activeJob = mem.activeJob
            /\ mem'.effectiveChunking = mem.effectiveChunking
            /\ mem'.pendingRetune = mem.pendingRetune
            /\ mem'.observedSpecHash = mem.observedSpecHash
        BY <1>2, <2>3 DEF Persist, Statuses
      <3>. QED
        BY <1>6, <2>1, <2>3, <3>1
    <2>. QED
      BY <1>10, <2>2, <2>3 DEF AwaitRunning
  \* An ingestion that is finalized has left what is now recorded.
  <1>11. CASE FinalizeIngest
    <2>1. PICK j \in jobs :
            /\ j.name.type = "ingest"
            /\ Persist([mem EXCEPT !.phase = "Ready", !.activeJob = None, !.oversize = 0,
                                   !.observedSpecHash = j.name.spec,
                                   !.effectiveChunking = j.name.chunking,
                                   !.pendingRetune = FALSE,
                                   !.lastFailedSpecHash = None], "indexed", "cleanup")
      BY <1>11 DEF FinalizeIngest
    <2>2. UNCHANGED <<kb, status, store>>
      BY <1>11 DEF FinalizeIngest, Persist
    <2>3. /\ pc' = "persist" /\ mem'.activeJob = None /\ mem'.phase = "Ready"
          /\ mem'.observedSpecHash = j.name.spec
          /\ mem'.effectiveChunking = j.name.chunking /\ ~mem'.pendingRetune
      BY <1>2, <2>1 DEF Persist, Statuses
    <2>4. j.name.spec # None /\ j.name.chunking # None
      <3>1. j.name \in IngestNames
        BY <1>2, <2>1 DEF TypeOK, Jobs, Names, EvalNames
      <3>. QED
        BY <3>1, SpecAssumption, ChunkingAssumption DEF IngestNames
    <2>5. MovedOn(older, mem)' /\ MayMoveOn(older, mem)'
      BY <1>1, <2>3, <2>4
      DEF ServeInv, Serves, MovedOn, MayMoveOn, TrackedName, IsIngest
    <2>. QED
      BY <1>4, <2>2, <2>3, <2>4, <2>5 DEF Untuned
  <1>12. CASE FinalizeEval
    <2>1. /\ pc = "active" /\ IsEval(mem.activeJob) /\ pc' = "persist"
          /\ UNCHANGED <<kb, status, store, seen>>
          /\ mem'.activeJob = None
          /\ mem'.observedSpecHash = mem.observedSpecHash
          /\ \/ mem'.pendingRetune /\ mem'.effectiveChunking # None
             \/ /\ mem'.effectiveChunking = mem.effectiveChunking
                /\ mem'.pendingRetune = mem.pendingRetune
      BY <1>2, <1>12, FinalizeEvalFields
    <2>2. TrackedName' = None
      BY <2>1 DEF TrackedName
    <2>3. MovedOn(older, mem)' /\ MayMoveOn(older, mem)'
      BY <1>3, <2>1, <2>2 DEF MoveInv, Kept
    <2>4. Untuned(older, mem', seen'.spec)
      BY <2>1 DEF MoveInv, Untuned, IsEval
    <2>. QED
      BY <1>4, <2>1, <2>3, <2>4
  <1>13. CASE CleanUpIngest \/ AwaitResult \/ Rest \/ IngestJobExists \/ EvalJobExists
    <2>1. EndPass /\ pc \notin {"record", "persist"} /\ UNCHANGED <<kb, store>>
      BY <1>13
      DEF CleanUpIngest, AwaitResult, Rest, IngestJobExists, EvalJobExists, MayWork
    <2>. QED
      BY <1>5, <2>1
  <1>14. /\ NextRound \in Statuses /\ NextRound.activeJob = mem.activeJob
         /\ NextRound.effectiveChunking = mem.effectiveChunking
         /\ NextRound.pendingRetune = mem.pendingRetune
         /\ NextRound.observedSpecHash = mem.observedSpecHash
    BY <1>2, NextRoundType DEF NextRound, Statuses
  <1>15. CASE RefuseOversize
    <2>1. /\ pc = "decide" /\ UNCHANGED <<kb, status, store, seen>>
          /\ Persist([NextRound EXCEPT !.phase = "Failed", !.oversize = seen.generation],
                     "none", "idle")
      BY <1>15 DEF RefuseOversize, MayWork, Persist
    <2>2. /\ pc' = "persist" /\ mem'.activeJob = mem.activeJob
          /\ mem'.effectiveChunking = mem.effectiveChunking
          /\ mem'.pendingRetune = mem.pendingRetune
          /\ mem'.observedSpecHash = mem.observedSpecHash
      BY <1>14, <2>1 DEF Persist, Statuses
    <2>. QED
      BY <1>6, <2>1, <2>2
  \* The next Job indexes the pass's spec, which is the recorded one or a later one.
  <1>16. CASE CreateIngestJob
    <2>1. /\ pc = "decide" /\ pc' = "record" /\ mem' = NextRound /\ current' = NextIngest
          /\ UNCHANGED <<kb, status, store, seen>>
      BY <1>16 DEF CreateIngestJob, MayWork
    <2>2. /\ Untuned(older, mem, seen.spec) /\ MovedOn(older, mem)
          /\ StatusBehind(older, mem, seen.spec)
      BY <1>2, <2>1 DEF MoveInv, ForwardInv
    <2>3. MovedOn(older, mem)'
      BY <1>14, <2>1, <2>2 DEF MovedOn, Kept
    <2>4. Untuned(older, mem', seen'.spec)
      BY <1>14, <2>1, <2>2 DEF Untuned
    <2>5. TrackedName' = NextIngest
      BY <2>1 DEF TrackedName
    <2>6. ASSUME Kept(mem)
          PROVE  \/ /\ NextIngest.spec = mem.observedSpecHash
                    /\ NextIngest.chunking = mem.effectiveChunking
                 \/ <<mem.observedSpecHash, NextIngest.spec>> \in older
      BY <2>2, <2>6
      DEF Kept, Untuned, StatusBehind, Reaches, NextIngest, IngestName, Effective
    <2>7. MayMoveOn(older, mem)'
      BY <1>14, <2>1, <2>5, <2>6 DEF MayMoveOn, Kept
    <2>. QED
      BY <1>4, <2>1, <2>3, <2>4, <2>7
  <1>17. CASE RecordIngest
    <2>1. /\ pc = "record" /\ pc' = "persist" /\ UNCHANGED <<kb, status, store, seen>>
          /\ mem'.activeJob = current
          /\ mem'.effectiveChunking = mem.effectiveChunking
          /\ mem'.pendingRetune = mem.pendingRetune
          /\ mem'.observedSpecHash = mem.observedSpecHash
      BY <1>2, <1>17 DEF RecordIngest, Persist, Statuses
    <2>2. TrackedName' = TrackedName /\ ~IsEval(current)
      BY <1>2, <2>1 DEF TrackedName, TypeOK, IngestNames, IsEval
    <2>3. MovedOn(older, mem)' /\ MayMoveOn(older, mem)'
      BY <1>3, <2>1, <2>2 DEF MoveInv
    <2>4. Untuned(older, mem', seen'.spec)
      BY <2>1, <2>2 DEF MoveInv, Untuned
    <2>. QED
      BY <1>4, <2>1, <2>3, <2>4
  <1>18. CASE StartEval
    <2>1. /\ pc = "decide" /\ pc' = "persist" /\ UNCHANGED <<kb, status, store, seen>>
          /\ mem' = [NextEvalRound EXCEPT !.activeJob = EvalName(NextEvalRound)]
          /\ mem.observedSpecHash # None
      BY <1>2, <1>18 DEF StartEval, MayWork, Persist, NeedsIngest, Statuses
    <2>2. /\ mem'.activeJob = EvalName(NextEvalRound)
          /\ mem'.effectiveChunking = mem.effectiveChunking
          /\ mem'.pendingRetune = mem.pendingRetune
          /\ mem'.observedSpecHash = mem.observedSpecHash
      BY <1>2, <2>1, NextEvalRoundType DEF NextEvalRound, Statuses
    <2>3. MovedOn(older, mem)'
      BY <2>1, <2>2 DEF MoveInv, MovedOn, Kept
    <2>4. MayMoveOn(older, mem)'
      BY <2>1, <2>2 DEF MayMoveOn, TrackedName, IsIngest, EvalName
    <2>5. Untuned(older, mem', seen'.spec)
      BY <2>1, <2>2 DEF MoveInv, Untuned
    <2>. QED
      BY <1>4, <2>1, <2>3, <2>4, <2>5
  <1>19. CASE StatusUpdate
    <2>1. /\ pc = "persist" /\ status' = mem /\ mem' = mem /\ pc' = next
          /\ UNCHANGED <<kb, store>> /\ next \in {"idle", "decide", "cleanup"}
          /\ next # "idle" => seen' = seen
      BY <1>2, <1>19 DEF StatusUpdate, TypeOK
    <2>2. TrackedName' = TrackedName
      BY <2>1 DEF TrackedName
    <2>3. /\ Untuned(older, mem, seen.spec) /\ Reaches(older, seen.spec, kb.spec)
          /\ MovedOn(older, mem) /\ MayMoveOn(older, mem)
      BY <2>1 DEF MoveInv, ForwardInv
    <2>4. Untuned(older, mem, kb.spec)
      BY <2>3, ReachesOn DEF Untuned
    <2>5. /\ MovedOn(older, mem)' /\ MayMoveOn(older, mem)'
          /\ MovedOn(older, status)' /\ MayMoveOn(older, status)'
      BY <2>1, <2>2, <2>3 DEF MovedOn, MayMoveOn
    <2>. QED
      BY <1>1, <2>1, <2>3, <2>4, <2>5 DEF MoveInv, Untuned, MovedOn, MayMoveOn
  <1>20. CASE IngestOverQuota \/ RunOverQuota \/ EvalOverQuota \/ PassFails
    BY <1>20
    DEF IngestOverQuota, RunOverQuota, EvalOverQuota, PassFails, Fault, NoForgetting
  \* Users, time, Jobs and workers: a worker that is done moves what is served to
  \* what its Job was to index.
  <1>21. ASSUME UNCHANGED <<status, pc, mem, seen, current>>,
                kb'.spec = kb.spec \/ <<kb.spec, kb'.spec>> \in older,
                \/ store' = store
                \/ IsIngest(TrackedName) /\ store' = Holding(TrackedName)
         PROVE  MoveInv(older)'
    <2>1. TrackedName' = TrackedName
      BY <1>21 DEF TrackedName
    <2>2. Untuned(older, status, kb'.spec)
      BY <1>21, ReachesOn DEF MoveInv, Untuned, Reaches
    <2>3. ASSUME NEW st, MovedOn(older, st), MayMoveOn(older, st)
          PROVE  Kept(st) =>
                   \/ store' = None
                   \/ store' = [spec |-> st.observedSpecHash,
                                chunking |-> st.effectiveChunking]
                   \/ <<st.observedSpecHash, store'.spec>> \in older
      BY <1>21, <2>3 DEF MovedOn, MayMoveOn, Holding
    <2>4. MovedOn(older, mem)' /\ MayMoveOn(older, mem)'
      BY <1>21, <2>1, <2>3 DEF MoveInv, MovedOn, MayMoveOn
    <2>5. pc \notin {"record", "persist"} =>
            MovedOn(older, status)' /\ MayMoveOn(older, status)'
      BY <1>21, <2>1, <2>3 DEF MoveInv, MovedOn, MayMoveOn
    <2>. QED
      BY <1>1, <1>21, <2>2, <2>4, <2>5 DEF MoveInv, Untuned, MovedOn, MayMoveOn
  <1>22. CASE \/ Worker \/ Cluster \/ ExpireJob \/ CooldownElapses \/ User \/ Time
    <2>1. UNCHANGED <<status, pc, mem, seen, current, stamp, next>>
      BY <1>22, OthersKeepPass
    <2>2. kb'.spec = kb.spec \/ <<kb.spec, kb'.spec>> \in older
      <3>1. kb \in KnowledgeBases
        BY <1>2 DEF TypeOK
      <3>2. CASE EditSpec
        <4>1. PICK s \in Specs : /\ <<kb.spec, s>> \in Edits
                                 /\ kb' = [kb EXCEPT !.spec = s, !.generation = @ + 1]
          BY <3>2 DEF EditSpec
        <4>. QED
          BY <3>1, <4>1 DEF KnowledgeBases, Order
      <3>3. CASE RotateSecret \/ ToggleSuspend
        BY <3>1, <3>3 DEF RotateSecret, ToggleSuspend, KnowledgeBases
      <3>4. CASE ~(EditSpec \/ RotateSecret \/ ToggleSuspend)
        BY <1>22, <3>4
        DEF Worker, Cluster, ExpireJob, CooldownElapses, User, Time, PromoteShadow,
            SkipUnchanged, LingeringPodDies, FinishIngest, FinishEval, LoseResult,
            FailJob, JobOverdue, ExpireUnseenJob, FreshnessTick, TickExpires, EvalTick
      <3>. QED
        BY <3>2, <3>3, <3>4
    <2>3. CASE PromoteShadow
      <3>1. PICK p \in pods : store' = Holding(p.name)
        BY <2>3 DEF PromoteShadow, Holding
      <3>2. p.name = TrackedName /\ IsIngest(TrackedName)
        BY <1>2, WorkerTracked, NameAssumption DEF IsIngest, Names, IngestNames
      <3>. QED
        BY <1>21, <2>1, <2>2, <3>1, <3>2
    <2>4. CASE ~PromoteShadow
      <3>1. store' = store
        BY <1>22, <2>4
        DEF Worker, Cluster, ExpireJob, CooldownElapses, User, Time,
            SkipUnchanged, LingeringPodDies, FinishIngest, FinishEval, LoseResult, FailJob,
            JobOverdue, ExpireUnseenJob, EditSpec, RotateSecret, ToggleSuspend,
            FreshnessTick, TickExpires, EvalTick
      <3>. QED
        BY <1>21, <2>1, <2>2, <3>1
    <2>. QED
      BY <2>3, <2>4
  <1>23. CASE UNCHANGED vars
    BY <1>21, <1>23 DEF vars, passVars
  <1>. QED
    BY <1>7, <1>8, <1>9, <1>10, <1>11, <1>12, <1>13, <1>15, <1>16, <1>17, <1>18, <1>19,
       <1>20, <1>22, <1>23
    DEF Next, Reconcile, Refused, ActiveJobStep, DecideStep

\* Under edits that lead forward, an incremental worker is only started on content
\* that its spec and chunking left (any change of either forces mode full in
\* startIngest), unless a deferred fire of the schedule hides the change.
THEOREM UnchangedUnlessHidden ==
  ASSUME NeverBack, NoForgetting, ~PodsLinger
  PROVE  Spec /\ []~DeferralHidesChange => IncrementalOnlyWhenUnchanged
  <1>. DEFINE Starts ==
         \A p \in pods' \ pods :
           (p.mode = "incremental" /\ store # None) =>
             store = [spec |-> p.name.spec, chunking |-> p.name.chunking]
  <1>1. PICK older \in SUBSET (Specs \X Specs) : Order(older)
    BY DEF NeverBack
  <1>2. Init => MoveInv(older)
    BY MoveInit
  <1>3. MoveInv(older) /\ ~DeferralHidesChange /\ [Next]_vars => MoveInv(older)'
    BY <1>1, MoveNext
  <1>4. MoveInv(older) /\ ~DeferralHidesChange /\ [Next]_vars => [Starts]_vars
    BY <1>1, MoveStarts DEF StartsUnchanged, Holding
  <1>. QED
    BY <1>2, <1>3, <1>4, PTL DEF Spec, IncrementalOnlyWhenUnchanged

\* And then what is served is what is recorded.
THEOREM ServedUnlessHidden ==
  ASSUME NeverBack, NoForgetting, ~PodsLinger
  PROVE  Spec /\ []~DeferralHidesChange => []ServedAsRecorded
  <1>1. Spec /\ []~DeferralHidesChange => IncrementalOnlyWhenUnchanged
    BY UnchangedUnlessHidden
  <1>2. Spec /\ IncrementalOnlyWhenUnchanged => []ServedAsRecorded
    BY ServedIfUnchanged
  <1>. QED
    BY <1>1, <1>2, PTL

\* In particular without a freshness schedule, where nothing is deferred.
THEOREM ServedUnscheduled ==
  ASSUME NeverBack, NoForgetting, ~PodsLinger, NoSchedule
  PROVE  Spec => []ServedAsRecorded /\ IncrementalOnlyWhenUnchanged
  <1>1. Init => NothingDeferred
    <2>. SUFFICES ASSUME Init PROVE NothingDeferred
      OBVIOUS
    <2>1. TypeOK
      BY TypeInit
    <2>. QED
      BY <2>1 DEF Init, InitialStatus, NothingDeferred
  <1>2. NothingDeferred /\ [Next]_vars => NothingDeferred'
    BY ScheduleNext
  <1>3. NothingDeferred => ~DeferralHidesChange
    BY DEF NothingDeferred, DeferralHidesChange
  <1>4. Spec => []~DeferralHidesChange
    BY <1>1, <1>2, <1>3, PTL DEF Spec
  <1>5. Spec /\ []~DeferralHidesChange => []ServedAsRecorded
    BY ServedUnlessHidden
  <1>6. Spec /\ []~DeferralHidesChange => IncrementalOnlyWhenUnchanged
    BY UnchangedUnlessHidden
  <1>. QED
    BY <1>4, <1>5, <1>6, PTL

=============================================================================
