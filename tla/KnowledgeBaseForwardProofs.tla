--------------------- MODULE KnowledgeBaseForwardProofs ---------------------
(***************************************************************************)
(* What the reconciler promises when the user's edits never lead back to a *)
(* spec that was left.  Everything it remembers of a spec - what is        *)
(* indexed, what failed, what a Job or a worker is at - then lies behind   *)
(* the spec it works from, so that a difference between the two is a       *)
(* change still to come.  TLC shows what an edit taken back does.          *)
(***************************************************************************)
EXTENDS KnowledgeBaseProofs

\* A strict order of the specs in which every edit leads forward.
Order(older) ==
  /\ Edits \subseteq older
  /\ \A s \in Specs : <<s, s>> \notin older
  /\ \A s, t, u \in Specs : <<s, t>> \in older /\ <<t, u>> \in older => <<s, u>> \in older

\* No sequence of edits comes back to where it was.
NeverBack == \E older \in SUBSET (Specs \X Specs) : Order(older)

Reaches(older, s, t) == s = t \/ <<s, t>> \in older

IsIngest(name) == name # None /\ name.type = "ingest"
IsEval(name) == name # None /\ name.type = "eval"

\* What a status knows of specs lies behind `spec'.
StatusBehind(older, st, spec) ==
  /\ st.observedSpecHash # None => Reaches(older, st.observedSpecHash, spec)
  /\ st.lastFailedSpecHash # None => Reaches(older, st.lastFailedSpecHash, spec)
  /\ IsIngest(st.activeJob) => Reaches(older, st.activeJob.spec, spec)

\* So does what the workers are at, and what is served.
WorkBehind(older, spec) ==
  /\ \A p \in pods : Reaches(older, p.name.spec, spec)
  /\ store # None => Reaches(older, store.spec, spec)

ForwardInv(older) ==
  /\ TypeOK
  /\ StatusBehind(older, status, kb.spec) /\ WorkBehind(older, kb.spec)
  /\ pc # "idle" => /\ Reaches(older, seen.spec, kb.spec)
                    /\ StatusBehind(older, mem, seen.spec)
                    /\ WorkBehind(older, seen.spec)
  /\ pc = "record" => current.spec = seen.spec

-----------------------------------------------------------------------------
(* The order, and what the steps of a pass do to its copy of the status.   *)

\* Being behind composes, and is strict once one of the steps is.
LEMMA ReachesOn ==
  ASSUME NEW older \in SUBSET (Specs \X Specs), Order(older), NEW s, NEW t, NEW u
  PROVE  /\ Reaches(older, s, t) /\ Reaches(older, t, u) => Reaches(older, s, u)
         /\ Reaches(older, s, t) /\ <<t, u>> \in older => <<s, u>> \in older
         /\ <<s, t>> \in older /\ Reaches(older, t, u) => <<s, u>> \in older
         /\ <<s, t>> \in older => s # t
  <1>1. \A x, y : <<x, y>> \in older => x \in Specs /\ y \in Specs
    OBVIOUS
  <1>. QED
    BY <1>1 DEF Order, Reaches

\* DropStaleTuning drops the tuning of an edited spec, and nothing else.
LEMMA DropStaleTuningFields ==
  ASSUME NEW st \in Statuses, NEW spec
  PROVE  LET d == DropStaleTuning(st, spec)
         IN  /\ d.phase = st.phase /\ d.activeJob = st.activeJob
             /\ d.observedSpecHash = st.observedSpecHash
             /\ d.lastFailedSpecHash = st.lastFailedSpecHash
             /\ d.oversize = st.oversize /\ d.deferCronIngest = st.deferCronIngest
             /\ d.ingestRound = st.ingestRound
             /\ \/ /\ d.effectiveChunking = st.effectiveChunking
                   /\ d.pendingRetune = st.pendingRetune
                \/ /\ d.effectiveChunking = None /\ ~d.pendingRetune
                   /\ st.observedSpecHash # None /\ st.observedSpecHash # spec
  BY DEF DropStaleTuning, UserEditedSpec, Statuses

\* finalizeEval forgets the evaluation and may change the phase and the tuning:
\* a configuration it changes is owed a re-index.
LEMMA FinalizeEvalFields ==
  ASSUME TypeOK, FinalizeEval
  PROVE  /\ pc = "active" /\ IsEval(mem.activeJob)
         /\ \E j \in jobs : j.name = mem.activeJob /\ j.state # "running"
         /\ pc' = "persist" /\ next' = "idle" /\ stamp' \in {"none", "evaluated"}
         /\ mem'.activeJob = None
         /\ mem'.observedSpecHash = mem.observedSpecHash
         /\ mem'.lastFailedSpecHash = mem.lastFailedSpecHash
         /\ mem'.deferCronIngest = mem.deferCronIngest
         /\ mem'.ingestRound = mem.ingestRound
         /\ mem'.phase \in {mem.phase, "Ready", "Degraded"}
         /\ mem'.oversize \in {mem.oversize, 0}
         /\ \/ mem'.pendingRetune /\ mem'.effectiveChunking # None
            \/ /\ mem'.effectiveChunking = mem.effectiveChunking
               /\ mem'.pendingRetune = mem.pendingRetune
         /\ UNCHANGED <<kb, status, jobs, pods, runs, store, clock, seen, current, budget>>
  <1>1. PICK j \in jobs : Settled(j) /\ j.name.type = "eval" /\ j.state # "running"
    BY DEF FinalizeEval, FinalizeFailedEval, NoDataset, RecallMet, ApplyAutoTune,
           SettleOnBest, Degrade, EvalResults
  <1>2. j.name = mem.activeJob /\ IsEval(mem.activeJob)
    BY <1>1, NameAssumption DEF Settled, Named, IsEval, TypeOK, Jobs
  <1>3. /\ pc = "active" /\ pc' = "persist" /\ next' = "idle" /\ status' = status
        /\ stamp' \in {"none", "evaluated"}
        /\ UNCHANGED <<kb, jobs, pods, runs, store, clock, seen, current, budget>>
    BY DEF FinalizeEval, FinalizeFailedEval, NoDataset, RecallMet, ApplyAutoTune,
           SettleOnBest, Degrade, Persist
  <1>4. mem \in Statuses /\ Evaluated \in Statuses
    BY DEF TypeOK, Evaluated, Statuses
  <1>5. /\ Evaluated.activeJob = None
        /\ Evaluated.phase = mem.phase /\ Evaluated.oversize = mem.oversize
        /\ Evaluated.observedSpecHash = mem.observedSpecHash
        /\ Evaluated.lastFailedSpecHash = mem.lastFailedSpecHash
        /\ Evaluated.deferCronIngest = mem.deferCronIngest
        /\ Evaluated.ingestRound = mem.ingestRound
        /\ Evaluated.effectiveChunking = mem.effectiveChunking
        /\ Evaluated.pendingRetune = mem.pendingRetune
    BY <1>4 DEF Evaluated, Statuses
  <1>6. ASSUME NEW i \in EvalResults
        PROVE  LET best == RecordBest(Evaluated, i.recall)
               IN  /\ best \in Statuses /\ best.bestChunking \in Chunkings
                   /\ best.activeJob = None
                   /\ best.phase = mem.phase /\ best.oversize = mem.oversize
                   /\ best.observedSpecHash = mem.observedSpecHash
                   /\ best.lastFailedSpecHash = mem.lastFailedSpecHash
                   /\ best.deferCronIngest = mem.deferCronIngest
                   /\ best.ingestRound = mem.ingestRound
                   /\ best.effectiveChunking = mem.effectiveChunking
                   /\ best.pendingRetune = mem.pendingRetune
    <2>1. i.recall \in Percents /\ seen \in KnowledgeBases /\ seen.spec \in Specs
      BY <1>3 DEF EvalResults, TypeOK, Jobs, KnowledgeBases
    <2>2. RecordBest(Evaluated, i.recall) \in Statuses
      BY <1>4, <2>1, RecordBestType
    <2>3. Effective(Evaluated, seen.spec) \in Chunkings
      BY <1>4, <2>1, EffectiveType
    <2>. QED
      BY <1>4, <1>5, <2>2, <2>3, ChunkingAssumption DEF RecordBest, Statuses
  <1>7. NextChunking[Effective(mem, seen.spec)] \in Chunkings
    BY <1>3, <1>4, EffectiveType, ChunkingAssumption DEF TypeOK, KnowledgeBases
  <1>8. /\ mem'.activeJob = None
        /\ mem'.observedSpecHash = mem.observedSpecHash
        /\ mem'.lastFailedSpecHash = mem.lastFailedSpecHash
        /\ mem'.deferCronIngest = mem.deferCronIngest
        /\ mem'.ingestRound = mem.ingestRound
        /\ mem'.phase \in {mem.phase, "Ready", "Degraded"}
        /\ mem'.oversize \in {mem.oversize, 0}
        /\ \/ mem'.pendingRetune /\ mem'.effectiveChunking # None
           \/ /\ mem'.effectiveChunking = mem.effectiveChunking
              /\ mem'.pendingRetune = mem.pendingRetune
    <2>1. CASE FinalizeFailedEval
      BY <1>4, <2>1 DEF FinalizeFailedEval, Persist, Statuses
    <2>2. CASE NoDataset
      BY <1>5, <2>2 DEF NoDataset, Persist
    <2>3. CASE RecallMet
      BY <1>4, <1>5, <2>3 DEF RecallMet, Persist, Statuses
    <2>4. CASE ApplyAutoTune
      <3>1. PICK i \in EvalResults :
              mem' = [RecordBest(Evaluated, i.recall) EXCEPT
                        !.effectiveChunking = NextChunking[Effective(mem, seen.spec)],
                        !.autoTuneAttempts = @ + 1, !.pendingRetune = TRUE,
                        !.evaluated = FALSE]
        BY <2>4 DEF ApplyAutoTune, Persist
      <3>. DEFINE best == RecordBest(Evaluated, i.recall)
      <3>2. best \in Statuses
        BY <1>6
      <3>3. /\ mem'.pendingRetune /\ mem'.effectiveChunking # None
            /\ mem'.phase = best.phase /\ mem'.oversize = best.oversize
            /\ mem'.observedSpecHash = best.observedSpecHash
            /\ mem'.lastFailedSpecHash = best.lastFailedSpecHash
            /\ mem'.deferCronIngest = best.deferCronIngest
            /\ mem'.ingestRound = best.ingestRound /\ mem'.activeJob = best.activeJob
        BY <1>7, <3>1, <3>2, ChunkingAssumption DEF Statuses
      <3>. QED
        BY <1>6, <3>3
    <2>5. CASE SettleOnBest
      <3>1. PICK i \in EvalResults :
              mem' = [RecordBest(Evaluated, i.recall) EXCEPT
                        !.effectiveChunking = RecordBest(Evaluated, i.recall).bestChunking,
                        !.pendingRetune = TRUE, !.evaluated = FALSE]
        BY <2>5 DEF SettleOnBest, Persist
      <3>. QED
        BY <1>6, <3>1, ChunkingAssumption DEF Statuses
    <2>6. CASE Degrade
      <3>1. PICK i \in EvalResults :
              mem' = [RecordBest(Evaluated, i.recall) EXCEPT
                        !.phase = "Degraded", !.oversize = 0]
        BY <2>6 DEF Degrade, Persist
      <3>. QED
        BY <1>6, <3>1 DEF Statuses
    <2>. QED
      BY <2>1, <2>2, <2>3, <2>4, <2>5, <2>6 DEF FinalizeEval
  <1>. QED
    BY <1>1, <1>2, <1>3, <1>8

-----------------------------------------------------------------------------
(* Every step keeps what is known of specs behind the spec worked from.    *)

\* A new KnowledgeBase knows of no spec.
LEMMA ForwardInit ==
  ASSUME NEW older
  PROVE  Init => ForwardInv(older)
  <1>1. StatusBehind(older, InitialStatus, kb.spec)
    BY DEF InitialStatus, StatusBehind, IsIngest
  <1>. QED
    BY <1>1, TypeInit DEF Init, ForwardInv, WorkBehind

\* A pass reads the current spec, and records of it only what it has read.
LEMMA ForwardNext ==
  ASSUME NEW older \in SUBSET (Specs \X Specs), Order(older)
  PROVE  ForwardInv(older) /\ [Next]_vars => ForwardInv(older)'
  <1>. SUFFICES ASSUME ForwardInv(older), [Next]_vars PROVE ForwardInv(older)'
    OBVIOUS
  <1>1. TypeOK'
    BY TypeNext DEF ForwardInv
  <1>2. status \in Statuses /\ mem \in Statuses
    BY DEF ForwardInv, TypeOK
  \* Any status that knows no more specs than another one, and than `spec'.
  <1>3. ASSUME NEW st, NEW new, NEW spec, StatusBehind(older, st, spec),
               new.observedSpecHash \in {st.observedSpecHash, None, spec},
               new.lastFailedSpecHash \in {st.lastFailedSpecHash, None, spec},
               \/ new.activeJob \in {st.activeJob, None}
               \/ IsEval(new.activeJob)
               \/ new.activeJob.spec = spec
        PROVE  StatusBehind(older, new, spec)
    BY <1>3 DEF StatusBehind, Reaches, IsIngest, IsEval
  \* A step of the pass that edits `mem' and creates no worker.
  <1>4. ASSUME pc # "idle", pc' \notin {"idle", "record"},
               UNCHANGED <<kb, status, store, seen>>, pods' \subseteq pods,
               mem'.observedSpecHash \in {mem.observedSpecHash, None, seen.spec},
               mem'.lastFailedSpecHash \in {mem.lastFailedSpecHash, None, seen.spec},
               \/ mem'.activeJob \in {mem.activeJob, None}
               \/ IsEval(mem'.activeJob)
               \/ mem'.activeJob.spec = seen.spec
        PROVE  ForwardInv(older)'
    <2>1. StatusBehind(older, mem', seen.spec)
      BY <1>3, <1>4 DEF ForwardInv
    <2>. QED
      BY <1>1, <1>4, <2>1 DEF ForwardInv, StatusBehind, WorkBehind
  \* A pass that returns.
  <1>5. ASSUME pc' = "idle", UNCHANGED <<kb, status, pods, store>>
        PROVE  ForwardInv(older)'
    BY <1>1, <1>5 DEF ForwardInv, StatusBehind, WorkBehind
  <1>6. CASE BlockedOnIdentity
    <2>1. /\ pc' = "persist" /\ seen' = kb /\ UNCHANGED <<kb, status, pods, store>>
          /\ mem' = [status EXCEPT !.phase = "Pending", !.oversize = 0]
      BY <1>6 DEF BlockedOnIdentity, Persist
    <2>2. StatusBehind(older, mem', kb.spec)
      BY <1>2, <1>3, <2>1 DEF ForwardInv, Statuses
    <2>. QED
      BY <1>1, <2>1, <2>2 DEF ForwardInv, StatusBehind, WorkBehind, Reaches
  <1>7. CASE ReflectSuspend
    <2>1. /\ pc' = "persist" /\ seen' = kb /\ UNCHANGED <<kb, status, pods, store>>
          /\ mem' = [status EXCEPT !.phase = "Suspended", !.oversize = 0]
      BY <1>7 DEF ReflectSuspend, Persist
    <2>2. StatusBehind(older, mem', kb.spec)
      BY <1>2, <1>3, <2>1 DEF ForwardInv, Statuses
    <2>. QED
      BY <1>1, <2>1, <2>2 DEF ForwardInv, StatusBehind, WorkBehind, Reaches
  <1>8. CASE BeginPass
    <2>1. /\ pc' \in {"decide", "active"} /\ seen' = kb
          /\ UNCHANGED <<kb, status, pods, store>>
          /\ mem' = DropStaleTuning(status, kb.spec)
      BY <1>8 DEF BeginPass
    <2>2. StatusBehind(older, mem', kb.spec)
      BY <1>2, <1>3, <2>1, DropStaleTuningFields DEF ForwardInv
    <2>. QED
      BY <1>1, <2>1, <2>2 DEF ForwardInv, StatusBehind, WorkBehind, Reaches
  <1>9. CASE CancelStaleIngest \/ ClearTimedOut
    <2>1. pods' \subseteq pods
      BY <1>9 DEF CancelStaleIngest, ClearTimedOut, DeleteJob
    <2>. QED
      BY <1>2, <1>4, <1>9, <2>1 DEF CancelStaleIngest, ClearTimedOut, Persist, Statuses
  <1>10. CASE ForgetMissing
    BY <1>2, <1>4, <1>10 DEF ForgetMissing, Persist, Statuses
  <1>11. CASE AwaitRunning
    <2>1. UNCHANGED <<kb, status, pods, store>> /\ pc = "active"
      BY <1>11 DEF AwaitRunning, Persist, EndPass
    <2>2. CASE EndPass
      BY <1>5, <2>1, <2>2 DEF EndPass
    <2>3. CASE Persist([mem EXCEPT !.deferCronIngest = TRUE], "none", "idle")
               /\ UNCHANGED seen
      BY <1>2, <1>4, <2>1, <2>3 DEF Persist, Statuses
    <2>. QED
      BY <1>11, <2>2, <2>3 DEF AwaitRunning
  <1>12. CASE FinalizeFailedIngest
    <2>1. PICK j \in jobs :
            /\ ~ActiveIngestIsStale(j) /\ j.name.type = "ingest"
            /\ mem' = [mem EXCEPT !.phase = "Failed", !.activeJob = None, !.oversize = 0,
                                  !.lastFailedSpecHash = j.name.spec]
      BY <1>12 DEF FinalizeFailedIngest, Settled, Persist
    <2>2. j.name.spec = seen.spec
      BY <2>1 DEF ActiveIngestIsStale
    <2>. QED
      BY <1>2, <1>4, <1>12, <2>1, <2>2 DEF FinalizeFailedIngest, Persist, Statuses
  <1>13. CASE FinalizeIngest
    <2>1. PICK j \in jobs :
            /\ ~ActiveIngestIsStale(j) /\ j.name.type = "ingest"
            /\ mem' = [mem EXCEPT !.phase = "Ready", !.activeJob = None, !.oversize = 0,
                                  !.observedSpecHash = j.name.spec,
                                  !.effectiveChunking = j.name.chunking,
                                  !.pendingRetune = FALSE,
                                  !.lastFailedSpecHash = None]
      BY <1>13 DEF FinalizeIngest, Settled, Persist
    <2>2. j.name.spec = seen.spec
      BY <2>1 DEF ActiveIngestIsStale
    <2>. QED
      BY <1>2, <1>4, <1>13, <2>1, <2>2 DEF FinalizeIngest, Persist, Statuses
  <1>14. CASE \/ CleanUpIngest \/ AwaitResult \/ Rest \/ IngestJobExists \/ EvalJobExists
              \/ PassFails
    BY <1>5, <1>14
    DEF CleanUpIngest, AwaitResult, Rest, IngestJobExists, EvalJobExists, PassFails, EndPass
  <1>15. CASE FinalizeEval
    BY <1>4, <1>15, FinalizeEvalFields DEF ForwardInv
  <1>16. NextRound \in Statuses
    BY <1>2, NextRoundType
  <1>17. /\ NextRound.observedSpecHash = mem.observedSpecHash
         /\ NextRound.lastFailedSpecHash = mem.lastFailedSpecHash
         /\ NextRound.activeJob = mem.activeJob
    BY <1>2 DEF NextRound, Statuses
  <1>18. CASE RefuseOversize
    BY <1>4, <1>16, <1>17, <1>18 DEF RefuseOversize, MayWork, Persist, Statuses
  <1>19. CASE IngestOverQuota
    BY <1>4, <1>16, <1>17, <1>19 DEF IngestOverQuota, MayWork, Persist, Statuses
  <1>20. CASE CreateIngestJob
    <2>1. /\ pc = "decide" /\ pc' = "record" /\ current' = NextIngest /\ mem' = NextRound
          /\ UNCHANGED <<kb, status, seen, store>>
          /\ pods' = pods \union {[name |-> NextIngest, mode |-> Mode]}
      BY <1>20 DEF CreateIngestJob, MayWork
    <2>2. NextIngest.spec = seen.spec
      BY DEF NextIngest, IngestName
    <2>3. StatusBehind(older, mem', seen.spec)
      BY <1>3, <1>17, <2>1 DEF ForwardInv
    <2>. QED
      BY <1>1, <2>1, <2>2, <2>3 DEF ForwardInv, StatusBehind, WorkBehind, Reaches
  <1>21. CASE RecordIngest
    <2>1. current.spec = seen.spec
      BY <1>21 DEF RecordIngest, ForwardInv
    <2>. QED
      BY <1>2, <1>4, <1>21, <2>1 DEF RecordIngest, Persist, Statuses
  <1>22. CASE RunOverQuota
    BY <1>2, <1>4, <1>22 DEF RunOverQuota, Persist, Statuses
  <1>23. NextEvalRound \in Statuses
    BY <1>2, NextEvalRoundType
  <1>24. /\ NextEvalRound.observedSpecHash = mem.observedSpecHash
         /\ NextEvalRound.lastFailedSpecHash = mem.lastFailedSpecHash
         /\ NextEvalRound.activeJob = mem.activeJob
    BY <1>2 DEF NextEvalRound, Statuses
  <1>25. CASE EvalOverQuota
    BY <1>4, <1>23, <1>24, <1>25 DEF EvalOverQuota, MayWork, Persist, Statuses
  <1>26. CASE StartEval
    <2>1. EvalName(NextEvalRound).type = "eval" /\ EvalName(NextEvalRound) \in Names
      BY <1>23 DEF EvalName, Names, EvalNames, Statuses
    <2>2. IsEval(EvalName(NextEvalRound))
      BY <2>1, NameAssumption DEF IsEval
    <2>. QED
      BY <1>4, <1>23, <1>24, <1>26, <2>2 DEF StartEval, MayWork, Persist, Statuses
  <1>27. CASE StatusUpdate
    <2>1. /\ pc = "persist" /\ status' = mem /\ mem' = mem /\ pc' = next
          /\ UNCHANGED <<kb, pods, store>>
          /\ next # "idle" => seen' = seen
          /\ next \in {"idle", "decide", "cleanup"}
      BY <1>27 DEF StatusUpdate, ForwardInv, TypeOK
    <2>2. StatusBehind(older, mem, kb.spec)
      BY <2>1, ReachesOn DEF ForwardInv, StatusBehind
    <2>. QED
      BY <1>1, <2>1, <2>2 DEF ForwardInv, StatusBehind, WorkBehind
  <1>28. CASE EditSpec
    <2>1. /\ <<kb.spec, kb'.spec>> \in older
          /\ UNCHANGED <<status, pods, store, pc, mem, seen, current>>
      BY <1>28 DEF EditSpec, Order, passVars, ForwardInv, TypeOK, KnowledgeBases
    <2>2. \A s : Reaches(older, s, kb.spec) => Reaches(older, s, kb'.spec)
      BY <2>1, ReachesOn DEF Reaches
    <2>. QED
      BY <1>1, <2>1, <2>2 DEF ForwardInv, StatusBehind, WorkBehind
  <1>29. CASE PromoteShadow
    <2>1. PICK p \in pods :
            /\ store' = [spec |-> p.name.spec, chunking |-> p.name.chunking]
            /\ pods' = pods \ {p}
            /\ UNCHANGED <<kb, status, pc, mem, seen, current>>
      BY <1>29 DEF PromoteShadow, passVars
    <2>2. store'.spec = p.name.spec
      BY <2>1
    <2>. QED
      BY <1>1, <2>1, <2>2 DEF ForwardInv, StatusBehind, WorkBehind
  <1>30. ASSUME UNCHANGED <<status, store, pc, mem, seen, current>>, pods' \subseteq pods,
                kb'.spec = kb.spec
         PROVE  ForwardInv(older)'
    BY <1>1, <1>30 DEF ForwardInv, StatusBehind, WorkBehind
  <1>31. CASE RotateSecret \/ ToggleSuspend
    BY <1>30, <1>31
    DEF RotateSecret, ToggleSuspend, passVars, ForwardInv, TypeOK, KnowledgeBases
  <1>32. CASE \/ SkipUnchanged \/ LingeringPodDies \/ FinishIngest \/ FinishEval
              \/ Cluster \/ ExpireJob \/ CooldownElapses \/ Time \/ UNCHANGED vars
    BY <1>30, <1>32
    DEF SkipUnchanged, LingeringPodDies, FinishIngest, FinishEval, Cluster, LoseResult,
        FailJob, JobOverdue, ExpireUnseenJob, ExpireJob, CooldownElapses, Time,
        FreshnessTick, TickExpires, EvalTick, vars, passVars
  <1>. QED
    BY <1>6, <1>7, <1>8, <1>9, <1>10, <1>11, <1>12, <1>13, <1>14, <1>15, <1>18, <1>19,
       <1>20, <1>21, <1>22, <1>25, <1>26, <1>27, <1>28, <1>29, <1>31, <1>32
    DEF Next, Reconcile, Refused, ActiveJobStep, DecideStep, Worker, User

-----------------------------------------------------------------------------
(* The retry delay of a failed ingestion.                                  *)

\* Nothing but the reconciler's own verdicts takes a KnowledgeBase out of Failed.
FailedStands == Faults \intersect {"identity", "suspend"} = {}

\* While the delay runs, a spec that failed is still Failed or was left behind.
Delayed(older, st, spec) ==
  (clock.cooling /\ st.lastFailedSpecHash # None)
  => st.phase = "Failed" \/ <<st.lastFailedSpecHash, spec>> \in older

\* An evaluation, which may change the phase, only runs on an indexed spec.
EvalNotFailed(st) == IsEval(st.activeJob) => st.phase # "Failed"

DelayInv(older) ==
  /\ ForwardInv(older) /\ ~kb.suspend
  /\ Delayed(older, status, kb.spec) /\ EvalNotFailed(status)
  /\ pc # "idle" => Delayed(older, mem, seen.spec) /\ EvalNotFailed(mem)
  /\ pc \in {"active", "decide"} => mem.lastFailedSpecHash = status.lastFailedSpecHash
  /\ pc = "decide" => mem.activeJob = None
  \* Persist, and what follows it.
  /\ (pc = "persist" /\ next = "decide") => mem.activeJob = None
  /\ (pc = "persist" /\ stamp = "failed") => mem.phase = "Failed"
  \* A Job is only created for a spec that is not waiting to be retried.
  /\ (pc = "record" /\ clock.cooling /\ mem.lastFailedSpecHash # None)
     => <<mem.lastFailedSpecHash, seen.spec>> \in older

\* A new KnowledgeBase waits for nothing.
LEMMA DelayInit ==
  ASSUME NEW older
  PROVE  Init => DelayInv(older)
  <1>. SUFFICES ASSUME Init PROVE DelayInv(older)
    OBVIOUS
  <1>1. ForwardInv(older)
    BY ForwardInit
  <1>2. kb.suspend = FALSE
    BY DEF Init
  <1>3. clock.cooling = FALSE /\ pc = "idle" /\ status.activeJob = None
    BY DEF Init, InitialStatus
  <1>. QED
    BY <1>1, <1>2, <1>3 DEF DelayInv, Delayed, EvalNotFailed, IsEval

\* Only a verdict on the spec in question, or a newer spec, ends the delay.
LEMMA DelayNext ==
  ASSUME NEW older \in SUBSET (Specs \X Specs), Order(older), FailedStands
  PROVE  DelayInv(older) /\ [Next]_vars => DelayInv(older)'
  <1>. SUFFICES ASSUME DelayInv(older), [Next]_vars PROVE DelayInv(older)'
    OBVIOUS
  <1>1. ForwardInv(older)' /\ TypeOK'
    BY ForwardNext DEF DelayInv, ForwardInv
  <1>2. status \in Statuses /\ mem \in Statuses /\ TypeOK
    BY DEF DelayInv, ForwardInv, TypeOK
  \* A step of the pass that edits `mem' and leads to its persistence.
  <1>3. ASSUME pc # "idle", pc' = "persist", UNCHANGED <<kb, status, seen, clock>>,
               Delayed(older, mem', seen.spec), EvalNotFailed(mem'),
               next' = "decide" => mem'.activeJob = None,
               stamp' = "failed" => mem'.phase = "Failed"
        PROVE  DelayInv(older)'
    BY <1>1, <1>3 DEF DelayInv, Delayed, EvalNotFailed
  \* A pass that returns.
  <1>4. ASSUME pc' = "idle", UNCHANGED <<kb, status, clock>>
        PROVE  DelayInv(older)'
    BY <1>1, <1>4 DEF DelayInv, Delayed, EvalNotFailed
  <1>5. CASE BlockedOnIdentity \/ ReflectSuspend \/ ToggleSuspend
    BY <1>5
    DEF BlockedOnIdentity, ReflectSuspend, ToggleSuspend, Fault, FailedStands, DelayInv
  <1>6. CASE BeginPass
    <2>1. /\ pc' = IF status.activeJob = None THEN "decide" ELSE "active"
          /\ seen' = kb /\ UNCHANGED <<kb, status, clock>>
          /\ mem'.phase = status.phase /\ mem'.activeJob = status.activeJob
          /\ mem'.lastFailedSpecHash = status.lastFailedSpecHash
      BY <1>2, <1>6, DropStaleTuningFields DEF BeginPass
    <2>. QED
      BY <1>1, <2>1 DEF DelayInv, Delayed, EvalNotFailed
  <1>7. CASE CancelStaleIngest \/ ForgetMissing \/ ClearTimedOut
    <2>1. /\ pc = "active" /\ pc' = "persist" /\ UNCHANGED <<kb, status, seen, clock>>
          /\ mem'.activeJob = None
          /\ \/ mem'.phase = "Failed"
             \/ /\ mem'.phase = mem.phase /\ stamp' = "none"
                /\ mem'.lastFailedSpecHash = mem.lastFailedSpecHash
      BY <1>2, <1>7 DEF CancelStaleIngest, ForgetMissing, ClearTimedOut, Persist, Statuses
    <2>. QED
      BY <1>3, <2>1 DEF DelayInv, Delayed, EvalNotFailed, IsEval
  <1>8. CASE AwaitRunning
    <2>1. pc = "active" /\ UNCHANGED <<kb, status, clock>>
      BY <1>8 DEF AwaitRunning, Persist, EndPass
    <2>2. CASE EndPass
      BY <1>4, <2>1, <2>2 DEF EndPass
    <2>3. CASE Persist([mem EXCEPT !.deferCronIngest = TRUE], "none", "idle")
               /\ UNCHANGED seen
      <3>1. /\ pc' = "persist" /\ next' = "idle" /\ stamp' = "none"
            /\ mem'.phase = mem.phase /\ mem'.activeJob = mem.activeJob
            /\ mem'.lastFailedSpecHash = mem.lastFailedSpecHash
        BY <1>2, <2>3 DEF Persist, Statuses
      <3>. QED
        BY <1>3, <2>1, <2>3, <3>1 DEF DelayInv, Delayed, EvalNotFailed
    <2>. QED
      BY <1>8, <2>2, <2>3 DEF AwaitRunning
  <1>9. CASE FinalizeFailedIngest
    <2>1. /\ pc = "active" /\ pc' = "persist" /\ UNCHANGED <<kb, status, seen, clock>>
          /\ mem'.activeJob = None /\ mem'.phase = "Failed"
      BY <1>2, <1>9 DEF FinalizeFailedIngest, Persist, Statuses
    <2>. QED
      BY <1>3, <2>1 DEF Delayed, EvalNotFailed, IsEval
  <1>10. CASE FinalizeIngest
    <2>1. /\ pc = "active" /\ pc' = "persist" /\ UNCHANGED <<kb, status, seen, clock>>
          /\ mem'.activeJob = None /\ mem'.lastFailedSpecHash = None /\ stamp' = "indexed"
      BY <1>2, <1>10 DEF FinalizeIngest, Persist, Statuses
    <2>. QED
      BY <1>3, <2>1 DEF Delayed, EvalNotFailed, IsEval
  <1>11. CASE \/ CleanUpIngest \/ AwaitResult \/ Rest \/ IngestJobExists \/ EvalJobExists
              \/ PassFails
    BY <1>4, <1>11
    DEF CleanUpIngest, AwaitResult, Rest, IngestJobExists, EvalJobExists, PassFails, EndPass
  \* A verdict on an evaluation: the spec it was run on has not failed.
  <1>12. CASE FinalizeEval
    <2>1. /\ pc = "active" /\ IsEval(mem.activeJob)
          /\ pc' = "persist" /\ next' = "idle" /\ stamp' # "failed"
          /\ UNCHANGED <<kb, status, seen, clock>>
          /\ mem'.activeJob = None
          /\ mem'.lastFailedSpecHash = mem.lastFailedSpecHash
      BY <1>2, <1>12, FinalizeEvalFields
    <2>2. mem.phase # "Failed"
      BY <2>1 DEF DelayInv, EvalNotFailed
    <2>. QED
      BY <1>3, <2>1, <2>2 DEF DelayInv, Delayed, EvalNotFailed, IsEval
  <1>13. /\ NextRound \in Statuses
         /\ NextRound.lastFailedSpecHash = mem.lastFailedSpecHash
         /\ NextRound.activeJob = mem.activeJob /\ NextRound.phase = mem.phase
    BY <1>2, NextRoundType DEF NextRound, Statuses
  <1>14. CASE RefuseOversize
    <2>1. /\ pc = "decide" /\ pc' = "persist" /\ next' = "idle" /\ stamp' = "none"
          /\ UNCHANGED <<kb, status, seen, clock>>
          /\ mem'.activeJob = mem.activeJob /\ mem'.phase = "Failed"
      BY <1>13, <1>14 DEF RefuseOversize, MayWork, Persist, Statuses
    <2>. QED
      BY <1>3, <2>1 DEF DelayInv, Delayed, EvalNotFailed, IsEval
  <1>15. CASE IngestOverQuota
    <2>1. /\ pc = "decide" /\ pc' = "persist" /\ next' = "idle" /\ stamp' = "none"
          /\ UNCHANGED <<kb, status, seen, clock>>
          /\ mem'.activeJob = mem.activeJob /\ mem'.phase = mem.phase
          /\ mem'.lastFailedSpecHash = mem.lastFailedSpecHash
      BY <1>13, <1>15 DEF IngestOverQuota, MayWork, Persist, Statuses
    <2>. QED
      BY <1>3, <2>1 DEF DelayInv, Delayed, EvalNotFailed
  <1>16. CASE CreateIngestJob
    <2>1. /\ pc = "decide" /\ ~CoolingDown /\ pc' = "record" /\ mem' = NextRound
          /\ UNCHANGED <<kb, status, seen, clock>>
      BY <1>16 DEF CreateIngestJob, MayWork
    <2>2. (clock.cooling /\ mem.lastFailedSpecHash # None)
          => <<mem.lastFailedSpecHash, seen.spec>> \in older
      BY <2>1
      DEF CoolingDown, DelayInv, Delayed, ForwardInv, StatusBehind, Reaches
    <2>. QED
      BY <1>1, <1>13, <2>1, <2>2 DEF DelayInv, Delayed, EvalNotFailed
  <1>17. CASE RecordIngest
    <2>1. /\ pc = "record" /\ pc' = "persist" /\ next' = "idle" /\ stamp' = "none"
          /\ UNCHANGED <<kb, status, seen, clock>>
          /\ mem'.activeJob = current /\ mem'.phase = "Ingesting"
          /\ mem'.lastFailedSpecHash = mem.lastFailedSpecHash
      BY <1>2, <1>17 DEF RecordIngest, Persist, Statuses
    <2>. QED
      BY <1>3, <2>1 DEF DelayInv, Delayed, EvalNotFailed
  <1>18. CASE RunOverQuota
    <2>1. /\ pc = "record" /\ pc' = "persist" /\ next' = "idle" /\ stamp' = "none"
          /\ UNCHANGED <<kb, status, seen, clock>>
          /\ mem'.activeJob = mem.activeJob /\ mem'.phase = mem.phase
          /\ mem'.lastFailedSpecHash = mem.lastFailedSpecHash
      BY <1>2, <1>18 DEF RunOverQuota, Persist, Statuses
    <2>. QED
      BY <1>3, <2>1 DEF DelayInv, Delayed, EvalNotFailed
  <1>19. /\ NextEvalRound \in Statuses
         /\ NextEvalRound.lastFailedSpecHash = mem.lastFailedSpecHash
         /\ NextEvalRound.activeJob = mem.activeJob /\ NextEvalRound.phase = mem.phase
    BY <1>2, NextEvalRoundType DEF NextEvalRound, Statuses
  <1>20. CASE EvalOverQuota
    <2>1. /\ pc = "decide" /\ pc' = "persist" /\ next' = "idle" /\ stamp' = "none"
          /\ UNCHANGED <<kb, status, seen, clock>>
          /\ mem'.activeJob = mem.activeJob /\ mem'.phase = mem.phase
          /\ mem'.lastFailedSpecHash = mem.lastFailedSpecHash
      BY <1>19, <1>20 DEF EvalOverQuota, MayWork, Persist, Statuses
    <2>. QED
      BY <1>3, <2>1 DEF DelayInv, Delayed, EvalNotFailed
  <1>21. CASE StartEval
    <2>1. /\ pc = "decide" /\ pc' = "persist" /\ next' = "idle" /\ stamp' = "none"
          /\ UNCHANGED <<kb, status, seen, clock>>
          /\ mem.phase \in {"Ready", "Degraded"} /\ mem'.phase = mem.phase
          /\ mem'.lastFailedSpecHash = mem.lastFailedSpecHash
      BY <1>19, <1>21 DEF StartEval, MayWork, EvalDue, Persist, Statuses
    <2>. QED
      BY <1>3, <2>1 DEF DelayInv, Delayed, EvalNotFailed
  <1>22. CASE StatusUpdate
    <2>1. /\ pc = "persist" /\ status' = mem /\ mem' = mem /\ pc' = next /\ kb' = kb
          /\ next # "idle" => seen' = seen
          /\ next \in {"idle", "decide", "cleanup"}
          /\ clock'.cooling => stamp = "failed" \/ clock.cooling
      BY <1>2, <1>22 DEF StatusUpdate, TypeOK
    <2>2. <<mem.lastFailedSpecHash, seen.spec>> \in older
          => <<mem.lastFailedSpecHash, kb.spec>> \in older
      BY <2>1, ReachesOn DEF DelayInv, ForwardInv
    <2>. QED
      BY <1>1, <2>1, <2>2 DEF DelayInv, Delayed, EvalNotFailed
  <1>23. CASE EditSpec
    <2>1. /\ <<kb.spec, kb'.spec>> \in older /\ kb'.suspend = kb.suspend
          /\ UNCHANGED <<status, clock, pc, mem, seen, current, stamp, next>>
      BY <1>2, <1>23 DEF EditSpec, Order, passVars, TypeOK, KnowledgeBases
    <2>2. \A s : <<s, kb.spec>> \in older => <<s, kb'.spec>> \in older
      BY <2>1, ReachesOn DEF Reaches
    <2>. QED
      BY <1>1, <2>1, <2>2 DEF DelayInv, Delayed, EvalNotFailed
  <1>24. ASSUME UNCHANGED <<status, pc, mem, seen, current, stamp, next>>,
                kb'.spec = kb.spec, kb'.suspend = kb.suspend,
                clock'.cooling => clock.cooling
         PROVE  DelayInv(older)'
    BY <1>1, <1>24 DEF DelayInv, Delayed, EvalNotFailed
  <1>25. CASE RotateSecret
    BY <1>2, <1>24, <1>25 DEF RotateSecret, passVars, TypeOK, KnowledgeBases
  <1>26. CASE Time \/ CooldownElapses
    BY <1>2, <1>24, <1>26
    DEF Time, FreshnessTick, TickExpires, EvalTick, CooldownElapses, passVars, TypeOK
  <1>27. CASE Worker \/ Cluster \/ ExpireJob \/ UNCHANGED vars
    BY <1>24, <1>27
    DEF Worker, PromoteShadow, SkipUnchanged, LingeringPodDies, FinishIngest, FinishEval,
        Cluster, LoseResult, FailJob, JobOverdue, ExpireUnseenJob, ExpireJob, vars, passVars
  <1>. QED
    BY <1>5, <1>6, <1>7, <1>8, <1>9, <1>10, <1>11, <1>12, <1>14, <1>15, <1>16, <1>17,
       <1>18, <1>20, <1>21, <1>22, <1>23, <1>25, <1>26, <1>27
    DEF Next, Reconcile, Refused, ActiveJobStep, DecideStep, User

\* Only CreateIngestJob makes a Job for an ingestion, for the spec it has read.
LEMMA NewIngestIsNext ==
  ASSUME TypeOK, [Next]_vars, NEW j \in NewIngests
  PROVE  CreateIngestJob /\ j.name = NextIngest
  <1>1. j \in jobs' /\ j.name.type = "ingest" /\ \A i \in jobs : i.name # j.name
    BY DEF NewIngests, Named
  <1>2. \A i \in jobs : i.name # j.name
    BY <1>1
  <1>3. ~(jobs' \subseteq jobs)
    BY <1>1
  <1>4. ASSUME NEW i \in jobs, NEW k \in {[i EXCEPT !.state = "complete", !.outcome = "ok"],
                 [i EXCEPT !.state = "complete", !.outcome = "noDataset"],
                 [i EXCEPT !.state = "complete", !.outcome = "lost"],
                 [i EXCEPT !.state = "failed"], [i EXCEPT !.overdue = TRUE]}
                 \union {[i EXCEPT !.state = "complete", !.outcome = "ok", !.recall = r] :
                           r \in Recalls},
                Update(i, k)
        PROVE  FALSE
    <2>1. k.name = i.name
      BY <1>4 DEF TypeOK, Jobs
    <2>. QED
      BY <1>1, <1>4, <2>1 DEF Update
  <1>5. ~(FinishIngest \/ FinishEval \/ LoseResult \/ FailJob \/ JobOverdue)
    BY <1>4 DEF FinishIngest, FinishEval, LoseResult, FailJob, JobOverdue, Named
  <1>6. ~StartEval
    BY <1>1 DEF StartEval, NewJob, EvalName
  <1>7. CreateIngestJob
    BY <1>3, <1>5, <1>6
    DEF Next, Reconcile, Refused, ActiveJobStep, DecideStep, Worker, User, Time, Cluster,
        FinalizeEval, BlockedOnIdentity, ReflectSuspend, BeginPass, CancelStaleIngest,
        ClearTimedOut, DeleteJob, ForgetMissing, AwaitRunning, FinalizeFailedIngest,
        FinalizeIngest, CleanUpIngest, AwaitResult, FinalizeFailedEval, NoDataset,
        RecallMet, ApplyAutoTune, SettleOnBest, Degrade, Rest, RefuseOversize,
        IngestOverQuota, IngestJobExists, RecordIngest, RunOverQuota, EvalOverQuota,
        EvalJobExists, StatusUpdate, PassFails, EditSpec, RotateSecret, ToggleSuspend,
        FreshnessTick, TickExpires, EvalTick, CooldownElapses, PromoteShadow,
        SkipUnchanged, LingeringPodDies, ExpireJob, ExpireUnseenJob, vars
  <1>. QED
    BY <1>1, <1>7 DEF CreateIngestJob, NewJob

\* No ingestion of a spec is started while the retry delay of its failure runs
\* (ingestFailureRetryAfter in decideWork), whatever else fails: that the delay is
\* looked up by phase is enough, as long as edits lead forward and nothing else
\* than the reconciler's verdicts replaces phase Failed.
THEOREM NoHotRetries ==
  ASSUME NeverBack, FailedStands
  PROVE  Spec => NoHotRetry
  <1>1. PICK older \in SUBSET (Specs \X Specs) : Order(older)
    BY DEF NeverBack
  <1>2. Init => DelayInv(older)
    BY DelayInit
  <1>3. DelayInv(older) /\ [Next]_vars => DelayInv(older)'
    BY <1>1, DelayNext
  <1>4. DelayInv(older) /\ [Next]_vars
        => [\A j \in NewIngests : clock.cooling => j.name.spec # status.lastFailedSpecHash]_vars
    <2>. SUFFICES ASSUME DelayInv(older), [Next]_vars, NEW j \in NewIngests, clock.cooling,
                         j.name.spec = status.lastFailedSpecHash
                  PROVE  FALSE
      OBVIOUS
    <2>1. CreateIngestJob /\ j.name = NextIngest
      BY NewIngestIsNext DEF DelayInv, ForwardInv
    <2>2. pc = "decide" /\ ~CoolingDown /\ seen.spec \in Specs
      BY <2>1 DEF CreateIngestJob, MayWork, DelayInv, ForwardInv, TypeOK, KnowledgeBases
    <2>3. mem.lastFailedSpecHash = seen.spec /\ mem.lastFailedSpecHash # None
      BY <2>1, <2>2, SpecAssumption DEF NextIngest, IngestName, DelayInv
    <2>4. <<seen.spec, seen.spec>> \in older
      BY <2>2, <2>3 DEF CoolingDown, DelayInv, Delayed
    <2>. QED
      BY <1>1, <2>2, <2>4 DEF Order
  <1>. QED
    BY <1>2, <1>3, <1>4, PTL DEF Spec, NoHotRetry

-----------------------------------------------------------------------------
(* The deferral of a fire of the schedule.                                 *)

\* startIngest, which clears the deferral, ends in a Job.
NothingRefused == "quota" \notin Faults /\ OversizeSpecs = {}

DeferInv ==
  /\ TypeOK
  /\ (pc \notin {"record", "persist"} /\ status.deferCronIngest) => mem.deferCronIngest
  /\ (pc = "persist" /\ status.deferCronIngest /\ ~mem.deferCronIngest)
     => mem.activeJob # None

\* The pass drops a deferral from its copy only on the way to recording a Job.
LEMMA DeferNext ==
  ASSUME NothingRefused
  PROVE  DeferInv /\ [Next]_vars => DeferInv'
  <1>. SUFFICES ASSUME DeferInv, [Next]_vars PROVE DeferInv'
    OBVIOUS
  <1>1. TypeOK'
    BY TypeNext DEF DeferInv
  <1>2. status \in Statuses /\ mem \in Statuses /\ TypeOK
    BY DEF DeferInv, TypeOK
  <1>3. ASSUME pc \notin {"record", "persist"}, pc' = "persist", status' = status,
               mem.deferCronIngest => mem'.deferCronIngest
        PROVE  DeferInv'
    BY <1>1, <1>3 DEF DeferInv
  <1>4. CASE BlockedOnIdentity \/ ReflectSuspend
    <2>1. pc' = "persist" /\ status' = status /\ mem'.deferCronIngest = status.deferCronIngest
      BY <1>2, <1>4 DEF BlockedOnIdentity, ReflectSuspend, Persist, Statuses
    <2>. QED
      BY <1>1, <2>1 DEF DeferInv
  <1>5. CASE BeginPass
    <2>1. /\ pc' \in {"active", "decide"} /\ status' = status
          /\ mem'.deferCronIngest = status.deferCronIngest
      BY <1>2, <1>5, DropStaleTuningFields DEF BeginPass
    <2>. QED
      BY <1>1, <2>1 DEF DeferInv
  <1>6. CASE \/ CancelStaleIngest \/ ForgetMissing \/ ClearTimedOut \/ FinalizeIngest
             \/ FinalizeFailedIngest
    <2>1. /\ pc = "active" /\ pc' = "persist" /\ status' = status
          /\ mem'.deferCronIngest = mem.deferCronIngest
      BY <1>2, <1>6
      DEF CancelStaleIngest, ForgetMissing, ClearTimedOut, FinalizeIngest,
          FinalizeFailedIngest, Persist, Statuses
    <2>. QED
      BY <1>3, <2>1
  <1>7. ASSUME EndPass
        PROVE  DeferInv'
    BY <1>1, <1>7 DEF DeferInv, EndPass
  <1>8. CASE AwaitRunning
    <2>1. CASE Persist([mem EXCEPT !.deferCronIngest = TRUE], "none", "idle")
      BY <1>2, <1>3, <1>8, <2>1 DEF AwaitRunning, Persist, Statuses
    <2>. QED
      BY <1>7, <1>8, <2>1 DEF AwaitRunning
  <1>9. CASE \/ CleanUpIngest \/ AwaitResult \/ Rest \/ IngestJobExists \/ EvalJobExists
             \/ PassFails
    BY <1>7, <1>9
    DEF CleanUpIngest, AwaitResult, Rest, IngestJobExists, EvalJobExists, PassFails
  <1>10. CASE FinalizeEval
    BY <1>2, <1>3, <1>10, FinalizeEvalFields DEF Persist
  <1>11. CASE RefuseOversize \/ IngestOverQuota \/ RunOverQuota
    BY <1>11 DEF RefuseOversize, IngestOverQuota, RunOverQuota, Fault, NothingRefused
  <1>12. CASE CreateIngestJob
    BY <1>1, <1>12 DEF CreateIngestJob, DeferInv
  <1>13. CASE RecordIngest
    <2>1. pc' = "persist" /\ mem'.activeJob = current /\ current \in Names
      BY <1>2, <1>13 DEF RecordIngest, Persist, Statuses, TypeOK, Names
    <2>. QED
      BY <1>1, <2>1, NameAssumption DEF DeferInv
  <1>14. CASE EvalOverQuota
    BY <1>14 DEF EvalOverQuota, Fault, NothingRefused
  <1>15. CASE StartEval
    <2>1. /\ pc = "decide" /\ pc' = "persist" /\ status' = status
          /\ mem'.deferCronIngest = mem.deferCronIngest
      BY <1>2, <1>15, NextEvalRoundType
      DEF StartEval, MayWork, Persist, NextEvalRound, Statuses
    <2>. QED
      BY <1>3, <2>1
  <1>16. CASE StatusUpdate
    BY <1>1, <1>2, <1>16 DEF StatusUpdate, DeferInv, TypeOK
  <1>17. CASE \/ Worker \/ Cluster \/ ExpireJob \/ CooldownElapses \/ User \/ Time
              \/ UNCHANGED vars
    BY <1>1, <1>17, OthersKeepPass DEF DeferInv, vars, passVars
  <1>. QED
    BY <1>4, <1>5, <1>6, <1>8, <1>9, <1>10, <1>11, <1>12, <1>13, <1>14, <1>15, <1>16,
       <1>17 DEF Next, Reconcile, Refused, ActiveJobStep, DecideStep

\* A fire of the schedule that came during an ingestion is not forgotten: the flag
\* is cleared in the status together with the Job that honours it becoming the
\* active one (startIngest), whatever crashes, failures and edits come between.
\* With a quota or an oversized spec it is forgotten: the flag is cleared first.
THEOREM DeferralHonoured ==
  ASSUME NothingRefused
  PROVE  Spec => DeferredTickRuns
  <1>1. Init => DeferInv
    <2>1. Init => TypeOK /\ pc = "idle" /\ mem = status
      BY TypeInit DEF Init
    <2>. QED
      BY <2>1 DEF DeferInv
  <1>2. DeferInv /\ [Next]_vars => DeferInv'
    BY DeferNext
  <1>3. DeferInv /\ [Next]_vars
        => [(status.deferCronIngest /\ ~status'.deferCronIngest)
              => status'.activeJob # None]_vars
    <2>. SUFFICES ASSUME DeferInv, [Next]_vars,
                         status.deferCronIngest, ~status'.deferCronIngest
                  PROVE  status'.activeJob # None
      OBVIOUS
    <2>1. CASE StatusUpdate
      BY <2>1 DEF StatusUpdate, DeferInv
    <2>2. CASE ~StatusUpdate
      <3>1. status' = status
        BY <2>2, OthersKeepPass, ReturnsKeepStatus, FinalizeEvalFields
        DEF DeferInv, Next, Reconcile, Refused, ActiveJobStep, DecideStep, BlockedOnIdentity,
            ReflectSuspend, BeginPass, CancelStaleIngest, ClearTimedOut, ForgetMissing,
            AwaitRunning, FinalizeFailedIngest, FinalizeIngest, RefuseOversize,
            IngestOverQuota, CreateIngestJob, RecordIngest, RunOverQuota, EvalOverQuota,
            StartEval, Persist, EndPass, vars
      <3>. QED
        BY <3>1
    <2>. QED
      BY <2>1, <2>2
  <1>. QED
    BY <1>1, <1>2, <1>3, PTL DEF Spec, DeferredTickRuns

-----------------------------------------------------------------------------
(* Phase Ingesting.                                                        *)

\* Nothing breaks a pass off between the Job it decides on and its record.
PassesEnd == Faults \intersect {"crash", "quota"} = {}

\* A deferred fire of the schedule is the only reason for the next ingestion.
DeferredAlone ==
  /\ pc = "decide" /\ mem.deferCronIngest
  /\ mem.observedSpecHash = seen.spec /\ ~mem.pendingRetune /\ ~clock.freshDue

\* A reason to ingest `spec' that lasts until it is ingested.
Owes(older, st, spec) ==
  \/ st.observedSpecHash = None \/ st.pendingRetune
  \/ <<st.observedSpecHash, spec>> \in older
  \/ clock.freshDue

\* Phase Ingesting goes with a Job, whose reason lasts.
Awaits(older, st) ==
  st.phase = "Ingesting" => IsIngest(st.activeJob) /\ Owes(older, st, st.activeJob.spec)

NotRefused(st) == st.phase = "Ingesting" => st.oversize = 0

\* The round in memory covers every Job for an ingestion.
RoundsUsed ==
  /\ pc \notin {"record", "persist"} => mem.ingestRound = status.ingestRound
  /\ \A j \in jobs : j.name.type = "ingest" => j.name.round <= mem.ingestRound

\* Without the Job, the pass is about to create the next one.
PassAwaits(older) ==
  /\ pc \in {"idle", "active"} => Awaits(older, status)
  /\ pc = "active" => mem.activeJob = status.activeJob /\ mem.activeJob # None
  /\ pc = "decide" => mem.activeJob = None
  /\ pc \in {"active", "decide"} =>
       /\ mem.phase = status.phase
       /\ mem.phase = "Ingesting" => Owes(older, mem, seen.spec)
  /\ pc = "record" => Owes(older, mem, seen.spec)
  /\ (pc = "persist" /\ next = "idle") => Awaits(older, mem)
  /\ (pc = "persist" /\ next = "decide") =>
       /\ mem.activeJob = None
       /\ mem.phase = "Ingesting" => Owes(older, mem, seen.spec)
  /\ (pc = "persist" /\ next = "cleanup") => mem.phase # "Ingesting"
  /\ pc = "cleanup" => status.phase # "Ingesting"

\* Only a finished ingestion changes what is recorded as indexed.
ObservedKept ==
  /\ ~(pc = "persist" /\ next = "cleanup") => mem.observedSpecHash = status.observedSpecHash
  /\ (pc = "persist" /\ stamp = "indexed") => next = "cleanup"

PhaseInv(older) ==
  /\ ForwardInv(older) /\ RoundsUsed
  /\ NotRefused(status) /\ NotRefused(mem)
  /\ PassAwaits(older) /\ ObservedKept

\* Every Job for an ingestion that CreateIngestJob has not just made was there.
LEMMA OldIngests ==
  ASSUME TypeOK, [Next]_vars, ~CreateIngestJob
  PROVE  \A k \in jobs' : k.name.type = "ingest" => \E j \in jobs : j.name = k.name
  <1>1. \A k \in NewIngests : FALSE
    BY NewIngestIsNext
  <1>. QED
    BY <1>1 DEF NewIngests, Named

\* A pass that owes an ingestion finds it due, and creates its Job.
LEMMA OwedIsDue ==
  ASSUME NEW older \in SUBSET (Specs \X Specs), Order(older), TypeOK,
         pc = "decide", Owes(older, mem, seen.spec)
  PROVE  NeedsIngest # "none"
  <1>1. mem.observedSpecHash # seen.spec \/ <<seen.spec, seen.spec>> \notin older
    BY ReachesOn
  <1>2. mem.pendingRetune \in BOOLEAN /\ clock.freshDue \in BOOLEAN
    BY DEF TypeOK, Statuses
  <1>. QED
    BY <1>1, <1>2, ReachesOn DEF NeedsIngest, Owes

\* A new KnowledgeBase is not ingesting.
LEMMA PhaseInit ==
  ASSUME NEW older
  PROVE  Init => PhaseInv(older)
  <1>. SUFFICES ASSUME Init PROVE PhaseInv(older)
    OBVIOUS
  <1>1. ForwardInv(older)
    BY ForwardInit
  <1>2. /\ pc = "idle" /\ mem = status /\ jobs = {}
        /\ status.phase = "" /\ mem.phase = ""
    BY DEF Init, InitialStatus
  <1>. QED
    BY <1>1, <1>2
    DEF PhaseInv, RoundsUsed, NotRefused, PassAwaits, ObservedKept, Awaits

\* The reason for which a KnowledgeBase is ingesting lasts until the ingestion is
\* finalized: a Job that is cancelled or lost is followed by the next one within
\* the pass, unless a deferred fire was all it was for.
LEMMA PhaseNext ==
  ASSUME NEW older \in SUBSET (Specs \X Specs), Order(older), PassesEnd
  PROVE  PhaseInv(older) /\ ~DeferredAlone /\ [Next]_vars => PhaseInv(older)'
  <1>. SUFFICES ASSUME PhaseInv(older), ~DeferredAlone, [Next]_vars PROVE PhaseInv(older)'
    OBVIOUS
  <1>1. ForwardInv(older)' /\ TypeOK'
    BY ForwardNext DEF PhaseInv, ForwardInv
  <1>2. /\ status \in Statuses /\ mem \in Statuses /\ TypeOK /\ mem' \in Statuses
        /\ mem.ingestRound \in Nat /\ mem'.ingestRound \in Nat
    BY <1>1 DEF PhaseInv, ForwardInv, TypeOK, Statuses
  <1>3. ASSUME NEW j \in jobs \union jobs', j.name.type = "ingest"
        PROVE  j.name.round \in Nat
    <2>1. j.name \in Names
      BY <1>1, <1>2 DEF TypeOK, Jobs
    <2>. QED
      BY <2>1 DEF Names, IngestNames, EvalNames
  \* What is said of Jobs, as long as the round does not go back.
  <1>4. ASSUME ~CreateIngestJob, mem.ingestRound <= mem'.ingestRound
        PROVE  \A j \in jobs' : j.name.type = "ingest" => j.name.round <= mem'.ingestRound
    <2>. TAKE j \in jobs'
    <2>. HAVE j.name.type = "ingest"
    <2>1. PICK i \in jobs : i.name = j.name
      BY <1>2, <1>4, OldIngests
    <2>2. i.name.round \in Nat /\ i.name.round <= mem.ingestRound
      BY <1>3, <2>1 DEF PhaseInv, RoundsUsed
    <2>. QED
      BY <1>2, <1>4, <2>1, <2>2
  \* The pass has edited its copy and persists it.
  <1>5. ASSUME pc' = "persist", UNCHANGED <<status, seen, clock>>, ~CreateIngestJob,
               mem.ingestRound <= mem'.ingestRound, NotRefused(mem'),
               IF next' = "cleanup"
                 THEN mem'.phase # "Ingesting"
                 ELSE stamp' # "indexed" /\ mem'.observedSpecHash = status.observedSpecHash,
               next' = "idle" => Awaits(older, mem'),
               next' = "decide" =>
                 /\ mem'.activeJob = None
                 /\ mem'.phase = "Ingesting" => Owes(older, mem', seen.spec)
        PROVE  PhaseInv(older)'
    BY <1>1, <1>4, <1>5
    DEF PhaseInv, RoundsUsed, NotRefused, PassAwaits, ObservedKept, Awaits, Owes
  \* The pass returns with nothing to persist.
  <1>6. ASSUME EndPass, UNCHANGED clock, ~CreateIngestJob, pc \notin {"record", "persist"},
               Awaits(older, status)
        PROVE  PhaseInv(older)'
    <2>1. pc' = "idle" /\ mem' = status /\ status' = status
      BY <1>6 DEF EndPass
    <2>2. mem.ingestRound <= mem'.ingestRound
      BY <1>2, <1>6, <2>1 DEF PhaseInv, RoundsUsed
    <2>. QED
      BY <1>1, <1>4, <1>6, <2>1, <2>2
      DEF PhaseInv, RoundsUsed, NotRefused, PassAwaits, ObservedKept, Awaits, Owes
  <1>7. CASE BlockedOnIdentity \/ ReflectSuspend
    <2>1. /\ pc = "idle" /\ pc' = "persist" /\ next' = "idle" /\ stamp' = "none"
          /\ status' = status /\ clock' = clock
          /\ mem'.phase # "Ingesting"
          /\ mem'.observedSpecHash = status.observedSpecHash
          /\ mem'.ingestRound = status.ingestRound
      BY <1>2, <1>7 DEF BlockedOnIdentity, ReflectSuspend, Persist, Statuses
    <2>2. ~CreateIngestJob /\ mem.ingestRound <= mem'.ingestRound
      BY <1>2, <2>1 DEF CreateIngestJob, MayWork, PhaseInv, RoundsUsed
    <2>. QED
      BY <1>1, <1>4, <2>1, <2>2
      DEF PhaseInv, RoundsUsed, NotRefused, PassAwaits, ObservedKept, Awaits
  <1>8. CASE BeginPass
    <2>1. /\ pc = "idle" /\ status' = status /\ clock' = clock /\ kb' = kb /\ seen' = kb
          /\ pc' = IF status.activeJob = None THEN "decide" ELSE "active"
          /\ mem' = DropStaleTuning(status, kb.spec)
      BY <1>8 DEF BeginPass
    <2>2. /\ mem'.phase = status.phase /\ mem'.activeJob = status.activeJob
          /\ mem'.observedSpecHash = status.observedSpecHash
          /\ mem'.ingestRound = status.ingestRound /\ mem'.oversize = status.oversize
          /\ \/ mem'.pendingRetune = status.pendingRetune
             \/ /\ status.observedSpecHash # None
                /\ status.observedSpecHash # kb.spec
      BY <1>2, <2>1, DropStaleTuningFields
    <2>3. ~CreateIngestJob /\ mem.ingestRound <= mem'.ingestRound
      BY <1>2, <2>1, <2>2 DEF CreateIngestJob, MayWork, PhaseInv, RoundsUsed
    <2>4. ASSUME status.phase = "Ingesting"
          PROVE  status.activeJob # None /\ Owes(older, mem', kb.spec)
      <3>1. IsIngest(status.activeJob) /\ Owes(older, status, status.activeJob.spec)
        BY <2>1, <2>4 DEF PhaseInv, PassAwaits, Awaits
      <3>2. Reaches(older, status.activeJob.spec, kb.spec)
        BY <3>1 DEF PhaseInv, ForwardInv, StatusBehind
      <3>3. status.observedSpecHash # None
            => Reaches(older, status.observedSpecHash, kb.spec)
        BY DEF PhaseInv, ForwardInv, StatusBehind
      <3>. QED
        BY <2>2, <3>1, <3>2, <3>3, ReachesOn DEF Owes, IsIngest, Reaches
    <2>. QED
      BY <1>1, <1>4, <2>1, <2>2, <2>3, <2>4
      DEF PhaseInv, RoundsUsed, NotRefused, PassAwaits, ObservedKept, Awaits, Owes
  \* The active Job is cancelled or gone, and what it was for is still owed.
  <1>9. CASE CancelStaleIngest \/ ForgetMissing
    <2>1. /\ pc = "active" /\ pc' = "persist" /\ next' = "decide" /\ stamp' = "none"
          /\ UNCHANGED <<status, seen, clock>>
          /\ mem'.activeJob = None /\ mem'.phase = mem.phase
          /\ mem'.observedSpecHash = mem.observedSpecHash
          /\ mem'.pendingRetune = mem.pendingRetune
          /\ mem'.ingestRound = mem.ingestRound /\ mem'.oversize = mem.oversize
      BY <1>2, <1>9 DEF CancelStaleIngest, ForgetMissing, Persist, Statuses
    <2>2. ~CreateIngestJob
      BY <2>1 DEF CreateIngestJob, MayWork
    <2>. QED
      BY <1>2, <1>5, <2>1, <2>2
      DEF PhaseInv, NotRefused, PassAwaits, ObservedKept, Owes
  <1>10. CASE ClearTimedOut
    <2>1. /\ pc = "active" /\ pc' = "persist" /\ next' = "decide" /\ stamp' = "failed"
          /\ UNCHANGED <<status, seen, clock>>
          /\ mem'.activeJob = None /\ mem'.phase = "Failed"
          /\ mem'.observedSpecHash = mem.observedSpecHash
          /\ mem'.ingestRound = mem.ingestRound
      BY <1>2, <1>10 DEF ClearTimedOut, Persist, Statuses
    <2>2. ~CreateIngestJob
      BY <2>1 DEF CreateIngestJob, MayWork
    <2>. QED
      BY <1>2, <1>5, <2>1, <2>2 DEF PhaseInv, NotRefused, ObservedKept
  <1>11. CASE AwaitRunning
    <2>1. pc = "active" /\ UNCHANGED <<status, clock>> /\ ~CreateIngestJob
      BY <1>11 DEF AwaitRunning, Persist, EndPass, CreateIngestJob, MayWork
    <2>2. CASE EndPass
      BY <1>6, <2>1, <2>2 DEF PhaseInv, PassAwaits
    <2>3. CASE /\ clock.freshDue
               /\ Persist([mem EXCEPT !.deferCronIngest = TRUE], "none", "idle")
               /\ UNCHANGED seen
      <3>1. /\ pc' = "persist" /\ next' = "idle" /\ stamp' = "none"
            /\ mem'.phase = mem.phase /\ mem'.activeJob = mem.activeJob
            /\ mem'.observedSpecHash = mem.observedSpecHash
            /\ mem'.ingestRound = mem.ingestRound /\ mem'.oversize = mem.oversize
        BY <1>2, <2>3 DEF Persist, Statuses
      <3>2. mem.phase = "Ingesting" => IsIngest(mem.activeJob)
        BY <2>1 DEF PhaseInv, PassAwaits, Awaits
      <3>. QED
        BY <1>2, <1>5, <2>1, <2>3, <3>1, <3>2
        DEF PhaseInv, NotRefused, ObservedKept, Awaits, Owes
    <2>. QED
      BY <1>11, <2>2, <2>3 DEF AwaitRunning
  <1>12. CASE FinalizeFailedIngest \/ FinalizeIngest
    <2>1. /\ pc = "active" /\ pc' = "persist" /\ next' = "cleanup"
          /\ UNCHANGED <<status, seen, clock>>
          /\ mem'.phase # "Ingesting" /\ mem'.ingestRound = mem.ingestRound
      BY <1>2, <1>12 DEF FinalizeFailedIngest, FinalizeIngest, Persist, Statuses
    <2>2. ~CreateIngestJob
      BY <2>1 DEF CreateIngestJob, MayWork
    <2>. QED
      BY <1>2, <1>5, <2>1, <2>2 DEF NotRefused
  <1>13. CASE CleanUpIngest
    <2>1. pc = "cleanup" /\ EndPass /\ clock' = clock /\ status.phase # "Ingesting"
      BY <1>13 DEF CleanUpIngest, PhaseInv, PassAwaits
    <2>. QED
      BY <1>6, <2>1 DEF CreateIngestJob, MayWork, Awaits
  <1>14. CASE AwaitResult
    <2>1. pc = "active" /\ EndPass /\ clock' = clock
      BY <1>14 DEF AwaitResult
    <2>. QED
      BY <1>6, <2>1 DEF CreateIngestJob, MayWork, PhaseInv, PassAwaits
  <1>15. CASE FinalizeEval
    <2>1. /\ pc = "active" /\ IsEval(mem.activeJob)
          /\ pc' = "persist" /\ next' = "idle" /\ stamp' # "indexed"
          /\ UNCHANGED <<status, seen, clock>>
          /\ mem'.phase \in {mem.phase, "Ready", "Degraded"}
          /\ mem'.observedSpecHash = mem.observedSpecHash
          /\ mem'.ingestRound = mem.ingestRound
      BY <1>2, <1>15, FinalizeEvalFields
    <2>2. mem.phase # "Ingesting"
      BY <2>1 DEF PhaseInv, PassAwaits, Awaits, IsEval, IsIngest
    <2>3. ~CreateIngestJob
      BY <2>1 DEF CreateIngestJob, MayWork
    <2>. QED
      BY <1>2, <1>5, <2>1, <2>2, <2>3 DEF PhaseInv, NotRefused, ObservedKept, Awaits
  \* Nothing lets a pass rest that is left in phase Ingesting without a Job.
  <1>16. ASSUME pc = "decide", mem.phase = "Ingesting"
         PROVE  /\ NeedsIngest # "none" /\ ~CoolingDown /\ ~SpecConfigTooLargeUnchanged
                /\ ~EvalDue
    <2>1. Owes(older, mem, seen.spec) /\ mem.oversize = 0
      BY <1>16 DEF PhaseInv, PassAwaits, NotRefused
    <2>2. seen.generation # 0
      BY <1>2, <1>16 DEF TypeOK, KnowledgeBases
    <2>. QED
      BY <1>2, <1>16, <2>1, <2>2, OwedIsDue
      DEF CoolingDown, SpecConfigTooLargeUnchanged, EvalDue
  <1>17. /\ NextRound \in Statuses /\ NextRound.phase = mem.phase
         /\ NextRound.observedSpecHash = mem.observedSpecHash
         /\ NextRound.pendingRetune = mem.pendingRetune
         /\ NextRound.activeJob = mem.activeJob /\ NextRound.oversize = mem.oversize
         /\ NextRound.ingestRound = mem.ingestRound + 1
    BY <1>2, NextRoundType DEF NextRound, Statuses
  <1>18. NextIngest.round = mem.ingestRound + 1 /\ NextIngest.type = "ingest"
    BY <1>17 DEF NextIngest, IngestName
  <1>19. pc = "decide" => Named(NextIngest) = {}
    <2>1. \A j \in jobs : j.name.type = "ingest" => j.name.round < NextIngest.round
      BY <1>2, <1>3, <1>18 DEF PhaseInv, RoundsUsed
    <2>. QED
      BY <1>2, <1>18, <2>1 DEF Named
  <1>20. CASE Rest \/ IngestJobExists \/ EvalJobExists
    <2>1. pc = "decide" /\ EndPass /\ clock' = clock /\ jobs' = jobs
      BY <1>20 DEF Rest, IngestJobExists, EvalJobExists, MayWork
    <2>2. mem.phase # "Ingesting"
      BY <1>16, <1>19, <1>20, <2>1 DEF Rest, IngestJobExists, EvalJobExists
    <2>. QED
      BY <1>6, <2>1, <2>2 DEF CreateIngestJob, EndPass, PhaseInv, PassAwaits, Awaits
  <1>21. CASE RefuseOversize
    <2>1. /\ pc = "decide" /\ pc' = "persist" /\ next' = "idle" /\ stamp' = "none"
          /\ UNCHANGED <<status, seen, clock>>
          /\ mem'.phase = "Failed" /\ mem'.observedSpecHash = mem.observedSpecHash
          /\ mem'.ingestRound = mem.ingestRound + 1
      BY <1>17, <1>21 DEF RefuseOversize, MayWork, Persist, Statuses
    <2>. QED
      BY <1>2, <1>5, <2>1 DEF CreateIngestJob, PhaseInv, NotRefused, ObservedKept, Awaits
  <1>22. CASE CreateIngestJob
    <2>1. /\ pc = "decide" /\ pc' = "record" /\ mem' = NextRound
          /\ NeedsIngest # "none"
          /\ UNCHANGED <<status, seen, clock>>
          /\ jobs' = jobs \union {NewJob(NextIngest)}
      BY <1>22 DEF CreateIngestJob, MayWork
    <2>2. Owes(older, mem, seen.spec)
      <3>1. mem.observedSpecHash # None => Reaches(older, mem.observedSpecHash, seen.spec)
        BY <2>1 DEF PhaseInv, ForwardInv, StatusBehind
      <3>. QED
        BY <2>1, <3>1 DEF NeedsIngest, DeferredAlone, Owes, Reaches
    <2>3. NewJob(NextIngest).name = NextIngest
      BY DEF NewJob
    <2>4. RoundsUsed'
      BY <1>2, <1>3, <1>17, <1>18, <2>1, <2>3 DEF PhaseInv, RoundsUsed
    <2>. QED
      BY <1>1, <1>17, <2>1, <2>2, <2>4
      DEF PhaseInv, NotRefused, PassAwaits, ObservedKept, Owes
  <1>23. CASE RecordIngest
    <2>1. /\ pc = "record" /\ pc' = "persist" /\ next' = "idle" /\ stamp' = "none"
          /\ UNCHANGED <<status, seen, clock>>
          /\ mem'.phase = "Ingesting" /\ mem'.activeJob = current /\ mem'.oversize = 0
          /\ mem'.observedSpecHash = mem.observedSpecHash
          /\ mem'.pendingRetune = mem.pendingRetune
          /\ mem'.ingestRound = mem.ingestRound
      BY <1>2, <1>23 DEF RecordIngest, Persist, Statuses
    <2>2. IsIngest(current) /\ current.spec = seen.spec
      BY <1>2, <2>1, NameAssumption
      DEF TypeOK, Names, IngestNames, IsIngest, PhaseInv, ForwardInv
    <2>3. ~CreateIngestJob
      BY <2>1 DEF CreateIngestJob, MayWork
    <2>. QED
      BY <1>2, <1>5, <2>1, <2>2, <2>3
      DEF PhaseInv, NotRefused, PassAwaits, ObservedKept, Awaits, Owes
  <1>24. CASE StartEval
    <2>1. /\ pc = "decide" /\ pc' = "persist" /\ next' = "idle" /\ stamp' = "none"
          /\ UNCHANGED <<status, seen, clock>>
          /\ mem'.phase \in {"Ready", "Degraded"}
          /\ mem'.observedSpecHash = mem.observedSpecHash
          /\ mem'.ingestRound = mem.ingestRound
      BY <1>2, <1>24, NextEvalRoundType
      DEF StartEval, MayWork, EvalDue, NextEvalRound, Persist, Statuses
    <2>. QED
      BY <1>2, <1>5, <2>1 DEF CreateIngestJob, PhaseInv, NotRefused, ObservedKept, Awaits
  <1>25. CASE StatusUpdate
    <2>1. /\ pc = "persist" /\ status' = mem /\ mem' = mem /\ pc' = next
          /\ next # "idle" => seen' = seen
          /\ next \in {"idle", "decide", "cleanup"} /\ next' = "idle" /\ stamp' = "none"
          /\ next # "cleanup" => clock'.freshDue = clock.freshDue
      BY <1>2, <1>25 DEF StatusUpdate, TypeOK, PhaseInv, ObservedKept
    <2>2. ~CreateIngestJob /\ mem.ingestRound <= mem'.ingestRound
      BY <1>2, <2>1 DEF CreateIngestJob, MayWork
    <2>. QED
      BY <1>1, <1>4, <2>1, <2>2
      DEF PhaseInv, RoundsUsed, NotRefused, PassAwaits, ObservedKept, Awaits, Owes
  <1>26. CASE IngestOverQuota \/ RunOverQuota \/ EvalOverQuota \/ PassFails
    BY <1>26 DEF IngestOverQuota, RunOverQuota, EvalOverQuota, PassFails, Fault, PassesEnd
  \* Users, time, Jobs and workers: what is owed stays owed.
  <1>27. ASSUME UNCHANGED <<status, pc, mem, stamp, next>>, pc # "idle" => seen' = seen,
                ~CreateIngestJob,
                clock.freshDue => clock'.freshDue \/ status.observedSpecHash = None
         PROVE  PhaseInv(older)'
    <2>1. mem.ingestRound <= mem'.ingestRound
      BY <1>2, <1>27
    <2>. QED
      BY <1>1, <1>4, <1>27, <2>1
      DEF PhaseInv, RoundsUsed, NotRefused, PassAwaits, ObservedKept, Awaits, Owes
  <1>28. CASE \/ Worker \/ Cluster \/ ExpireJob \/ CooldownElapses \/ User \/ Time
    <2>1. UNCHANGED <<status, pc, mem, seen, current, stamp, next>>
      BY <1>28, OthersKeepPass
    <2>2. clock.freshDue => clock'.freshDue \/ status.observedSpecHash = None
      BY <1>2, <1>28
      DEF Worker, Cluster, ExpireJob, CooldownElapses, User, Time, PromoteShadow,
          SkipUnchanged, LingeringPodDies, FinishIngest, FinishEval, LoseResult, FailJob,
          JobOverdue, ExpireUnseenJob, EditSpec, RotateSecret, ToggleSuspend,
          FreshnessTick, TickExpires, EvalTick, TypeOK
    <2>3. ~CreateIngestJob
      BY <2>1 DEF CreateIngestJob, MayWork
    <2>. QED
      BY <1>27, <2>1, <2>2, <2>3
  <1>29. CASE UNCHANGED vars
    BY <1>27, <1>29 DEF vars, passVars, CreateIngestJob, MayWork
  <1>. QED
    BY <1>7, <1>8, <1>9, <1>10, <1>11, <1>12, <1>13, <1>14, <1>15, <1>20, <1>21, <1>22,
       <1>23, <1>24, <1>25, <1>26, <1>28, <1>29
    DEF Next, Reconcile, Refused, ActiveJobStep, DecideStep

\* README and RUNBOOK, phase Ingesting "a Job is in flight": where users only
\* move forward and a pass that begins also ends, no pass leaves the phase behind
\* without an active Job, as long as no next ingestion is owed to a deferred fire
\* alone.
THEOREM IngestingAwaitsJob ==
  ASSUME NeverBack, PassesEnd
  PROVE  Spec /\ []~DeferredAlone => []IngestingHasJob
  <1>1. PICK older \in SUBSET (Specs \X Specs) : Order(older)
    BY DEF NeverBack
  <1>2. PhaseInv(older) => IngestingHasJob
    BY DEF PhaseInv, PassAwaits, Awaits, IsIngest, IngestingHasJob
  <1>3. Init => PhaseInv(older)
    BY PhaseInit
  <1>4. PhaseInv(older) /\ ~DeferredAlone /\ [Next]_vars => PhaseInv(older)'
    BY <1>1, PhaseNext
  <1>. QED
    BY <1>2, <1>3, <1>4, PTL DEF Spec

\* Without a freshness schedule nothing is deferred.
NoSchedule == "tick" \notin Faults

NothingDeferred ==
  TypeOK /\ ~clock.freshDue /\ ~status.deferCronIngest /\ ~mem.deferCronIngest

\* A fire that never happens is never deferred.
LEMMA ScheduleNext ==
  ASSUME NoSchedule
  PROVE  NothingDeferred /\ [Next]_vars => NothingDeferred'
  <1>. SUFFICES ASSUME NothingDeferred, [Next]_vars PROVE NothingDeferred'
    OBVIOUS
  <1>1. TypeOK'
    BY TypeNext DEF NothingDeferred
  <1>2. /\ status \in Statuses /\ mem \in Statuses
        /\ clock \in [freshDue: BOOLEAN, evalDue: BOOLEAN, cooling: BOOLEAN]
    BY DEF NothingDeferred, TypeOK
  <1>3. CASE Worker \/ Cluster \/ ExpireJob \/ CooldownElapses \/ User \/ Time
    <2>1. UNCHANGED <<status, mem>>
      BY <1>3, OthersKeepPass
    <2>2. ~clock'.freshDue
      BY <1>2, <1>3
      DEF Worker, Cluster, ExpireJob, CooldownElapses, User, Time, PromoteShadow,
          SkipUnchanged, LingeringPodDies, FinishIngest, FinishEval, LoseResult, FailJob,
          JobOverdue, ExpireUnseenJob, EditSpec, RotateSecret, ToggleSuspend,
          FreshnessTick, TickExpires, EvalTick, NothingDeferred, NoSchedule, Fault
    <2>. QED
      BY <1>1, <2>1, <2>2 DEF NothingDeferred
  <1>4. ASSUME clock' = clock, status' = status,
               mem'.deferCronIngest \in {FALSE, status.deferCronIngest, mem.deferCronIngest}
        PROVE  NothingDeferred'
    BY <1>1, <1>4 DEF NothingDeferred
  <1>5. ASSUME EndPass, clock' = clock
        PROVE  NothingDeferred'
    BY <1>4, <1>5 DEF EndPass
  <1>6. CASE BlockedOnIdentity \/ ReflectSuspend
    <2>1. /\ clock' = clock /\ status' = status
          /\ mem'.deferCronIngest = status.deferCronIngest
      BY <1>2, <1>6 DEF BlockedOnIdentity, ReflectSuspend, Persist, Statuses
    <2>. QED
      BY <1>4, <2>1
  <1>7. CASE BeginPass
    <2>1. clock' = clock /\ status' = status /\ mem' = DropStaleTuning(status, kb.spec)
      BY <1>7 DEF BeginPass
    <2>2. mem'.deferCronIngest = status.deferCronIngest
      BY <1>2, <2>1, DropStaleTuningFields
    <2>. QED
      BY <1>4, <2>1, <2>2
  <1>8. CASE \/ CancelStaleIngest \/ ClearTimedOut \/ ForgetMissing
             \/ FinalizeFailedIngest \/ FinalizeIngest
    <2>1. /\ clock' = clock /\ status' = status
          /\ mem'.deferCronIngest = mem.deferCronIngest
      BY <1>2, <1>8
      DEF CancelStaleIngest, ClearTimedOut, ForgetMissing, FinalizeFailedIngest,
          FinalizeIngest, Persist, Statuses
    <2>. QED
      BY <1>4, <2>1
  <1>9. CASE AwaitRunning \/ AwaitResult \/ CleanUpIngest \/ Rest \/ IngestJobExists
               \/ EvalJobExists \/ PassFails
    <2>1. EndPass /\ clock' = clock
      BY <1>9
      DEF AwaitRunning, AwaitResult, CleanUpIngest, Rest, IngestJobExists,
          EvalJobExists, PassFails, NothingDeferred
    <2>. QED
      BY <1>5, <2>1
  <1>10. CASE FinalizeEval
    <2>1. /\ clock' = clock /\ status' = status
          /\ mem'.deferCronIngest = mem.deferCronIngest
      BY <1>10, FinalizeEvalFields DEF NothingDeferred
    <2>. QED
      BY <1>4, <2>1
  <1>11. ~NextRound.deferCronIngest /\ NextEvalRound.deferCronIngest = mem.deferCronIngest
    BY <1>2 DEF NextRound, NextEvalRound, Statuses
  <1>12. CASE \/ RefuseOversize \/ CreateIngestJob \/ RecordIngest \/ StartEval
              \/ IngestOverQuota \/ RunOverQuota \/ EvalOverQuota
    <2>1. NextRound \in Statuses /\ NextEvalRound \in Statuses
      BY <1>2, NextRoundType, NextEvalRoundType
    <2>2. /\ clock' = clock /\ status' = status
          /\ mem'.deferCronIngest \in {FALSE, mem.deferCronIngest}
      BY <1>2, <1>11, <1>12, <2>1
      DEF RefuseOversize, CreateIngestJob, RecordIngest, StartEval, IngestOverQuota,
          RunOverQuota, EvalOverQuota, Persist, Statuses
    <2>. QED
      BY <1>4, <2>2
  <1>13. CASE StatusUpdate
    <2>1. status' = mem /\ mem' = mem /\ ~clock'.freshDue
      BY <1>2, <1>13 DEF StatusUpdate, NothingDeferred
    <2>. QED
      BY <1>1, <2>1 DEF NothingDeferred
  <1>14. CASE UNCHANGED vars
    BY <1>1, <1>14 DEF vars, passVars, NothingDeferred
  <1>. QED
    BY <1>3, <1>6, <1>7, <1>8, <1>9, <1>10, <1>12, <1>13, <1>14
    DEF Next, Reconcile, Refused, ActiveJobStep, DecideStep

\* In particular: where there is no freshness schedule, phase Ingesting always
\* has its Job.
THEOREM IngestingAwaitsJobUnscheduled ==
  ASSUME NeverBack, PassesEnd, NoSchedule
  PROVE  Spec => []IngestingHasJob
  <1>1. Init => NothingDeferred
    <2>. SUFFICES ASSUME Init PROVE NothingDeferred
      OBVIOUS
    <2>1. TypeOK
      BY TypeInit
    <2>. QED
      BY <2>1 DEF Init, InitialStatus, NothingDeferred
  <1>2. NothingDeferred /\ [Next]_vars => NothingDeferred'
    BY ScheduleNext
  <1>3. NothingDeferred => ~DeferredAlone
    BY DEF NothingDeferred, DeferredAlone
  <1>4. Spec => []~DeferredAlone
    BY <1>1, <1>2, <1>3, PTL DEF Spec
  <1>5. Spec /\ []~DeferredAlone => []IngestingHasJob
    BY IngestingAwaitsJob
  <1>. QED
    BY <1>4, <1>5, PTL

=============================================================================
