------------------------ MODULE DataLifecycleProofs ------------------------
(***************************************************************************)
(* Proofs about DataLifecycle, for any number of Jobs, pages and           *)
(* disturbances of every kind: type correctness, that a completed Backup's *)
(* archive is there, and that readers are only moved to a restored         *)
(* collection that equals its archive.                                     *)
(***************************************************************************)
EXTENDS DataLifecycle, TLAPS

-----------------------------------------------------------------------------
(* The inductive invariant.  Archives do not change once their Job has     *)
(* ended, and every Job's data is related to the archive it is from.       *)

\* An archive that nobody writes any more.
Final(l) == l # None /\ l <= used /\ uploads[l] # None /\ ~Running(l)

\* What is in the shadow is what was sent, or less.
Filled(j) ==
  /\ jobs[j].sent <= Len(jobs[j].got)
  /\ Len(collections[j]) <= jobs[j].sent
  /\ Len(collections[j]) = jobs[j].sent =>
       \A n \in 1..jobs[j].sent : collections[j][n] = jobs[j].got[n]

JobOK(j) ==
  jobs[j] # None =>
    /\ j <= used
    /\ (jobs[j].kind = "cleanup") <=> (j = Cleanup)
    /\ jobs[j].kind = "backup" /\ (jobs[j].state = "complete" \/ jobs[j].step = "report") =>
         uploads[j] # None
    /\ jobs[j].kind = "restore" =>
         /\ Final(jobs[j].from)
         /\ jobs[j].step \in {"download", "recreate"} => jobs[j].sent = 0
         /\ jobs[j].step \in Staged => jobs[j].got = uploads[jobs[j].from]
         /\ jobs[j].step \in {"fill", "verify"} /\ collections[j] # None => Filled(j)
         /\ jobs[j].step \in {"find", "moveAlias"} /\ collections[j] # None =>
              collections[j] = jobs[j].got

\* The Backup names its Job as its id, and its archive once it is completed.
IsBackup(j) == j <= used /\ (jobs[j] # None => jobs[j].kind = "backup")

BackupOK ==
  LET b == obj["backup"]
  IN b # None =>
       /\ b.job # None => b.id = b.job /\ IsBackup(b.job)
       /\ b.phase = "Completed" => b.location = b.id /\ Final(b.location)

PassOK ==
  /\ \A o \in Objects : pass[o] # None => obj[o] # None
  /\ LET p == pass["backup"]
     IN p # None =>
          /\ IsBackup(p.job)
          /\ p.stage = "consumed" => p.job = obj["backup"].id /\ Final(p.job)

LifecycleInv == TypeOK /\ (\A j \in JobNames : JobOK(j)) /\ BackupOK /\ PassOK

-----------------------------------------------------------------------------
(* Facts about Jobs.                                                       *)

LEMMA JobType ==
  ASSUME StoreTypeOK, NEW j \in JobNames, jobs[j] # None
  PROVE  jobs[j] \in Jobs
  BY DEF StoreTypeOK

\* A step that changes one Job.
LEMMA JobsType ==
  ASSUME StoreTypeOK, NEW j \in JobNames, NEW job \in Jobs \union {None},
         jobs' = [jobs EXCEPT ![j] = job]
  PROVE  /\ jobs' \in [JobNames -> Jobs \union {None}]
         /\ jobs'[j] = job
         /\ \A i \in JobNames : i # j => jobs'[i] = jobs[i]
  BY DEF StoreTypeOK

LEMMA FreshType ==
  ASSUME NEW job \in Jobs
  PROVE  /\ Fresh(job) \in Jobs
         /\ Fresh(job).kind = job.kind
         /\ Fresh(job).from = job.from
         /\ Fresh(job).state = job.state
         /\ Fresh(job).retries = job.retries
         /\ Fresh(job).sent = 0
         /\ Fresh(job).target = None
         /\ Fresh(job).step \in {"export", "download", "find"}
         /\ job.kind = "restore" => Fresh(job).step = "download"
         /\ job.kind # "cleanup" => Fresh(job).step # "find"
  <1>1. /\ job.kind \in Kinds
        /\ job.kind = "backup" => FirstStep(job.kind) = "export"
        /\ job.kind = "restore" => FirstStep(job.kind) = "download"
        /\ job.kind = "cleanup" => FirstStep(job.kind) = "find"
    BY DEF Jobs, Kinds, FirstStep
  <1>2. FirstStep(job.kind) \in {"export", "download", "find"}
    BY <1>1 DEF Kinds
  <1> DEFINE first == FirstStep(job.kind)
  <1>3. Fresh(job) = [job EXCEPT !.step = first, !.got = <<>>, !.sent = 0, !.target = None]
    BY DEF Fresh
  <1> HIDE DEF first
  <1>4. first \in Steps
    BY <1>2 DEF Steps, first
  <1> DEFINE empty == <<>>
  <1>a. empty \in Seq(Ids) /\ 0 \in Nat
    OBVIOUS
  <1>b. <<>> = empty
    OBVIOUS
  <1> HIDE DEF empty
  <1>5. Fresh(job) \in Jobs
    <2>1. Fresh(job) = [job EXCEPT !.step = first, !.got = empty, !.sent = 0, !.target = None]
      BY <1>3, <1>b
    <2>2. QED
      BY <2>1, <1>a, <1>4 DEF Jobs
  <1>6. /\ Fresh(job).kind = job.kind
        /\ Fresh(job).from = job.from
        /\ Fresh(job).state = job.state
        /\ Fresh(job).retries = job.retries
        /\ Fresh(job).sent = 0
        /\ Fresh(job).target = None
        /\ Fresh(job).step = first
    BY <1>3 DEF Jobs
  <1>. QED
    BY <1>1, <1>2, <1>5, <1>6 DEF Kinds, first

\* What may become of a budget.
LEMMA BudgetType ==
  ASSUME budget \in 0..MaxDisturbances, NEW kind, NEW bad \in BOOLEAN,
         Unless(kind, bad) \/ Fault(kind) \/ UNCHANGED budget
  PROVE  budget' \in 0..MaxDisturbances
  BY StoreJobsAssumption DEF Unless, Fault

\* A step of one Job, which writes no archive but its own, and no collection but its own,
\* other than by deleting it.
JobStep(j, job) ==
  /\ jobs[j] # None
  /\ jobs' = [jobs EXCEPT ![j] = job]
  /\ job # None =>
       /\ job.kind = jobs[j].kind
       /\ job.state = "running" => Running(j)
  /\ \A i \in Ids : i # j =>
       /\ collections'[i] \in {collections[i], None}
       /\ uploads'[i] = uploads[i]
  /\ j \in Ids => uploads'[j] = uploads[j] \/ (Running(j) /\ uploads'[j] # None)
  /\ UNCHANGED <<used, lifecycleVars>>

LEMMA FinalKept ==
  ASSUME LifecycleInv, NEW j \in JobNames, NEW job \in Jobs \union {None}, JobStep(j, job),
         NEW l \in Ids, Final(l)
  PROVE  Final(l)' /\ uploads'[l] = uploads[l]
  <1>1. /\ jobs'[j] = job
        /\ \A i \in JobNames : i # j => jobs'[i] = jobs[i]
    BY JobsType DEF LifecycleInv, TypeOK, JobStep
  <1>2. l \in JobNames
    BY DEF JobNames
  <1>3. CASE l = j
    BY <1>1, <1>2, <1>3 DEF Final, Running, JobStep
  <1>4. CASE l # j
    BY <1>1, <1>2, <1>4 DEF Final, Running, JobStep
  <1>. QED
    BY <1>3, <1>4

LEMMA OthersKept ==
  ASSUME LifecycleInv, NEW j \in JobNames, NEW job \in Jobs \union {None}, JobStep(j, job),
         NEW i \in JobNames, i # j
  PROVE  JobOK(i)'
  <1>1. jobs'[i] = jobs[i]
    BY JobsType DEF LifecycleInv, TypeOK, JobStep
  <1>2. SUFFICES ASSUME jobs[i] # None
                 PROVE  JobOK(i)'
    BY <1>1 DEF JobOK
  <1>3. JobOK(i) /\ jobs[i] \in Jobs
    BY <1>2, JobType DEF LifecycleInv, TypeOK
  <1>4. used' = used
    BY DEF JobStep
  <1>5. CASE i = Cleanup
    BY <1>1, <1>2, <1>3, <1>4, <1>5 DEF JobOK
  <1>6. CASE i # Cleanup
    <2>1. i \in Ids
      BY <1>6 DEF JobNames
    <2>2. collections'[i] \in {collections[i], None} /\ uploads'[i] = uploads[i]
      BY <2>1 DEF JobStep
    <2>3. CASE jobs[i].kind = "restore"
      <3>1. PICK l \in Ids : l = jobs[i].from /\ Final(l)
        BY <1>2, <1>3, <2>3 DEF JobOK, Jobs, Final
      <3>2. Final(l)' /\ uploads'[l] = uploads[l]
        BY <3>1, FinalKept
      <3>. QED
        BY <1>1, <1>2, <1>3, <1>4, <2>2, <2>3, <3>1, <3>2 DEF JobOK, Filled, Final, Running
    <2>4. CASE jobs[i].kind # "restore"
      BY <1>1, <1>2, <1>3, <1>4, <2>2, <2>4 DEF JobOK
    <2>. QED
      BY <2>3, <2>4
  <1>. QED
    BY <1>5, <1>6

LEMMA ObjectsKept ==
  ASSUME LifecycleInv, NEW j \in JobNames, NEW job \in Jobs \union {None}, JobStep(j, job)
  PROVE  BackupOK' /\ PassOK'
  <1>1. /\ jobs'[j] = job
        /\ \A i \in JobNames : i # j => jobs'[i] = jobs[i]
    BY JobsType DEF LifecycleInv, TypeOK, JobStep
  <1>2. \A i \in Ids : IsBackup(i) => IsBackup(i)'
    BY <1>1 DEF IsBackup, JobStep, JobNames
  <1>3. \A l \in Ids : Final(l) => Final(l)'
    BY FinalKept
  <1>4. UNCHANGED <<obj, pass>>
    BY DEF JobStep, lifecycleVars
  <1>5. BackupOK'
    <2>1. SUFFICES ASSUME obj["backup"] # None
                   PROVE  BackupOK'
      BY <1>4 DEF BackupOK
    <2>2. obj["backup"] \in Resources
      BY <2>1 DEF LifecycleInv, TypeOK, Objects
    <2>3. BackupOK
      BY DEF LifecycleInv
    <2>4. PICK b : b = obj["backup"]
      OBVIOUS
    <2>5. b.job # None => b.id = b.job /\ IsBackup(b.job)'
      BY <1>2, <2>1, <2>2, <2>3, <2>4 DEF BackupOK, Resources
    <2>6. b.phase = "Completed" => b.location = b.id /\ Final(b.location)'
      BY <1>3, <2>1, <2>2, <2>3, <2>4 DEF BackupOK, Resources, Final
    <2>. QED
      BY <1>4, <2>4, <2>5, <2>6 DEF BackupOK
  <1>6. PassOK'
    <2>1. CASE pass["backup"] = None
      BY <1>4, <2>1 DEF PassOK, LifecycleInv
    <2>2. CASE pass["backup"] # None
      <3>1. PICK p : p = pass["backup"]
        OBVIOUS
      <3>2. p.job \in Ids
        BY <2>2, <3>1 DEF LifecycleInv, TypeOK, Passes, Objects
      <3>3. PassOK
        BY DEF LifecycleInv
      <3>4. /\ IsBackup(p.job)'
            /\ p.stage = "consumed" => p.job = obj["backup"].id /\ Final(p.job)'
        BY <1>2, <1>3, <2>2, <3>1, <3>2, <3>3 DEF PassOK
      <3>. QED
        BY <1>4, <2>2, <3>1, <3>3, <3>4 DEF PassOK
    <2>. QED
      BY <2>1, <2>2
  <1>. QED
    BY <1>5, <1>6

LEMMA JobStepKeeps ==
  ASSUME LifecycleInv, NEW j \in JobNames, NEW job \in Jobs \union {None}, JobStep(j, job),
         StoreTypeOK', JobOK(j)'
  PROVE  LifecycleInv'
  <1>1. TypeOK'
    BY DEF LifecycleInv, TypeOK, JobStep, lifecycleVars, Passes, Resources, Objects
  <1>2. \A i \in JobNames : JobOK(i)'
    BY OthersKept
  <1>. QED
    BY <1>1, <1>2, ObjectsKept DEF LifecycleInv

-----------------------------------------------------------------------------
(* The steps of pods.                                                      *)

LEMMA AtJob ==
  ASSUME LifecycleInv, NEW j \in JobNames, NEW kind, NEW step, At(j, kind, step)
  PROVE  /\ jobs[j] # None /\ jobs[j] \in Jobs /\ JobOK(j) /\ Running(j)
         /\ jobs[j].kind = kind /\ jobs[j].step = step /\ jobs[j].state = "running"
         /\ kind # "cleanup" => j \in Ids
  BY JobType DEF At, Running, LifecycleInv, TypeOK, JobOK, JobNames

\* A backup's pod that goes on.
LEMMA BackupStep ==
  ASSUME LifecycleInv, NEW j \in Ids, NEW job \in Jobs, JobStep(j, job), StoreTypeOK',
         JobOK(j), jobs[j].kind = "backup",
         job.state = "complete" \/ job.step = "report" => uploads'[j] # None
  PROVE  LifecycleInv'
  <1>1. j \in JobNames
    BY DEF JobNames
  <1>2. jobs'[j] = job
    BY <1>1, JobsType DEF LifecycleInv, TypeOK, JobStep
  <1>3. JobOK(j)'
    BY <1>2 DEF JobStep, JobOK
  <1>. QED
    BY <1>1, <1>3, JobStepKeeps

LEMMA ExportKeeps ==
  ASSUME LifecycleInv, NEW j \in JobNames, Export(j), UNCHANGED lifecycleVars
  PROVE  LifecycleInv'
  <1>1. /\ jobs[j] # None /\ jobs[j] \in Jobs /\ JobOK(j) /\ Running(j) /\ j \in Ids
        /\ jobs[j].kind = "backup" /\ jobs[j].step = "export" /\ jobs[j].state = "running"
    BY AtJob DEF Export
  <1>2. alias \in Ids /\ collections[alias] \in Seq(Ids)
    BY DEF Export, LifecycleInv, TypeOK, StoreTypeOK
  <1>3. jobs[j].got \in Seq(Ids)
    BY <1>1 DEF Jobs
  <1>. DEFINE n == Len(jobs[j].got)
  <1>4. CASE n < Len(collections[alias])
    <2>1. Append(jobs[j].got, collections[alias][n + 1]) \in Seq(Ids)
      BY <1>2, <1>3, <1>4
    <2>. DEFINE job == [jobs[j] EXCEPT !.got = Append(jobs[j].got, collections[alias][n + 1])]
    <2>2. job \in Jobs /\ job.kind = "backup" /\ job.step = "export" /\ job.state = "running"
      BY <1>1, <2>1 DEF Jobs
    <2>3. jobs' = [jobs EXCEPT ![j] = job]
      BY <1>4 DEF Export
    <2>. HIDE DEF job
    <2>4. StoreTypeOK'
      BY <2>2, <2>3 DEF Export, LifecycleInv, TypeOK, StoreTypeOK
    <2>5. JobStep(j, job)
      BY <1>1, <2>2, <2>3 DEF Export, JobStep
    <2>. QED
      BY <1>1, <2>2, <2>4, <2>5, BackupStep
  <1>5. CASE ~(n < Len(collections[alias]))
    <2>. DEFINE job == [jobs[j] EXCEPT !.step = "upload"]
    <2>2. job \in Jobs /\ job.kind = "backup" /\ job.step = "upload" /\ job.state = "running"
      BY <1>1 DEF Jobs, Steps
    <2>3. jobs' = [jobs EXCEPT ![j] = job]
      BY <1>5 DEF Export, Goto
    <2>. HIDE DEF job
    <2>4. StoreTypeOK'
      BY <2>2, <2>3 DEF Export, LifecycleInv, TypeOK, StoreTypeOK
    <2>5. JobStep(j, job)
      BY <1>1, <2>2, <2>3 DEF Export, JobStep
    <2>. QED
      BY <1>1, <2>2, <2>4, <2>5, BackupStep
  <1>. QED
    BY <1>4, <1>5

LEMMA UploadKeeps ==
  ASSUME LifecycleInv, NEW j \in JobNames, Upload(j), UNCHANGED lifecycleVars
  PROVE  LifecycleInv'
  <1>1. /\ jobs[j] # None /\ jobs[j] \in Jobs /\ JobOK(j) /\ Running(j) /\ j \in Ids
        /\ jobs[j].kind = "backup" /\ jobs[j].step = "upload" /\ jobs[j].state = "running"
    BY AtJob DEF Upload
  <1>2. jobs[j].got \in Seq(Ids) /\ jobs[j].got # None
    BY <1>1, StoreJobsAssumption DEF Jobs
  <1>. DEFINE job == [jobs[j] EXCEPT !.step = "report"]
  <1>3. job \in Jobs /\ job.kind = "backup" /\ job.state = "running"
    BY <1>1 DEF Jobs, Steps
  <1>4. jobs' = [jobs EXCEPT ![j] = job]
    BY DEF Upload, Goto
  <1>. HIDE DEF job
  <1>5. /\ uploads' \in [Ids -> Seq(Ids) \union {None}]
        /\ uploads'[j] = jobs[j].got
        /\ \A i \in Ids : i # j => uploads'[i] = uploads[i]
    BY <1>1, <1>2 DEF Upload, LifecycleInv, TypeOK, StoreTypeOK
  <1>6. StoreTypeOK'
    BY <1>3, <1>4, <1>5 DEF Upload, LifecycleInv, TypeOK, StoreTypeOK
  <1>7. JobStep(j, job)
    BY <1>1, <1>2, <1>3, <1>4, <1>5 DEF Upload, JobStep
  <1>. QED
    BY <1>1, <1>2, <1>3, <1>5, <1>6, <1>7, BackupStep

\* A restore's pod that goes on, or ends.
LEMMA RestoreStep ==
  ASSUME LifecycleInv, NEW j \in Ids, NEW job \in Jobs, JobStep(j, job), StoreTypeOK',
         JobOK(j), jobs[j].kind = "restore", job.from = jobs[j].from,
         job.step \in {"download", "recreate"} => job.sent = 0,
         job.step \in Staged => job.got = uploads[job.from],
         job.step \in {"fill", "verify"} /\ collections'[j] # None =>
           /\ job.sent <= Len(job.got)
           /\ Len(collections'[j]) <= job.sent
           /\ Len(collections'[j]) = job.sent =>
                \A n \in 1..job.sent : collections'[j][n] = job.got[n],
         job.step \in {"find", "moveAlias"} /\ collections'[j] # None =>
           collections'[j] = job.got
  PROVE  LifecycleInv'
  <1>1. j \in JobNames
    BY DEF JobNames
  <1>2. jobs'[j] = job /\ (job # None => job.kind = "restore")
    BY <1>1, JobsType DEF LifecycleInv, TypeOK, JobStep
  <1>3. PICK l \in Ids : l = job.from /\ Final(l)
    BY <1>1, JobType DEF JobOK, JobStep, Jobs, Final, LifecycleInv, TypeOK
  <1>4. Final(l)' /\ uploads'[l] = uploads[l]
    BY <1>1, <1>3, FinalKept
  <1>5. Filled(j)' <=> /\ job.sent <= Len(job.got)
                       /\ Len(collections'[j]) <= job.sent
                       /\ Len(collections'[j]) = job.sent =>
                            \A n \in 1..job.sent : collections'[j][n] = job.got[n]
    BY <1>2 DEF Filled
  <1>6. JobOK(j)'
    BY <1>2, <1>3, <1>4, <1>5 DEF JobStep, JobOK
  <1>. QED
    BY <1>1, <1>6, JobStepKeeps

LEMMA CleanupStep ==
  ASSUME LifecycleInv, NEW j \in JobNames, NEW job \in Jobs, JobStep(j, job), StoreTypeOK',
         JobOK(j), jobs[j].kind = "cleanup"
  PROVE  LifecycleInv'
  <1>1. jobs'[j] = job /\ (job # None => job.kind = "cleanup")
    BY JobsType DEF LifecycleInv, TypeOK, JobStep
  <1>2. JobOK(j)'
    BY <1>1 DEF JobStep, JobOK
  <1>. QED
    BY <1>2, JobStepKeeps

LEMMA DownloadKeeps ==
  ASSUME LifecycleInv, NEW j \in JobNames, Download(j), UNCHANGED lifecycleVars
  PROVE  LifecycleInv'
  <1>1. /\ jobs[j] # None /\ jobs[j] \in Jobs /\ JobOK(j) /\ Running(j) /\ j \in Ids
        /\ jobs[j].kind = "restore" /\ jobs[j].step = "download" /\ jobs[j].state = "running"
    BY AtJob DEF Download
  <1>2. uploads[jobs[j].from] \in Seq(Ids) /\ jobs[j].sent = 0
    BY <1>1 DEF JobOK, Final, Jobs, LifecycleInv, TypeOK, StoreTypeOK
  <1>. DEFINE job == [jobs[j] EXCEPT !.got = uploads[jobs[j].from], !.step = "recreate"]
  <1>3. /\ job \in Jobs /\ job.kind = "restore" /\ job.state = "running"
        /\ job.step = "recreate" /\ job.sent = 0 /\ job.from = jobs[j].from
        /\ job.got = uploads[job.from]
    BY <1>1, <1>2 DEF Jobs, Steps
  <1>4. jobs' = [jobs EXCEPT ![j] = job]
    BY DEF Download
  <1>. HIDE DEF job
  <1>5. StoreTypeOK'
    BY <1>3, <1>4 DEF Download, LifecycleInv, TypeOK, StoreTypeOK
  <1>6. JobStep(j, job)
    BY <1>1, <1>3, <1>4 DEF Download, JobStep
  <1>. QED
    BY <1>1, <1>3, <1>5, <1>6, RestoreStep

LEMMA RecreateKeeps ==
  ASSUME LifecycleInv, NEW j \in JobNames, Recreate(j), UNCHANGED lifecycleVars
  PROVE  LifecycleInv'
  <1>1. /\ jobs[j] # None /\ jobs[j] \in Jobs /\ JobOK(j) /\ Running(j) /\ j \in Ids
        /\ jobs[j].kind = "restore" /\ jobs[j].step = "recreate" /\ jobs[j].state = "running"
    BY AtJob DEF Recreate
  <1>2. jobs[j].sent = 0 /\ jobs[j].got = uploads[jobs[j].from] /\ jobs[j].got \in Seq(Ids)
    BY <1>1 DEF JobOK, Jobs, Staged
  <1>. DEFINE job == [jobs[j] EXCEPT !.step = "fill"]
  <1>3. /\ job \in Jobs /\ job.kind = "restore" /\ job.state = "running"
        /\ job.step = "fill" /\ job.sent = 0 /\ job.from = jobs[j].from
        /\ job.got = uploads[job.from] /\ job.got \in Seq(Ids)
    BY <1>1, <1>2 DEF Jobs, Steps
  <1>4. jobs' = [jobs EXCEPT ![j] = job]
    BY DEF Recreate, Goto
  <1>. HIDE DEF job
  <1>5. /\ collections' \in [Ids -> Seq(Ids) \union {None}]
        /\ collections'[j] = <<>> /\ Len(collections'[j]) = 0
        /\ \A i \in Ids : i # j => collections'[i] = collections[i]
    BY <1>1 DEF Recreate, LifecycleInv, TypeOK, StoreTypeOK
  <1>6. StoreTypeOK'
    BY <1>3, <1>4, <1>5 DEF Recreate, LifecycleInv, TypeOK, StoreTypeOK
  <1>7. JobStep(j, job)
    BY <1>1, <1>3, <1>4, <1>5 DEF Recreate, JobStep
  <1>8. job.sent <= Len(job.got)
    BY <1>3
  <1>. QED
    BY <1>1, <1>3, <1>5, <1>6, <1>7, <1>8, RestoreStep

\* The next batch, when it arrives after all before it, is where it belongs.
LEMMA FilledGrows ==
  ASSUME NEW c \in Seq(Ids), NEW got \in Seq(Ids), NEW sent \in Nat,
         sent < Len(got), Len(c) <= sent,
         Len(c) = sent => \A n \in 1..sent : c[n] = got[n],
         NEW d \in Seq(Ids), d = c \/ d = Append(c, got[sent + 1])
  PROVE  /\ Len(d) <= sent + 1
         /\ Len(d) = sent + 1 => \A n \in 1..(sent + 1) : d[n] = got[n]
  <1>1. CASE d = c
    BY <1>1
  <1>2. CASE d = Append(c, got[sent + 1])
    <2>1. got[sent + 1] \in Ids
      OBVIOUS
    <2>2. /\ Len(d) = Len(c) + 1
          /\ d[Len(c) + 1] = got[sent + 1]
          /\ \A n \in 1..Len(c) : d[n] = c[n]
      BY <1>2, <2>1
    <2>3. Len(d) <= sent + 1
      BY <2>2
    <2>4. ASSUME Len(d) = sent + 1, NEW n \in 1..(sent + 1)
          PROVE  d[n] = got[n]
      <3>1. Len(c) = sent
        BY <2>2, <2>4
      <3>2. CASE n = sent + 1
        BY <2>2, <3>1, <3>2
      <3>3. CASE n # sent + 1
        BY <2>2, <2>4, <3>1, <3>3
      <3>. QED
        BY <3>2, <3>3
    <2>. QED
      BY <2>3, <2>4
  <1>. QED
    BY <1>1, <1>2

LEMMA FillKeeps ==
  ASSUME LifecycleInv, NEW j \in JobNames, Fill(j), UNCHANGED lifecycleVars
  PROVE  LifecycleInv'
  <1>1. /\ jobs[j] # None /\ jobs[j] \in Jobs /\ JobOK(j) /\ Running(j) /\ j \in Ids
        /\ jobs[j].kind = "restore" /\ jobs[j].step = "fill" /\ jobs[j].state = "running"
    BY AtJob DEF Fill
  <1>2. /\ jobs[j].sent \in Nat /\ jobs[j].got \in Seq(Ids)
        /\ jobs[j].got = uploads[jobs[j].from]
        /\ collections[j] \in Seq(Ids) /\ collections[j] # None /\ Filled(j)
    BY <1>1 DEF JobOK, Jobs, Staged, Fill, LifecycleInv, TypeOK, StoreTypeOK
  <1>3. CASE jobs[j].sent < Len(jobs[j].got)
    <2>. DEFINE job == [jobs[j] EXCEPT !.sent = jobs[j].sent + 1]
    <2>1. /\ job \in Jobs /\ job.kind = "restore" /\ job.state = "running"
          /\ job.step = "fill" /\ job.sent = jobs[j].sent + 1 /\ job.from = jobs[j].from
          /\ job.got = jobs[j].got
      BY <1>1, <1>2 DEF Jobs
    <2>2. jobs' = [jobs EXCEPT ![j] = job]
      BY <1>3 DEF Fill
    <2>. HIDE DEF job
    <2>3. PICK lost \in BOOLEAN :
            /\ Unless("batch", lost)
            /\ collections' = IF lost THEN collections
                 ELSE [collections EXCEPT ![j] = Append(@, jobs[j].got[jobs[j].sent + 1])]
      BY <1>3 DEF Fill
    <2>4. Append(collections[j], jobs[j].got[jobs[j].sent + 1]) \in Seq(Ids)
      BY <1>2, <1>3
    <2>5. /\ collections' \in [Ids -> Seq(Ids) \union {None}]
          /\ collections'[j] \in Seq(Ids)
          /\ \/ collections'[j] = collections[j]
             \/ collections'[j] = Append(collections[j], jobs[j].got[jobs[j].sent + 1])
          /\ \A i \in Ids : i # j => collections'[i] = collections[i]
      BY <1>1, <1>2, <2>3, <2>4 DEF LifecycleInv, TypeOK, StoreTypeOK
    <2>6. budget' \in 0..MaxDisturbances
      BY <2>3, BudgetType DEF LifecycleInv, TypeOK, StoreTypeOK
    <2>7. StoreTypeOK'
      BY <2>1, <2>2, <2>5, <2>6 DEF Fill, LifecycleInv, TypeOK, StoreTypeOK
    <2>8. JobStep(j, job)
      BY <1>1, <2>1, <2>2, <2>5 DEF Fill, JobStep
    <2>9. /\ Len(collections'[j]) <= job.sent
          /\ Len(collections'[j]) = job.sent =>
               \A n \in 1..job.sent : collections'[j][n] = job.got[n]
      <3>1. PICK c \in Seq(Ids), d \in Seq(Ids), got \in Seq(Ids), sent \in Nat :
              c = collections[j] /\ d = collections'[j] /\ got = jobs[j].got /\ sent = jobs[j].sent
        BY <1>2, <2>5
      <3>2. /\ sent < Len(got) /\ Len(c) <= sent
            /\ Len(c) = sent => \A n \in 1..sent : c[n] = got[n]
            /\ d = c \/ d = Append(c, got[sent + 1])
        BY <1>2, <1>3, <2>5, <3>1 DEF Filled
      <3>3. /\ Len(d) <= sent + 1
            /\ Len(d) = sent + 1 => \A n \in 1..(sent + 1) : d[n] = got[n]
        BY <3>2, FilledGrows
      <3>. QED
        BY <2>1, <3>1, <3>3
    <2>10. job.sent <= Len(job.got)
      BY <1>2, <1>3, <2>1
    <2>. QED
      BY <1>1, <1>2, <2>1, <2>7, <2>8, <2>9, <2>10, RestoreStep
  <1>4. CASE ~(jobs[j].sent < Len(jobs[j].got))
    <2>. DEFINE job == [jobs[j] EXCEPT !.step = "verify"]
    <2>1. /\ job \in Jobs /\ job.kind = "restore" /\ job.state = "running"
          /\ job.step = "verify" /\ job.sent = jobs[j].sent /\ job.from = jobs[j].from
          /\ job.got = jobs[j].got
      BY <1>1 DEF Jobs, Steps
    <2>2. jobs' = [jobs EXCEPT ![j] = job] /\ UNCHANGED <<collections, budget>>
      BY <1>4 DEF Fill, Goto
    <2>. HIDE DEF job
    <2>3. StoreTypeOK'
      BY <2>1, <2>2 DEF Fill, LifecycleInv, TypeOK, StoreTypeOK
    <2>4. JobStep(j, job)
      BY <1>1, <2>1, <2>2 DEF Fill, JobStep
    <2>. QED
      BY <1>1, <1>2, <2>1, <2>2, <2>3, <2>4, RestoreStep DEF Filled
  <1>. QED
    BY <1>3, <1>4

\* What has the right number of pages is the archive.
LEMMA VerifyKeeps ==
  ASSUME LifecycleInv, NEW j \in JobNames, Verify(j), UNCHANGED lifecycleVars
  PROVE  LifecycleInv'
  <1>1. /\ jobs[j] # None /\ jobs[j] \in Jobs /\ JobOK(j) /\ Running(j) /\ j \in Ids
        /\ jobs[j].kind = "restore" /\ jobs[j].step = "verify" /\ jobs[j].state = "running"
    BY AtJob DEF Verify
  <1>2. /\ jobs[j].sent \in Nat /\ jobs[j].got \in Seq(Ids)
        /\ jobs[j].got = uploads[jobs[j].from]
        /\ collections[j] \in Seq(Ids) /\ Filled(j) /\ Len(collections[j]) = Len(jobs[j].got)
    BY <1>1 DEF JobOK, Jobs, Staged, Verify, Verified, LifecycleInv, TypeOK, StoreTypeOK
  <1>3. collections[j] = jobs[j].got
    <2>1. jobs[j].sent = Len(jobs[j].got)
      BY <1>2 DEF Filled
    <2>2. \A n \in 1..Len(jobs[j].got) : collections[j][n] = jobs[j].got[n]
      BY <1>2, <2>1 DEF Filled
    <2>. QED
      BY <1>2, <2>2
  <1>. DEFINE job == [jobs[j] EXCEPT !.step = "find"]
  <1>4. /\ job \in Jobs /\ job.kind = "restore" /\ job.state = "running"
        /\ job.step = "find" /\ job.from = jobs[j].from /\ job.got = jobs[j].got
    BY <1>1 DEF Jobs, Steps
  <1>5. jobs' = [jobs EXCEPT ![j] = job] /\ UNCHANGED collections
    BY DEF Verify, Goto
  <1>. HIDE DEF job
  <1>6. StoreTypeOK'
    BY <1>4, <1>5 DEF Verify, LifecycleInv, TypeOK, StoreTypeOK
  <1>7. JobStep(j, job)
    BY <1>1, <1>4, <1>5 DEF Verify, JobStep
  <1>. QED
    BY <1>1, <1>2, <1>3, <1>4, <1>5, <1>6, <1>7, RestoreStep

LEMMA FindTargetKeeps ==
  ASSUME LifecycleInv, NEW j \in JobNames, FindTarget(j), UNCHANGED lifecycleVars
  PROVE  LifecycleInv'
  <1>1. PICK kind \in {"restore", "cleanup"} : At(j, kind, "find")
    BY DEF FindTarget
  <1>2. /\ jobs[j] # None /\ jobs[j] \in Jobs /\ JobOK(j) /\ Running(j)
        /\ jobs[j].kind = kind /\ jobs[j].step = "find" /\ jobs[j].state = "running"
        /\ kind # "cleanup" => j \in Ids
    BY <1>1, AtJob
  <1>. DEFINE step == IF jobs[j].kind = "restore" THEN "moveAlias" ELSE "dropAlias"
              job == [jobs[j] EXCEPT !.target = alias, !.step = step]
  <1>3. step \in Steps /\ alias \in Ids \union {None}
    BY DEF Steps, LifecycleInv, TypeOK, StoreTypeOK
  <1>4. jobs' = [jobs EXCEPT ![j] = job] /\ UNCHANGED collections
    BY DEF FindTarget
  <1>5. /\ job \in Jobs /\ job.kind = kind /\ job.state = "running"
        /\ job.from = jobs[j].from /\ job.got = jobs[j].got /\ job.step = step
    <2>. HIDE DEF step
    <2>. QED
      BY <1>2, <1>3 DEF Jobs
  <1>6. kind = "restore" => job.step = "moveAlias"
    BY <1>2, <1>5
  <1>. HIDE DEF job, step
  <1>7. StoreTypeOK'
    BY <1>4, <1>5 DEF FindTarget, LifecycleInv, TypeOK, StoreTypeOK
  <1>8. JobStep(j, job)
    BY <1>2, <1>4, <1>5 DEF FindTarget, JobStep
  <1>9. CASE kind = "restore"
    <2>1. /\ jobs[j].got = uploads[jobs[j].from]
          /\ collections[j] # None => collections[j] = jobs[j].got
      BY <1>2, <1>9 DEF JobOK, Staged
    <2>. QED
      BY <1>2, <1>4, <1>5, <1>6, <1>7, <1>8, <1>9, <2>1, RestoreStep
  <1>10. CASE kind = "cleanup"
    BY <1>2, <1>5, <1>7, <1>8, <1>10, CleanupStep
  <1>. QED
    BY <1>9, <1>10

LEMMA MoveAliasKeeps ==
  ASSUME LifecycleInv, NEW j \in JobNames, MoveAlias(j), UNCHANGED lifecycleVars
  PROVE  LifecycleInv'
  <1>1. /\ jobs[j] # None /\ jobs[j] \in Jobs /\ JobOK(j) /\ Running(j) /\ j \in Ids
        /\ jobs[j].kind = "restore" /\ jobs[j].step = "moveAlias" /\ jobs[j].state = "running"
    BY AtJob DEF MoveAlias
  <1>2. jobs[j].got = uploads[jobs[j].from]
    BY <1>1 DEF JobOK, Staged
  <1>. DEFINE job == [jobs[j] EXCEPT !.step = "dropOld"]
  <1>3. /\ job \in Jobs /\ job.kind = "restore" /\ job.state = "running"
        /\ job.step = "dropOld" /\ job.from = jobs[j].from /\ job.got = jobs[j].got
    BY <1>1 DEF Jobs, Steps
  <1>4. jobs' = [jobs EXCEPT ![j] = job] /\ UNCHANGED collections
    BY DEF MoveAlias, Goto
  <1>. HIDE DEF job
  <1>5. StoreTypeOK'
    BY <1>1, <1>3, <1>4 DEF MoveAlias, LifecycleInv, TypeOK, StoreTypeOK
  <1>6. JobStep(j, job)
    BY <1>1, <1>3, <1>4 DEF MoveAlias, JobStep
  <1>. QED
    BY <1>1, <1>2, <1>3, <1>5, <1>6, RestoreStep

-----------------------------------------------------------------------------
(* Pods that end.                                                          *)

\* A Job whose pod is gone.
Vacant(j, job) ==
  /\ job \in Jobs
  /\ job.kind = jobs[j].kind /\ job.from = jobs[j].from
  /\ job.sent = 0
  /\ job.kind = "backup" => job.step = "export"
  /\ job.kind = "restore" => job.step = "download"

LEMMA FreshVacant ==
  ASSUME StoreTypeOK, NEW j \in JobNames, jobs[j] # None
  PROVE  Vacant(j, Fresh(jobs[j]))
  <1>1. jobs[j] \in Jobs
    BY JobType
  <1>2. jobs[j].kind = "backup" => Fresh(jobs[j]).step = "export"
    BY <1>1 DEF Fresh, FirstStep, Jobs
  <1>. QED
    BY <1>1, <1>2, FreshType DEF Vacant

LEMMA EndsVacant ==
  ASSUME StoreTypeOK, NEW j \in JobNames, jobs[j] # None,
         NEW state \in {"complete", "failed"}, Ends(j, state)
  PROVE  \E job : Vacant(j, job) /\ job.state = state /\ jobs' = [jobs EXCEPT ![j] = job]
  <1>1. PICK fresh : fresh = Fresh(jobs[j])
    OBVIOUS
  <1>2. Vacant(j, fresh)
    BY <1>1, FreshVacant
  <1>. DEFINE job == [fresh EXCEPT !.state = state]
  <1>3. Vacant(j, job) /\ job.state = state
    BY <1>2 DEF Vacant, Jobs
  <1>4. jobs' = [jobs EXCEPT ![j] = job]
    BY <1>1 DEF Ends
  <1>. QED
    BY <1>3, <1>4

LEMMA PodEndsVacant ==
  ASSUME StoreTypeOK, NEW j \in JobNames, jobs[j] # None, PodEnds(j) \/ (Ends(j, "failed") /\ Interrupted(j))
  PROVE  /\ \E job : /\ Vacant(j, job) /\ jobs' = [jobs EXCEPT ![j] = job]
                     /\ job.state = "failed" \/ job.state = jobs[j].state
         /\ interrupted' \in BOOLEAN
  <1>1. interrupted' \in BOOLEAN
    BY DEF PodEnds, Interrupted, StoreTypeOK
  <1>2. CASE Ends(j, "failed")
    BY <1>1, <1>2, EndsVacant
  <1>3. CASE ~Ends(j, "failed")
    <2>1. jobs[j].retries > 0 /\ Restarts(j)
      BY <1>3 DEF PodEnds
    <2>2. PICK fresh : fresh = Fresh(jobs[j])
      OBVIOUS
    <2>3. Vacant(j, fresh) /\ fresh.retries = jobs[j].retries /\ fresh.state = jobs[j].state
      BY <2>2, FreshVacant, FreshType, JobType
    <2>. DEFINE job == [fresh EXCEPT !.retries = jobs[j].retries - 1]
    <2>4. jobs[j].retries - 1 \in 0..1
      BY <2>1, JobType DEF Jobs
    <2>5. Vacant(j, job) /\ job.state = jobs[j].state
      BY <2>3, <2>4 DEF Vacant, Jobs
    <2>6. jobs' = [jobs EXCEPT ![j] = job]
      BY <2>1, <2>2 DEF Restarts
    <2>. QED
      BY <1>1, <2>5, <2>6
  <1>. QED
    BY <1>2, <1>3

LEMMA VacantKeeps ==
  ASSUME LifecycleInv, NEW j \in JobNames, Running(j), NEW job, Vacant(j, job),
         JobStep(j, job), StoreTypeOK',
         job.kind = "backup" /\ job.state = "complete" => uploads'[j] # None
  PROVE  LifecycleInv'
  <1>1. job \in Jobs /\ JobOK(j) /\ jobs[j] # None
    BY DEF Vacant, LifecycleInv, Running
  <1>2. CASE jobs[j].kind = "cleanup"
    BY <1>1, <1>2, CleanupStep
  <1>3. CASE jobs[j].kind # "cleanup"
    <2>1. j \in Ids
      BY <1>1, <1>3 DEF JobOK, JobNames
    <2>2. jobs[j].kind \in {"backup", "restore"}
      BY <1>1, <1>3 DEF Vacant, Jobs, Kinds
    <2>3. CASE jobs[j].kind = "backup"
      BY <1>1, <2>1, <2>3, BackupStep DEF Vacant
    <2>4. CASE jobs[j].kind = "restore"
      BY <1>1, <2>1, <2>4, RestoreStep DEF Vacant, Staged
    <2>. QED
      BY <2>2, <2>3, <2>4
  <1>. QED
    BY <1>2, <1>3

LEMMA DropType ==
  ASSUME StoreTypeOK, NEW c, Drop(c)
  PROVE  /\ collections' \in [Ids -> Seq(Ids) \union {None}]
         /\ alias' \in Ids \union {None}
         /\ \A i \in Ids : collections'[i] \in {collections[i], None}
  BY DEF Drop, StoreTypeOK

LEMMA ReportKeeps ==
  ASSUME LifecycleInv, NEW j \in JobNames, Report(j), UNCHANGED lifecycleVars
  PROVE  LifecycleInv'
  <1>1. PICK kind \in {"backup", "restore"} : At(j, kind, "report")
    BY DEF Report
  <1>2. /\ jobs[j] # None /\ jobs[j] \in Jobs /\ JobOK(j) /\ Running(j) /\ j \in Ids
        /\ jobs[j].kind = kind /\ jobs[j].step = "report" /\ jobs[j].state = "running"
    BY <1>1, AtJob
  <1>3. PICK job : Vacant(j, job) /\ job.state = "complete" /\ jobs' = [jobs EXCEPT ![j] = job]
    BY <1>2, EndsVacant DEF Report, Complete, LifecycleInv, TypeOK
  <1>4. PICK lost \in BOOLEAN :
          /\ Unless("unreported", lost)
          /\ results' = IF lost THEN results ELSE results \union {j}
    BY DEF Report
  <1>5. budget' \in 0..MaxDisturbances /\ results' \subseteq Ids
    BY <1>2, <1>4, BudgetType DEF LifecycleInv, TypeOK, StoreTypeOK
  <1>6. StoreTypeOK'
    BY <1>3, <1>5 DEF Report, Vacant, LifecycleInv, TypeOK, StoreTypeOK
  <1>7. JobStep(j, job)
    BY <1>2, <1>3 DEF Report, JobStep, Vacant
  <1>8. job.kind = "backup" => uploads'[j] # None
    BY <1>2, <1>3 DEF Report, Vacant, JobOK
  <1>. QED
    BY <1>2, <1>3, <1>6, <1>7, <1>8, VacantKeeps

LEMMA DropOldKeeps ==
  ASSUME LifecycleInv, NEW j \in JobNames, DropOld(j), UNCHANGED lifecycleVars
  PROVE  LifecycleInv'
  <1>1. /\ jobs[j] # None /\ jobs[j] \in Jobs /\ JobOK(j) /\ Running(j) /\ j \in Ids
        /\ jobs[j].kind = "restore" /\ jobs[j].step = "dropOld" /\ jobs[j].state = "running"
    BY AtJob DEF DropOld
  <1>. DEFINE job == [jobs[j] EXCEPT !.step = "report"]
  <1>2. /\ job \in Jobs /\ job.kind = "restore" /\ job.state = "running"
        /\ job.step = "report" /\ job.from = jobs[j].from
    BY <1>1 DEF Jobs, Steps
  <1>3. jobs' = [jobs EXCEPT ![j] = job]
    BY DEF DropOld, Goto
  <1>. HIDE DEF job
  <1>4. /\ collections' \in [Ids -> Seq(Ids) \union {None}]
        /\ alias' \in Ids \union {None}
        /\ \A i \in Ids : collections'[i] \in {collections[i], None}
    BY DropType DEF DropOld, LifecycleInv, TypeOK, StoreTypeOK
  <1>5. StoreTypeOK'
    BY <1>2, <1>3, <1>4 DEF DropOld, LifecycleInv, TypeOK, StoreTypeOK
  <1>6. JobStep(j, job)
    BY <1>1, <1>2, <1>3, <1>4 DEF DropOld, JobStep
  <1>7. job.step \notin Staged
    BY <1>2 DEF Staged
  <1>. QED
    BY <1>1, <1>2, <1>5, <1>6, <1>7, RestoreStep

LEMMA DropAliasKeeps ==
  ASSUME LifecycleInv, NEW j \in JobNames, DropAlias(j), UNCHANGED lifecycleVars
  PROVE  LifecycleInv'
  <1>1. /\ jobs[j] # None /\ jobs[j] \in Jobs /\ JobOK(j) /\ Running(j)
        /\ jobs[j].kind = "cleanup" /\ jobs[j].step = "dropAlias" /\ jobs[j].state = "running"
    BY AtJob DEF DropAlias
  <1>2. CASE jobs[j].target = None
    <2>1. PICK job : Vacant(j, job) /\ job.state = "complete" /\ jobs' = [jobs EXCEPT ![j] = job]
      BY <1>1, <1>2, EndsVacant DEF DropAlias, Complete, LifecycleInv, TypeOK
    <2>2. StoreTypeOK' /\ JobStep(j, job)
      BY <1>1, <1>2, <2>1 DEF DropAlias, Vacant, JobStep, LifecycleInv, TypeOK, StoreTypeOK
    <2>. QED
      BY <1>1, <2>1, <2>2, VacantKeeps DEF Vacant
  <1>3. CASE jobs[j].target # None
    <2>. DEFINE job == [jobs[j] EXCEPT !.step = "dropTarget"]
    <2>1. job \in Jobs /\ job.kind = "cleanup" /\ job.state = "running"
      BY <1>1 DEF Jobs, Steps
    <2>2. jobs' = [jobs EXCEPT ![j] = job]
      BY <1>3 DEF DropAlias, Goto
    <2>. HIDE DEF job
    <2>3. StoreTypeOK' /\ JobStep(j, job)
      BY <1>1, <1>3, <2>1, <2>2 DEF DropAlias, JobStep, LifecycleInv, TypeOK, StoreTypeOK
    <2>. QED
      BY <1>1, <2>1, <2>3, CleanupStep
  <1>. QED
    BY <1>2, <1>3

LEMMA DropTargetKeeps ==
  ASSUME LifecycleInv, NEW j \in JobNames, DropTarget(j), UNCHANGED lifecycleVars
  PROVE  LifecycleInv'
  <1>1. /\ jobs[j] # None /\ jobs[j] \in Jobs /\ JobOK(j) /\ Running(j)
        /\ jobs[j].kind = "cleanup" /\ jobs[j].step = "dropTarget" /\ jobs[j].state = "running"
    BY AtJob DEF DropTarget
  <1>2. PICK job : Vacant(j, job) /\ job.state = "complete" /\ jobs' = [jobs EXCEPT ![j] = job]
    BY <1>1, EndsVacant DEF DropTarget, Complete, LifecycleInv, TypeOK
  <1>3. /\ collections' \in [Ids -> Seq(Ids) \union {None}]
        /\ alias' \in Ids \union {None}
        /\ \A i \in Ids : collections'[i] \in {collections[i], None}
    BY DropType DEF DropTarget, LifecycleInv, TypeOK
  <1>4. StoreTypeOK'
    BY <1>2, <1>3 DEF DropTarget, Vacant, LifecycleInv, TypeOK, StoreTypeOK
  <1>5. JobStep(j, job)
    BY <1>1, <1>2, <1>3 DEF DropTarget, Vacant, JobStep
  <1>. QED
    BY <1>1, <1>2, <1>4, <1>5, VacantKeeps DEF Vacant

\* A pod that raises, is killed, or has its Job run out of time.
LEMMA PodLossKeeps ==
  ASSUME LifecycleInv, NEW j \in JobNames, Raise(j) \/ Kill(j), UNCHANGED lifecycleVars
  PROVE  LifecycleInv'
  <1>1. /\ jobs[j] # None /\ Running(j) /\ StoreTypeOK /\ jobs[j].state = "running"
        /\ PodEnds(j) \/ (Ends(j, "failed") /\ Interrupted(j))
        /\ UNCHANGED <<uploads, results, used>>
    BY DEF Raise, Kill, Running, LifecycleInv, TypeOK
  <1>2. PICK job : /\ Vacant(j, job) /\ jobs' = [jobs EXCEPT ![j] = job]
                   /\ job.state = "failed" \/ job.state = jobs[j].state
    BY <1>1, PodEndsVacant
  <1>3. interrupted' \in BOOLEAN
    BY <1>1, PodEndsVacant
  <1>4. /\ collections' \in [Ids -> Seq(Ids) \union {None}]
        /\ alias' \in Ids \union {None}
        /\ \A i \in Ids : collections'[i] \in {collections[i], None}
    BY <1>1, DropType DEF Raise, Kill, StoreTypeOK
  <1>5. budget' \in 0..MaxDisturbances
    <2>1. PICK bad \in BOOLEAN : Unless("store", bad) \/ Fault("kill")
      BY DEF Raise, Kill
    <2>. QED
      BY <1>1, <2>1, BudgetType DEF StoreTypeOK
  <1>6. StoreTypeOK'
    BY <1>1, <1>2, <1>3, <1>4, <1>5 DEF Vacant, StoreTypeOK
  <1>7. JobStep(j, job)
    BY <1>1, <1>2, <1>4 DEF Vacant, JobStep
  <1>8. job.state # "complete"
    BY <1>1, <1>2
  <1>. QED
    BY <1>1, <1>2, <1>6, <1>7, <1>8, VacantKeeps

LEMMA LoseKeeps ==
  ASSUME LifecycleInv, NEW j \in JobNames, Lose(j), UNCHANGED lifecycleVars
  PROVE  LifecycleInv'
  <1>1. budget' \in 0..MaxDisturbances
    BY BudgetType DEF Lose, LifecycleInv, TypeOK, StoreTypeOK
  <1>2. interrupted' \in BOOLEAN
    BY DEF Lose, Interrupted, LifecycleInv, TypeOK, StoreTypeOK
  <1>3. StoreTypeOK'
    BY <1>1, <1>2 DEF Lose, LifecycleInv, TypeOK, StoreTypeOK
  <1>4. JobStep(j, None)
    BY DEF Lose, JobStep
  <1>5. jobs'[j] = None
    BY <1>4, JobsType DEF JobStep, LifecycleInv, TypeOK
  <1>. QED
    BY <1>3, <1>4, <1>5, JobStepKeeps DEF JobOK

-----------------------------------------------------------------------------
(* The steps of everybody else: no Job is changed, but the cleanup Job,    *)
(* and what is new has a new number.                                       *)

ClusterStep ==
  /\ used <= used'
  /\ \A i \in Ids : i <= used =>
       /\ jobs'[i] = jobs[i] /\ uploads'[i] = uploads[i]
       /\ collections'[i] \in {collections[i], None}

LEMMA ClusterStepKeeps ==
  ASSUME LifecycleInv, TypeOK', ClusterStep
  PROVE  /\ \A l \in Ids : Final(l) => Final(l)' /\ uploads'[l] = uploads[l]
         /\ \A i \in Ids : IsBackup(i) => IsBackup(i)'
         /\ \A i \in Ids : i <= used => JobOK(i)'
  <1>0. used \in Ids /\ used' \in Ids
    BY DEF LifecycleInv, TypeOK, StoreTypeOK
  <1>1. ASSUME NEW l \in Ids, Final(l)
        PROVE  Final(l)' /\ uploads'[l] = uploads[l]
    BY <1>0, <1>1 DEF Final, Running, ClusterStep, Ids
  <1>2. ASSUME NEW i \in Ids, IsBackup(i)
        PROVE  IsBackup(i)'
    BY <1>0, <1>2 DEF IsBackup, ClusterStep, Ids
  <1>3. ASSUME NEW i \in Ids, i <= used
        PROVE  JobOK(i)'
    <2>1. /\ jobs'[i] = jobs[i] /\ uploads'[i] = uploads[i]
          /\ collections'[i] \in {collections[i], None} /\ i <= used'
      BY <1>0, <1>3 DEF ClusterStep, Ids
    <2>2. CASE jobs[i] = None
      BY <2>1, <2>2 DEF JobOK
    <2>3. CASE jobs[i] # None
      <3>1. JobOK(i) /\ jobs[i] \in Jobs
        BY <2>3, JobType DEF JobNames, LifecycleInv, TypeOK
      <3>2. CASE jobs[i].kind = "restore"
        <4>1. PICK l \in Ids : l = jobs[i].from /\ Final(l)
          BY <2>3, <3>1, <3>2 DEF JobOK, Jobs, Final
        <4>2. Final(l)' /\ uploads'[l] = uploads[l]
          BY <1>1, <4>1
        <4>. QED
          BY <2>1, <2>3, <3>1, <3>2, <4>1, <4>2 DEF JobOK, Filled, Final, Running
      <3>3. CASE jobs[i].kind # "restore"
        BY <2>1, <2>3, <3>1, <3>3 DEF JobOK
      <3>. QED
        BY <3>2, <3>3
    <2>. QED
      BY <2>2, <2>3
  <1>. QED
    BY <1>1, <1>2, <1>3

LEMMA BackupStays ==
  ASSUME LifecycleInv, TypeOK', ClusterStep,
         obj'["backup"] # None =>
           /\ obj["backup"] # None
           /\ obj'["backup"].id = obj["backup"].id
           /\ obj'["backup"].location = obj["backup"].location
           /\ obj'["backup"].job \in {obj["backup"].job, None}
           /\ obj'["backup"].phase = "Completed" => obj["backup"].phase = "Completed"
  PROVE  BackupOK'
  <1>1. SUFFICES ASSUME obj'["backup"] # None
                 PROVE  BackupOK'
    BY DEF BackupOK
  <1>2. PICK b, c : b = obj["backup"] /\ c = obj'["backup"]
    OBVIOUS
  <1>3. b \in Resources /\ c \in Resources
    BY <1>1, <1>2 DEF LifecycleInv, TypeOK, Objects
  <1>4. /\ b.job # None => b.id = b.job /\ IsBackup(b.job)
        /\ b.phase = "Completed" => b.location = b.id /\ Final(b.location)
    BY <1>1, <1>2 DEF LifecycleInv, BackupOK
  <1>5. ASSUME c.job # None
        PROVE  c.id = c.job /\ IsBackup(c.job)'
    <2>1. PICK i \in Ids : i = c.job
      BY <1>3, <1>5 DEF Resources
    <2>2. c.id = i /\ IsBackup(i)
      BY <1>1, <1>2, <1>4, <1>5, <2>1
    <2>. QED
      BY <2>1, <2>2, ClusterStepKeeps
  <1>6. ASSUME c.phase = "Completed"
        PROVE  c.location = c.id /\ Final(c.location)'
    <2>1. c.location = c.id /\ Final(c.location)
      BY <1>1, <1>2, <1>4, <1>6
    <2>2. PICK l \in Ids : l = c.location /\ Final(l)
      BY <1>3, <2>1 DEF Resources, Final
    <2>. QED
      BY <2>1, <2>2, ClusterStepKeeps
  <1>. QED
    BY <1>2, <1>5, <1>6 DEF BackupOK

LEMMA PassStays ==
  ASSUME LifecycleInv, TypeOK', ClusterStep,
         \A o \in Objects : pass'[o] # None => pass'[o] = pass[o] /\ obj'[o] # None,
         pass'["backup"] # None => obj'["backup"].id = obj["backup"].id
  PROVE  PassOK'
  <1>1. \A o \in Objects : pass'[o] # None => obj'[o] # None
    OBVIOUS
  <1>2. CASE pass'["backup"] = None
    BY <1>1, <1>2 DEF PassOK
  <1>3. CASE pass'["backup"] # None
    <2>1. PICK p : p = pass["backup"] /\ p = pass'["backup"]
      BY <1>3 DEF Objects
    <2>2. PICK i \in Ids : i = p.job
      BY <1>3, <2>1 DEF LifecycleInv, TypeOK, Passes, Objects
    <2>3. IsBackup(i) /\ (p.stage = "consumed" => i = obj["backup"].id /\ Final(i))
      BY <1>3, <2>1, <2>2 DEF LifecycleInv, PassOK
    <2>4. IsBackup(i)' /\ (p.stage = "consumed" => i = obj'["backup"].id /\ Final(i)')
      BY <1>3, <2>3, ClusterStepKeeps
    <2>. QED
      BY <1>1, <2>1, <2>2, <2>4 DEF PassOK
  <1>. QED
    BY <1>2, <1>3

LEMMA ClusterKeeps ==
  ASSUME LifecycleInv, TypeOK', ClusterStep, BackupOK', PassOK',
         \A j \in JobNames : j = Cleanup \/ used < j => JobOK(j)'
  PROVE  LifecycleInv'
  <1>1. used \in Ids
    BY DEF LifecycleInv, TypeOK, StoreTypeOK
  <1>2. ASSUME NEW j \in JobNames
        PROVE  JobOK(j)'
    BY <1>1, <1>2, ClusterStepKeeps DEF JobNames, Ids, Cleanup
  <1>. QED
    BY <1>2 DEF LifecycleInv

\* Nothing but objects and passes changes.
LEMMA QuietKeeps ==
  ASSUME LifecycleInv, TypeOK', UNCHANGED <<collections, uploads, jobs, used>>,
         BackupOK', PassOK'
  PROVE  LifecycleInv'
  <1>1. used \in Ids
    BY DEF LifecycleInv, TypeOK, StoreTypeOK
  <1>2. ClusterStep
    BY <1>1 DEF ClusterStep, Ids
  <1>3. ASSUME NEW j \in JobNames, j = Cleanup \/ used < j
        PROVE  JobOK(j)'
    <2>1. JobOK(j)
      BY DEF LifecycleInv
    <2>2. CASE jobs[j] = None
      BY <2>2 DEF JobOK
    <2>3. CASE jobs[j] # None
      <3>1. jobs[j].kind # "restore"
        BY <1>1, <1>3, <2>1, <2>3 DEF JobOK, JobNames, Ids, Cleanup
      <3>. QED
        BY <2>1, <2>3, <3>1 DEF JobOK
    <2>. QED
      BY <2>2, <2>3
  <1>. QED
    BY <1>2, <1>3, ClusterKeeps

\* What is not there, or only looked at, keeps the conditions on objects and passes.
LEMMA QuietCluster ==
  ASSUME LifecycleInv, UNCHANGED <<collections, uploads, jobs, used>>
  PROVE  ClusterStep
  BY DEF ClusterStep, LifecycleInv, TypeOK, StoreTypeOK, Ids

LEMMA IngestKeeps ==
  ASSUME LifecycleInv, Ingest, UNCHANGED lifecycleVars
  PROVE  LifecycleInv'
  <1>1. /\ used \in Ids /\ used < MaxIds /\ used' = used + 1
        /\ UNCHANGED <<uploads, results, jobs, interrupted>>
    BY DEF Ingest, LifecycleInv, TypeOK, StoreTypeOK
  <1>2. used' \in Ids
    BY <1>1, StoreJobsAssumption DEF Ids
  <1>3. \A i \in Ids : Corpus(i) \in Seq(Ids)
    BY StoreJobsAssumption DEF Corpus
  <1>4. collections' \in [Ids -> Seq(Ids) \union {None}]
    BY <1>3 DEF Ingest, LifecycleInv, TypeOK, StoreTypeOK
  <1>5. budget' \in 0..MaxDisturbances
    BY BudgetType DEF Ingest, LifecycleInv, TypeOK, StoreTypeOK
  <1>6. TypeOK'
    BY <1>1, <1>2, <1>4, <1>5
    DEF Ingest, LifecycleInv, TypeOK, StoreTypeOK, lifecycleVars
  <1>7. ClusterStep
    BY <1>1 DEF Ingest, ClusterStep, Ids
  <1>8. BackupOK' /\ PassOK'
    <2>1. UNCHANGED <<obj, pass>>
      BY DEF lifecycleVars
    <2>2. \A o \in Objects : pass[o] # None => obj[o] # None
      BY DEF LifecycleInv, PassOK
    <2>. QED
      BY <1>6, <1>7, <2>1, <2>2, BackupStays, PassStays
  <1>9. ASSUME NEW j \in JobNames, j = Cleanup \/ used < j
        PROVE  JobOK(j)'
    BY <1>1, <1>2, <1>9 DEF LifecycleInv, JobOK, JobNames, Ids, Cleanup
  <1>. QED
    BY <1>6, <1>7, <1>8, <1>9, ClusterKeeps

-----------------------------------------------------------------------------
(* The steps of the reconcilers of Backup and Restore.                     *)

\* A step of a Restore leaves the Backup alone.
LEMMA OtherObject ==
  ASSUME LifecycleInv, NEW o \in Objects, NEW p,
         pass' = [pass EXCEPT ![o] = p] \/ pass' = pass, NEW x,
         obj' = [obj EXCEPT ![o] = x] \/ obj' = obj, o # "backup"
  PROVE  obj'["backup"] = obj["backup"] /\ pass'["backup"] = pass["backup"]
  BY DEF Objects, LifecycleInv, TypeOK

\* An object that is edited while no pass for it is open, or with its pass.
LEMMA EditKeeps ==
  ASSUME LifecycleInv, TypeOK', NEW o \in Objects, NEW x \in Resources \union {None},
         UNCHANGED <<collections, uploads, jobs, used>>,
         obj' = [obj EXCEPT ![o] = x],
         (pass[o] = None /\ pass' = pass) \/ pass' = [pass EXCEPT ![o] = None],
         obj[o] # None /\ x # None /\ o = "backup" =>
           /\ x.id = obj[o].id /\ x.location = obj[o].location
           /\ x.job \in {obj[o].job, None}
           /\ x.phase = "Completed" => obj[o].phase = "Completed",
         obj[o] = None /\ x # None /\ o = "backup" =>
           x.job = None /\ x.phase # "Completed"
  PROVE  LifecycleInv'
  <1>1. /\ obj'[o] = x /\ pass'[o] = None
        /\ \A i \in Objects : i # o => obj'[i] = obj[i] /\ pass'[i] = pass[i]
    BY DEF LifecycleInv, TypeOK
  <1>2. ClusterStep
    BY QuietCluster
  <1>3. \A i \in Objects : pass[i] # None => obj[i] # None
    BY DEF LifecycleInv, PassOK
  <1>4. PassOK'
    <2>1. \A i \in Objects : pass'[i] # None => pass'[i] = pass[i] /\ obj'[i] # None
      BY <1>1, <1>3
    <2>2. pass'["backup"] # None => obj'["backup"].id = obj["backup"].id
      BY <1>1 DEF Objects
    <2>. QED
      BY <1>2, <2>1, <2>2, PassStays
  <1>5. BackupOK'
    <2>1. CASE o = "backup" /\ obj[o] = None /\ x # None
      BY <1>1, <2>1 DEF BackupOK
    <2>2. CASE ~(o = "backup" /\ obj[o] = None /\ x # None)
      BY <1>1, <1>2, <2>2, BackupStays DEF Objects
    <2>. QED
      BY <2>1, <2>2
  <1>. QED
    BY <1>4, <1>5, QuietKeeps

LEMMA AddFinalizerKeeps ==
  ASSUME LifecycleInv, NEW o \in Objects, AddFinalizer(o)
  PROVE  LifecycleInv'
  <1>. DEFINE x == [obj[o] EXCEPT !.finalizer = TRUE]
  <1>1. /\ obj[o] # None /\ obj[o] \in Resources /\ pass[o] = None
        /\ UNCHANGED <<storeVars, kb, doomed, wanted, pass>>
    BY DEF AddFinalizer, Acts, LifecycleInv, TypeOK
  <1>2. obj' = [obj EXCEPT ![o] = x]
    BY DEF AddFinalizer
  <1>3. /\ x \in Resources /\ x.id = obj[o].id /\ x.location = obj[o].location
        /\ x.job = obj[o].job /\ x.phase = obj[o].phase
    BY <1>1 DEF Resources
  <1>. HIDE DEF x
  <1>4. TypeOK'
    BY <1>1, <1>2, <1>3 DEF LifecycleInv, TypeOK, StoreTypeOK, storeVars
  <1>. QED
    BY <1>1, <1>2, <1>3, <1>4, EditKeeps DEF storeVars

LEMMA RemoveFinalizerKeeps ==
  ASSUME LifecycleInv, NEW o \in Objects, RemoveFinalizer(o)
  PROVE  LifecycleInv'
  <1>1. /\ pass[o] = None /\ obj' = [obj EXCEPT ![o] = None]
        /\ UNCHANGED <<storeVars, kb, doomed, wanted, pass>>
    BY DEF RemoveFinalizer, Acts
  <1>2. TypeOK'
    BY <1>1 DEF LifecycleInv, TypeOK, StoreTypeOK, storeVars
  <1>. QED
    BY <1>1, <1>2, EditKeeps DEF storeVars

\* Any step that only makes the object Failed.
LEMMA FailKeeps ==
  ASSUME LifecycleInv, NEW o \in Objects, Pending(o),
         obj' = [obj EXCEPT ![o].phase = "Failed"],
         budget' \in 0..MaxDisturbances,
         UNCHANGED <<alias, collections, uploads, results, jobs, used, interrupted,
                     kb, doomed, wanted, pass>>
  PROVE  LifecycleInv'
  <1>. DEFINE x == [obj[o] EXCEPT !.phase = "Failed"]
  <1>1. obj[o] # None /\ obj[o] \in Resources /\ pass[o] = None
    BY DEF Pending, Acts, LifecycleInv, TypeOK
  <1>2. obj' = [obj EXCEPT ![o] = x]
    OBVIOUS
  <1>3. /\ x \in Resources /\ x.id = obj[o].id /\ x.location = obj[o].location
        /\ x.job = obj[o].job /\ x.phase = "Failed"
    BY <1>1 DEF Resources, Terminal
  <1>. HIDE DEF x
  <1>4. TypeOK'
    BY <1>2, <1>3 DEF LifecycleInv, TypeOK, StoreTypeOK
  <1>. QED
    BY <1>1, <1>2, <1>3, <1>4, EditKeeps

LEMMA ForgetMissingKeeps ==
  ASSUME LifecycleInv, NEW o \in Objects, ForgetMissing(o)
  PROVE  LifecycleInv'
  <1>. DEFINE x == [obj[o] EXCEPT !.job = None]
  <1>1. /\ obj[o] # None /\ obj[o] \in Resources /\ pass[o] = None
        /\ UNCHANGED <<storeVars, kb, doomed, wanted, pass>>
    BY DEF ForgetMissing, HasJob, Pending, Acts, LifecycleInv, TypeOK
  <1>2. obj' = [obj EXCEPT ![o] = x]
    BY DEF ForgetMissing
  <1>3. /\ x \in Resources /\ x.id = obj[o].id /\ x.location = obj[o].location
        /\ x.job = None /\ x.phase = obj[o].phase
    BY <1>1 DEF Resources
  <1>. HIDE DEF x
  <1>4. TypeOK'
    BY <1>1, <1>2, <1>3 DEF LifecycleInv, TypeOK, StoreTypeOK, storeVars
  <1>. QED
    BY <1>1, <1>2, <1>3, <1>4, EditKeeps DEF storeVars

\* The job a restore is given has the archive of a completed Backup.
LEMMA RestoreArchive ==
  ASSUME LifecycleInv, ~Refused("restore")
  PROVE  obj["backup"].location \in Ids /\ Final(obj["backup"].location)
  <1>1. obj["backup"] # None /\ obj["backup"].phase = "Completed"
    BY DEF Refused
  <1>2. PICK b : b = obj["backup"]
    OBVIOUS
  <1>3. b \in Resources
    BY <1>1, <1>2 DEF LifecycleInv, TypeOK, Objects
  <1>4. Final(b.location)
    BY <1>1, <1>2 DEF LifecycleInv, BackupOK
  <1>. QED
    BY <1>2, <1>3, <1>4 DEF Resources, Final

LEMMA NewJobType ==
  ASSUME NEW kind \in Kinds, NEW from \in Ids \union {None}
  PROVE  /\ NewJob(kind, from) \in Jobs
         /\ NewJob(kind, from).kind = kind /\ NewJob(kind, from).from = from
         /\ NewJob(kind, from).state = "running" /\ NewJob(kind, from).sent = 0
         /\ kind = "backup" => NewJob(kind, from).step = "export"
         /\ kind = "restore" => NewJob(kind, from).step = "download"
  <1>1. /\ FirstStep(kind) \in Steps
        /\ kind = "backup" => FirstStep(kind) = "export"
        /\ kind = "restore" => FirstStep(kind) = "download"
    BY DEF FirstStep, Kinds, Steps
  <1>2. PICK first \in Steps : first = FirstStep(kind)
    BY <1>1
  <1>3. NewJob(kind, from) =
          [kind |-> kind, state |-> "running", retries |-> 1, step |-> first,
           got |-> <<>>, sent |-> 0, target |-> None, from |-> from]
    BY <1>2 DEF NewJob
  <1>. DEFINE empty == <<>>
  <1>4. empty \in Seq(Ids) /\ empty = <<>>
    OBVIOUS
  <1>. HIDE DEF empty
  <1>5. NewJob(kind, from) \in Jobs
    <2>1. NewJob(kind, from) =
            [kind |-> kind, state |-> "running", retries |-> 1, step |-> first,
             got |-> empty, sent |-> 0, target |-> None, from |-> from]
      BY <1>3, <1>4
    <2>2. 1 \in 0..1 /\ 0 \in Nat /\ "running" \in {"running", "complete", "failed"}
      OBVIOUS
    <2>. QED
      BY <1>2, <1>4, <2>1, <2>2 DEF Jobs
  <1>. QED
    BY <1>1, <1>2, <1>3, <1>5

\* A new Job: an export, or the restore of the Backup's archive.
LEMMA NewJobKeeps ==
  ASSUME LifecycleInv, NEW o \in Objects, Pending(o), ~Refused(o),
         used < MaxIds, used' = used + 1,
         jobs' = [jobs EXCEPT ![used'] =
           NewJob(o, IF o = "restore" THEN obj["backup"].location ELSE None)],
         pass' = [pass EXCEPT ![o] = [stage |-> "created", job |-> used']],
         UNCHANGED <<alias, collections, uploads, results, interrupted, budget,
                     kb, doomed, obj, wanted>>
  PROVE  LifecycleInv'
  <1>. DEFINE from == IF o = "restore" THEN obj["backup"].location ELSE None
  <1>1. used \in Ids /\ used' \in Ids /\ used' \in JobNames /\ used' # Cleanup
    BY StoreJobsAssumption DEF LifecycleInv, TypeOK, StoreTypeOK, Ids, JobNames, Cleanup
  <1>2. from \in Ids \union {None} /\ (o = "restore" => Final(from))
    BY RestoreArchive
  <1>3. PICK u, job : u = used' /\ job = NewJob(o, from)
    OBVIOUS
  <1>4. /\ job \in Jobs /\ job.kind = o /\ job.from = from
        /\ job.state = "running" /\ job.sent = 0
        /\ o = "backup" => job.step = "export"
        /\ o = "restore" => job.step = "download"
    BY <1>2, <1>3, NewJobType DEF Objects, Kinds
  <1>. HIDE DEF from
  <1>5. /\ jobs' = [jobs EXCEPT ![u] = job]
        /\ pass' = [pass EXCEPT ![o] = [stage |-> "created", job |-> u]]
    BY <1>3 DEF from
  <1>6. /\ jobs'[u] = job /\ jobs' \in [JobNames -> Jobs \union {None}]
        /\ \A i \in JobNames : i # u => jobs'[i] = jobs[i]
    BY <1>1, <1>3, <1>4, <1>5, JobsType DEF LifecycleInv, TypeOK
  <1>7. /\ pass'[o] = [stage |-> "created", job |-> u]
        /\ pass' \in [Objects -> Passes \union {None}]
        /\ \A i \in Objects : i # o => pass'[i] = pass[i]
    BY <1>1, <1>3, <1>5 DEF LifecycleInv, TypeOK, Passes
  <1>8. TypeOK'
    BY <1>1, <1>6, <1>7 DEF LifecycleInv, TypeOK, StoreTypeOK
  <1>9. ClusterStep
    BY <1>1, <1>3, <1>6 DEF ClusterStep, Ids, JobNames
  <1>10. JobOK(u)'
    <2>0. jobs'[u] = job /\ u <= used' /\ u # Cleanup
      BY <1>1, <1>3, <1>6 DEF Ids
    <2>1. CASE o = "backup"
      BY <1>4, <2>0, <2>1 DEF JobOK
    <2>2. CASE o = "restore"
      <3>1. PICK l \in Ids : l = from /\ Final(l)
        BY <1>2, <2>2 DEF Final
      <3>2. Final(l)'
        BY <1>8, <1>9, <3>1, ClusterStepKeeps
      <3>. QED
        <4>1. /\ job.kind = "restore" /\ job.step = "download" /\ job.step \notin Staged
              /\ job.sent = 0 /\ Final(job.from)'
          BY <1>4, <2>2, <3>1, <3>2 DEF Staged
        <4>. QED
          BY <2>0, <4>1 DEF JobOK
    <2>. QED
      BY <2>1, <2>2 DEF Objects
  <1>11. ASSUME NEW j \in JobNames, j = Cleanup \/ used < j
         PROVE  JobOK(j)'
    <2>1. CASE j = u
      BY <1>10, <2>1
    <2>2. CASE j # u
      <3>1. jobs'[j] = jobs[j] /\ JobOK(j)
        BY <1>6, <2>2 DEF LifecycleInv
      <3>2. CASE jobs[j] = None
        BY <3>1, <3>2 DEF JobOK
      <3>3. CASE jobs[j] # None
        BY <1>1, <1>11, <3>1, <3>3 DEF JobOK, JobNames, Ids, Cleanup
      <3>. QED
        BY <3>2, <3>3
    <2>. QED
      BY <2>1, <2>2
  <1>12. BackupOK'
    BY <1>8, <1>9, BackupStays
  <1>13. PassOK'
    <2>1. CASE o = "backup"
      <3>1. IsBackup(u)'
        BY <1>1, <1>3, <1>4, <1>6, <2>1 DEF IsBackup, Ids
      <3>2. \A i \in Objects : pass'[i] # None => obj'[i] # None
        BY <1>7 DEF LifecycleInv, PassOK, Pending, Acts
      <3>. QED
        BY <1>7, <2>1, <3>1, <3>2 DEF PassOK
    <2>2. CASE o = "restore"
      <3>1. \A i \in Objects : pass'[i] # None => obj'[i] # None
        BY <1>7 DEF LifecycleInv, PassOK, Pending, Acts
      <3>2. PICK p : p = pass["backup"] /\ p = pass'["backup"]
        BY <1>7, <2>2 DEF Objects
      <3>3. ASSUME p # None
            PROVE  IsBackup(p.job)' /\ (p.stage = "consumed" => p.job = obj["backup"].id /\ Final(p.job)')
        <4>1. PICK i \in Ids : i = p.job
          BY <3>2, <3>3 DEF LifecycleInv, TypeOK, Passes, Objects
        <4>2. IsBackup(i) /\ (p.stage = "consumed" => i = obj["backup"].id /\ Final(i))
          BY <3>2, <3>3, <4>1 DEF LifecycleInv, PassOK
        <4>. QED
          BY <1>8, <1>9, <4>1, <4>2, ClusterStepKeeps
      <3>. QED
        BY <3>1, <3>2, <3>3 DEF PassOK
    <2>. QED
      BY <2>1, <2>2 DEF Objects
  <1>. QED
    BY <1>8, <1>9, <1>11, <1>12, <1>13, ClusterKeeps

LEMMA CreateJobKeeps ==
  ASSUME LifecycleInv, NEW o \in Objects, CreateJob(o)
  PROVE  LifecycleInv'
  <1>1. /\ Pending(o) /\ ~Refused(o)
        /\ UNCHANGED <<alias, collections, uploads, results, interrupted, kb, doomed, wanted>>
    BY DEF CreateJob
  <1>2. CASE /\ used < MaxIds
             /\ used' = used + 1
             /\ jobs' = [jobs EXCEPT ![used'] =
                  NewJob(o, IF o = "restore" THEN obj["backup"].location ELSE None)]
             /\ pass' = [pass EXCEPT ![o] = [stage |-> "created", job |-> used']]
             /\ UNCHANGED <<obj, budget>>
    BY <1>1, <1>2, NewJobKeeps
  <1>3. CASE /\ o = "restore" /\ Running(used) /\ jobs[used].kind = "restore"
             /\ pass' = [pass EXCEPT ![o] = [stage |-> "created", job |-> used]]
             /\ UNCHANGED <<used, jobs, obj, budget>>
    <2>1. used \in Ids /\ obj[o] # None
      BY <1>1 DEF Pending, Acts, LifecycleInv, TypeOK, StoreTypeOK
    <2>2. /\ pass' \in [Objects -> Passes \union {None}]
          /\ pass'["backup"] = pass["backup"]
          /\ \A i \in Objects : i # o => pass'[i] = pass[i]
      BY <1>3, <2>1 DEF LifecycleInv, TypeOK, Passes, Objects
    <2>3. TypeOK'
      BY <1>1, <1>3, <2>2 DEF LifecycleInv, TypeOK, StoreTypeOK
    <2>4. BackupOK'
      BY <1>1, <1>3, <2>3, BackupStays, QuietCluster
    <2>5. PassOK'
      <3>1. \A i \in Objects : pass'[i] # None => obj'[i] # None
        BY <1>3, <2>1, <2>2 DEF LifecycleInv, PassOK
      <3>2. IsBackup(pass["backup"].job)' <=> IsBackup(pass["backup"].job)
        BY <1>1, <1>3, <2>2 DEF IsBackup
      <3>3. Final(pass["backup"].job)' <=> Final(pass["backup"].job)
        BY <1>1, <1>3, <2>2 DEF Final, Running
      <3>. QED
        BY <1>3, <2>2, <3>1, <3>2, <3>3 DEF LifecycleInv, PassOK
    <2>. QED
      BY <1>1, <1>3, <2>3, <2>4, <2>5, QuietKeeps
  <1>4. CASE /\ Fault("quota")
             /\ obj' = [obj EXCEPT ![o].phase = "Failed"]
             /\ UNCHANGED <<used, jobs, pass>>
    BY <1>1, <1>4, BudgetType, FailKeeps DEF LifecycleInv, TypeOK, StoreTypeOK
  <1>. QED
    BY <1>2, <1>3, <1>4 DEF CreateJob

LEMMA RefuseKeeps ==
  ASSUME LifecycleInv, NEW o \in Objects, Refuse(o)
  PROVE  LifecycleInv'
  BY FailKeeps DEF Refuse, storeVars, LifecycleInv, TypeOK, StoreTypeOK

LEMMA FailJobKeeps ==
  ASSUME LifecycleInv, NEW o \in Objects, FailJob(o)
  PROVE  LifecycleInv'
  <1>1. budget' \in 0..MaxDisturbances
    <2>1. PICK bad \in BOOLEAN : Unless("unread", bad)
      BY DEF FailJob
    <2>. QED
      BY <2>1, BudgetType DEF LifecycleInv, TypeOK, StoreTypeOK
  <1>. QED
    BY <1>1, FailKeeps DEF FailJob, Ended, HasJob

LEMMA RecordJobKeeps ==
  ASSUME LifecycleInv, NEW o \in Objects, RecordJob(o)
  PROVE  LifecycleInv'
  <1>1. PICK p : p = pass[o]
    OBVIOUS
  <1>2. /\ p # None /\ p.stage = "created" /\ p.job \in Ids
        /\ obj[o] # None /\ obj[o] \in Resources
        /\ UNCHANGED <<storeVars, kb, doomed, wanted>>
    BY <1>1 DEF RecordJob, LifecycleInv, TypeOK, PassOK, Passes
  <1>. DEFINE id == IF o = "backup" THEN p.job ELSE None
              x == [obj[o] EXCEPT !.phase = "Running", !.job = p.job, !.id = id]
  <1>3. obj' = [obj EXCEPT ![o] = x] /\ pass' = [pass EXCEPT ![o] = None]
    BY <1>1 DEF RecordJob, EndPass
  <1>4. id \in Ids \union {None}
    BY <1>2
  <1>5. x \in Resources /\ x.id = id /\ x.job = p.job /\ x.phase = "Running"
    <2>. HIDE DEF id
    <2>. QED
      BY <1>2, <1>4 DEF Resources
  <1>6. o = "backup" => x.id = p.job
    BY <1>5
  <1>. HIDE DEF id, x
  <1>7. TypeOK'
    BY <1>2, <1>3, <1>5 DEF LifecycleInv, TypeOK, StoreTypeOK, storeVars
  <1>8. /\ obj'[o] = x /\ pass'[o] = None
        /\ \A i \in Objects : i # o => obj'[i] = obj[i] /\ pass'[i] = pass[i]
    BY <1>3 DEF LifecycleInv, TypeOK
  <1>9. CASE o # "backup"
    BY <1>2, <1>3, <1>5, <1>7, <1>9, EditKeeps DEF storeVars
  <1>10. CASE o = "backup"
    <2>1. IsBackup(p.job)'
      BY <1>1, <1>2, <1>10 DEF LifecycleInv, PassOK, IsBackup, storeVars
    <2>2. BackupOK'
      BY <1>5, <1>6, <1>8, <1>10, <2>1 DEF BackupOK
    <2>3. PassOK'
      BY <1>8, <1>10 DEF LifecycleInv, PassOK
    <2>. QED
      BY <1>2, <1>7, <2>2, <2>3, QuietKeeps DEF storeVars
  <1>. QED
    BY <1>9, <1>10

LEMMA ConsumeResultKeeps ==
  ASSUME LifecycleInv, NEW o \in Objects, ConsumeResult(o)
  PROVE  LifecycleInv'
  <1>1. PICK j : j = obj[o].job
    OBVIOUS
  <1>2. /\ obj[o] # None /\ obj[o] \in Resources /\ pass[o] = None /\ j \in Ids
        /\ jobs[j] # None /\ jobs[j].state = "complete"
        /\ results' = results \ {j}
        /\ pass' = [pass EXCEPT ![o] = [stage |-> "consumed", job |-> j]]
        /\ UNCHANGED <<alias, collections, uploads, jobs, used, interrupted, budget,
                       kb, doomed, obj, wanted>>
    BY <1>1 DEF ConsumeResult, Ended, HasJob, Pending, Acts, LifecycleInv, TypeOK, Resources
  <1>3. /\ pass' \in [Objects -> Passes \union {None}]
        /\ pass'[o] = [stage |-> "consumed", job |-> j]
        /\ \A i \in Objects : i # o => pass'[i] = pass[i]
    BY <1>2 DEF LifecycleInv, TypeOK, Passes
  <1>4. TypeOK'
    BY <1>2, <1>3 DEF LifecycleInv, TypeOK, StoreTypeOK
  <1>5. BackupOK'
    BY <1>2, <1>4, BackupStays, QuietCluster
  <1>6. \A i \in Objects : pass'[i] # None => obj'[i] # None
    BY <1>2, <1>3 DEF LifecycleInv, PassOK
  <1>7. CASE o # "backup"
    <2>1. pass'["backup"] = pass["backup"]
      BY <1>3, <1>7 DEF Objects
    <2>2. IsBackup(pass["backup"].job)' <=> IsBackup(pass["backup"].job)
      BY <1>2, <2>1 DEF IsBackup
    <2>3. Final(pass["backup"].job)' <=> Final(pass["backup"].job)
      BY <1>2, <2>1 DEF Final, Running
    <2>4. PassOK'
      BY <1>2, <1>6, <2>1, <2>2, <2>3 DEF LifecycleInv, PassOK
    <2>. QED
      BY <1>2, <1>4, <1>5, <2>4, QuietKeeps
  <1>8. CASE o = "backup"
    <2>1. j # None
      BY <1>2, StoreJobsAssumption DEF Ids
    <2>2. obj["backup"].id = j /\ IsBackup(j)
      BY <1>1, <1>2, <1>8, <2>1 DEF LifecycleInv, BackupOK
    <2>3. JobOK(j)
      BY <1>2 DEF LifecycleInv, JobNames
    <2>4. Final(j)
      BY <1>2, <2>1, <2>2, <2>3 DEF Final, IsBackup, JobOK, Running
    <2>5. IsBackup(j)' /\ Final(j)'
      BY <1>2, <2>2, <2>4 DEF IsBackup, Final, Running
    <2>6. PassOK'
      BY <1>2, <1>3, <1>6, <1>8, <2>2, <2>5 DEF PassOK
    <2>. QED
      BY <1>2, <1>4, <1>5, <2>6, QuietKeeps
  <1>. QED
    BY <1>7, <1>8

LEMMA RecordResultKeeps ==
  ASSUME LifecycleInv, NEW o \in Objects, RecordResult(o)
  PROVE  LifecycleInv'
  <1>1. PICK p : p = pass[o]
    OBVIOUS
  <1>2. /\ p # None /\ p.stage = "consumed" /\ p.job \in Ids
        /\ obj[o] # None /\ obj[o] \in Resources
        /\ UNCHANGED <<storeVars, kb, doomed, wanted>>
    BY <1>1 DEF RecordResult, LifecycleInv, TypeOK, PassOK, Passes
  <1>. DEFINE location == IF o = "backup" THEN p.job ELSE None
              x == [obj[o] EXCEPT !.phase = "Completed", !.location = location]
  <1>3. obj' = [obj EXCEPT ![o] = x] /\ pass' = [pass EXCEPT ![o] = None]
    BY <1>1 DEF RecordResult, EndPass
  <1>4. location \in Ids \union {None}
    BY <1>2
  <1>5. /\ x \in Resources /\ x.id = obj[o].id /\ x.job = obj[o].job
        /\ x.location = location /\ x.phase = "Completed"
    <2>. HIDE DEF location
    <2>. QED
      BY <1>2, <1>4 DEF Resources, Terminal
  <1>6. o = "backup" => x.location = p.job
    BY <1>5
  <1>. HIDE DEF location, x
  <1>7. TypeOK'
    BY <1>2, <1>3, <1>5 DEF LifecycleInv, TypeOK, StoreTypeOK, storeVars
  <1>8. /\ obj'[o] = x /\ pass'[o] = None
        /\ \A i \in Objects : i # o => obj'[i] = obj[i] /\ pass'[i] = pass[i]
    BY <1>3 DEF LifecycleInv, TypeOK
  <1>9. CASE o # "backup"
    BY <1>2, <1>3, <1>5, <1>7, <1>9, EditKeeps DEF storeVars
  <1>10. CASE o = "backup"
    <2>1. p.job = obj[o].id /\ Final(p.job)
      BY <1>1, <1>2, <1>10 DEF LifecycleInv, PassOK
    <2>2. Final(p.job)'
      BY <1>2, <2>1 DEF Final, Running, storeVars
    <2>3. PICK j : j = x.job
      OBVIOUS
    <2>4. j # None => x.id = j /\ IsBackup(j)'
      <3>1. j # None => obj[o].id = j /\ IsBackup(j)
        BY <1>2, <1>5, <1>10, <2>3 DEF LifecycleInv, BackupOK
      <3>2. IsBackup(j)' <=> IsBackup(j)
        BY <1>2 DEF IsBackup, storeVars
      <3>. QED
        BY <1>5, <3>1, <3>2
    <2>5. BackupOK'
      BY <1>5, <1>6, <1>8, <1>10, <2>1, <2>2, <2>3, <2>4 DEF BackupOK
    <2>6. PassOK'
      BY <1>8, <1>10 DEF LifecycleInv, PassOK
    <2>. QED
      BY <1>2, <1>7, <2>5, <2>6, QuietKeeps DEF storeVars
  <1>. QED
    BY <1>9, <1>10

-----------------------------------------------------------------------------
(* The steps of reconcileDelete, of the user and of the cluster.           *)

LEMMA CrashKeeps ==
  ASSUME LifecycleInv, NEW o \in Objects, Crash(o)
  PROVE  LifecycleInv'
  <1>1. budget' \in 0..MaxDisturbances
    BY BudgetType DEF Crash, LifecycleInv, TypeOK, StoreTypeOK
  <1>2. /\ pass' = [pass EXCEPT ![o] = None]
        /\ obj' = [obj EXCEPT ![o] = obj[o]]
        /\ obj[o] \in Resources \union {None}
    BY DEF Crash, EndPass, LifecycleInv, TypeOK
  <1>3. TypeOK'
    BY <1>1, <1>2 DEF Crash, LifecycleInv, TypeOK, StoreTypeOK
  <1>4. obj[o] # None => obj[o].job \in {obj[o].job, None}
    OBVIOUS
  <1>. QED
    BY <1>2, <1>3, <1>4, EditKeeps DEF Crash

\* A step that changes the cleanup Job alone.
LEMMA CleanupJobKeeps ==
  ASSUME LifecycleInv, NEW job \in Jobs \union {None},
         job # None => job.kind = "cleanup",
         jobs' = [jobs EXCEPT ![Cleanup] = job] \/ jobs' = jobs,
         kb' \in {"present", "deleting", "gone"}, budget' \in 0..MaxDisturbances,
         UNCHANGED <<alias, collections, uploads, results, used, interrupted,
                     doomed, obj, wanted, pass>>
  PROVE  LifecycleInv'
  <1>1. /\ Cleanup \in JobNames /\ Cleanup \notin Ids /\ used \in Ids /\ Cleanup <= used
        /\ \A j \in JobNames : used < j => j \in Ids
    BY DEF Cleanup, JobNames, Ids, LifecycleInv, TypeOK, StoreTypeOK
  <1>2. /\ jobs' \in [JobNames -> Jobs \union {None}]
        /\ jobs'[Cleanup] \in {job, jobs[Cleanup]}
        /\ \A i \in JobNames : i # Cleanup => jobs'[i] = jobs[i]
    BY <1>1, JobsType DEF LifecycleInv, TypeOK, StoreTypeOK
  <1>3. TypeOK'
    BY <1>2 DEF LifecycleInv, TypeOK, StoreTypeOK
  <1>4. ClusterStep
    BY <1>1, <1>2 DEF ClusterStep, JobNames, Ids
  <1>5. BackupOK'
    BY <1>3, <1>4, BackupStays
  <1>6. PassOK'
    BY <1>3, <1>4, PassStays DEF LifecycleInv, PassOK
  <1>7. JobOK(Cleanup)'
    <2>1. JobOK(Cleanup)
      BY <1>1 DEF LifecycleInv
    <2>2. jobs'[Cleanup] # None => jobs'[Cleanup].kind = "cleanup"
      BY <1>2, <2>1 DEF JobOK
    <2>. QED
      BY <1>1, <2>2 DEF JobOK
  <1>8. ASSUME NEW j \in JobNames, used < j
        PROVE  JobOK(j)'
    <2>1. jobs'[j] = jobs[j] /\ JobOK(j) /\ ~(j <= used)
      BY <1>1, <1>2, <1>8 DEF LifecycleInv, Ids
    <2>2. jobs[j] = None
      BY <2>1 DEF JobOK
    <2>. QED
      BY <2>1, <2>2 DEF JobOK
  <1>. QED
    BY <1>3, <1>4, <1>5, <1>6, <1>7, <1>8, ClusterKeeps

LEMMA CleanupPassKeeps ==
  ASSUME LifecycleInv, CleanupPass
  PROVE  LifecycleInv'
  <1>1. budget \in 0..MaxDisturbances /\ kb \in {"present", "deleting", "gone"}
    BY DEF LifecycleInv, TypeOK, StoreTypeOK
  <1>2. CASE CreateCleanup
    <2>1. PICK job : job = NewJob("cleanup", None)
      OBVIOUS
    <2>2. job \in Jobs /\ job.kind = "cleanup"
      BY <2>1, NewJobType DEF Kinds
    <2>. QED
      BY <1>1, <1>2, <2>1, <2>2, CleanupJobKeeps DEF CreateCleanup, lifecycleVars
  <1>3. CASE RetryCleanup
    BY <1>1, <1>3, CleanupJobKeeps DEF RetryCleanup, lifecycleVars
  <1>4. CASE Release
    <2>1. PICK trouble :
            /\ Unless(trouble, trouble # "")
            /\ jobs' = IF trouble = "undeleted" THEN jobs ELSE [jobs EXCEPT ![Cleanup] = None]
            /\ kb' = IF trouble = "crash" THEN kb ELSE "gone"
      BY <1>4 DEF Release
    <2>2. PICK bad \in BOOLEAN : Unless(trouble, bad)
      BY <2>1
    <2>3. budget' \in 0..MaxDisturbances
      BY <1>1, <2>2, BudgetType
    <2>4. jobs' = [jobs EXCEPT ![Cleanup] = None] \/ jobs' = jobs
      BY <2>1
    <2>5. kb' \in {"present", "deleting", "gone"}
      BY <1>1, <2>1
    <2>6. UNCHANGED <<alias, collections, uploads, results, used, interrupted,
                      doomed, obj, wanted, pass>>
      BY <1>4 DEF Release
    <2>. QED
      BY <2>3, <2>4, <2>5, <2>6, CleanupJobKeeps
  <1>. QED
    BY <1>2, <1>3, <1>4 DEF CleanupPass

LEMMA CreateKeeps ==
  ASSUME LifecycleInv, NEW o \in Objects, Create(o)
  PROVE  LifecycleInv'
  <1>. DEFINE x == [phase |-> "", job |-> None, id |-> None, location |-> None,
                    suspend |-> FALSE, finalizer |-> FALSE, deleting |-> FALSE]
  <1>1. /\ obj[o] = None /\ obj' = [obj EXCEPT ![o] = x] /\ wanted' = wanted \ {o}
        /\ UNCHANGED <<storeVars, kb, doomed, pass>>
    BY DEF Create
  <1>2. x \in Resources /\ x.job = None /\ x.phase # "Completed"
    BY DEF Resources, Terminal
  <1>. HIDE DEF x
  <1>3. pass[o] = None
    BY <1>1 DEF LifecycleInv, PassOK
  <1>4. TypeOK'
    BY <1>1, <1>2 DEF LifecycleInv, TypeOK, StoreTypeOK, storeVars
  <1>. QED
    BY <1>1, <1>2, <1>3, <1>4, EditKeeps DEF storeVars

LEMMA DeleteKeeps ==
  ASSUME LifecycleInv, NEW o \in Objects, Delete(o)
  PROVE  LifecycleInv'
  <1>. DEFINE x == IF obj[o].finalizer THEN [obj[o] EXCEPT !.deleting = TRUE] ELSE None
  <1>1. /\ obj[o] # None /\ obj[o] \in Resources
        /\ obj' = [obj EXCEPT ![o] = x] /\ pass' = [pass EXCEPT ![o] = None]
        /\ wanted' = wanted \union {o}
        /\ UNCHANGED <<alias, collections, uploads, results, jobs, used, interrupted, kb, doomed>>
    BY DEF Delete, EndPass, LifecycleInv, TypeOK
  <1>2. /\ x \in Resources \union {None}
        /\ x # None => /\ x.id = obj[o].id /\ x.location = obj[o].location
                       /\ x.job = obj[o].job /\ x.phase = obj[o].phase
    BY <1>1 DEF Resources
  <1>. HIDE DEF x
  <1>3. budget' \in 0..MaxDisturbances
    BY BudgetType DEF Delete, LifecycleInv, TypeOK, StoreTypeOK
  <1>4. TypeOK'
    BY <1>1, <1>2, <1>3 DEF LifecycleInv, TypeOK, StoreTypeOK
  <1>. QED
    BY <1>1, <1>2, <1>4, EditKeeps

LEMMA SuspendKeeps ==
  ASSUME LifecycleInv, NEW o \in Objects, Suspend(o) \/ Resume(o)
  PROVE  LifecycleInv'
  <1>1. PICK b \in BOOLEAN : obj' = [obj EXCEPT ![o].suspend = b]
    BY DEF Suspend, Resume
  <1>. DEFINE x == [obj[o] EXCEPT !.suspend = b]
  <1>2. /\ obj[o] # None /\ obj[o] \in Resources
        /\ obj' = [obj EXCEPT ![o] = x] /\ pass' = [pass EXCEPT ![o] = None]
        /\ UNCHANGED <<alias, collections, uploads, results, jobs, used, interrupted,
                       kb, doomed, wanted>>
    BY <1>1 DEF Suspend, Resume, EndPass, LifecycleInv, TypeOK, storeVars
  <1>3. /\ x \in Resources /\ x.id = obj[o].id /\ x.location = obj[o].location
        /\ x.job = obj[o].job /\ x.phase = obj[o].phase
    BY <1>2 DEF Resources
  <1>. HIDE DEF x
  <1>4. budget' \in 0..MaxDisturbances
    BY BudgetType DEF Suspend, Resume, LifecycleInv, TypeOK, StoreTypeOK, storeVars
  <1>5. TypeOK'
    BY <1>2, <1>3, <1>4 DEF LifecycleInv, TypeOK, StoreTypeOK
  <1>. QED
    BY <1>2, <1>3, <1>5, EditKeeps

LEMMA KnowledgeBaseKeeps ==
  ASSUME LifecycleInv, DeleteKnowledgeBase \/ CreateKnowledgeBase
  PROVE  LifecycleInv'
  <1>1. budget' \in 0..MaxDisturbances
    BY BudgetType
    DEF DeleteKnowledgeBase, CreateKnowledgeBase, LifecycleInv, TypeOK, StoreTypeOK, storeVars
  <1>2. /\ UNCHANGED <<alias, collections, uploads, results, jobs, used, interrupted,
                       obj, wanted, pass>>
        /\ kb' \in {"present", "deleting", "gone"}
        /\ doomed' \in {doomed, alias}
    BY DEF DeleteKnowledgeBase, CreateKnowledgeBase, storeVars
  <1>3. TypeOK'
    BY <1>1, <1>2 DEF LifecycleInv, TypeOK, StoreTypeOK
  <1>4. ClusterStep
    BY <1>2, QuietCluster
  <1>5. BackupOK'
    BY <1>2, <1>3, <1>4, BackupStays
  <1>6. PassOK'
    BY <1>2, <1>3, <1>4, PassStays DEF LifecycleInv, PassOK
  <1>. QED
    BY <1>2, <1>3, <1>5, <1>6, QuietKeeps

-----------------------------------------------------------------------------

LEMMA InitInv == Init => LifecycleInv
  <1>. SUFFICES ASSUME Init
                PROVE  LifecycleInv
    OBVIOUS
  <1>. USE DEF Init, StoreInit
  <1>1. 1 \in Ids /\ (\A i \in Ids : Corpus(i) \in Seq(Ids))
    BY StoreJobsAssumption DEF Corpus, Ids
  <1>2. StoreTypeOK
    <2>1. collections \in [Ids -> Seq(Ids) \union {None}]
      BY <1>1
    <2>2. /\ uploads \in [Ids -> Seq(Ids) \union {None}]
          /\ jobs \in [JobNames -> Jobs \union {None}]
      OBVIOUS
    <2>3. budget \in 0..MaxDisturbances
      BY StoreJobsAssumption
    <2>. QED
      BY <1>1, <2>1, <2>2, <2>3 DEF StoreTypeOK
  <1>3. TypeOK
    BY <1>2 DEF TypeOK, Objects
  <1>4. \A j \in JobNames : JobOK(j)
    BY DEF JobOK
  <1>5. BackupOK
    BY DEF BackupOK, Objects
  <1>6. PassOK
    BY DEF PassOK, Objects
  <1>. QED
    BY <1>3, <1>4, <1>5, <1>6 DEF LifecycleInv

LEMMA PodKeeps ==
  ASSUME LifecycleInv, NEW j \in JobNames, Pod(j), UNCHANGED lifecycleVars
  PROVE  LifecycleInv'
  BY ExportKeeps, UploadKeeps, ReportKeeps, DownloadKeeps, RecreateKeeps, FillKeeps,
     VerifyKeeps, FindTargetKeeps, MoveAliasKeeps, DropOldKeeps, DropAliasKeeps,
     DropTargetKeeps, PodLossKeeps
  DEF Pod

LEMMA PassKeeps ==
  ASSUME LifecycleInv, NEW o \in Objects, Pass(o)
  PROVE  LifecycleInv'
  BY AddFinalizerKeeps, RemoveFinalizerKeeps, RefuseKeeps, CreateJobKeeps, RecordJobKeeps,
     ForgetMissingKeeps, FailJobKeeps, ConsumeResultKeeps, RecordResultKeeps
  DEF Pass

LEMMA InvNext ==
  ASSUME LifecycleInv, [Next]_vars
  PROVE  LifecycleInv'
  <1>1. CASE System
    BY <1>1, PodKeeps, PassKeeps, CleanupPassKeeps DEF System, Pods
  <1>2. CASE Disturb
    BY <1>2, PodLossKeeps, LoseKeeps, IngestKeeps, CrashKeeps, DeleteKeeps, SuspendKeeps,
       KnowledgeBaseKeeps
    DEF Disturb
  <1>3. CASE Wish
    BY <1>3, CreateKeeps, SuspendKeeps, KnowledgeBaseKeeps DEF Wish
  <1>4. CASE UNCHANGED vars
    <2>1. TypeOK'
      BY <1>4 DEF LifecycleInv, TypeOK, StoreTypeOK, vars, storeVars, lifecycleVars
    <2>2. UNCHANGED <<collections, uploads, jobs, used, obj, pass>>
      BY <1>4 DEF vars, storeVars, lifecycleVars
    <2>3. BackupOK'
      BY <2>1, <2>2, BackupStays, QuietCluster
    <2>4. PassOK'
      BY <2>1, <2>2, PassStays, QuietCluster DEF LifecycleInv, PassOK
    <2>. QED
      BY <2>1, <2>2, <2>3, <2>4, QuietKeeps
  <1>. QED
    BY <1>1, <1>2, <1>3, <1>4 DEF Next

LEMMA Invariance == Spec => []LifecycleInv
  BY InitInv, InvNext, PTL DEF Spec

\* Every Job, archive, object and pass is what it is taken for, whatever the number of Jobs
\* and disturbances (the shapes that restore.py and the reconcilers rely on).
THEOREM Types == Spec => []TypeOK
  BY Invariance, PTL DEF LifecycleInv

\* A completed Backup names an archive that its own Job has uploaded and that no Job writes
\* any more (backup_controller.go, with the result of an earlier attempt never taken for
\* that of the current one).
THEOREM Uploaded == Spec => []ReportedIsUploaded
  <1>1. ASSUME LifecycleInv
        PROVE  ReportedIsUploaded
    BY <1>1 DEF LifecycleInv, BackupOK, Final, ReportedIsUploaded
  <1>. QED
    BY <1>1, Invariance, PTL

\* What moves the alias: an ingestion, or a restore that has verified its collection.
LEMMA AliasMoves ==
  ASSUME LifecycleInv, [Next]_vars, NEW j \in Ids, alias' = j, alias # j
  PROVE  Ingest \/ \E i \in JobNames : MoveAlias(i)
  <1>1. alias' # alias /\ alias' # None
    BY StoreJobsAssumption DEF Ids
  <1>2. ASSUME NEW i \in JobNames, Pod(i)
        PROVE  MoveAlias(i)
    <2>1. ASSUME NEW c, Drop(c)
          PROVE  FALSE
      BY <1>1, <2>1 DEF Drop
    <2>. QED
      BY <1>1, <1>2, <2>1
      DEF Pod, Export, Upload, Report, Download, Recreate, Fill, Verify, FindTarget, DropOld,
          DropAlias, DropTarget, Raise
  <1>3. ASSUME NEW i \in JobNames, Kill(i) \/ Lose(i)
        PROVE  FALSE
    BY <1>1, <1>3 DEF Kill, Lose
  <1>4. ASSUME NEW o \in Objects, Pass(o)
        PROVE  FALSE
    BY <1>1, <1>4
    DEF Pass, AddFinalizer, RemoveFinalizer, Refuse, CreateJob, RecordJob, ForgetMissing,
        FailJob, ConsumeResult, RecordResult, storeVars
  <1>5. ASSUME CleanupPass
        PROVE  FALSE
    BY <1>1, <1>5 DEF CleanupPass, CreateCleanup, RetryCleanup, Release
  <1>6. ASSUME NEW o \in Objects, Crash(o) \/ Delete(o) \/ Suspend(o) \/ Create(o) \/ Resume(o)
        PROVE  FALSE
    BY <1>1, <1>6 DEF Crash, Delete, Suspend, Create, Resume, storeVars
  <1>7. ASSUME DeleteKnowledgeBase \/ CreateKnowledgeBase
        PROVE  FALSE
    BY <1>1, <1>7 DEF DeleteKnowledgeBase, CreateKnowledgeBase, storeVars
  <1>8. ~UNCHANGED vars
    BY <1>1 DEF vars, storeVars
  <1>. QED
    BY <1>2, <1>3, <1>4, <1>5, <1>6, <1>7, <1>8 DEF Next, System, Pods, Disturb, Wish

\* Readers are only moved to a restored collection that equals, page by page, the archive its
\* Job was given, whatever batches were lost and however many pods filled it (restore.py).
THEOREM Promotes == Spec => RestorePromotesBackup
  <1>1. ASSUME LifecycleInv, [Next]_vars, NEW j \in Ids,
               alias' = j, alias # j, jobs[j] # None
        PROVE  jobs[j].kind = "restore" /\ collections[j] = uploads[jobs[j].from]
    <2>1. Ingest \/ \E i \in JobNames : MoveAlias(i)
      BY <1>1, AliasMoves
    <2>2. CASE Ingest
      <3>1. j = used + 1 /\ used \in Ids
        BY <1>1, <2>2 DEF Ingest, LifecycleInv, TypeOK, StoreTypeOK
      <3>2. j <= used
        BY <1>1 DEF LifecycleInv, JobOK, JobNames
      <3>. QED
        BY <3>1, <3>2 DEF Ids
    <2>3. ASSUME NEW i \in JobNames, MoveAlias(i)
          PROVE  jobs[j].kind = "restore" /\ collections[j] = uploads[jobs[j].from]
      <3>1. i = j /\ collections[j] # None
        BY <1>1, <2>3 DEF MoveAlias
      <3>2. /\ JobOK(j) /\ jobs[j] # None
            /\ jobs[j].kind = "restore" /\ jobs[j].step = "moveAlias"
        BY <1>1, <2>3, <3>1, AtJob DEF MoveAlias
      <3>. QED
        BY <3>1, <3>2 DEF JobOK, Staged
    <2>. QED
      BY <2>1, <2>2, <2>3
  <1>. DEFINE Step == \A j \in Ids : alias' = j /\ alias # j /\ jobs[j] # None =>
                        jobs[j].kind = "restore" /\ collections[j] = uploads[jobs[j].from]
  <1>2. ASSUME LifecycleInv, [Next]_vars
        PROVE  Step
    BY <1>1, <1>2
  <1>3. ASSUME LifecycleInv, [Next]_vars
        PROVE  [Step]_vars
    BY <1>2, <1>3
  <1>. HIDE DEF Step
  <1>4. [][Next]_vars /\ []LifecycleInv => [][Step]_vars
    BY <1>3, PTL
  <1>5. Spec => [][Step]_vars
    BY <1>4, Invariance, PTL DEF Spec
  <1>. QED
    BY <1>5 DEF RestorePromotesBackup, Step

=============================================================================
