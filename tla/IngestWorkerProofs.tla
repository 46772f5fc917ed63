------------------------- MODULE IngestWorkerProofs -------------------------
(***************************************************************************)
(* Proofs about IngestWorker, for any number of sources, versions and      *)
(* pods: type correctness, that readers see what Collection promises, and  *)
(* that what a Job reports, or leaves in place, is what its sources were.  *)
(***************************************************************************)
EXTENDS IngestWorker, TLAPS

-----------------------------------------------------------------------------
(* The inductive invariant: as long as nothing was interrupted, every stage *)
(* of a pod keeps what its promotion or its report will need.               *)

\* Nothing is newer than its source.
NothingNewer ==
  \A s \in Sources :
    /\ atStart[s] <= upstream[s]
    /\ (Served # None /\ Served[s] # None) => Served[s] <= upstream[s]

\* What status.sources records is in the collection, or something newer is.
RecordedIsServed ==
  \A s \in Sources :
    recorded[s] # None => Served # None /\ Served[s] # None /\ recorded[s] <= Served[s]

ServedIsFresh ==
  /\ Served # None
  /\ \A s \in Sources : Served[s] # None /\ atStart[s] <= Served[s]

\* A source that was found unchanged is served as recorded, and fresh.
ProbedIsServed ==
  /\ pc = "ensure" => i = 1
  /\ pc = "probe" =>
       \A s \in Sources :
         s < i => results[s] = Served[s] /\ results[s] # None /\ atStart[s] <= results[s]
  /\ pc = "probe" => completed = Nothing

\* The shadow holds what the results say, nothing of it older than what is served.
Indexed(s) ==
  /\ results[s] # None
  /\ atStart[s] <= results[s] /\ results[s] <= upstream[s]
  /\ (Served # None /\ Served[s] # None) => Served[s] <= results[s]

IndexedIsStaged ==
  pc = "index" =>
    /\ completed = Nothing
    /\ alias # "staging"
    /\ collections["staging"] = results
    /\ \A s \in Sources : s < i => Indexed(s)

PromotedIsReported == pc = "report" => alias = "staging" /\ results = Served /\ ServedIsFresh

CompletedIsServed ==
  job = "complete" => ServedIsFresh /\ (result # None => result = Served)

Safe ==
  /\ NothingNewer
  /\ RecordedIsServed
  /\ ProbedIsServed
  /\ IndexedIsStaged
  /\ PromotedIsReported
  /\ CompletedIsServed

WorkerInv == TypeOK /\ (~interrupted => Safe)

-----------------------------------------------------------------------------
(* Facts about what readers see.                                           *)

\* Without a collection readers see nothing; else what a collection may hold.
LEMMA ServedType ==
  ASSUME TypeOK
  PROVE  /\ Served \in Contents \union {None}
         /\ alias # None => Served \in Contents
         /\ alias = None => Served = None
  <1>1. \A p \in Physical : collections[p] # None => collections[p] \in Contents
    BY DEF TypeOK
  <1>2. CASE alias = None
    BY <1>2 DEF Served, TypeOK
  <1>3. CASE alias # None
    BY <1>1, <1>3 DEF Served, TypeOK
  <1>. QED
    BY <1>2, <1>3

\* An empty collection is not a missing one.
LEMMA NothingType ==
  Nothing \in Contents /\ Nothing # None /\ \A s \in Sources : Nothing[s] = None
  BY NoneAssumption DEF Nothing, Contents

-----------------------------------------------------------------------------
(* Type correctness.                                                       *)

LEMMA TypeInit == Init => TypeOK
  <1>. SUFFICES ASSUME Init PROVE TypeOK
    OBVIOUS
  <1>1. upstream \in [Sources -> Versions]
    BY SizeAssumption DEF Init, Versions
  <1>2. 0 \in 0..(BackoffLimit + 1) /\ 1 \in 1..(NumSources + 1)
    BY SizeAssumption, BackoffAssumption
  <1>. QED
    BY <1>1, <1>2, NothingType DEF Init, TypeOK

LEMMA TypeStep == TypeOK /\ [Next]_vars => TypeOK'
  <1>. SUFFICES ASSUME TypeOK, [Next]_vars PROVE TypeOK'
    OBVIOUS
  <1>. USE DEF TypeOK
  <1>1. CASE StartJob
    BY <1>1, ServedType, NothingType, NoneAssumption, BackoffAssumption
       DEF StartJob, Finalized, statusVars, podVars, Physical
  <1>2. CASE StartPod
    BY <1>2, NothingType, BackoffAssumption, SizeAssumption DEF StartPod, statusVars, storeVars
  <1>3. CASE JobFails
    BY <1>3 DEF JobFails, statusVars, podVars, storeVars
  <1>4. CASE Deadline
    BY <1>4 DEF Deadline, statusVars, storeVars
  <1>5. CASE Kill
    BY <1>5 DEF Kill, jobVars, statusVars, storeVars
  <1>6. CASE Stage
    BY <1>6, NothingType, NoneAssumption, SizeAssumption
       DEF Stage, ReadCheckpoint, jobVars, statusVars, Physical
  <1>7. CASE SkipCompleted
    BY <1>7, SizeAssumption DEF SkipCompleted, jobVars, statusVars, storeVars, Sources
  <1>8. CASE IndexSource
    <2>1. upstream[i] \in Versions /\ i + 1 \in 1..(NumSources + 1)
      BY <1>8, SizeAssumption DEF IndexSource, Sources
    <2>2. collections["staging"] \in Contents
      BY <1>8 DEF IndexSource, Physical
    <2>3. [collections["staging"] EXCEPT ![i] = upstream[i]] \in Contents
      BY <2>1, <2>2 DEF Contents
    <2>4. collections' =
              [collections EXCEPT !["staging"] = [collections["staging"] EXCEPT ![i] = upstream[i]]]
      BY <1>8, Zenon DEF IndexSource
    <2>5. results' \in Contents /\ checkpoint' \in Contents
      BY <1>8, <2>1 DEF IndexSource, Contents
    <2>6. /\ collections' \in [Physical -> Contents \union {None}]
          /\ collections'["staging"] # None
          /\ collections'["current"] = collections["current"]
      BY <2>2, <2>3, <2>4, NoneAssumption DEF Physical
    <2>. QED
      BY <1>8, <2>1, <2>5, <2>6 DEF IndexSource, jobVars, statusVars, Physical
  <1>9. CASE RefuseEmpty
    BY <1>9 DEF RefuseEmpty, DropShadow, jobVars, statusVars, Physical
  <1>10. CASE Promote
    BY <1>10 DEF Promote, AllIndexed, jobVars, statusVars, Physical
  <1>11. CASE Report
    BY <1>11 DEF Report, WriteResult, statusVars, storeVars
  <1>12. CASE Raise
    BY <1>12 DEF Raise, DropShadow, jobVars, statusVars, Physical
  <1>13. CASE EnsureCollection
    BY <1>13, NothingType, NoneAssumption
       DEF EnsureCollection, ReadCheckpoint, jobVars, statusVars, Physical
  <1>14. CASE ProbeCompleted
    BY <1>14, SizeAssumption DEF ProbeCompleted, jobVars, statusVars, storeVars, Sources
  <1>15. CASE CarryOver
    BY <1>15, SizeAssumption
       DEF CarryOver, Prior, jobVars, statusVars, storeVars, Sources, Contents
  <1>16. CASE Rebuild
    BY <1>16 DEF Rebuild, jobVars, statusVars, storeVars
  <1>17. CASE Retain
    BY <1>17 DEF Retain, WriteResult, statusVars, storeVars
  <1>18. CASE Publish
    BY <1>18, SizeAssumption DEF Publish, jobVars, statusVars, podVars, storeVars, Versions
  <1>19. CASE UNCHANGED vars
    BY <1>19 DEF vars, jobVars, statusVars, podVars, storeVars
  <1>. QED
    BY <1>1, <1>2, <1>3, <1>4, <1>5, <1>6, <1>7, <1>8, <1>9, <1>10, <1>11, <1>12, <1>13,
       <1>14, <1>15, <1>16, <1>17, <1>18, <1>19
       DEF Next, Pod, FullIngest, IncrementalIngest, Failure

THEOREM TypeCorrect == Spec => []TypeOK
  BY TypeInit, TypeStep, PTL DEF Spec

-----------------------------------------------------------------------------
(* The invariant.                                                          *)

\* What it says of readers survives every step that they do not see.
LEMMA Unseen ==
  ASSUME NothingNewer, RecordedIsServed,
         Served' = Served, UNCHANGED <<upstream, recorded, atStart>>
  PROVE  NothingNewer' /\ RecordedIsServed'
  BY DEF NothingNewer, RecordedIsServed

\* A pod that ends without completing the Job leaves nothing to be shown of it.
LEMMA Ended ==
  ASSUME pc' = "none", job' # "complete"
  PROVE  ProbedIsServed' /\ IndexedIsStaged' /\ PromotedIsReported' /\ CompletedIsServed'
  BY DEF ProbedIsServed, IndexedIsStaged, PromotedIsReported, CompletedIsServed

\* Dropping a shadow that is not live is not seen.
LEMMA DropUnseen ==
  ASSUME TypeOK, DropShadow, alias # "staging"
  PROVE  Served' = Served
  <1>1. alias' = alias /\ collections'["current"] = collections["current"]
    BY DEF DropShadow, TypeOK, Physical
  <1>2. alias = None \/ alias = "current"
    BY DEF TypeOK, Physical
  <1>. QED
    BY <1>1, <1>2 DEF Served

\* Reading the revisions changes no collection; reporting needs what was read.
LEMMA Retained ==
  ASSUME TypeOK, Safe, Retain
  PROVE  results = Served /\ ServedIsFresh
  <1>1. /\ \A s \in Sources : results[s] = Served[s] /\ results[s] # None
        /\ \A s \in Sources : atStart[s] <= results[s]
    <2>1. pc = "probe" /\ \A s \in Sources : s < i
      BY SizeAssumption DEF Retain, AllProbed, Sources, TypeOK
    <2>. QED
      BY <2>1 DEF Safe, ProbedIsServed
  <1>2. Served \in Contents /\ Served # None
    BY ServedType, NoneAssumption DEF TypeOK, Retain, AllProbed
  <1>3. results = Served
    BY <1>1, <1>2 DEF Contents, TypeOK
  <1>. QED
    BY <1>1, <1>2, <1>3 DEF ServedIsFresh

\* The shadow that is promoted is whole, and nowhere older than what it replaces.
LEMMA Promoted ==
  ASSUME TypeOK, Safe, Promote
  PROVE  /\ Served' = results
         /\ \A s \in Sources : Indexed(s)
  <1>1. pc = "index" /\ \A s \in Sources : s < i
    BY SizeAssumption DEF Promote, AllIndexed, Sources, TypeOK
  <1>2. collections'["staging"] = collections["staging"]
    BY DEF Promote, TypeOK, Physical
  <1>3. Served' = collections["staging"]
    BY <1>2, NoneAssumption DEF Promote, Served, Physical
  <1>. QED
    BY <1>1, <1>3 DEF Safe, IndexedIsStaged

LEMMA SafeInit == Init => Safe
  <1>. SUFFICES ASSUME Init PROVE Safe
    OBVIOUS
  <1>1. Served = None
    BY DEF Init, Served
  <1>2. \A s \in Sources : atStart[s] = 1 /\ upstream[s] = 1 /\ recorded[s] = None
    BY DEF Init, Nothing
  <1>3. NothingNewer /\ RecordedIsServed
    BY <1>1, <1>2 DEF NothingNewer, RecordedIsServed
  <1>. QED
    BY <1>3 DEF Init, Safe, ProbedIsServed, IndexedIsStaged, PromotedIsReported,
                CompletedIsServed

LEMMA SafeStep ==
  ASSUME TypeOK, TypeOK', Safe, Next, ~interrupted'
  PROVE  Safe'
  <1>. USE NoneAssumption DEF Versions
  <1>0. \A s \in Sources :
          /\ upstream[s] \in Nat /\ atStart[s] \in Nat
          /\ recorded[s] # None => recorded[s] \in Nat
          /\ results[s] # None => results[s] \in Nat
          /\ (Served # None /\ Served[s] # None) => Served[s] \in Nat
    BY ServedType DEF TypeOK, Contents
  <1>1. CASE StartJob
    <2>1. Served' = Served
      <3>1. CASE alias = None
        BY <1>1, <3>1, ServedType DEF StartJob, Served
      <3>2. CASE alias # None
        <4>1. alias' = "current" /\ collections'["current"] = Served
          BY <1>1, <3>2 DEF StartJob
        <4>. QED
          BY <4>1 DEF Served, Physical
      <3>. QED
        BY <3>1, <3>2
    <2>2. NothingNewer'
      BY <1>0, <1>1, <2>1 DEF StartJob, NothingNewer, Safe
    <2>3. RecordedIsServed'
      <3>1. CASE job = "complete" /\ result # None /\ recorded' = result
        <4>1. recorded' = Served /\ ServedIsFresh
          BY <1>1, <3>1 DEF Safe, CompletedIsServed
        <4>2. \A s \in Sources : Served[s] # None /\ Served[s] \in Nat /\ Served # None
          BY <1>0, <4>1 DEF ServedIsFresh
        <4>. QED
          BY <2>1, <4>1, <4>2 DEF RecordedIsServed
      <3>2. CASE recorded' = recorded
        BY <2>1, <3>2 DEF Safe, RecordedIsServed
      <3>. QED
        BY <1>1, <3>1, <3>2 DEF StartJob, Finalized, statusVars
    <2>4. pc' = "none" /\ job' # "complete"
      BY <1>1 DEF StartJob, TypeOK, podVars
    <2>. QED
      BY <2>2, <2>3, <2>4, Ended DEF Safe
  <1>2. CASE StartPod
    <2>1. Served' = Served /\ UNCHANGED <<upstream, recorded, atStart>>
      BY <1>2 DEF StartPod, Served, statusVars, storeVars
    <2>2. pc' \in {"stage", "ensure"} /\ job' = "running" /\ i' = 1
      BY <1>2 DEF StartPod
    <2>3. NothingNewer' /\ RecordedIsServed'
      BY <2>1, Unseen DEF Safe
    <2>. QED
      BY <2>2, <2>3 DEF Safe, ProbedIsServed, IndexedIsStaged, PromotedIsReported,
                        CompletedIsServed
  <1>3. CASE JobFails
    <2>1. Served' = Served /\ UNCHANGED <<upstream, recorded, atStart>>
      BY <1>3 DEF JobFails, Served, statusVars, storeVars
    <2>2. pc' = "none" /\ job' # "complete"
      BY <1>3 DEF JobFails, podVars
    <2>. QED
      BY <2>1, <2>2, Unseen, Ended DEF Safe
  <1>4. CASE Deadline
    <2>1. Served' = Served /\ UNCHANGED <<upstream, recorded, atStart>>
      BY <1>4 DEF Deadline, Served, statusVars, storeVars
    <2>2. pc' = "none" /\ job' # "complete"
      BY <1>4 DEF Deadline
    <2>. QED
      BY <2>1, <2>2, Unseen, Ended DEF Safe
  <1>5. CASE Kill
    <2>1. Served' = Served /\ UNCHANGED <<upstream, recorded, atStart>>
      BY <1>5 DEF Kill, Served, storeVars, jobVars, statusVars
    <2>2. pc' = "none" /\ job' # "complete"
      BY <1>5 DEF Kill, TypeOK, jobVars, statusVars
    <2>. QED
      BY <2>1, <2>2, Unseen, Ended DEF Safe
  <1>6. CASE Stage
    <2>1. alias # "staging" /\ completed' = Nothing
      BY <1>6 DEF Stage
    <2>2. alias' = alias /\ collections'["current"] = collections["current"]
      BY <1>6, <2>1 DEF Stage, TypeOK, Physical
    <2>3. Served' = Served
      BY <2>1, <2>2 DEF Served, TypeOK, Physical
    <2>4. UNCHANGED <<upstream, recorded, atStart>> /\ job' = "running"
      BY <1>6 DEF Stage, jobVars, statusVars, TypeOK
    <2>5. NothingNewer' /\ RecordedIsServed'
      BY <2>3, <2>4, Unseen DEF Safe
    <2>6. IndexedIsStaged'
      <3>1. collections'["staging"] = Nothing /\ results' = Nothing /\ i' = 1
        BY <1>6, <2>1 DEF Stage, TypeOK, Physical
      <3>. QED
        BY <2>1, <2>2, <3>1 DEF IndexedIsStaged, Sources
    <2>7. pc' = "index"
      BY <1>6 DEF Stage
    <2>. QED
      BY <2>4, <2>5, <2>6, <2>7 DEF Safe, ProbedIsServed, PromotedIsReported, CompletedIsServed
  <1>7. CASE SkipCompleted
    BY <1>7, NothingType DEF SkipCompleted, Safe, IndexedIsStaged
  <1>8. CASE IndexSource
    <2>1. /\ pc = "index" /\ pc' = "index" /\ job' = "running" /\ i' = i + 1
          /\ i \in Sources /\ alias' = alias /\ completed' = completed
          /\ UNCHANGED <<upstream, recorded, atStart>>
      BY <1>8 DEF IndexSource, jobVars, statusVars, TypeOK
    <2>2. collections' =
              [collections EXCEPT !["staging"] = [collections["staging"] EXCEPT ![i] = upstream[i]]]
      BY <1>8, Zenon DEF IndexSource
    <2>3. results' = [results EXCEPT ![i] = upstream[i]]
      BY <1>8 DEF IndexSource
    <2>4. completed = Nothing /\ alias # "staging" /\ collections["staging"] = results
      BY <2>1 DEF Safe, IndexedIsStaged
    <2>5. /\ collections'["staging"] = results'
          /\ collections'["current"] = collections["current"]
      BY <2>2, <2>3, <2>4 DEF TypeOK, Physical
    <2>6. Served' = Served
      BY <2>1, <2>4, <2>5 DEF Served, TypeOK, Physical
    <2>7. NothingNewer' /\ RecordedIsServed'
      BY <2>1, <2>6, Unseen DEF Safe
    <2>8. ASSUME NEW s \in Sources, s < i'
          PROVE  Indexed(s)'
      <3>1. CASE s = i
        <4>1. results'[s] = upstream[s]
          BY <2>1, <2>3, <3>1 DEF TypeOK, Contents
        <4>. QED
          BY <1>0, <2>1, <2>6, <4>1 DEF Indexed, Safe, NothingNewer
      <3>2. CASE s # i
        <4>1. results'[s] = results[s] /\ s < i
          BY <2>1, <2>3, <2>8, <3>2 DEF TypeOK, Contents, Sources
        <4>2. Indexed(s)
          BY <2>1, <4>1 DEF Safe, IndexedIsStaged
        <4>. QED
          BY <2>1, <2>6, <4>1, <4>2 DEF Indexed
      <3>. QED
        BY <3>1, <3>2
    <2>9. IndexedIsStaged'
      BY <2>1, <2>4, <2>5, <2>8 DEF IndexedIsStaged
    <2>. QED
      BY <2>1, <2>7, <2>9 DEF Safe, ProbedIsServed, PromotedIsReported, CompletedIsServed
  <1>9. CASE RefuseEmpty
    <2>1. alias # "staging"
      BY <1>9 DEF RefuseEmpty, AllIndexed, Safe, IndexedIsStaged
    <2>2. Served' = Served
      BY <1>9, <2>1, DropUnseen DEF RefuseEmpty
    <2>3. UNCHANGED <<upstream, recorded, atStart>> /\ pc' = "none" /\ job' # "complete"
      BY <1>9 DEF RefuseEmpty, AllIndexed, TypeOK, jobVars, statusVars
    <2>. QED
      BY <2>2, <2>3, Unseen, Ended DEF Safe
  <1>10. CASE Promote
    <2>1. Served' = results /\ \A s \in Sources : Indexed(s)
      BY <1>10, Promoted
    <2>2. /\ UNCHANGED <<upstream, recorded, atStart, results>>
          /\ pc' = "report" /\ alias' = "staging" /\ job' = "running"
      BY <1>10 DEF Promote, AllIndexed, TypeOK, jobVars, statusVars
    <2>3. results \in Contents /\ results # None
      BY DEF TypeOK
    <2>4. NothingNewer' /\ ServedIsFresh'
      BY <2>1, <2>2, <2>3 DEF Safe, NothingNewer, Indexed, ServedIsFresh
    <2>5. RecordedIsServed'
      BY <1>0, <2>1, <2>2, <2>3 DEF Safe, RecordedIsServed, Indexed
    <2>. QED
      BY <2>1, <2>2, <2>4, <2>5 DEF Safe, ProbedIsServed, IndexedIsStaged,
                                    PromotedIsReported, CompletedIsServed
  <1>11. CASE Report
    <2>1. /\ Served' = Served /\ UNCHANGED <<upstream, recorded, atStart>>
          /\ pc' = "none" /\ result' \in {None, results}
      BY <1>11 DEF Report, WriteResult, Served, statusVars, storeVars
    <2>2. results = Served /\ ServedIsFresh
      BY <1>11 DEF Report, Safe, PromotedIsReported
    <2>3. CompletedIsServed'
      BY <2>1, <2>2 DEF CompletedIsServed, ServedIsFresh
    <2>4. NothingNewer' /\ RecordedIsServed'
      BY <2>1, Unseen DEF Safe
    <2>. QED
      BY <2>1, <2>3, <2>4 DEF Safe, ProbedIsServed, IndexedIsStaged, PromotedIsReported
  <1>12. CASE Raise
    <2>1. alias # "staging"
      BY <1>12 DEF Raise, Safe, IndexedIsStaged
    <2>2. Served' = Served
      BY <1>12, <2>1, DropUnseen DEF Raise
    <2>3. UNCHANGED <<upstream, recorded, atStart>> /\ pc' = "none" /\ job' # "complete"
      BY <1>12 DEF Raise, TypeOK, jobVars, statusVars
    <2>. QED
      BY <2>2, <2>3, Unseen, Ended DEF Safe
  <1>13. CASE EnsureCollection
    <2>1. /\ UNCHANGED <<upstream, recorded, atStart>> /\ pc' = "probe" /\ job' = "running"
          /\ completed' = Nothing
      BY <1>13 DEF EnsureCollection, jobVars, statusVars, TypeOK
    <2>2. i' = 1
      BY <1>13 DEF EnsureCollection, Safe, ProbedIsServed
    <2>3. NothingNewer' /\ RecordedIsServed'
      <3>1. CASE alias = None
        <4>1. Served = None /\ Served' = Nothing
          BY <1>13, <3>1, ServedType DEF EnsureCollection, Served, TypeOK, Physical
        <4>2. \A s \in Sources : recorded[s] = None
          BY <4>1 DEF Safe, RecordedIsServed
        <4>. QED
          BY <2>1, <4>1, <4>2, NothingType DEF Safe, NothingNewer, RecordedIsServed
      <3>2. CASE alias # None
        <4>1. Served' = Served
          BY <1>13, <3>2 DEF EnsureCollection, Served
        <4>. QED
          BY <2>1, <4>1, Unseen DEF Safe
      <3>. QED
        BY <3>1, <3>2
    <2>. QED
      BY <2>1, <2>2, <2>3 DEF Safe, ProbedIsServed, IndexedIsStaged, PromotedIsReported,
                              CompletedIsServed, Sources
  <1>14. CASE ProbeCompleted
    BY <1>14, NothingType DEF ProbeCompleted, Safe, ProbedIsServed
  <1>15. CASE CarryOver
    <2>1. /\ Served' = Served /\ UNCHANGED <<upstream, recorded, atStart, completed>>
          /\ pc = "probe" /\ pc' = "probe" /\ job' = "running"
          /\ i \in Sources /\ i' = i + 1 /\ Unchanged(i)
          /\ results' = [results EXCEPT ![i] = Prior(i)]
      BY <1>15 DEF CarryOver, Served, storeVars, jobVars, statusVars, TypeOK
    <2>2. ASSUME NEW s \in Sources, s < i'
          PROVE  results'[s] = Served'[s] /\ results'[s] # None /\ atStart'[s] <= results'[s]
      <3>1. CASE s = i
        <4>0. recorded[s] # None
          BY <1>15, <3>1 DEF CarryOver
        <4>1. results'[s] = recorded[s] /\ recorded[s] = upstream[s] /\ recorded[s] # None
          BY <2>1, <3>1, <4>0 DEF Unchanged, Prior, TypeOK, Contents
        <4>2. /\ recorded[s] <= Served[s] /\ Served[s] <= upstream[s] /\ atStart[s] <= upstream[s]
              /\ Served[s] \in Nat
          BY <1>0, <4>1 DEF Safe, RecordedIsServed, NothingNewer
        <4>. QED
          BY <1>0, <2>1, <4>1, <4>2
      <3>2. CASE s # i
        <4>1. results'[s] = results[s] /\ s < i
          BY <2>1, <2>2, <3>2 DEF TypeOK, Contents, Sources
        <4>. QED
          BY <2>1, <4>1 DEF Safe, ProbedIsServed
      <3>. QED
        BY <3>1, <3>2
    <2>3. ProbedIsServed'
      BY <2>1, <2>2 DEF Safe, ProbedIsServed
    <2>4. NothingNewer' /\ RecordedIsServed'
      BY <2>1, Unseen DEF Safe
    <2>. QED
      BY <2>1, <2>3, <2>4 DEF Safe, IndexedIsStaged, PromotedIsReported, CompletedIsServed
  <1>16. CASE Rebuild
    <2>1. /\ Served' = Served /\ UNCHANGED <<upstream, recorded, atStart>>
          /\ pc' = "stage" /\ job' = "running"
      BY <1>16 DEF Rebuild, Served, storeVars, jobVars, statusVars, TypeOK
    <2>2. NothingNewer' /\ RecordedIsServed'
      BY <2>1, Unseen DEF Safe
    <2>. QED
      BY <2>1, <2>2 DEF Safe, ProbedIsServed, IndexedIsStaged, PromotedIsReported,
                        CompletedIsServed
  <1>17. CASE Retain
    <2>1. /\ Served' = Served /\ UNCHANGED <<upstream, recorded, atStart>>
          /\ pc' = "none" /\ result' \in {None, results}
      BY <1>17 DEF Retain, WriteResult, Served, statusVars, storeVars
    <2>2. results = Served /\ ServedIsFresh
      BY <1>17, Retained
    <2>3. CompletedIsServed'
      BY <2>1, <2>2 DEF CompletedIsServed, ServedIsFresh
    <2>4. NothingNewer' /\ RecordedIsServed'
      BY <2>1, Unseen DEF Safe
    <2>. QED
      BY <2>1, <2>3, <2>4 DEF Safe, ProbedIsServed, IndexedIsStaged, PromotedIsReported
  <1>18. CASE Publish
    <2>1. \A s \in Sources : upstream[s] <= upstream'[s] /\ upstream'[s] \in Nat
      BY <1>0, <1>18 DEF Publish, TypeOK
    <2>2. /\ Served' = Served
          /\ UNCHANGED <<job, recorded, atStart, pc, i, completed,
                         results, result, collections, alias>>
      BY <1>18 DEF Publish, Served, jobVars, statusVars, podVars, storeVars
    <2>3. NothingNewer' /\ RecordedIsServed'
      BY <1>0, <2>1, <2>2 DEF Safe, NothingNewer, RecordedIsServed
    <2>4. \A s \in Sources : Indexed(s) => Indexed(s)'
      BY <1>0, <2>1, <2>2 DEF Indexed
    <2>5. IndexedIsStaged'
      BY <2>2, <2>4 DEF Safe, IndexedIsStaged
    <2>. QED
      BY <2>2, <2>3, <2>5 DEF Safe, ProbedIsServed, PromotedIsReported, CompletedIsServed,
                              ServedIsFresh
  <1>. QED
    BY <1>1, <1>2, <1>3, <1>4, <1>5, <1>6, <1>7, <1>8, <1>9, <1>10, <1>11, <1>12, <1>13,
       <1>14, <1>15, <1>16, <1>17, <1>18
       DEF Next, Pod, FullIngest, IncrementalIngest, Failure

\* Interruptions are remembered.
LEMMA InterruptedStays == Next /\ interrupted => interrupted'
  BY DEF Next, Pod, FullIngest, IncrementalIngest, Failure, StartJob, StartPod, JobFails,
         Deadline, Kill, Stage, SkipCompleted, IndexSource, RefuseEmpty, Promote, Report,
         WriteResult, Raise, EnsureCollection, ProbeCompleted, CarryOver, Rebuild, Retain,
         Publish

LEMMA InvStep == WorkerInv /\ [Next]_vars => WorkerInv'
  <1>. SUFFICES ASSUME WorkerInv, [Next]_vars PROVE WorkerInv'
    OBVIOUS
  <1>1. TypeOK'
    BY TypeStep DEF WorkerInv
  <1>2. CASE Next
    BY <1>1, <1>2, SafeStep, InterruptedStays DEF WorkerInv
  <1>3. CASE UNCHANGED vars
    <2>1. ~interrupted' => ~interrupted /\ Served' = Served
      BY <1>3 DEF vars, storeVars, Served
    <2>. QED
      BY <1>1, <1>3, <2>1
         DEF WorkerInv, Safe, NothingNewer, RecordedIsServed, ProbedIsServed, IndexedIsStaged,
             Indexed, PromotedIsReported, CompletedIsServed, ServedIsFresh, vars, jobVars,
             statusVars, podVars, storeVars
  <1>. QED
    BY <1>2, <1>3

LEMMA Invariance == Spec => []WorkerInv
  <1>1. Init => WorkerInv
    BY TypeInit, SafeInit DEF WorkerInv
  <1>. QED
    BY <1>1, InvStep, PTL DEF Spec

-----------------------------------------------------------------------------
(* What follows from it.                                                   *)

\* The result a Job publishes is what readers get (write_result).
THEOREM Reported == Spec => []ReportedIsServed
  <1>1. WorkerInv => ReportedIsServed
    BY DEF WorkerInv, Safe, CompletedIsServed, ReportedIsServed
  <1>. QED
    BY <1>1, Invariance, PTL

\* A completed Job, full or incremental, leaves nothing older than its sources
\* were when it started (_full_ingest, _incremental_ingest).
THEOREM Fresh == Spec => []CompleteIsFresh
  <1>1. WorkerInv => CompleteIsFresh
    <2>. SUFFICES ASSUME WorkerInv, job = "complete", ~interrupted, NEW s \in Sources
                  PROVE  Served[s] >= atStart[s]
      BY DEF CompleteIsFresh
    <2>1. Served # None /\ Served[s] # None /\ atStart[s] <= Served[s]
      BY DEF WorkerInv, Safe, CompletedIsServed, ServedIsFresh
    <2>2. Served[s] \in Nat /\ atStart[s] \in Nat
      BY <2>1, ServedType DEF WorkerInv, TypeOK, Contents, Versions
    <2>. QED
      BY <2>1, <2>2
  <1>. QED
    BY <1>1, Invariance, PTL

-----------------------------------------------------------------------------
(* Refinement: a step of the worker replaces what readers see as a whole,  *)
(* or they see no difference, or it is an interruption.                    *)

\* Without an interruption only Promote, and the first EnsureCollection, are seen.
LEMMA SeenStep ==
  ASSUME TypeOK, Safe, Next, ~interrupted'
  PROVE  Served' = Served \/ Reader!Create \/ Reader!Replace
  <1>1. CASE StartJob
    <2>1. CASE alias = None
      BY <1>1, <2>1, ServedType DEF StartJob, Served
    <2>2. CASE alias # None
      <3>1. alias' = "current" /\ collections'["current"] = Served
        BY <1>1, <2>2 DEF StartJob
      <3>. QED
        BY <3>1, NoneAssumption DEF Served, Physical
    <2>. QED
      BY <2>1, <2>2
  <1>2. CASE Stage
    <2>1. alias' = alias /\ collections'["current"] = collections["current"] /\ alias # "staging"
      BY <1>2 DEF Stage, TypeOK, Physical
    <2>. QED
      BY <2>1 DEF Served, TypeOK, Physical
  <1>3. CASE IndexSource
    <2>1. alias' = alias /\ alias # "staging"
      BY <1>3 DEF IndexSource, Safe, IndexedIsStaged
    <2>2. collections' =
              [collections EXCEPT !["staging"] = [collections["staging"] EXCEPT ![i] = upstream[i]]]
      BY <1>3, Zenon DEF IndexSource
    <2>. QED
      BY <2>1, <2>2 DEF Served, TypeOK, Physical
  <1>4. CASE RefuseEmpty
    <2>1. alias # "staging" /\ DropShadow
      BY <1>4 DEF RefuseEmpty, AllIndexed, Safe, IndexedIsStaged
    <2>. QED
      BY <2>1, DropUnseen
  <1>5. CASE Raise
    <2>1. alias # "staging" /\ DropShadow
      BY <1>5 DEF Raise, Safe, IndexedIsStaged
    <2>. QED
      BY <2>1, DropUnseen
  <1>6. CASE Promote
    <2>1. Served' = results /\ \A s \in Sources : Indexed(s)
      BY <1>6, Promoted
    <2>2. results \in [Sources -> Versions]
      BY <2>1 DEF Indexed, TypeOK, Contents
    <2>3. \E s \in Sources : results[s] \notin EmptyVersions
      BY <1>6 DEF Promote, AllIndexed, NoChunks, HasChunks, Safe, IndexedIsStaged
    <2>4. \A s \in Sources : Served # None /\ Served[s] # None => Served[s] <= Served'[s]
      BY <2>1 DEF Indexed
    <2>5. Reader!Replace
      BY <2>1, <2>2, <2>3, <2>4 DEF Reader!Replace, Reader!Corpora
    <2>. QED
      BY <2>5
  <1>7. CASE EnsureCollection
    <2>1. CASE alias = None
      <3>1. Served = None /\ Served' = Nothing
        BY <1>7, <2>1, ServedType, NoneAssumption DEF EnsureCollection, Served, TypeOK, Physical
      <3>. QED
        BY <3>1 DEF Reader!Create, Nothing
    <2>2. CASE alias # None
      BY <1>7, <2>2 DEF EnsureCollection, Served
    <2>. QED
      BY <2>1, <2>2
  <1>8. CASE UNCHANGED storeVars
    BY <1>8 DEF storeVars, Served
  <1>. QED
    BY <1>1, <1>2, <1>3, <1>4, <1>5, <1>6, <1>7, <1>8
       DEF Next, Pod, FullIngest, IncrementalIngest, Failure, StartPod, JobFails, Deadline, Kill,
           SkipCompleted, Report, WriteResult, ProbeCompleted, CarryOver, Rebuild, Retain,
           Publish, storeVars

\* Spec implements Collection: readers see whole corpora, never an older one,
\* until an interruption (_full_ingest, swap_collection).
THEOREM Refinement == Spec => ServesWholeCorpora
  <1>1. Init => Reader!Init
    BY DEF Init, Reader!Init, Served
  <1>2. WorkerInv /\ WorkerInv' /\ [Next]_vars => [Reader!Next]_<<Served, ~interrupted>>
    <2>. SUFFICES ASSUME WorkerInv, WorkerInv', [Next]_vars
                  PROVE  [Reader!Next]_<<Served, ~interrupted>>
      OBVIOUS
    <2>1. interrupted \in BOOLEAN /\ interrupted' \in BOOLEAN
      BY DEF WorkerInv, TypeOK
    <2>2. CASE UNCHANGED vars
      BY <2>2 DEF vars, storeVars, Served
    <2>3. CASE Next /\ interrupted'
      <3>1. Served' \in Contents \union {None}
        <4>1. TypeOK'
          BY DEF WorkerInv
        <4>2. \A p \in Physical : collections'[p] \in Contents \union {None}
          BY <4>1 DEF TypeOK
        <4>. QED
          BY <4>1, <4>2 DEF Served, TypeOK
      <3>2. Reader!Interrupt
        BY <2>3, <3>1 DEF Reader!Interrupt, Reader!Contents, Contents
      <3>. QED
        BY <3>2 DEF Reader!Next
    <2>4. CASE Next /\ ~interrupted'
      <3>1. ~interrupted
        BY <2>4, InterruptedStays
      <3>2. Served' = Served \/ Reader!Create \/ Reader!Replace
        BY <2>4, <3>1, SeenStep DEF WorkerInv
      <3>. QED
        BY <2>4, <3>1, <3>2 DEF Reader!Next
    <2>. QED
      BY <2>2, <2>3, <2>4
  <1>. QED
    BY <1>1, <1>2, Invariance, PTL DEF Spec, ServesWholeCorpora, Reader!Spec

=============================================================================
