--------------------------- MODULE ServingProofs ---------------------------
(***************************************************************************)
(* Proofs about module Serving, for all values of its constants: the       *)
(* Retriever reconciler is level-triggered (QuietMeansConverged).          *)
(*                                                                         *)
(* The invariant behind it follows the pass.  While the Retriever is not   *)
(* queued nothing it watches has changed since the running pass began, so  *)
(* what the pass has read is current and each child it has been at is as   *)
(* desired; and a step that changes a child or the status queues it.       *)
(***************************************************************************)
EXTENDS Serving, TLAPS

-----------------------------------------------------------------------------
(* Types.                                                                  *)

LEMMA KbSecretsType ==
  ASSUME NEW spec \in KbSpecs
  PROVE  KbSecrets(spec) \in SUBSET Secrets
BY StoreAssumption, ModelAssumption, SpecAssumption DEF KbSecrets

LEMMA ReferencedType ==
  ASSUME NEW r \in RetrieverSpecs, NEW k \in KnowledgeBases
  PROVE  Referenced(r, k) \in SUBSET Secrets
BY KbSecretsType, RetrieverAssumption DEF Referenced, KnowledgeBases, AnyRetriever

LEMMA ValuesType ==
  ASSUME WorldTypeOK, NEW keys \in SUBSET Secrets
  PROVE  Values(keys) \in [keys -> Versions \union {None}]
BY DEF WorldTypeOK, Values

\* An action of the world keeps its types.
LEMMA WorldTypes == ASSUME WorldTypeOK, World PROVE WorldTypeOK'
<1> USE DEF WorldTypeOK
<1>1. CASE EnsureVectorIndex
  <2>1. Expected[kb.spec.model] \in Nat /\ kb.spec.store \in Stores
    BY <1>1, ModelAssumption, SpecAssumption
       DEF EnsureVectorIndex, Reconciled, KnowledgeBases
  <2>2. vi = None => vi' \in VectorIndices
    <3>1. vi = None => vi' = [expected |-> Expected[kb.spec.model], store |-> kb.spec.store,
                              health |-> "", points |-> 0]
      BY <1>1 DEF EnsureVectorIndex
    <3>2. [expected |-> Expected[kb.spec.model], store |-> kb.spec.store,
           health |-> "", points |-> 0] \in VectorIndices
      BY <2>1 DEF VectorIndices, Healths
    <3> QED BY <3>1, <3>2
  <2>3. vi \in VectorIndices => vi' \in VectorIndices
    BY <1>1, <2>1, NoneAssumption DEF EnsureVectorIndex, VectorIndices
  <2>4. kb # None /\ UNCHANGED <<kb, ingest, collections, secrets, outage, budget>>
    BY <1>1 DEF EnsureVectorIndex, Reconciled
  <2> QED BY <2>2, <2>3, <2>4
<1>2. CASE StartIngest
  <2>1. kb.spec \in KbSpecs
    BY <1>2 DEF StartIngest, Reconciled, KnowledgeBases
  <2>2. Values(KbSecrets(kb.spec)) \in [KbSecrets(kb.spec) -> Versions \union {None}]
    BY <2>1, KbSecretsType, ValuesType
  <2>3. ingest' \in IngestJobs
    BY <1>2, <2>1, <2>2 DEF StartIngest, IngestJobs
  <2> QED BY <1>2, <2>3 DEF StartIngest, Reconciled
<1>3. CASE Promote
  <2>1. PICK s \in KbSpecs :
          ingest \in [spec: {s}, creds: [KbSecrets(s) -> Versions \union {None}],
                      promoted: BOOLEAN]
    BY <1>3 DEF Promote, IngestJobs
  <2>2. ingest' \in [spec: {s}, creds: [KbSecrets(s) -> Versions \union {None}],
                      promoted: BOOLEAN]
    BY <1>3, <2>1 DEF Promote
  <2>3. collections' \in [Stores -> Contents \union {None}]
    BY <1>3, <2>1, SpecAssumption DEF Promote, Contents
  <2> QED BY <1>3, <2>2, <2>3 DEF Promote, IngestJobs
<1>4. CASE CancelIngest
  BY <1>4 DEF CancelIngest, Reconciled
<1>5. CASE FinalizeIngest
  BY <1>5, NoneAssumption DEF FinalizeIngest, Reconciled, KnowledgeBases
<1>6. CASE IngestFails
  BY <1>6, BudgetAssumption DEF IngestFails, Fault, Disturb
<1>7. CASE FinishDeletion
  BY <1>7 DEF FinishDeletion
<1>8. CASE EditKnowledgeBase
  BY <1>8, NoneAssumption, BudgetAssumption
     DEF EditKnowledgeBase, Reconciled, KnowledgeBases, Disturb
<1>9. CASE ToggleSuspend
  <2>1. kb' \in KnowledgeBases
    BY <1>9 DEF ToggleSuspend, Reconciled, KnowledgeBases
  <2> QED BY <1>9, <2>1, NoneAssumption, BudgetAssumption
          DEF ToggleSuspend, Fault, FaultOrRepair, Disturb
<1>10. CASE DeleteKnowledgeBase
  <2>1. kb' \in KnowledgeBases
    BY <1>10 DEF DeleteKnowledgeBase, Reconciled, KnowledgeBases
  <2>2. UNCHANGED <<ingest, collections, secrets, outage, vi>> /\ budget' \in 0..MaxDisturbances
    BY <1>10, BudgetAssumption DEF DeleteKnowledgeBase, Fault, Disturb
  <2> QED BY <2>1, <2>2, NoneAssumption
<1>11. CASE CreateKnowledgeBase
  BY <1>11, NoneAssumption, SpecAssumption
     DEF CreateKnowledgeBase, NewKnowledgeBase, KnowledgeBases
<1>12. CASE LoseCollection
  <2>1. PICK s \in Stores : \E c \in {None, [collections[s] EXCEPT !.filled = FALSE]} :
          /\ collections[s] # None
          /\ collections' = [collections EXCEPT ![s] = c]
    BY <1>12 DEF LoseCollection
  <2>2. \A c \in {None, [collections[s] EXCEPT !.filled = FALSE]} : c \in Contents \union {None}
    BY <2>1 DEF Contents
  <2>3. collections' \in [Stores -> Contents \union {None}]
    BY <2>1, <2>2
  <2>4. UNCHANGED <<kb, ingest, secrets, outage, vi>> /\ budget' \in 0..MaxDisturbances
    BY <1>12, BudgetAssumption DEF LoseCollection, Fault, Disturb
  <2> QED BY <2>3, <2>4
<1>13. CASE Outage
  BY <1>13, BudgetAssumption DEF Outage, Fault, FaultOrRepair, Disturb
<1>14. CASE ChangeSecret
  BY <1>14, BudgetAssumption DEF ChangeSecret, Fault, FaultOrRepair, Disturb
<1> QED
  BY <1>1, <1>2, <1>3, <1>4, <1>5, <1>6, <1>7, <1>8, <1>9, <1>10, <1>11, <1>12,
     <1>13, <1>14 DEF World

\* What a probe may find is a result.
LEMMA ProbeType ==
  ASSUME WorldTypeOK, NEW s \in Stores, NEW expected \in Nat
  PROVE  ProbeStore(s, expected) \in Results
<1>1. collections[s] # None => Count(collections[s]) \in {0, 1}
  BY DEF WorldTypeOK, Contents, Count
<1>2. \A h \in Healths \ {""}, n \in {-1, 0, 1} : Found(h, n) \in Results
  BY DEF Found, Results
<1>3. {"Unknown", "Degraded", "Missing", "Healthy"} \subseteq Healths \ {""}
  BY DEF Healths
<1>4. ProbeQdrant(s, expected) \in Results
  BY <1>1, <1>2, <1>3 DEF ProbeQdrant
<1>5. ProbePgvector(s) \in Results
  BY <1>1, <1>2, <1>3, Zenon DEF ProbePgvector
<1>6. ProbeMilvus(s) \in Results
  BY <1>1, <1>2, <1>3 DEF ProbeMilvus
<1> QED BY <1>4, <1>5, <1>6, StoreAssumption DEF ProbeStore

LEMMA VectorIndexTypes ==
  ASSUME WorldTypeOK, VectorIndexTypeOK, VectorIndexNext
  PROVE  WorldTypeOK' /\ VectorIndexTypeOK'
<1>1. CASE Probe
  <2> DEFINE hit == cache[vi.store] # None /\ cache[vi.store].valid
             result == IF hit THEN cache[vi.store].result
                       ELSE ProbeStore(vi.store, vi.expected)
  <2>1. vi \in VectorIndices /\ vi.store \in Stores /\ vi.expected \in Nat
    BY <1>1 DEF Probe, WorldTypeOK, VectorIndices
  <2>2. result \in Results
    BY <2>1, ProbeType DEF VectorIndexTypeOK, CacheEntries
  <2>3. cache' \in [Stores -> CacheEntries \union {None}]
    <3>1. [result |-> result, valid |-> TRUE] \in CacheEntries
      BY <2>2 DEF CacheEntries
    <3>2. cache' = cache \/ cache' = [cache EXCEPT ![vi.store] =
                                        [result |-> result, valid |-> TRUE]]
      BY <1>1 DEF Probe
    <3> HIDE DEF result
    <3> QED BY <2>1, <3>1, <3>2 DEF VectorIndexTypeOK
  <2>4. vi' \in VectorIndices
    <3>1. vi' = [vi EXCEPT !.health = Verdict(result, vi.expected).health,
                           !.points = result.points]
      BY <1>1 DEF Probe
    <3> HIDE DEF result
    <3>2. Verdict(result, vi.expected).health \in Healths /\ result.points \in {-1, 0, 1}
      BY <2>2 DEF Verdict, Results, Healths
    <3> QED BY <2>1, <3>1, <3>2 DEF VectorIndices
  <2>5. UNCHANGED <<kb, ingest, collections, secrets, outage, budget>> /\ vi # None
    BY <1>1 DEF Probe
  <2> QED BY <2>3, <2>4, <2>5 DEF WorldTypeOK, VectorIndexTypeOK
<1>2. CASE CacheExpires
  BY <1>2 DEF CacheExpires, worldVars, WorldTypeOK, VectorIndexTypeOK, CacheEntries
<1> QED BY <1>1, <1>2 DEF VectorIndexNext

\* What a pass asks for, child by child, is of the child's type.
LEMMA MinReplicasType ==
  ASSUME NEW r \in RetrieverSpecs PROVE MinReplicas(r) \in 0..MaxReplicas
BY RetrieverAssumption DEF MinReplicas, AnyRetriever

LEMMA TemplateType ==
  ASSUME WorldTypeOK, NEW r \in RetrieverSpecs, NEW k \in KnowledgeBases
  PROVE  Template(r, k) \in Templates
<1>1. SecretsHash(r, k) \in [Referenced(r, k) -> Versions \union {None}]
  BY ReferencedType, ValuesType DEF SecretsHash
<1>2. k.spec.store \in Stores
      /\ (IF k.observed # None THEN k.observed.model ELSE k.spec.model) \in Models
  BY SpecAssumption DEF KnowledgeBases
<1>3. r.oidc \in BOOLEAN /\ r.secrets \in SUBSET Secrets
  BY RetrieverAssumption DEF AnyRetriever
<1>4. Template(r, k) \in [model: Models, store: Stores, proxy: BOOLEAN, own: SUBSET Secrets,
                          hash: [Referenced(r, k) -> Versions \union {None}]]
  BY <1>1, <1>2, <1>3 DEF Template
<1> QED BY <1>4, ReferencedType DEF Templates

LEMMA NoReplicas == 0 \in 0..MaxReplicas
BY RetrieverAssumption

\* What a pass keeps of what it has read.
Observations == [why: GivingUp \union {""}, ready: 0..MaxReplicas, index: Healths]

LEMMA NothingType ==
  /\ Nothing \in Observations
  /\ \A w \in GivingUp : /\ [Nothing EXCEPT !.why = w] \in Observations
                         /\ [Nothing EXCEPT !.why = w].why = w
<1>1. "" \in Healths /\ 0 \in 0..MaxReplicas
  BY NoReplicas DEF Healths
<1> QED BY <1>1 DEF Nothing, Observations

\* The values each kind of child may have.
ChildValues(kind) ==
  CASE kind = "deployment" -> Deployments \union {None}
    [] kind = "service" -> {"direct", "proxy", None}
    [] kind \in {"metrics", "policy", "pdb"} -> {"on", None}
    [] kind = "ingress" -> Hosts \union {None}
    [] kind = "hpa" -> 0..MaxReplicas \union {None}

\* A call that sets a child to a value of its type, in a pass that goes on as it was.
LEMMA ApplyTypes ==
  ASSUME TypeOK, NEW kind \in Kinds, NEW value \in ChildValues(kind), NEW stage,
         Apply(kind, value, stage),
         \/ pc \in Removing /\ stage \in Removing
         \/ pc \in Applying /\ stage \in Applying
  PROVE  TypeOK'
<1> USE DEF Removing, Applying
<1>1. WorldTypeOK' /\ VectorIndexTypeOK'
  BY DEF Apply, TypeOK, worldVars, WorldTypeOK, VectorIndexTypeOK
<1>2. /\ children' = [children EXCEPT ![kind] = value]
      /\ DOMAIN children' = Kinds
      /\ children'[kind] = value
      /\ \A k \in Kinds \ {kind} : children'[k] = children[k]
  BY DEF Apply, TypeOK, RetrieverTypeOK, ObjectTypeOK, PassTypeOK
<1>3. /\ children'["deployment"] \in Deployments \union {None}
      /\ children'["service"] \in {"direct", "proxy", None}
      /\ children'["metrics"] \in {"on", None}
      /\ children'["ingress"] \in Hosts \union {None}
      /\ children'["policy"] \in {"on", None}
      /\ children'["pdb"] \in {"on", None}
      /\ children'["hpa"] \in 0..MaxReplicas \union {None}
  BY <1>2 DEF TypeOK, RetrieverTypeOK, ObjectTypeOK, PassTypeOK, Kinds, ChildValues
<1>4. pods' \in Pods \union {None} /\ ready' \in 0..MaxReplicas
  BY NoReplicas DEF Apply, TypeOK, RetrieverTypeOK, ObjectTypeOK, PassTypeOK
<1>5. children'["deployment"] = None => pods' = None /\ ready' = 0
  BY <1>2 DEF Apply, TypeOK, RetrieverTypeOK, ObjectTypeOK, PassTypeOK, Kinds
<1>6. queued' \in BOOLEAN
  BY DEF Apply, Enqueue, Watched
<1>7. UNCHANGED <<rt, status, load, seen, obs>> /\ pc' = stage
  BY DEF Apply
<1> QED
  BY <1>1, <1>2, <1>3, <1>4, <1>5, <1>6, <1>7 DEF TypeOK, RetrieverTypeOK, ObjectTypeOK, PassTypeOK

\* A status update, or its refusal, ends a pass.
LEMMA UpdateStatusTypes ==
  ASSUME TypeOK, NEW st \in Statuses, UpdateStatus(st)
  PROVE  TypeOK'
<1>1. WorldTypeOK' /\ VectorIndexTypeOK'
  BY DEF UpdateStatus, TypeOK, worldVars, WorldTypeOK, VectorIndexTypeOK
<1>2. status' \in Statuses /\ queued' \in BOOLEAN
  BY DEF UpdateStatus, TypeOK, RetrieverTypeOK, ObjectTypeOK, PassTypeOK, Enqueue, Watched
<1>3. pc' = "idle" /\ seen' = None /\ obs' = Nothing /\ UNCHANGED <<rt, clusterVars>>
  BY DEF UpdateStatus, EndPass
<1> QED
  BY <1>1, <1>2, <1>3, NothingType DEF TypeOK, RetrieverTypeOK, ObjectTypeOK, PassTypeOK, clusterVars, Removing,
    Applying, Observations

\* A step that only moves the pass on.
LEMMA StageTypes ==
  ASSUME TypeOK, UNCHANGED <<worldVars, cache, rt, status, clusterVars>>,
         queued' \in BOOLEAN, obs' \in Observations,
         pc' \in {"idle", "validate"} \union Removing \union Applying,
         IF pc' = "idle" THEN seen' = None ELSE seen' \in Snapshots,
         pc' \in {"validate"} \union Applying => seen'.kb # None,
         pc' \in Removing => obs'.why \in GivingUp
  PROVE  TypeOK'
<1>1. seen' \in Snapshots \union {None} /\ (pc' = "idle" <=> seen' = None)
  BY AbsenceAssumption
<1>2. WorldTypeOK' /\ VectorIndexTypeOK'
  BY DEF TypeOK, worldVars, WorldTypeOK, VectorIndexTypeOK
<1>3. UNCHANGED <<rt, status, children, pods, ready, load>>
  BY DEF clusterVars
<1> QED BY <1>1, <1>2, <1>3 DEF TypeOK, RetrieverTypeOK, ObjectTypeOK, PassTypeOK, Observations

\* The steps of a pass keep the types.
LEMMA PassTypes == ASSUME TypeOK, Pass PROVE TypeOK'
<1>1. CASE BeginPass
  <2>1. seen' = [rt |-> rt, kb |-> kb]
    BY <1>1 DEF BeginPass
  <2>2. [rt |-> rt, kb |-> kb] \in Snapshots
    BY DEF Snapshots, TypeOK, WorldTypeOK, RetrieverTypeOK, ObjectTypeOK, PassTypeOK
  <2>3. \/ pc' = "validate" /\ kb # None /\ obs' = Nothing
        \/ pc' = "-deployment" /\ obs' = [Nothing EXCEPT !.why = "kb"]
    BY <1>1 DEF BeginPass
  <2>4. UNCHANGED <<worldVars, cache, rt, status, clusterVars>> /\ queued' = FALSE
    BY <1>1 DEF BeginPass
  <2> QED
    BY <2>1, <2>2, <2>3, <2>4, NothingType, StageTypes DEF Removing, Applying, GivingUp
<1>3. CASE ValidateSecrets
  <2>1. /\ UNCHANGED <<worldVars, cache, rt, status, clusterVars, queued, seen>>
        /\ pc = "validate"
        /\ \/ pc' = "deployment" /\ obs' = obs
           \/ pc' = "-deployment" /\ obs' = [Nothing EXCEPT !.why = "secret"]
    BY <1>3 DEF ValidateSecrets
  <2>2. seen \in Snapshots /\ seen.kb # None /\ obs \in Observations /\ queued \in BOOLEAN
    BY <2>1 DEF TypeOK, RetrieverTypeOK, ObjectTypeOK, PassTypeOK, Observations
  <2> QED BY <2>1, <2>2, NothingType, StageTypes DEF Removing, Applying, GivingUp
<1>4. CASE \/ RemoveDeployment \/ RemoveHorizontalPodAutoscaler \/ RemovePodDisruptionBudget
           \/ RemoveIngress \/ RemoveNetworkPolicy
  BY <1>4, ApplyTypes DEF RemoveDeployment, RemoveHorizontalPodAutoscaler,
     RemovePodDisruptionBudget, RemoveIngress, RemoveNetworkPolicy, Removing, Kinds, ChildValues
<1>5. pc \in Applying => /\ seen.rt.spec \in RetrieverSpecs /\ seen.kb \in KnowledgeBases
                         /\ seen.rt.gen \in Nat
  BY DEF TypeOK, RetrieverTypeOK, ObjectTypeOK, PassTypeOK, Snapshots, Applying
<1>6. CASE ApplyDeployment
  <2> DEFINE n == IF children["deployment"] # None /\ seen.rt.spec.autoscaling
                    THEN children["deployment"].replicas ELSE MinReplicas(seen.rt.spec)
             t == Template(seen.rt.spec, seen.kb)
  <2>1. n \in 0..MaxReplicas
    BY <1>5, <1>6, MinReplicasType
       DEF ApplyDeployment, TypeOK, RetrieverTypeOK, ObjectTypeOK, PassTypeOK, Deployments, Applying
  <2>2. t \in Templates
    BY <1>5, <1>6, TemplateType DEF ApplyDeployment, TypeOK, Applying
  <2>3. pc = "deployment" /\ Apply("deployment", [template |-> t, replicas |-> n], "service")
    BY <1>6 DEF ApplyDeployment
  <2>4. [template |-> t, replicas |-> n] \in ChildValues("deployment")
    BY <2>1, <2>2 DEF ChildValues, Deployments
  <2> HIDE DEF t, n
  <2> QED BY <2>3, <2>4, ApplyTypes DEF Kinds, Applying
<1>7. CASE ApplyService \/ ApplyMetricsService \/ ReconcileIngress
           \/ ReconcileOIDCNetworkPolicy \/ ReconcilePodDisruptionBudget
           \/ ReconcileHorizontalPodAutoscaler
  <2>1. pc \in Applying
    BY <1>7 DEF ApplyService, ApplyMetricsService, ReconcileIngress, Applying,
      ReconcileOIDCNetworkPolicy, ReconcilePodDisruptionBudget,
      ReconcileHorizontalPodAutoscaler
  <2> DEFINE r == seen.rt.spec
  <2>2. r \in RetrieverSpecs /\ r.ingress \in Hosts \union {None}
    BY <1>5, <2>1, RetrieverAssumption DEF AnyRetriever
  <2>3. /\ DesiredService(r) \in ChildValues("service")
        /\ "on" \in ChildValues("metrics")
        /\ r.ingress \in ChildValues("ingress")
        /\ WantsPolicy(r) \in ChildValues("policy")
        /\ WantsBudget(r) \in ChildValues("pdb")
        /\ DesiredAutoscaler(r) \in ChildValues("hpa")
    BY <2>2, MinReplicasType DEF DesiredService, WantsPolicy, WantsBudget, DesiredAutoscaler,
      ChildValues
  <2> QED
    BY <1>7, <2>3, ApplyTypes DEF ApplyService, ApplyMetricsService, ReconcileIngress,
      ReconcileOIDCNetworkPolicy, ReconcilePodDisruptionBudget,
      ReconcileHorizontalPodAutoscaler, Kinds, Applying
<1>8. CASE Observe
  <2>1. (vi # None => vi.health \in Healths) /\ "" \in Healths
    BY DEF TypeOK, WorldTypeOK, VectorIndices, Healths
  <2>2. [why |-> "", ready |-> ready, index |-> IF vi = None THEN "" ELSE vi.health]
          \in Observations
    BY <2>1 DEF TypeOK, RetrieverTypeOK, ObjectTypeOK, PassTypeOK, Observations
  <2>3. /\ pc = "observe" /\ UNCHANGED <<worldVars, cache, rt, status, clusterVars>>
        /\ queued' \in BOOLEAN
        /\ \/ pc' = "idle" /\ seen' = None /\ obs' = Nothing
           \/ /\ pc' = "report" /\ seen' = seen
              /\ obs' = [why |-> "", ready |-> ready,
                         index |-> IF vi = None THEN "" ELSE vi.health]
    BY <1>8 DEF Observe, EndPass, TypeOK, RetrieverTypeOK, ObjectTypeOK, PassTypeOK
  <2>4. seen \in Snapshots /\ seen.kb # None
    BY <2>3 DEF TypeOK, RetrieverTypeOK, ObjectTypeOK, PassTypeOK, Applying
  <2> QED BY <2>2, <2>3, <2>4, NothingType, StageTypes DEF Removing, Applying
<1>9. CASE ReportPending
  <2>1. obs.why \in GivingUp /\ seen \in Snapshots
    BY <1>9 DEF ReportPending, TypeOK, RetrieverTypeOK, ObjectTypeOK, PassTypeOK, Removing
  <2>2. [phase |-> "Pending", reason |-> obs.why, ready |-> 0, endpoint |-> FALSE,
         public |-> None, gen |-> seen.rt.gen] \in Statuses
    BY <2>1, NoReplicas DEF Statuses, GivingUp, Snapshots
  <2> QED BY <1>9, <2>2, UpdateStatusTypes DEF ReportPending
<1>10. CASE ReportServing
  <2>1. pc \in Applying /\ obs.ready \in 0..MaxReplicas
    BY <1>10 DEF ReportServing, TypeOK, RetrieverTypeOK, ObjectTypeOK, PassTypeOK, Applying
  <2>2. seen.rt.spec.ingress \in Hosts \union {None} /\ seen.rt.gen \in Nat
    BY <1>5, <2>1, RetrieverAssumption DEF AnyRetriever
  <2>3. \A phase \in {"Progressing", "Available"}, reason \in {"index", "available", "replicas"} :
          [phase |-> phase, reason |-> reason, ready |-> obs.ready, endpoint |-> TRUE,
           public |-> seen.rt.spec.ingress, gen |-> seen.rt.gen] \in Statuses
    BY <2>1, <2>2 DEF Statuses
  <2> QED BY <1>10, <2>3, UpdateStatusTypes DEF ReportServing, Report
<1> QED
  BY <1>1, <1>3, <1>4, <1>6, <1>7, <1>8, <1>9, <1>10 DEF Pass

LEMMA FaultTypes ==
  ASSUME WorldTypeOK, NEW kind, Fault(kind),
         UNCHANGED <<kb, ingest, collections, secrets, outage, vi>>
  PROVE  WorldTypeOK'
<1>1. budget' \in 0..MaxDisturbances
  BY BudgetAssumption DEF Fault, Disturb, WorldTypeOK
<1> QED BY <1>1 DEF WorldTypeOK

LEMMA WorldFrame == ASSUME TypeOK, UNCHANGED worldVars PROVE WorldTypeOK'
BY DEF TypeOK, worldVars, WorldTypeOK

LEMMA CacheFrame == ASSUME TypeOK, UNCHANGED cache PROVE VectorIndexTypeOK'
BY DEF TypeOK, VectorIndexTypeOK

LEMMA ObjectFrame ==
  ASSUME TypeOK, UNCHANGED <<rt, status, children, pods, ready, load>> PROVE ObjectTypeOK'
BY DEF TypeOK, RetrieverTypeOK, ObjectTypeOK

\* A step outside the pass.
LEMMA PassFrame ==
  ASSUME TypeOK, queued' \in BOOLEAN, UNCHANGED <<pc, seen, obs>> PROVE PassTypeOK'
<1>1. PassTypeOK
  BY DEF TypeOK, RetrieverTypeOK
<1> QED BY <1>1 DEF PassTypeOK

\* A step that gives the pass up.
LEMMA EndFrame == ASSUME TypeOK, queued' = TRUE, EndPass PROVE PassTypeOK'
BY NothingType DEF EndPass, PassTypeOK, Removing, Applying, Observations

\* The steps of users, pods and the autoscaler keep the types.
LEMMA ClusterTypes == ASSUME TypeOK, Cluster PROVE TypeOK'
<1>1. WorldTypeOK /\ VectorIndexTypeOK /\ ObjectTypeOK /\ PassTypeOK
  BY DEF TypeOK, RetrieverTypeOK
<1>2. CASE EditRetriever
  <2>1. rt' \in [spec: RetrieverSpecs, gen: Nat]
    <3>1. PICK r \in RetrieverSpecs : rt' = [spec |-> r, gen |-> rt.gen + 1]
      BY <1>2 DEF EditRetriever
    <3>2. rt.gen \in Nat
      BY <1>1 DEF ObjectTypeOK
    <3> QED BY <3>1, <3>2
  <2>2. WorldTypeOK' /\ queued' \in BOOLEAN
    BY <1>1, <1>2, FaultTypes DEF EditRetriever, Enqueue, Watched
  <2>3. UNCHANGED <<cache, status, children, pods, ready, load, pc, seen, obs>>
    BY <1>2 DEF EditRetriever, clusterVars
  <2>4. ObjectTypeOK'
    BY <1>1, <2>1, <2>3 DEF ObjectTypeOK
  <2> QED BY <2>2, <2>3, <2>4, CacheFrame, PassFrame DEF TypeOK, RetrieverTypeOK
<1>3. CASE Drift
  <2>1. WorldTypeOK' /\ queued' \in BOOLEAN
    BY <1>1, <1>3, FaultTypes DEF Drift, Enqueue, Watched
  <2>2. UNCHANGED <<cache, rt, status, load, pc, seen, obs>>
    BY <1>3 DEF Drift
  <2>3. ASSUME NEW k \in Kinds,
               children' = [children EXCEPT ![k] = None],
               IF k = "deployment" THEN pods' = None /\ ready' = 0
               ELSE UNCHANGED <<pods, ready>>
        PROVE  ObjectTypeOK'
    <3>1. /\ DOMAIN children' = Kinds /\ children'[k] = None
          /\ \A c \in Kinds \ {k} : children'[c] = children[c]
      BY <1>1, <2>3 DEF ObjectTypeOK
    <3>2. pods' \in Pods \union {None} /\ ready' \in 0..MaxReplicas
      BY <1>1, <2>3, NoReplicas DEF ObjectTypeOK
    <3> QED BY <1>1, <2>2, <2>3, <3>1, <3>2 DEF ObjectTypeOK, Kinds
  <2>4. ASSUME children["deployment"] # None, NEW n \in 0..MaxReplicas,
               children' = [children EXCEPT !["deployment"].replicas = n],
               UNCHANGED <<pods, ready>>
        PROVE  ObjectTypeOK'
    <3>1. children'["deployment"] \in Deployments
      BY <1>1, <2>4 DEF ObjectTypeOK, Deployments, Kinds
    <3>2. DOMAIN children' = Kinds /\ \A c \in Kinds \ {"deployment"} : children'[c] = children[c]
      BY <1>1, <2>4 DEF ObjectTypeOK
    <3> QED BY <1>1, <2>2, <2>4, <3>1, <3>2, AbsenceAssumption DEF ObjectTypeOK, Kinds
  <2>5. ObjectTypeOK'
    BY <1>3, <2>3, <2>4 DEF Drift
  <2> QED BY <2>1, <2>2, <2>5, CacheFrame, PassFrame DEF TypeOK, RetrieverTypeOK
<1>4. CASE Rollout
  <2> DEFINE t == children["deployment"].template
  <2>1. t \in Templates /\ children["deployment"] # None
    BY <1>1, <1>4 DEF Rollout, ObjectTypeOK, Deployments
  <2>2. t.store \in Stores /\ t.model \in Models /\ t.own \in SUBSET Secrets
    BY <2>1 DEF Templates
  <2>3. UsedSecrets(t) \in SUBSET Secrets
    BY <2>2, StoreAssumption, ModelAssumption DEF UsedSecrets
  <2>4. pods' = [template |-> t, creds |-> Values(UsedSecrets(t))]
        /\ \A s \in UsedSecrets(t) : secrets[s] # None
    BY <1>4 DEF Rollout
  <2>5. Values(UsedSecrets(t)) \in [UsedSecrets(t) -> Versions]
    BY <1>1, <2>3, <2>4 DEF Values, WorldTypeOK
  <2> HIDE DEF t
  <2>6. pods' \in [template: {t}, creds: [UsedSecrets(t) -> Versions]]
    BY <2>4, <2>5
  <2>7. pods' \in Pods
    BY <2>1, <2>6 DEF Pods
  <2>8. UNCHANGED <<worldVars, cache, rt, status, children, ready, load, queued, pc, seen, obs>>
    BY <1>4 DEF Rollout
  <2>9. ObjectTypeOK'
    BY <1>1, <2>1, <2>7, <2>8 DEF ObjectTypeOK
  <2>10. queued' \in BOOLEAN
    BY <1>1, <2>8 DEF PassTypeOK
  <2> QED BY <2>8, <2>9, <2>10, WorldFrame, CacheFrame, PassFrame DEF TypeOK, RetrieverTypeOK
<1>5. CASE PodsReady
  <2>1. children["deployment"] \in Deployments /\ children["deployment"] # None
    BY <1>1, <1>5 DEF PodsReady, ObjectTypeOK
  <2>2. ready' \in 0..MaxReplicas
    BY <1>5, <2>1 DEF PodsReady, Deployments
  <2>3. queued' \in BOOLEAN
        /\ UNCHANGED <<worldVars, cache, rt, status, children, pods, load, pc, seen, obs>>
    BY <1>1, <1>5 DEF PodsReady, Enqueue, Watched, PassTypeOK
  <2>4. ObjectTypeOK'
    BY <1>1, <2>1, <2>2, <2>3 DEF ObjectTypeOK
  <2> QED BY <2>3, <2>4, WorldFrame, CacheFrame, PassFrame DEF TypeOK, RetrieverTypeOK
<1>6. CASE PodsUnready
  <2>1. WorldTypeOK' /\ queued' \in BOOLEAN
    BY <1>1, <1>6, FaultTypes DEF PodsUnready, Enqueue, Watched
  <2>2. ready' = 0 /\ UNCHANGED <<cache, rt, status, children, pods, load, pc, seen, obs>>
    BY <1>6 DEF PodsUnready
  <2>3. ObjectTypeOK'
    BY <1>1, <2>2, NoReplicas DEF ObjectTypeOK
  <2> QED BY <2>1, <2>2, <2>3, CacheFrame, PassFrame DEF TypeOK, RetrieverTypeOK
<1>7. CASE LoadChanges
  <2>1. WorldTypeOK' /\ load' \in 0..MaxReplicas
    BY <1>1, <1>7, FaultTypes DEF LoadChanges
  <2>2. UNCHANGED <<cache, rt, status, children, pods, ready, queued, pc, seen, obs>>
    BY <1>7 DEF LoadChanges
  <2>3. ObjectTypeOK' /\ queued' \in BOOLEAN
    BY <1>1, <2>1, <2>2 DEF ObjectTypeOK, PassTypeOK
  <2> QED BY <2>1, <2>2, <2>3, CacheFrame, PassFrame DEF TypeOK, RetrieverTypeOK
<1>8. CASE Autoscale
  <2>1. Scale \in 0..MaxReplicas /\ children["deployment"] \in Deployments
    BY <1>1, <1>8 DEF Autoscale, Scale, ObjectTypeOK
  <2>2. children' = [children EXCEPT !["deployment"].replicas = Scale]
    BY <1>8 DEF Autoscale
  <2>3. children'["deployment"] \in Deployments
    BY <1>1, <2>1, <2>2 DEF ObjectTypeOK, Deployments, Kinds
  <2>4. DOMAIN children' = Kinds /\ \A c \in Kinds \ {"deployment"} : children'[c] = children[c]
    BY <1>1, <2>2 DEF ObjectTypeOK
  <2>5. queued' \in BOOLEAN
        /\ UNCHANGED <<worldVars, cache, rt, status, pods, ready, load, pc, seen, obs>>
    BY <1>8 DEF Autoscale, Enqueue, Watched
  <2>6. ObjectTypeOK'
    BY <1>1, <2>3, <2>4, <2>5, AbsenceAssumption DEF ObjectTypeOK, Kinds
  <2> QED BY <2>5, <2>6, WorldFrame, CacheFrame, PassFrame DEF TypeOK, RetrieverTypeOK
<1> QED BY <1>2, <1>3, <1>4, <1>5, <1>6, <1>7, <1>8 DEF Cluster

\* Every step keeps the types.
LEMMA StepTypes == ASSUME TypeOK, [Next]_vars PROVE TypeOK'
<1>1. WorldTypeOK /\ VectorIndexTypeOK /\ ObjectTypeOK /\ PassTypeOK
  BY DEF TypeOK, RetrieverTypeOK
<1>2. CASE WorldStep
  <2>1. WorldTypeOK' /\ queued' \in BOOLEAN
    BY <1>1, <1>2, WorldTypes DEF WorldStep, Enqueue, Watched
  <2>2. UNCHANGED <<cache, rt, status, children, pods, ready, load, pc, seen, obs>>
    BY <1>2 DEF WorldStep, clusterVars
  <2> QED BY <2>1, <2>2, CacheFrame, ObjectFrame, PassFrame DEF TypeOK, RetrieverTypeOK
<1>3. CASE VectorIndexStep
  <2>1. WorldTypeOK' /\ VectorIndexTypeOK'
    BY <1>1, <1>3, VectorIndexTypes DEF VectorIndexStep
  <2>2. UNCHANGED <<rt, status, children, pods, ready, load, queued, pc, seen, obs>>
    BY <1>3 DEF VectorIndexStep, retrieverVars, clusterVars
  <2>3. queued' \in BOOLEAN
    BY <1>1, <2>2 DEF PassTypeOK
  <2> QED BY <2>1, <2>2, <2>3, ObjectFrame, PassFrame DEF TypeOK, RetrieverTypeOK
<1>4. CASE SecretUnreadable
  <2>1. WorldTypeOK'
    BY <1>1, <1>4, FaultTypes DEF SecretUnreadable
  <2>2. /\ UNCHANGED <<cache, rt, status, children, pods, ready, load, queued, seen>>
        /\ pc = "validate" /\ pc' = "-deployment"
        /\ obs' = [Nothing EXCEPT !.why = "unreadable"]
    BY <1>4 DEF SecretUnreadable, clusterVars
  <2>3. obs' \in Observations /\ obs'.why \in GivingUp
    BY <2>2, NothingType DEF GivingUp
  <2>4. PassTypeOK'
    BY <1>1, <2>2, <2>3 DEF PassTypeOK, Removing, Applying, Observations
  <2> QED BY <2>1, <2>2, <2>4, CacheFrame, ObjectFrame DEF TypeOK, RetrieverTypeOK
<1>5. CASE PassFails
  <2>1. WorldTypeOK' /\ PassTypeOK'
    BY <1>1, <1>5, FaultTypes, EndFrame DEF PassFails
  <2>2. UNCHANGED <<cache, rt, status, children, pods, ready, load>>
    BY <1>5 DEF PassFails, clusterVars
  <2> QED BY <2>1, <2>2, CacheFrame, ObjectFrame DEF TypeOK, RetrieverTypeOK
<1>6. CASE Restart
  <2>1. WorldTypeOK' /\ PassTypeOK'
    BY <1>1, <1>6, FaultTypes, EndFrame DEF Restart
  <2>2. VectorIndexTypeOK'
    BY <1>6 DEF Restart, VectorIndexTypeOK
  <2>3. UNCHANGED <<rt, status, children, pods, ready, load>>
    BY <1>6 DEF Restart, clusterVars
  <2> QED BY <2>1, <2>2, <2>3, ObjectFrame DEF TypeOK, RetrieverTypeOK
<1>7. CASE Resync \/ UNCHANGED vars
  <2>1. UNCHANGED <<worldVars, cache, rt, status, children, pods, ready, load, pc, seen, obs>>
        /\ queued' \in BOOLEAN
    BY <1>1, <1>7 DEF Resync, vars, retrieverVars, clusterVars, PassTypeOK
  <2> QED BY <2>1, WorldFrame, CacheFrame, ObjectFrame, PassFrame DEF TypeOK, RetrieverTypeOK
<1> QED
  BY <1>2, <1>3, <1>4, <1>5, <1>6, <1>7, PassTypes, ClusterTypes DEF Next, RetrieverStep

LEMMA InitTypes == ASSUME Init PROVE TypeOK
<1>1. WorldTypeOK
  <2>1. kb \in KnowledgeBases
    BY SpecAssumption DEF Init, WorldInit, NewKnowledgeBase, KnowledgeBases
  <2>2. secrets \in [Secrets -> Versions \union {None}] /\ budget \in 0..MaxDisturbances
    BY BudgetAssumption DEF Init, WorldInit
  <2> QED BY <2>1, <2>2, NoneAssumption DEF Init, WorldInit, WorldTypeOK
<1>2. VectorIndexTypeOK
  BY DEF Init, VectorIndexInit, VectorIndexTypeOK
<1>3. RetrieverTypeOK
  BY RetrieverAssumption, NoReplicas, NothingType
     DEF Init, RetrieverInit, RetrieverTypeOK, ObjectTypeOK, PassTypeOK, Statuses, Kinds, Removing, Applying, Observations
<1> QED BY <1>1, <1>2, <1>3 DEF TypeOK

\* The state of the KnowledgeBase, the VectorIndex and the Retriever's objects and of the
\* passes over them stays within its types (Reconcile of both controllers).
THEOREM Types == Spec => []TypeOK
BY InitTypes, StepTypes, PTL DEF Spec

-----------------------------------------------------------------------------
(* The invariant.                                                          *)

SeenIsCurrent == seen = [rt |-> rt, kb |-> kb]

DeploymentMatches ==
  /\ children["deployment"].template = Template(rt.spec, kb)
  /\ ~rt.spec.autoscaling => children["deployment"].replicas = MinReplicas(rt.spec)

\* The stages in which a child has been applied, or removed, already.
AfterHPA == {"observe", "report"}
AfterBudget == {"hpa"} \union AfterHPA
AfterPolicy == {"pdb"} \union AfterBudget
AfterIngress == {"policy"} \union AfterPolicy
AfterMetrics == {"ingress"} \union AfterIngress
AfterService == {"metrics"} \union AfterMetrics
AfterDeployment == {"service"} \union AfterService

AppliedSoFar ==
  /\ pc \in AfterDeployment => DeploymentMatches
  /\ pc \in AfterService => children["service"] = DesiredService(rt.spec)
  /\ pc \in AfterMetrics => children["metrics"] = "on"
  /\ pc \in AfterIngress => children["ingress"] = rt.spec.ingress
  /\ pc \in AfterPolicy => children["policy"] = WantsPolicy(rt.spec)
  /\ pc \in AfterBudget => children["pdb"] = WantsBudget(rt.spec)
  /\ pc \in AfterHPA => children["hpa"] = DesiredAutoscaler(rt.spec)
  /\ pc = "report" => children["deployment"] # None /\ obs.ready = ready

RemovedSoFar ==
  /\ pc \in {"-hpa", "-pdb", "-ingress", "-policy", "pend"} => children["deployment"] = None /\ ready = 0
  /\ pc \in {"-pdb", "-ingress", "-policy", "pend"} => children["hpa"] = None
  /\ pc \in {"-ingress", "-policy", "pend"} => children["pdb"] = None
  /\ pc \in {"-policy", "pend"} => children["ingress"] = None
  /\ pc = "pend" => children["policy"] = None

PassOnCourse ==
  /\ SeenIsCurrent
  /\ pc = "validate" => kb # None
  /\ pc \in Applying => Serveable /\ AppliedSoFar
  /\ pc \in Removing => (obs.why # "unreadable" => ~Serveable) /\ RemovedSoFar

Quiet == status.reason = "unreadable" \/ (WorkloadMatches /\ StatusMatches)

\* What is needed of the types.
Shape ==
  /\ DOMAIN children = Kinds
  /\ pc \in {"idle", "validate"} \union Removing \union Applying

IInv ==
  /\ Shape
  /\ ~queued => IF pc = "idle" THEN Quiet ELSE PassOnCourse

-----------------------------------------------------------------------------
(* A step outside the pass that leaves the queue empty changes no input.   *)

\* The inputs of a pass: what WorkloadMatches and StatusMatches depend on.
SecretsUnchanged == kb # None => \A s \in Referenced(rt.spec, kb) : secrets'[s] = secrets[s]

\* Nothing the pass depends on has changed: the invariant stays as it is.
LEMMA InputsUnchanged ==
  ASSUME IInv, SecretsUnchanged,
         UNCHANGED <<rt, status, children, ready, kb, pc, seen, obs>>, ~queued
  PROVE  IInv'
<1>1. kb # None => /\ SecretsValid(rt.spec, kb)' = SecretsValid(rt.spec, kb)
                   /\ SecretsHash(rt.spec, kb)' = SecretsHash(rt.spec, kb)
  BY DEF SecretsUnchanged, SecretsValid, SecretsHash, Referenced, KbSecrets, Values
<1>2. kb # None => Template(rt.spec, kb)' = Template(rt.spec, kb)
  BY <1>1 DEF Template
<1>3. Serveable' = Serveable
  BY <1>1 DEF Serveable
<1>4. Serveable => DeploymentMatches' = DeploymentMatches
  BY <1>2 DEF DeploymentMatches, MinReplicas, Serveable
<1>5. WorkloadMatches' = WorkloadMatches
  BY <1>2, <1>3 DEF WorkloadMatches, Serveable, DesiredService, WantsPolicy, WantsBudget,
       DesiredAutoscaler, MinReplicas
<1>6. StatusMatches' = StatusMatches
  BY <1>3 DEF StatusMatches, EnoughReady, MinReplicas
<1>7. Quiet' = Quiet
  BY <1>5, <1>6 DEF Quiet
<1>8. PassOnCourse => PassOnCourse'
  BY <1>3, <1>4 DEF PassOnCourse, SeenIsCurrent, AppliedSoFar, RemovedSoFar, DesiredService,
       WantsPolicy, WantsBudget, DesiredAutoscaler, MinReplicas
<1> QED BY <1>7, <1>8 DEF IInv, Shape

\* A step outside the pass that tells the watches.
LEMMA OutsidePass ==
  ASSUME TypeOK, IInv, UNCHANGED <<pc, seen, obs>>, DOMAIN children' = Kinds,
         ~queued' => ~queued /\ ~Watched
  PROVE  IInv'
<1>1. CASE queued'
  BY <1>1 DEF IInv, Shape
<1>2. CASE ~queued'
  <2>1. UNCHANGED <<rt, status, children, ready, kb>> /\ ~queued
    BY <1>2 DEF Watched
  <2>2. kb # None => Referenced(rt.spec, kb) \subseteq Secrets
    BY ReferencedType DEF TypeOK, WorldTypeOK, RetrieverTypeOK, ObjectTypeOK
  <2>3. SecretsUnchanged
    BY <1>2, <2>2 DEF Watched, SecretsUnchanged, Referenced
  <2> QED BY <2>1, <2>3, InputsUnchanged
<1> QED BY <1>1, <1>2

\* A step of the pass, while nothing is queued, works from current inputs.
LEMMA OutsideSteps ==
  ASSUME TypeOK, IInv, WorldStep \/ VectorIndexStep \/ Cluster \/ Resync \/ UNCHANGED vars
  PROVE  IInv'
<1>1. DOMAIN children' = Kinds
  BY StepTypes DEF Next, RetrieverStep, TypeOK, RetrieverTypeOK, ObjectTypeOK
<1>2. UNCHANGED <<pc, seen, obs>>
  BY DEF WorldStep, VectorIndexStep, Cluster, Resync, EditRetriever, Drift, Rollout,
    PodsReady, PodsUnready, LoadChanges, Autoscale, vars, retrieverVars
<1>3. ~queued' => ~queued /\ ~Watched
  <2>1. CASE WorldStep \/ EditRetriever \/ Drift \/ PodsReady \/ PodsUnready \/ Autoscale
    BY <2>1 DEF WorldStep, EditRetriever, Drift, PodsReady, PodsUnready, Autoscale, Enqueue
  <2>2. CASE VectorIndexStep \/ Rollout \/ LoadChanges \/ UNCHANGED vars
    BY <2>2 DEF VectorIndexStep, VectorIndexNext, Probe, CacheExpires, Rollout, LoadChanges,
      vars, retrieverVars, clusterVars, worldVars, Watched
  <2>3. CASE Resync
    BY <2>3 DEF Resync
  <2> QED BY <2>1, <2>2, <2>3 DEF Cluster
<1> QED BY <1>1, <1>2, <1>3, OutsidePass

\* A call that sets a child: if the queue stays empty, the child was so already.
LEMMA ApplySteps ==
  ASSUME TypeOK, IInv, NEW kind \in Kinds, NEW value, NEW stage, Apply(kind, value, stage),
         ~queued', stage # "idle", pc # "idle"
  PROVE  /\ ~queued /\ PassOnCourse /\ Shape
         /\ UNCHANGED <<rt, status, children, ready, kb, secrets, seen, obs>>
         /\ children[kind] = value /\ pc' = stage
<1>1. UNCHANGED <<rt, status, children, ready, kb>> /\ ~queued
  BY DEF Apply, Enqueue, Watched
<1>2. children'[kind] = value
  BY DEF Apply, TypeOK, RetrieverTypeOK, ObjectTypeOK
<1> QED BY <1>1, <1>2 DEF Apply, IInv, worldVars

\* Before and after such a call, current inputs ask for the same.
LEMMA SameInputs ==
  ASSUME UNCHANGED <<rt, status, children, ready, kb, secrets>>
  PROVE  /\ Serveable' = Serveable /\ DeploymentMatches' = DeploymentMatches
         /\ WorkloadMatches' = WorkloadMatches
<1>1. kb # None => Template(rt.spec, kb)' = Template(rt.spec, kb)
  BY DEF Template, SecretsHash, Referenced, KbSecrets, Values
<1>2. Serveable' = Serveable
  BY DEF Serveable, SecretsValid, Referenced, KbSecrets
<1>3. DeploymentMatches' = DeploymentMatches
  BY DEF DeploymentMatches, Template, SecretsHash, Referenced, KbSecrets, Values, MinReplicas
<1> QED BY <1>1, <1>2, <1>3 DEF WorkloadMatches, Serveable, MinReplicas, DesiredService,
      WantsPolicy, WantsBudget, DesiredAutoscaler

LEMMA PassSteps == ASSUME TypeOK, IInv, Pass PROVE IInv'
<1> USE DEF Removing, Applying
<1> SUFFICES ASSUME ~queued' PROVE IF pc' = "idle" THEN Quiet' ELSE PassOnCourse'
  <2>1. TypeOK'
    BY StepTypes DEF Next, RetrieverStep
  <2> QED BY <2>1 DEF IInv, Shape, TypeOK, RetrieverTypeOK, ObjectTypeOK, PassTypeOK
<1>1. CASE BeginPass
  BY <1>1 DEF BeginPass, PassOnCourse, SeenIsCurrent, RemovedSoFar, Serveable, clusterVars,
     worldVars, Nothing
<1>2. CASE ValidateSecrets
  <2>1. PassOnCourse /\ pc = "validate"
    BY <1>2 DEF ValidateSecrets, IInv
  <2>2. UNCHANGED <<rt, status, children, ready, kb, secrets, seen>>
    BY <1>2 DEF ValidateSecrets, worldVars, clusterVars
  <2>3. \/ SecretsValid(rt.spec, kb) /\ pc' = "deployment"
        \/ /\ ~SecretsValid(rt.spec, kb) /\ pc' = "-deployment"
    BY <1>2, <2>1 DEF ValidateSecrets, PassOnCourse, SeenIsCurrent
  <2>4. pc' = "deployment" => Serveable
    BY <2>1, <2>3 DEF Serveable, PassOnCourse
  <2>5. pc' = "-deployment" => ~Serveable
    BY <2>3 DEF Serveable
  <2> QED
    BY <2>1, <2>2, <2>3, <2>4, <2>5, SameInputs DEF PassOnCourse, SeenIsCurrent,
      AppliedSoFar, RemovedSoFar, AfterDeployment, AfterService, AfterMetrics, AfterIngress,
      AfterPolicy, AfterBudget, AfterHPA
<1>3. CASE \/ RemoveDeployment \/ RemoveHorizontalPodAutoscaler \/ RemovePodDisruptionBudget
           \/ RemoveIngress \/ RemoveNetworkPolicy
  <2>1. PICK kind \in Kinds, stage \in Removing :
          /\ Apply(kind, None, stage)
          /\ \/ pc = "-deployment" /\ kind = "deployment" /\ stage = "-hpa"
             \/ pc = "-hpa" /\ kind = "hpa" /\ stage = "-pdb"
             \/ pc = "-pdb" /\ kind = "pdb" /\ stage = "-ingress"
             \/ pc = "-ingress" /\ kind = "ingress" /\ stage = "-policy"
             \/ pc = "-policy" /\ kind = "policy" /\ stage = "pend"
    BY <1>3 DEF RemoveDeployment, RemoveHorizontalPodAutoscaler, RemovePodDisruptionBudget,
      RemoveIngress, RemoveNetworkPolicy, Kinds
  <2>2. /\ PassOnCourse
        /\ UNCHANGED <<rt, status, children, ready, kb, secrets, seen, obs>>
        /\ children[kind] = None /\ pc' = stage
    BY <2>1, ApplySteps
  <2>3. pc = "-deployment" => ready = 0
    BY <2>1, <2>2 DEF Apply
  <2> QED
    BY <2>1, <2>2, <2>3, SameInputs DEF PassOnCourse, SeenIsCurrent, RemovedSoFar
<1>4. CASE ApplyDeployment
  <2> DEFINE d == [template |-> Template(seen.rt.spec, seen.kb),
                   replicas |-> IF children["deployment"] # None /\ seen.rt.spec.autoscaling
                                  THEN children["deployment"].replicas
                                  ELSE MinReplicas(seen.rt.spec)]
  <2>1. pc = "deployment" /\ Apply("deployment", d, "service")
    BY <1>4 DEF ApplyDeployment
  <2>2. /\ PassOnCourse
        /\ UNCHANGED <<rt, status, children, ready, kb, secrets, seen, obs>>
        /\ children["deployment"] = d /\ pc' = "service"
    <3> HIDE DEF d
    <3> QED BY <2>1, ApplySteps DEF Kinds
  <2>3. seen.rt = rt /\ seen.kb = kb
    BY <2>2 DEF PassOnCourse, SeenIsCurrent
  <2>4. DeploymentMatches
    BY <2>2, <2>3 DEF DeploymentMatches
  <2> QED
    BY <2>1, <2>2, <2>4, SameInputs DEF PassOnCourse, SeenIsCurrent, AppliedSoFar,
      AfterDeployment, AfterService, AfterMetrics, AfterIngress, AfterPolicy, AfterBudget,
      AfterHPA
<1>5. CASE ApplyService \/ ApplyMetricsService \/ ReconcileIngress
           \/ ReconcileOIDCNetworkPolicy \/ ReconcilePodDisruptionBudget
           \/ ReconcileHorizontalPodAutoscaler
  <2> DEFINE r == seen.rt.spec
  <2>1. ASSUME NEW kind \in Kinds, NEW value, NEW stage \in Applying,
               Apply(kind, value, stage),
               \/ /\ pc = "service" /\ kind = "service" /\ stage = "metrics"
                  /\ value = DesiredService(r)
               \/ pc = "metrics" /\ kind = "metrics" /\ stage = "ingress" /\ value = "on"
               \/ pc = "ingress" /\ kind = "ingress" /\ stage = "policy" /\ value = r.ingress
               \/ pc = "policy" /\ kind = "policy" /\ stage = "pdb" /\ value = WantsPolicy(r)
               \/ pc = "pdb" /\ kind = "pdb" /\ stage = "hpa" /\ value = WantsBudget(r)
               \/ /\ pc = "hpa" /\ kind = "hpa" /\ stage = "observe"
                  /\ value = DesiredAutoscaler(r)
        PROVE  pc' # "idle" /\ PassOnCourse'
    <3>1. /\ PassOnCourse
          /\ UNCHANGED <<rt, status, children, ready, kb, secrets, seen, obs>>
          /\ children[kind] = value /\ pc' = stage
      BY <2>1, ApplySteps
    <3>2. seen.rt = rt /\ Serveable /\ AppliedSoFar
      BY <2>1, <3>1 DEF PassOnCourse, SeenIsCurrent
    <3> QED
      BY <2>1, <3>1, <3>2, SameInputs DEF PassOnCourse, SeenIsCurrent, AppliedSoFar,
        AfterDeployment, AfterService, AfterMetrics, AfterIngress, AfterPolicy, AfterBudget,
        AfterHPA, DesiredService, WantsPolicy, WantsBudget, DesiredAutoscaler, MinReplicas
  <2>2. CASE ApplyService
    BY <2>1, <2>2 DEF ApplyService, Kinds
  <2>3. CASE ApplyMetricsService
    BY <2>1, <2>3 DEF ApplyMetricsService, Kinds
  <2>4. CASE ReconcileIngress
    BY <2>1, <2>4 DEF ReconcileIngress, Kinds
  <2>5. CASE ReconcileOIDCNetworkPolicy
    BY <2>1, <2>5 DEF ReconcileOIDCNetworkPolicy, Kinds
  <2>6. CASE ReconcilePodDisruptionBudget
    BY <2>1, <2>6 DEF ReconcilePodDisruptionBudget, Kinds
  <2>7. CASE ReconcileHorizontalPodAutoscaler
    BY <2>1, <2>7 DEF ReconcileHorizontalPodAutoscaler, Kinds
  <2> QED BY <1>5, <2>2, <2>3, <2>4, <2>5, <2>6, <2>7
<1>6. CASE Observe
  <2>1. /\ children["deployment"] # None /\ pc = "observe" /\ pc' = "report"
        /\ seen' = seen /\ queued' = queued
        /\ obs' = [why |-> "", ready |-> ready, index |-> IF vi = None THEN "" ELSE vi.health]
        /\ UNCHANGED <<rt, status, children, ready, kb, secrets>>
    BY <1>6 DEF Observe, worldVars, clusterVars
  <2>2. PassOnCourse
    BY <2>1 DEF IInv
  <2> QED
    BY <2>1, <2>2, SameInputs DEF PassOnCourse, SeenIsCurrent, AppliedSoFar,
      AfterDeployment, AfterService, AfterMetrics, AfterIngress, AfterPolicy, AfterBudget,
      AfterHPA, DesiredService, WantsPolicy, WantsBudget, DesiredAutoscaler, MinReplicas
<1>7. ASSUME NEW st, UpdateStatus(st)
      PROVE  /\ pc' = "idle" /\ ~queued /\ status = st
             /\ UNCHANGED <<rt, status, children, ready, kb, secrets>>
  BY <1>7 DEF UpdateStatus, EndPass, Enqueue, Watched, worldVars, clusterVars
<1>8. CASE ReportPending
  <2>1. /\ pc' = "idle" /\ ~queued
        /\ status = [phase |-> "Pending", reason |-> obs.why, ready |-> 0,
                     endpoint |-> FALSE, public |-> None, gen |-> seen.rt.gen]
        /\ UNCHANGED <<rt, status, children, ready, kb, secrets>>
    BY <1>7, <1>8 DEF ReportPending
  <2>2. PassOnCourse /\ pc = "pend"
    BY <1>8, <2>1 DEF ReportPending, IInv
  <2>3. obs.why # "unreadable" => ~Serveable
    BY <2>2 DEF PassOnCourse
  <2>4. ~Serveable => WorkloadMatches /\ StatusMatches
    BY <2>1, <2>2 DEF WorkloadMatches, StatusMatches, PassOnCourse, RemovedSoFar, SeenIsCurrent,
      Serveable
  <2>5. Quiet
    BY <2>1, <2>3, <2>4 DEF Quiet
  <2>6. StatusMatches' = StatusMatches
    BY <2>1, SameInputs DEF StatusMatches, EnoughReady, MinReplicas
  <2> QED BY <2>1, <2>5, <2>6, SameInputs DEF Quiet
<1>9. CASE ReportServing
  <2>1. PassOnCourse /\ pc = "report"
    BY <1>7, <1>9 DEF ReportServing, Report, IInv
  <2>2. seen.rt = rt /\ Serveable /\ obs.ready = ready /\ children["deployment"] # None
    BY <2>1 DEF PassOnCourse, SeenIsCurrent, AppliedSoFar
  <2>3. \E phase, reason :
          /\ \/ /\ EnoughReady(ready, rt.spec) /\ phase = "Progressing" /\ reason = "index"
             \/ /\ EnoughReady(ready, rt.spec) /\ phase = "Available" /\ reason = "available"
             \/ /\ ~EnoughReady(ready, rt.spec) /\ phase = "Progressing"
                /\ reason = "replicas"
          /\ Report(phase, reason)
    BY <1>9, <2>2 DEF ReportServing
  <2>4. PICK phase, reason :
          /\ \/ /\ EnoughReady(ready, rt.spec) /\ phase = "Progressing" /\ reason = "index"
             \/ /\ EnoughReady(ready, rt.spec) /\ phase = "Available" /\ reason = "available"
             \/ /\ ~EnoughReady(ready, rt.spec) /\ phase = "Progressing"
                /\ reason = "replicas"
          /\ Report(phase, reason)
    BY <2>3
  <2>5. /\ pc' = "idle" /\ ~queued
        /\ status = [phase |-> phase, reason |-> reason, ready |-> ready, endpoint |-> TRUE,
                     public |-> rt.spec.ingress, gen |-> rt.gen]
        /\ UNCHANGED <<rt, status, children, ready, kb, secrets>>
    BY <1>7, <2>2, <2>4 DEF Report
  <2>6. WorkloadMatches
    BY <2>1, <2>2 DEF WorkloadMatches, PassOnCourse, AppliedSoFar, DeploymentMatches,
      AfterDeployment, AfterService, AfterMetrics, AfterIngress, AfterPolicy, AfterBudget,
      AfterHPA
  <2>7. StatusMatches
    BY <2>2, <2>4, <2>5 DEF StatusMatches
  <2>8. StatusMatches' = StatusMatches
    BY <2>5, SameInputs DEF StatusMatches, EnoughReady, MinReplicas
  <2> QED BY <2>5, <2>6, <2>7, <2>8, SameInputs DEF Quiet
<1> QED
  BY <1>1, <1>2, <1>3, <1>4, <1>5, <1>6, <1>8, <1>9 DEF Pass

\* A pass that fails or is lost leaves the Retriever queued; an unreadable Secret sends it
\* to the removal whatever the Secrets are.
LEMMA FaultSteps ==
  ASSUME TypeOK, IInv, SecretUnreadable \/ PassFails \/ Restart
  PROVE  IInv'
<1>1. TypeOK'
  BY StepTypes DEF Next, RetrieverStep
<1>2. Shape'
  BY <1>1 DEF Shape, TypeOK, RetrieverTypeOK, ObjectTypeOK, PassTypeOK
<1>3. CASE PassFails \/ Restart
  BY <1>2, <1>3 DEF PassFails, Restart, IInv
<1>4. CASE SecretUnreadable
  <2>1. /\ UNCHANGED <<rt, kb, queued, seen>> /\ pc = "validate" /\ pc' = "-deployment"
        /\ obs'.why = "unreadable"
    BY <1>4 DEF SecretUnreadable, Nothing
  <2> QED
    BY <1>2, <2>1 DEF IInv, PassOnCourse, SeenIsCurrent, RemovedSoFar, Applying, Removing
<1> QED BY <1>3, <1>4

LEMMA InitInvariant == ASSUME Init PROVE IInv
BY DEF Init, RetrieverInit, IInv, Shape, Applying, Removing

LEMMA StepInvariant == ASSUME TypeOK, IInv, [Next]_vars PROVE IInv'
BY OutsideSteps, PassSteps, FaultSteps DEF Next, RetrieverStep

\* The reconciler is level-triggered: whenever none of its passes runs and none is queued,
\* workload and status are what the current Retriever, KnowledgeBase and Secrets ask for
\* (Reconcile, SetupWithManager).
THEOREM LevelTriggered == Spec => []QuietMeansConverged
<1>1. IInv => QuietMeansConverged
  BY DEF IInv, Quiet, QuietMeansConverged
<1> QED BY <1>1, Types, InitInvariant, StepInvariant, PTL DEF Spec

=============================================================================
