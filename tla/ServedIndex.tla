---------------------------- MODULE ServedIndex ----------------------------
(***************************************************************************)
(* What serving depends on: one KnowledgeBase, the collections its         *)
(* ingestions fill, the Secrets it refers to, and the VectorIndex object   *)
(* it owns.  The controllers that serve it, VectorIndex and Retriever,     *)
(* extend this module.                                                     *)
(*                                                                         *)
(* The KnowledgeBase reconciler is here only as far as serving sees it:    *)
(* an ingestion is started, promoted by its worker, recorded or cancelled, *)
(* and one step stands for the pass that does it (KnowledgeBase has those  *)
(* passes call by call).  A KnowledgeBase spec is the embedding model and  *)
(* the vector store it asks for; the rest of it does not reach serving.    *)
(***************************************************************************)
EXTENDS Integers, FiniteSets

CONSTANTS
  Models,         \* embedding configurations
  Stores,         \* collections: a type, an endpoint and a name
  StoreType,      \* Stores -> {"qdrant", "pgvector", "milvus"}
  Secrets,        \* Secret keys that specs refer to
  StoreKey,       \* Stores -> Secrets or None: spec.vectorStore.credentialsSecretRef
  ModelKey,       \* Models -> Secrets or None: spec.embedding.apiKeySecretRef
  Width,          \* Models -> Nat: the dimension of the vectors a model makes
  Expected,       \* Models -> Nat: embeddingDimension, 0 where it is not known
  KbSpecs,        \* what a user may ask of the KnowledgeBase
  FirstSpec,      \* what is asked first
  KbEdits,        \* pairs <<s, t>>: the user may replace s by t
  Versions,       \* values a Secret key may have
  Faults,         \* which kinds of disturbance can happen
  MaxDisturbances,\* how many edits and faults can happen in total
  None            \* an absent value

ASSUME StoreAssumption ==
  /\ StoreType \in [Stores -> {"qdrant", "pgvector", "milvus"}]
  /\ StoreKey \in [Stores -> Secrets \union {None}]
ASSUME ModelAssumption ==
  /\ ModelKey \in [Models -> Secrets \union {None}]
  /\ Width \in [Models -> Nat] /\ Expected \in [Models -> Nat]
ASSUME SpecAssumption ==
  /\ KbSpecs \subseteq [model: Models, store: Stores]
  /\ FirstSpec \in KbSpecs
  /\ KbEdits \subseteq KbSpecs \X KbSpecs
ASSUME BudgetAssumption == Versions # {} /\ None \notin Versions /\ MaxDisturbances \in Nat

VARIABLES
  kb,          \* the KnowledgeBase: its spec and what its status says is indexed
  ingest,      \* its active ingest Job
  collections, \* what each collection holds
  secrets,     \* the value of each Secret key, None when the Secret, the key or its
               \* value is not there
  outage,      \* how the vector stores answer
  vi,          \* the VectorIndex object the KnowledgeBase owns
  budget       \* disturbances left

worldVars == <<kb, ingest, collections, secrets, outage, vi, budget>>

KnowledgeBases ==
  [spec: KbSpecs, observed: KbSpecs \union {None}, suspend: BOOLEAN, deleting: BOOLEAN]
NewKnowledgeBase ==
  [spec |-> FirstSpec, observed |-> None, suspend |-> FALSE, deleting |-> FALSE]

\* A collection's vectors come from one model; `filled' is false when it has no points.
Contents == [model: Models, filled: BOOLEAN]

Healths == {"", "Healthy", "Degraded", "Missing", "Unknown"}
\* `points' is status.pointCount, where 1 stands for any positive count.
VectorIndices == [expected: Nat, store: Stores, health: Healths, points: {-1, 0, 1}]

ASSUME NoneAssumption == None \notin KnowledgeBases /\ None \notin VectorIndices

KbSecrets(spec) == {StoreKey[spec.store], ModelKey[spec.model]} \ {None}
Values(keys) == [s \in keys |-> secrets[s]]

IngestJobs == UNION {[spec: {s}, creds: [KbSecrets(s) -> Versions \union {None}],
                      promoted: BOOLEAN] : s \in KbSpecs}

WorldTypeOK ==
  /\ kb \in KnowledgeBases \union {None}
  /\ ingest \in IngestJobs \union {None}
  /\ collections \in [Stores -> Contents \union {None}]
  /\ secrets \in [Secrets -> Versions \union {None}]
  /\ outage \in {"none", "failing", "down"}
  /\ vi \in VectorIndices \union {None}
  /\ budget \in 0..MaxDisturbances
  /\ kb = None => ingest = None /\ vi = None

WorldInit ==
  /\ kb = NewKnowledgeBase
  /\ ingest = None
  /\ collections = [s \in Stores |-> None]
  /\ secrets = [s \in Secrets |-> CHOOSE v \in Versions : TRUE]
  /\ outage = "none"
  /\ vi = None
  /\ budget = MaxDisturbances

Disturb == budget > 0 /\ budget' = budget - 1
Fault(kind) == kind \in Faults /\ Disturb

\* What can be undone is undone at no cost.
FaultOrRepair(kind, broken) == IF broken THEN UNCHANGED budget ELSE Fault(kind)

Reconciled == kb # None /\ ~kb.deleting

-----------------------------------------------------------------------------
(* The KnowledgeBase's own reconciler and its ingest worker.               *)

\* Every pass, a suspended one's too, brings the VectorIndex's spec up to date.
EnsureVectorIndex ==
  /\ Reconciled
  /\ LET dim == Expected[kb.spec.model]
     IN \/ /\ vi = None
           /\ vi' = [expected |-> dim, store |-> kb.spec.store,
                     health |-> "", points |-> 0]
        \/ /\ vi # None /\ (vi.expected # dim \/ vi.store # kb.spec.store)
           /\ vi' = [vi EXCEPT !.expected = dim, !.store = kb.spec.store]
  /\ UNCHANGED <<kb, ingest, collections, secrets, outage, budget>>

StartIngest ==
  /\ Reconciled /\ ~kb.suspend
  /\ ingest = None
  /\ kb.observed # kb.spec
  /\ ingest' = [spec |-> kb.spec, creds |-> Values(KbSecrets(kb.spec)), promoted |-> FALSE]
  /\ UNCHANGED <<kb, collections, secrets, outage, vi, budget>>

\* The worker swaps in the collection it has filled.  It does so in a suspended
\* KnowledgeBase too: suspending stops passes, not Jobs.
Promote ==
  /\ ingest # None /\ ~ingest.promoted
  /\ collections' = [collections EXCEPT ![ingest.spec.store] =
                       [model |-> ingest.spec.model, filled |-> TRUE]]
  /\ ingest' = [ingest EXCEPT !.promoted = TRUE]
  /\ UNCHANGED <<kb, secrets, outage, vi, budget>>

\* The Job was started for another spec or with other credentials.
Stale == ingest.spec # kb.spec \/ ingest.creds # Values(KbSecrets(kb.spec))

\* A stale Job is deleted even when it has completed.
CancelIngest ==
  /\ Reconciled /\ ~kb.suspend
  /\ ingest # None /\ Stale
  /\ ingest' = None
  /\ UNCHANGED <<kb, collections, secrets, outage, vi, budget>>

FinalizeIngest ==
  /\ Reconciled /\ ~kb.suspend
  /\ ingest # None /\ ingest.promoted /\ ~Stale
  /\ kb' = [kb EXCEPT !.observed = kb.spec]
  /\ ingest' = None
  /\ UNCHANGED <<collections, secrets, outage, vi, budget>>

\* The Job fails before it promotes; the reconciler forgets it and starts over.
IngestFails ==
  /\ Fault("ingestFails")
  /\ ingest # None /\ ~ingest.promoted
  /\ ingest' = None
  /\ UNCHANGED <<kb, collections, secrets, outage, vi>>

\* Cleanup has dropped the collection; the finalizer goes, and with the object what it owns.
FinishDeletion ==
  /\ kb # None /\ kb.deleting
  /\ collections' = [collections EXCEPT ![kb.spec.store] = None]
  /\ kb' = None /\ ingest' = None /\ vi' = None
  /\ UNCHANGED <<secrets, outage, budget>>

-----------------------------------------------------------------------------
(* Users and the environment.                                              *)

EditKnowledgeBase ==
  /\ Reconciled
  /\ Disturb
  /\ \E s \in KbSpecs : <<kb.spec, s>> \in KbEdits /\ kb' = [kb EXCEPT !.spec = s]
  /\ UNCHANGED <<ingest, collections, secrets, outage, vi>>

ToggleSuspend ==
  /\ Reconciled
  /\ FaultOrRepair("suspend", kb.suspend)
  /\ kb' = [kb EXCEPT !.suspend = ~@]
  /\ UNCHANGED <<ingest, collections, secrets, outage, vi>>

DeleteKnowledgeBase ==
  /\ Reconciled
  /\ Fault("delete")
  /\ kb' = [kb EXCEPT !.deleting = TRUE]
  /\ UNCHANGED <<ingest, collections, secrets, outage, vi>>

CreateKnowledgeBase ==
  /\ kb = None
  /\ kb' = NewKnowledgeBase
  /\ UNCHANGED <<ingest, collections, secrets, outage, vi, budget>>

\* A collection is lost, or emptied by an incremental sync of emptied sources.
LoseCollection ==
  /\ Fault("collection")
  /\ \E s \in Stores :
       /\ collections[s] # None
       /\ \E c \in {None, [collections[s] EXCEPT !.filled = FALSE]} :
            c # collections[s] /\ collections' = [collections EXCEPT ![s] = c]
  /\ UNCHANGED <<kb, ingest, secrets, outage, vi>>

\* The stores stop answering, answer with errors, or come back.
Outage ==
  /\ FaultOrRepair("outage", outage # "none")
  /\ outage' \in IF outage = "none" THEN {"failing", "down"} ELSE {"none"}
  /\ UNCHANGED <<kb, ingest, collections, secrets, vi>>

\* A Secret key is rotated, removed, emptied or restored.
ChangeSecret ==
  /\ \E s \in Secrets : \E v \in (Versions \union {None}) \ {secrets[s]} :
       /\ FaultOrRepair("secret", secrets[s] = None)
       /\ secrets' = [secrets EXCEPT ![s] = v]
  /\ UNCHANGED <<kb, ingest, collections, outage, vi>>

World ==
  \/ EnsureVectorIndex \/ StartIngest \/ Promote \/ CancelIngest
  \/ FinalizeIngest \/ IngestFails \/ FinishDeletion
  \/ EditKnowledgeBase \/ ToggleSuspend \/ DeleteKnowledgeBase \/ CreateKnowledgeBase
  \/ LoseCollection \/ Outage \/ ChangeSecret

WorldFairness ==
  /\ WF_worldVars(EnsureVectorIndex) /\ WF_worldVars(StartIngest)
  /\ WF_worldVars(Promote) /\ WF_worldVars(CancelIngest)
  /\ WF_worldVars(FinalizeIngest) /\ WF_worldVars(FinishDeletion)

=============================================================================
