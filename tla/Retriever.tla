----------------------------- MODULE Retriever -----------------------------
(***************************************************************************)
(* The Retriever reconciler (internal/controller/retriever_controller.go)  *)
(* next to the cluster it drives: from a Retriever, its KnowledgeBase and  *)
(* the Secrets both refer to, it keeps a Deployment, two Services and, as  *)
(* asked, an Ingress, a NetworkPolicy, a PodDisruptionBudget and an        *)
(* autoscaler, and reports whether the Retriever serves.                   *)
(*                                                                         *)
(* A pass is one step per call that changes something.  It works from the  *)
(* Retriever and the KnowledgeBase as it read them (`seen'); the work      *)
(* queue holds the Retriever at most once and is filled by the watches of  *)
(* SetupWithManager.  Nothing watches the VectorIndex, and no pass asks to *)
(* be requeued: what no watch reports waits for the periodic resync of the *)
(* informers.  The deletion of a Retriever, which takes its children with  *)
(* it, is not here.                                                        *)
(***************************************************************************)
EXTENDS VectorIndex

CONSTANTS
  Hosts,           \* hosts an Ingress may be asked for
  MaxReplicas,     \* no Deployment has more
  RetrieverSpecs,  \* what a user may ask of the Retriever
  FirstRetriever   \* what is asked first

\* `minReplicas' is the autoscaler's, 0 when it is not given; `secrets' are the keys the
\* Retriever itself refers to: API key, OIDC client and cookie, Redis URL, LLM key.
AnyRetriever ==
  [ingress: Hosts \union {None}, oidc: BOOLEAN, autoscaling: BOOLEAN,
   replicas: 0..MaxReplicas, minReplicas: 0..MaxReplicas,
   pdb: {"default", "on", "off"}, secrets: SUBSET Secrets]

ASSUME RetrieverAssumption ==
  /\ MaxReplicas \in Nat /\ MaxReplicas >= 2
  /\ RetrieverSpecs \subseteq AnyRetriever
  /\ FirstRetriever \in RetrieverSpecs
  /\ \A r \in RetrieverSpecs : r.oidc => r.ingress # None

VARIABLES
  rt,       \* the Retriever: its spec and its generation
  status,   \* its status
  children, \* the objects it owns, by kind
  pods,     \* the template its pods run and the Secret values they started with
  ready,    \* status.readyReplicas of the Deployment
  load,     \* how many replicas the autoscaler would have
  queued,   \* the Retriever waits in the controller's work queue
  pc,       \* where the pass is
  seen,     \* the Retriever and KnowledgeBase it works from, None between passes
  obs       \* what it read of the Deployment and VectorIndex, or why it gave up

clusterVars == <<children, pods, ready, load>>
retrieverVars == <<rt, status, clusterVars, queued, pc, seen, obs>>
vars == <<worldVars, cache, retrieverVars>>

Kinds == {"deployment", "service", "metrics", "ingress", "policy", "pdb", "hpa"}

MinReplicas(r) ==
  IF r.autoscaling THEN IF r.minReplicas = 0 THEN 2 ELSE r.minReplicas ELSE r.replicas

\* The Secret keys a pass validates and fingerprints: those of the specs.
Referenced(r, k) == KbSecrets(k.spec) \union r.secrets

\* Mutant: the fingerprint names the keys but not their values.
SecretsHash_NamesOnly(r, k) == [s \in Referenced(r, k) |-> None]
SecretsHash(r, k) == Values(Referenced(r, k))

SecretsValid(r, k) == \A s \in Referenced(r, k) : secrets[s] # None

\* The pod template: queries are embedded as the indexed data were, by the status of
\* the KnowledgeBase, but go to the store its spec names.
Template(r, k) ==
  [model |-> IF k.observed # None THEN k.observed.model ELSE k.spec.model,
   store |-> k.spec.store,
   proxy |-> r.oidc,
   own   |-> r.secrets,
   hash  |-> SecretsHash(r, k)]

Templates ==
  UNION {[model: Models, store: Stores, proxy: BOOLEAN, own: SUBSET Secrets,
          hash: [keys -> Versions \union {None}]] : keys \in SUBSET Secrets}

\* The keys whose values the containers get.
UsedSecrets(t) == ({StoreKey[t.store], ModelKey[t.model]} \ {None}) \union t.own

Deployments == [template: Templates, replicas: 0..MaxReplicas]
Pods == UNION {[template: {t}, creds: [UsedSecrets(t) -> Versions]] : t \in Templates}

\* What a pass has read: the Retriever and its KnowledgeBase.
Snapshots == [rt: [spec: RetrieverSpecs, gen: Nat], kb: KnowledgeBases \union {None}]

ASSUME AbsenceAssumption == None \notin Snapshots /\ None \notin Deployments

Statuses ==
  [phase: {"", "Pending", "Progressing", "Available"},
   reason: {"", "kb", "secret", "unreadable", "replicas", "index", "available"},
   ready: 0..MaxReplicas, endpoint: BOOLEAN, public: Hosts \union {None}, gen: Nat]

GivingUp == {"kb", "secret", "unreadable"}
Nothing == [why |-> "", ready |-> 0, index |-> ""]
Removing == {"-deployment", "-hpa", "-pdb", "-ingress", "-policy", "pend"}
Applying == {"deployment", "service", "metrics", "ingress", "policy", "pdb", "hpa",
             "observe", "report"}

ObjectTypeOK ==
  /\ rt \in [spec: RetrieverSpecs, gen: Nat]
  /\ status \in Statuses
  /\ children["deployment"] \in Deployments \union {None}
  /\ children["service"] \in {"direct", "proxy", None}
  /\ children["metrics"] \in {"on", None}
  /\ children["ingress"] \in Hosts \union {None}
  /\ children["policy"] \in {"on", None}
  /\ children["pdb"] \in {"on", None}
  /\ children["hpa"] \in 0..MaxReplicas \union {None}
  /\ DOMAIN children = Kinds
  /\ pods \in Pods \union {None}
  /\ ready \in 0..MaxReplicas
  /\ load \in 0..MaxReplicas
  /\ children["deployment"] = None => pods = None /\ ready = 0

PassTypeOK ==
  /\ queued \in BOOLEAN
  /\ pc \in {"idle", "validate"} \union Removing \union Applying
  /\ seen \in Snapshots \union {None}
  /\ obs \in [why: GivingUp \union {""}, ready: 0..MaxReplicas, index: Healths]
  /\ pc = "idle" <=> seen = None
  /\ pc \in {"validate"} \union Applying => seen.kb # None
  /\ pc \in Removing => obs.why \in GivingUp

RetrieverTypeOK == ObjectTypeOK /\ PassTypeOK

RetrieverInit ==
  /\ rt = [spec |-> FirstRetriever, gen |-> 1]
  /\ status = [phase |-> "", reason |-> "", ready |-> 0, endpoint |-> FALSE,
               public |-> None, gen |-> 0]
  /\ children = [k \in Kinds |-> None]
  /\ pods = None /\ ready = 0 /\ load = 0
  /\ queued = TRUE
  /\ pc = "idle" /\ seen = None /\ obs = Nothing

\* The watches: the Retriever, the objects it owns, its KnowledgeBase, and the Secrets
\* that it or the KnowledgeBase's spec refers to at the time of the event.
Watched ==
  \/ <<rt, status, children, ready, kb>>' # <<rt, status, children, ready, kb>>
  \/ \E s \in Secrets : /\ secrets'[s] # secrets[s]
                        /\ \/ s \in rt.spec.secrets
                           \/ kb # None /\ s \in KbSecrets(kb.spec)

\* Mutant: the Secrets of the KnowledgeBase are not looked up.
Enqueue_OwnSecrets ==
  queued' = \/ queued
            \/ <<rt, status, children, ready, kb>>' # <<rt, status, children, ready, kb>>
            \/ \E s \in rt.spec.secrets : secrets'[s] # secrets[s]

Enqueue == queued' = (queued \/ Watched)

-----------------------------------------------------------------------------
(* A pass of Reconcile.                                                    *)

EndPass == pc' = "idle" /\ seen' = None /\ obs' = Nothing

\* Mutant: a KnowledgeBase that is not found is taken like one that is.
BeginPass_NoLookup ==
  /\ pc = "idle" /\ queued
  /\ queued' = FALSE
  /\ seen' = [rt |-> rt, kb |-> kb]
  /\ pc' = "validate" /\ obs' = Nothing
  /\ UNCHANGED <<worldVars, cache, rt, status, clusterVars>>

\* The pass reads the Retriever and its KnowledgeBase; without the latter it takes the
\* workload down.
BeginPass ==
  /\ pc = "idle" /\ queued
  /\ queued' = FALSE
  /\ seen' = [rt |-> rt, kb |-> kb]
  /\ IF kb = None THEN pc' = "-deployment" /\ obs' = [Nothing EXCEPT !.why = "kb"]
                  ELSE pc' = "validate" /\ obs' = Nothing
  /\ UNCHANGED <<worldVars, cache, rt, status, clusterVars>>

ValidateSecrets ==
  /\ pc = "validate"
  /\ IF SecretsValid(seen.rt.spec, seen.kb)
       THEN pc' = "deployment" /\ obs' = obs
       ELSE pc' = "-deployment" /\ obs' = [Nothing EXCEPT !.why = "secret"]
  /\ UNCHANGED <<worldVars, cache, rt, status, clusterVars, queued, seen>>

\* A Secret cannot be read for another reason than its absence: that is no error of the
\* pass but a reason to take the workload down.
SecretUnreadable ==
  /\ Fault("secretRead")
  /\ pc = "validate"
  /\ Referenced(seen.rt.spec, seen.kb) # {}
  /\ pc' = "-deployment" /\ obs' = [Nothing EXCEPT !.why = "unreadable"]
  /\ UNCHANGED <<kb, ingest, collections, secrets, outage, vi, cache, rt, status,
                 clusterVars, queued, seen>>

\* One call that sets the child `kind' to `value' (None deletes it), then the next.
Apply(kind, value, stage) ==
  /\ children' = [children EXCEPT ![kind] = value]
  /\ IF kind = "deployment" /\ value = None
       THEN pods' = None /\ ready' = 0
       ELSE UNCHANGED <<pods, ready>>
  /\ pc' = stage
  /\ UNCHANGED <<worldVars, cache, rt, status, load, seen, obs>>
  /\ Enqueue

\* removeRetrieverWorkload, call by call.
RemoveDeployment == pc = "-deployment" /\ Apply("deployment", None, "-hpa")
RemoveHorizontalPodAutoscaler == pc = "-hpa" /\ Apply("hpa", None, "-pdb")
RemovePodDisruptionBudget == pc = "-pdb" /\ Apply("pdb", None, "-ingress")
RemoveIngress == pc = "-ingress" /\ Apply("ingress", None, "-policy")
RemoveNetworkPolicy == pc = "-policy" /\ Apply("policy", None, "pend")

\* Mutant: the scale is reset whoever owns it.
ApplyDeployment_ResetsScale ==
  /\ pc = "deployment"
  /\ Apply("deployment",
           [template |-> Template(seen.rt.spec, seen.kb),
            replicas |-> MinReplicas(seen.rt.spec)],
           "service")

\* Mutant: a Deployment that is there is left as it is.
ApplyDeployment_CreateOnly ==
  /\ pc = "deployment"
  /\ Apply("deployment",
           IF children["deployment"] # None THEN children["deployment"]
           ELSE [template |-> Template(seen.rt.spec, seen.kb),
                 replicas |-> MinReplicas(seen.rt.spec)],
           "service")

\* The scale of an autoscaled Deployment is left as it is.
ApplyDeployment ==
  /\ pc = "deployment"
  /\ Apply("deployment",
           [template |-> Template(seen.rt.spec, seen.kb),
            replicas |-> IF children["deployment"] # None /\ seen.rt.spec.autoscaling
                           THEN children["deployment"].replicas
                           ELSE MinReplicas(seen.rt.spec)],
           "service")

DesiredService(r) == IF r.oidc THEN "proxy" ELSE "direct"
WantsPolicy(r) == IF r.oidc THEN "on" ELSE None
WantsBudget(r) ==
  IF r.pdb = "on" \/ (r.pdb = "default" /\ MinReplicas(r) > 1) THEN "on" ELSE None
DesiredAutoscaler(r) == IF r.autoscaling THEN MinReplicas(r) ELSE None

ApplyService ==
  pc = "service" /\ Apply("service", DesiredService(seen.rt.spec), "metrics")
ApplyMetricsService ==
  pc = "metrics" /\ Apply("metrics", "on", "ingress")
ReconcileIngress ==
  pc = "ingress" /\ Apply("ingress", seen.rt.spec.ingress, "policy")
ReconcileOIDCNetworkPolicy ==
  pc = "policy" /\ Apply("policy", WantsPolicy(seen.rt.spec), "pdb")
ReconcilePodDisruptionBudget ==
  pc = "pdb" /\ Apply("pdb", WantsBudget(seen.rt.spec), "hpa")

\* Mutant: an autoscaler that is no longer asked for is not deleted.
ReconcileHorizontalPodAutoscaler_KeepsOld ==
  /\ pc = "hpa"
  /\ Apply("hpa", IF seen.rt.spec.autoscaling THEN MinReplicas(seen.rt.spec)
                  ELSE children["hpa"], "observe")

ReconcileHorizontalPodAutoscaler ==
  pc = "hpa" /\ Apply("hpa", DesiredAutoscaler(seen.rt.spec), "observe")

\* The pass reads the Deployment back, where one that is gone is an error, and the
\* VectorIndex, where one that is not there counts as healthy.
Observe ==
  /\ pc = "observe"
  /\ IF children["deployment"] = None
       THEN EndPass /\ queued' = TRUE
       ELSE /\ pc' = "report" /\ seen' = seen
            /\ obs' = [why |-> "", ready |-> ready,
                       index |-> IF vi = None THEN "" ELSE vi.health]
            /\ queued' = queued
  /\ UNCHANGED <<worldVars, cache, rt, status, clusterVars>>

\* A status update is refused when the Retriever is not the one the pass read.
UpdateStatus(st) ==
  /\ EndPass
  /\ UNCHANGED <<worldVars, cache, rt, clusterVars>>
  /\ IF rt.gen = seen.rt.gen THEN status' = st /\ Enqueue
                             ELSE status' = status /\ queued' = TRUE

ReportPending ==
  /\ pc = "pend"
  /\ UpdateStatus([phase |-> "Pending", reason |-> obs.why, ready |-> 0,
                   endpoint |-> FALSE, public |-> None, gen |-> seen.rt.gen])

EnoughReady(n, r) == n >= MinReplicas(r) /\ MinReplicas(r) > 0

Report(phase, reason) ==
  UpdateStatus([phase |-> phase, reason |-> reason, ready |-> obs.ready, endpoint |-> TRUE,
                public |-> seen.rt.spec.ingress, gen |-> seen.rt.gen])

\* Mutant: the health of the collection is not looked at.
ReportServing_AnyIndex ==
  /\ pc = "report"
  /\ IF EnoughReady(obs.ready, seen.rt.spec) THEN Report("Available", "available")
     ELSE Report("Progressing", "replicas")

\* Available takes enough ready pods and a collection not known to be bad.
ReportServing ==
  /\ pc = "report"
  /\ IF EnoughReady(obs.ready, seen.rt.spec)
       THEN IF obs.index \in {"Missing", "Degraded"}
              THEN Report("Progressing", "index")
              ELSE Report("Available", "available")
       ELSE Report("Progressing", "replicas")

\* A call fails: the pass returns its error and is repeated.
PassFails ==
  /\ Fault("apiError")
  /\ pc # "idle"
  /\ EndPass /\ queued' = TRUE
  /\ UNCHANGED <<kb, ingest, collections, secrets, outage, vi, cache, rt, status,
                 clusterVars>>

\* The operator restarts: its pass and the probe cache are lost, and the initial list
\* of the informers queues every object.
Restart ==
  /\ Fault("crash")
  /\ EndPass /\ queued' = TRUE
  /\ cache' = [s \in Stores |-> None]
  /\ UNCHANGED <<kb, ingest, collections, secrets, outage, vi, rt, status, clusterVars>>

Resync ==
  /\ pc = "idle" /\ ~queued
  /\ queued' = TRUE
  /\ UNCHANGED <<worldVars, cache, rt, status, clusterVars, pc, seen, obs>>

Pass ==
  \/ BeginPass \/ ValidateSecrets
  \/ RemoveDeployment \/ RemoveHorizontalPodAutoscaler \/ RemovePodDisruptionBudget
  \/ RemoveIngress \/ RemoveNetworkPolicy \/ ReportPending
  \/ ApplyDeployment \/ ApplyService \/ ApplyMetricsService \/ ReconcileIngress
  \/ ReconcileOIDCNetworkPolicy \/ ReconcilePodDisruptionBudget
  \/ ReconcileHorizontalPodAutoscaler \/ Observe \/ ReportServing

-----------------------------------------------------------------------------
(* Users, the Deployment's pods and its autoscaler.                        *)

EditRetriever ==
  /\ Fault("retriever")
  /\ \E r \in RetrieverSpecs \ {rt.spec} : rt' = [spec |-> r, gen |-> rt.gen + 1]
  /\ UNCHANGED <<kb, ingest, collections, secrets, outage, vi, cache, status,
                 clusterVars, pc, seen, obs>>
  /\ Enqueue

\* Somebody deletes a child, or scales the Deployment by hand.
Drift ==
  /\ Fault("drift")
  /\ \/ \E k \in Kinds : /\ children[k] # None
                         /\ children' = [children EXCEPT ![k] = None]
                         /\ IF k = "deployment" THEN pods' = None /\ ready' = 0
                            ELSE UNCHANGED <<pods, ready>>
     \/ /\ children["deployment"] # None
        /\ \E n \in 0..MaxReplicas :
             /\ n # children["deployment"].replicas
             /\ children' = [children EXCEPT !["deployment"].replicas = n]
        /\ UNCHANGED <<pods, ready>>
  /\ UNCHANGED <<kb, ingest, collections, secrets, outage, vi, cache, rt, status, load,
                 pc, seen, obs>>
  /\ Enqueue

\* The Deployment's pods are replaced by ones of its template.  A pod whose Secret key is
\* missing does not start, and the old ones stay.
Rollout ==
  /\ children["deployment"] # None
  /\ LET t == children["deployment"].template
     IN /\ pods # None => pods.template # t
        /\ \A s \in UsedSecrets(t) : secrets[s] # None
        /\ pods' = [template |-> t, creds |-> Values(UsedSecrets(t))]
  /\ UNCHANGED <<worldVars, cache, rt, status, children, ready, load, queued, pc, seen, obs>>

\* As many pods become ready as the Deployment asks for.
PodsReady ==
  /\ pods # None /\ ready # children["deployment"].replicas
  /\ ready' = children["deployment"].replicas
  /\ UNCHANGED <<worldVars, cache, rt, status, children, pods, load, pc, seen, obs>>
  /\ Enqueue

\* The pods stop being ready: a node goes, /readyz fails.
PodsUnready ==
  /\ Fault("unready")
  /\ ready > 0 /\ ready' = 0
  /\ UNCHANGED <<kb, ingest, collections, secrets, outage, vi, cache, rt, status, children,
                 pods, load, pc, seen, obs>>
  /\ Enqueue

LoadChanges ==
  /\ Fault("load")
  /\ load' \in 0..MaxReplicas \ {load}
  /\ UNCHANGED <<kb, ingest, collections, secrets, outage, vi, cache, rt, status, children,
                 pods, ready, queued, pc, seen, obs>>

\* The scale an autoscaler wants: the load's, within its bounds.
Scale == IF load > children["hpa"] THEN load ELSE children["hpa"]

Autoscale ==
  /\ children["hpa"] # None /\ children["deployment"] # None
  /\ children["deployment"].replicas # Scale
  /\ children' = [children EXCEPT !["deployment"].replicas = Scale]
  /\ UNCHANGED <<worldVars, cache, rt, status, pods, ready, load, pc, seen, obs>>
  /\ Enqueue

Cluster ==
  \/ EditRetriever \/ Drift \/ Rollout \/ PodsReady \/ PodsUnready
  \/ LoadChanges \/ Autoscale

=============================================================================
