------------------------------ MODULE Serving ------------------------------
(***************************************************************************)
(* Serving as a whole: a KnowledgeBase whose ingestions come and go, the   *)
(* VectorIndex reconciler that watches its collection, and the Retriever   *)
(* reconciler that serves it, with the properties that hold of them        *)
(* together.                                                               *)
(***************************************************************************)
EXTENDS Retriever

Init == WorldInit /\ VectorIndexInit /\ RetrieverInit

\* A change of the world reaches the two controllers through their watches only.
WorldStep ==
  /\ World
  /\ UNCHANGED <<cache, rt, status, clusterVars, pc, seen, obs>>
  /\ Enqueue

VectorIndexStep == VectorIndexNext /\ UNCHANGED retrieverVars

RetrieverStep == Pass \/ SecretUnreadable \/ PassFails \/ Restart \/ Resync \/ Cluster

Next == WorldStep \/ VectorIndexStep \/ RetrieverStep

\* Jobs finish, controllers run, caches expire, requeues and resyncs come due, pods start
\* and autoscalers act; what disturbs them does so a finite number of times.
Fairness ==
  /\ WorldFairness
  /\ VectorIndexFairness
  /\ WF_vars(Pass) /\ WF_vars(Resync)
  /\ WF_vars(Rollout) /\ WF_vars(PodsReady) /\ WF_vars(Autoscale)

Spec == Init /\ [][Next]_vars /\ Fairness

-----------------------------------------------------------------------------
TypeOK == WorldTypeOK /\ VectorIndexTypeOK /\ RetrieverTypeOK

Serveable == kb # None /\ SecretsValid(rt.spec, kb)

\* The children are those the Retriever, its KnowledgeBase and the Secrets ask for, the
\* scale being the autoscaler's if there is one.
WorkloadMatches ==
  IF Serveable
    THEN /\ children["deployment"] # None
         /\ children["deployment"].template = Template(rt.spec, kb)
         /\ ~rt.spec.autoscaling =>
              children["deployment"].replicas = MinReplicas(rt.spec)
         /\ children["service"] = DesiredService(rt.spec)
         /\ children["metrics"] = "on"
         /\ children["ingress"] = rt.spec.ingress
         /\ children["policy"] = WantsPolicy(rt.spec)
         /\ children["pdb"] = WantsBudget(rt.spec)
         /\ children["hpa"] = DesiredAutoscaler(rt.spec)
    ELSE \A k \in {"deployment", "hpa", "pdb", "ingress", "policy"} : children[k] = None

\* The status says of them what is true, but for the health of the collection.
StatusMatches ==
  /\ status.gen = rt.gen
  /\ status.ready = ready
  /\ status.endpoint = Serveable
  /\ IF Serveable
       THEN /\ status.public = rt.spec.ingress
            /\ IF EnoughReady(ready, rt.spec)
                 THEN status.reason \in {"available", "index"}
                 ELSE status.reason = "replicas"
            /\ status.phase = "Available" <=> status.reason = "available"
       ELSE status.phase = "Pending" /\ status.public = None

\* The reconciler is level-triggered although its passes work from what they read once
\* and stop half way: whenever no pass runs and none is queued, workload and status are
\* what the current inputs ask for.  The one exception is a Secret that could not be
\* read, because the pass that met it asks for no other (Reconcile, SetupWithManager).
QuietMeansConverged ==
  pc = "idle" /\ ~queued /\ status.reason # "unreadable" => WorkloadMatches /\ StatusMatches

\* After finitely many disturbances workload and status come to be right and stay so,
\* after an unreadable Secret too (Reconcile, removeRetrieverWorkload).
Converges == <>[](WorkloadMatches /\ StatusMatches)

\* The VectorIndex comes to report the health the store would be given now, whatever
\* the probe cache held (cachedProbe, VectorIndexReconciler.Reconcile).
HealthFollowsStore == <>[](vi # None => vi.health = HealthNow)

\* A Retriever does not stay Available over a collection that is known to be bad: the
\* pass that finds out is brought by the resync alone (Reconcile).
AvailabilityFollowsHealth ==
  <>[](status.phase = "Available" /\ vi # None =>
         vi.health \notin {"Missing", "Degraded"})

\* The pods come to embed queries with the model of the collection they search, unless
\* the KnowledgeBase is suspended: a suspended one does not record what its last Job has
\* promoted (desiredDeployment, finalizeIngest).
QueriesMatchIndex ==
  <>[](pods # None /\ kb # None /\ ~kb.suspend /\ collections[pods.template.store] # None =>
         collections[pods.template.store].model = pods.template.model)

\* The pods come to run with the current values of the Secrets they were given
\* (computeSecretsHash and the annotation it is put in).
SecretsRolledOut ==
  <>[](pods # None => pods.creds = Values(UsedSecrets(pods.template)))

\* The reconciler does not fight the autoscaler: the scale comes to be what the load
\* asks for (applyDeployment).
ScaleFollowsLoad ==
  <>[](children["hpa"] # None /\ children["deployment"] # None =>
         children["deployment"].replicas = Scale)

=============================================================================
