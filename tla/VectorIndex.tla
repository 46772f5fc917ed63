---------------------------- MODULE VectorIndex ----------------------------
(***************************************************************************)
(* The VectorIndex reconciler (internal/controller/                        *)
(* vectorindex_controller.go): every so often it probes the collection     *)
(* that the VectorIndex names and writes what it found into the object's   *)
(* status.  Probe results are kept for 30 seconds in a cache of the        *)
(* process, by store and collection only, so a pass may write down a       *)
(* verdict that was reached for another expected dimension, another        *)
(* credential or an earlier content.                                       *)
(*                                                                         *)
(* A pass is one step: a status update that is refused because the object  *)
(* changed while the store was asked is repeated with the cached result,   *)
(* as a later pass would.  Passes come by the watch, by the requeue every  *)
(* successful one asks for, and after a restart, so one may come at any    *)
(* time, and one comes at least every so often.                            *)
(***************************************************************************)
EXTENDS ServedIndex

VARIABLE
  cache  \* probeCache: per collection, the last result and whether it is still valid

Results == [health: Healths \ {""}, points: {-1, 0, 1}]
CacheEntries == [result: Results, valid: BOOLEAN]

VectorIndexTypeOK == cache \in [Stores -> CacheEntries \union {None}]

VectorIndexInit == cache = [s \in Stores |-> None]

-----------------------------------------------------------------------------
(* The probe of each type of store.                                        *)

Found(health, points) == [health |-> health, points |-> points]
Count(content) == IF content.filled THEN 1 ELSE 0

KeyMissing(s) == StoreKey[s] # None /\ secrets[StoreKey[s]] = None

\* An error in transport says nothing; an HTTP error is a fault of the store.
ProbeQdrant(s, expected) ==
  CASE KeyMissing(s) \/ outage = "down" -> Found("Unknown", 0)
    [] ~KeyMissing(s) /\ outage = "failing" -> Found("Degraded", 0)
    [] OTHER ->
         IF collections[s] = None THEN Found("Missing", 0)
         ELSE Found(IF expected > 0 /\ Width[collections[s].model] > 0
                       /\ Width[collections[s].model] # expected
                      THEN "Degraded" ELSE "Healthy",
                    Count(collections[s]))

\* The credential is part of the DSN.  A failing existence query counts as a missing
\* table, and the dimension of a table is not looked at.
ProbePgvector(s) ==
  CASE outage = "down" -> Found("Degraded", 0)
    [] outage = "failing" -> Found("Missing", 0)
    [] OTHER -> IF collections[s] = None THEN Found("Missing", 0)
                ELSE Found("Healthy", Count(collections[s]))

\* The service answers for the collection: one that cannot be described is Healthy
\* with an unknown number of points.
ProbeMilvus(s) ==
  CASE KeyMissing(s) -> Found("Unknown", 0)
    [] ~KeyMissing(s) /\ outage # "none" -> Found("Degraded", 0)
    [] OTHER -> IF collections[s] = None THEN Found("Healthy", -1)
                ELSE Found("Healthy", Count(collections[s]))

ProbeStore(s, expected) ==
  CASE StoreType[s] = "qdrant" -> ProbeQdrant(s, expected)
    [] StoreType[s] = "pgvector" -> ProbePgvector(s)
    [] StoreType[s] = "milvus" -> ProbeMilvus(s)

\* An empty collection is not a healthy one, once a dimension is expected of it.
Verdict(result, expected) ==
  IF result.health = "Healthy" /\ result.points = 0 /\ expected > 0
    THEN [result EXCEPT !.health = "Degraded"] ELSE result

-----------------------------------------------------------------------------
\* Mutant: an entry answers for as long as it is there.
Probe_NeverExpires ==
  /\ vi # None
  /\ LET hit == cache[vi.store] # None
         result == IF hit THEN cache[vi.store].result ELSE ProbeStore(vi.store, vi.expected)
     IN /\ cache' = IF hit THEN cache
                    ELSE [cache EXCEPT ![vi.store] = [result |-> result, valid |-> TRUE]]
        /\ vi' = [vi EXCEPT !.health = Verdict(result, vi.expected).health,
                            !.points = result.points]
  /\ UNCHANGED <<kb, ingest, collections, secrets, outage, budget>>

\* A pass: the store is asked unless the cache has a valid answer, and the status written.
Probe ==
  /\ vi # None
  /\ LET hit == cache[vi.store] # None /\ cache[vi.store].valid
         result == IF hit THEN cache[vi.store].result ELSE ProbeStore(vi.store, vi.expected)
     IN /\ cache' = IF hit THEN cache
                    ELSE [cache EXCEPT ![vi.store] = [result |-> result, valid |-> TRUE]]
        /\ vi' = [vi EXCEPT !.health = Verdict(result, vi.expected).health,
                            !.points = result.points]
  /\ UNCHANGED <<kb, ingest, collections, secrets, outage, budget>>

\* 30 seconds have passed since the entry was made.
CacheExpires ==
  /\ \E s \in Stores :
       /\ cache[s] # None /\ cache[s].valid
       /\ cache' = [cache EXCEPT ![s].valid = FALSE]
  /\ UNCHANGED worldVars

VectorIndexNext == Probe \/ CacheExpires

VectorIndexFairness ==
  WF_<<worldVars, cache>>(Probe) /\ WF_<<worldVars, cache>>(CacheExpires)

\* The health the store would be given if it were asked now.
HealthNow == Verdict(ProbeStore(vi.store, vi.expected), vi.expected).health

=============================================================================
