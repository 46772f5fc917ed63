------------------------------ MODULE AutoTune ------------------------------
(***************************************************************************)
(* The auto-tune ladder with its numbers: the chunking a KnowledgeBase is  *)
(* indexed with, from what its spec asks for to what applyAutoTune makes   *)
(* of it while the recall stays below the target                           *)
(* (internal/controller/decision_helpers.go).  Module KnowledgeBase takes  *)
(* the ladder as a constant and models when it is stepped; this module     *)
(* models where it leads.  Go's int is taken as an integer: the ladder     *)
(* only moves within the requested and the default sizes.                  *)
(***************************************************************************)
EXTENDS Integers

CONSTANTS
  Requested, \* the chunking stanzas users write
  None       \* status.effectiveChunking is nil

VARIABLES
  spec,      \* spec.chunking, as the API server admitted it
  tuned      \* status.effectiveChunking, once auto-tune has set it

vars == <<spec, tuned>>

-----------------------------------------------------------------------------
Strategies == {"semantic", "recursive", "fixed"}
Chunkings == [strategy: Strategies, maxTokens: Nat, overlap: Nat]

\* The rule the API server enforces on every ChunkingSpec: in the spec, in the
\* status and in an IngestionRun.
Admitted == {c \in Chunkings : c.maxTokens >= 1 /\ c.overlap < c.maxTokens}

\* A spec without a chunking stanza: the zero value.
Omitted == [strategy |-> "", maxTokens |-> 0, overlap |-> 0]

ASSUME RequestedAssumption == Requested \subseteq Admitted \union {Omitted}
ASSUME NoneAssumption == None \notin Chunkings

specChunking(c) ==
  [strategy  |-> IF c.strategy = "" THEN "semantic" ELSE c.strategy,
   maxTokens |-> IF c.maxTokens = 0 THEN 800 ELSE c.maxTokens,
   overlap   |-> IF c.overlap = 0 THEN 80 ELSE c.overlap]

effectiveChunking == IF tuned = None THEN specChunking(spec) ELSE tuned

chunkFloor == 300

\* Mutant: recursive is followed by semantic again.
rotateStrategy_SkipsFixed(s) == IF s = "semantic" THEN "recursive" ELSE "semantic"

rotateStrategy(s) ==
  CASE s = "semantic" -> "recursive" [] s = "recursive" -> "fixed" [] OTHER -> "semantic"

\* Overlap can grow no more without taking over half of the chunk.
Dominates(overlap, maxTokens) == overlap > maxTokens \div 2

Shrunk(maxTokens) ==
  IF maxTokens <= chunkFloor THEN maxTokens
  ELSE IF maxTokens - 200 < chunkFloor THEN chunkFloor ELSE maxTokens - 200

\* Mutant: at the floor the sizes are churned instead of rotating the strategy.
nextChunking_Churns(c) ==
  IF ~Dominates(c.overlap + 40, c.maxTokens) THEN [c EXCEPT !.overlap = @ + 40]
  ELSE [c EXCEPT !.maxTokens = Shrunk(@), !.overlap = Shrunk(c.maxTokens) \div 5]

\* Mutant: the overlap is kept when the chunk shrinks.
nextChunking_KeepsOverlap(c) ==
  IF ~Dominates(c.overlap + 40, c.maxTokens) THEN [c EXCEPT !.overlap = @ + 40]
  ELSE IF c.maxTokens <= chunkFloor
    THEN [strategy |-> rotateStrategy(c.strategy), maxTokens |-> 800, overlap |-> 80]
  ELSE [c EXCEPT !.maxTokens = Shrunk(@)]

nextChunking(c) ==
  IF ~Dominates(c.overlap + 40, c.maxTokens) THEN [c EXCEPT !.overlap = @ + 40]
  ELSE IF c.maxTokens <= chunkFloor
    THEN [strategy |-> rotateStrategy(c.strategy), maxTokens |-> 800, overlap |-> 80]
  ELSE [c EXCEPT !.maxTokens = Shrunk(@), !.overlap = Shrunk(c.maxTokens) \div 5]

-----------------------------------------------------------------------------
Init == spec \in Requested /\ tuned = None

\* An evaluation missed the target and attempts remain.
ApplyAutoTune == tuned' = nextChunking(effectiveChunking) /\ UNCHANGED spec

Next == ApplyAutoTune

Spec == Init /\ [][Next]_vars

\* The recall never reaches the target and maxAttempts is not exhausted.
FairSpec == Spec /\ WF_vars(ApplyAutoTune)

-----------------------------------------------------------------------------
\* Whatever the user asked for, what auto-tune writes to the status is a
\* chunking that the API server admits there (nextChunking).
TunedIsAdmitted == tuned # None => tuned \in Admitted

\* So is what a KnowledgeBase is indexed with before it is tuned, which
\* finalizeIngest writes to the status and startIngest to the IngestionRun.
InUseIsAdmitted == effectiveChunking \in Admitted

Finer(c, d) == d.maxTokens < c.maxTokens \/ (d.maxTokens = c.maxTokens /\ d.overlap > c.overlap)

\* The ladder never tries the same sizes twice with one strategy ("rather than
\* churning the same small chunks"): within a strategy, each step makes the
\* chunks smaller or, at the same size, the overlap larger.
StepProgresses ==
  [][tuned'.strategy = effectiveChunking.strategy => Finer(effectiveChunking, tuned')]_vars

\* If no recall is ever good enough, every strategy is tried again and again.
EveryStrategyTried == \A s \in Strategies : []<>(effectiveChunking.strategy = s)

=============================================================================
