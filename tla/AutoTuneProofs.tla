--------------------------- MODULE AutoTuneProofs ---------------------------
(***************************************************************************)
(* The auto-tune ladder for every admitted request: what it reaches is     *)
(* admitted, and within a strategy it never comes back.                    *)
(***************************************************************************)
EXTENDS AutoTune, TLAPS

\* What a rung must satisfy for the next one to be admitted.
Rung(c) == c \in Chunkings /\ c.maxTokens >= 1

\* Filling in the defaults of any request gives a rung, even where the default
\* overlap of 80 is larger than the requested chunk (specChunking).
LEMMA SpecChunkingIsRung ==
  ASSUME NEW c \in Requested
  PROVE  Rung(specChunking(c))
  <1>1. CASE c \in Admitted
    <2>1. /\ c.strategy \in Strategies /\ c.maxTokens \in Nat /\ c.overlap \in Nat
          /\ c.maxTokens >= 1
      BY <1>1 DEF Admitted, Chunkings
    <2>. DEFINE s == IF c.strategy = "" THEN "semantic" ELSE c.strategy
    <2>. DEFINE o == IF c.overlap = 0 THEN 80 ELSE c.overlap
    <2>. DEFINE m == IF c.maxTokens = 0 THEN 800 ELSE c.maxTokens
    <2>2. s \in Strategies
      BY <2>1 DEF Strategies
    <2>3. o \in Nat /\ m \in Nat /\ m >= 1
      BY <2>1
    <2>4. specChunking(c) = [strategy |-> s, maxTokens |-> m, overlap |-> o]
      BY Zenon DEF specChunking
    <2>. HIDE DEF s, m, o
    <2>. QED
      BY <2>2, <2>3, <2>4 DEF Rung, Chunkings
  <1>2. CASE c = Omitted
    <2>1. c.strategy = "" /\ c.maxTokens = 0 /\ c.overlap = 0
      BY <1>2 DEF Omitted
    <2>2. specChunking(c) = [strategy |-> "semantic", maxTokens |-> 800, overlap |-> 80]
      BY <2>1 DEF specChunking
    <2>. QED
      BY <2>2 DEF Rung, Chunkings, Strategies
  <1>. QED
    BY <1>1, <1>2, RequestedAssumption

\* A chunk that shrinks stays at or above the floor and gets smaller.
LEMMA ShrunkIsSmaller ==
  ASSUME NEW m \in Nat, m > chunkFloor
  PROVE  /\ Shrunk(m) \in Nat
         /\ Shrunk(m) >= chunkFloor /\ Shrunk(m) < m
  BY DEF Shrunk, chunkFloor

\* The step of the ladder: it leads from a rung to an admitted chunking, and
\* without a change of strategy to a finer one (nextChunking).
LEMMA NextChunking ==
  ASSUME NEW c, Rung(c)
  PROVE  /\ nextChunking(c) \in Admitted
         /\ nextChunking(c).strategy = c.strategy => Finer(c, nextChunking(c))
  <1>1. /\ c \in Chunkings /\ c.strategy \in Strategies
        /\ c.maxTokens \in Nat /\ c.maxTokens >= 1 /\ c.overlap \in Nat
    BY DEF Rung, Chunkings
  <1>2. CASE ~Dominates(c.overlap + 40, c.maxTokens)
    <2>1. c.overlap + 40 \in Nat /\ c.overlap + 40 <= c.maxTokens \div 2
      BY <1>1, <1>2 DEF Dominates
    <2>2. c.overlap + 40 < c.maxTokens
      BY <1>1, <2>1
    <2>3. nextChunking(c) = [c EXCEPT !.overlap = c.overlap + 40]
      BY <1>1, <1>2 DEF nextChunking, Chunkings
    <2>. QED
      BY <1>1, <2>1, <2>2, <2>3 DEF Admitted, Chunkings, Finer
  <1>3. CASE Dominates(c.overlap + 40, c.maxTokens) /\ c.maxTokens <= chunkFloor
    <2>1. nextChunking(c) = [strategy |-> rotateStrategy(c.strategy),
                             maxTokens |-> 800, overlap |-> 80]
      BY <1>3 DEF nextChunking
    <2>2. rotateStrategy(c.strategy) \in Strategies \ {c.strategy}
      BY <1>1 DEF rotateStrategy, Strategies
    <2>. QED
      BY <2>1, <2>2 DEF Admitted, Chunkings
  <1>4. CASE Dominates(c.overlap + 40, c.maxTokens) /\ c.maxTokens > chunkFloor
    <2>. DEFINE m == Shrunk(c.maxTokens)
    <2>1. m \in Nat /\ m >= 1 /\ m < c.maxTokens
      BY <1>1, <1>4, ShrunkIsSmaller DEF chunkFloor
    <2>2. nextChunking(c) = [c EXCEPT !.maxTokens = m, !.overlap = m \div 5]
      BY <1>1, <1>4 DEF nextChunking, Chunkings, chunkFloor
    <2>. HIDE DEF m
    <2>3. m \div 5 \in Nat /\ m \div 5 < m
      BY <2>1
    <2>. QED
      BY <1>1, <2>1, <2>2, <2>3 DEF Admitted, Chunkings, Finer
  <1>. QED
    BY <1>1, <1>2, <1>3, <1>4 DEF chunkFloor

\* Before and after the first tuning, the chunking in use is a rung.
LadderInv == spec \in Requested /\ (tuned = None \/ tuned \in Admitted)

\* The chunking in use is a rung in every state of the ladder.
LEMMA InUseIsRung ==
  ASSUME LadderInv
  PROVE  Rung(effectiveChunking)
  BY SpecChunkingIsRung DEF LadderInv, effectiveChunking, Admitted, Rung

\* The ladder starts from a request and every step of it stays on admitted
\* chunkings (applyAutoTune).
LEMMA LadderInvariant == Spec => []LadderInv
  <1>1. Init => LadderInv
    BY DEF Init, LadderInv
  <1>2. LadderInv /\ [Next]_vars => LadderInv'
    <2>. SUFFICES ASSUME LadderInv, [Next]_vars PROVE LadderInv'
      OBVIOUS
    <2>1. CASE ApplyAutoTune
      BY <2>1, InUseIsRung, NextChunking DEF LadderInv, ApplyAutoTune
    <2>2. CASE UNCHANGED vars
      BY <2>2 DEF LadderInv, vars
    <2>. QED
      BY <2>1, <2>2 DEF Next
  <1>. QED
    BY <1>1, <1>2, PTL DEF Spec

\* Whatever the user asked for, auto-tune only ever writes chunkings to the
\* status that the API server admits there.
THEOREM TunedAdmitted == Spec => []TunedIsAdmitted
  <1>1. LadderInv => TunedIsAdmitted
    BY DEF LadderInv, TunedIsAdmitted
  <1>. QED
    BY <1>1, LadderInvariant, PTL

\* Within a strategy the ladder strictly progresses, so it never tries one
\* configuration twice before it rotates the strategy.
THEOREM LadderProgresses == Spec => StepProgresses
  <1>1. LadderInv /\ [Next]_vars =>
          [tuned'.strategy = effectiveChunking.strategy => Finer(effectiveChunking, tuned')]_vars
    BY InUseIsRung, NextChunking DEF Next, ApplyAutoTune
  <1>. QED
    BY <1>1, LadderInvariant, PTL DEF Spec, StepProgresses

=============================================================================
