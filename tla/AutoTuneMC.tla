----------------------------- MODULE AutoTuneMC -----------------------------
(* Requests for AutoTune: sizes and overlaps around every threshold of the  *)
(* ladder (the floor, the default size, half and a fifth of each).          *)
EXTENDS AutoTune

Sizes == {1, 2, 60, 80, 81, 160, 240, 299, 300, 301, 499, 500, 501, 800, 1000}
Overlaps == {0, 1, 39, 40, 41, 59, 79, 80, 110, 111, 149, 250, 299, 499, 760}

MCRequested ==
  {Omitted} \union
  {c \in [strategy: Strategies, maxTokens: Sizes, overlap: Overlaps] : c.overlap < c.maxTokens}

=============================================================================
