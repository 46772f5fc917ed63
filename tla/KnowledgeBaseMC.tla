-------------------------- MODULE KnowledgeBaseMC --------------------------
(* Values for the constants of KnowledgeBase: three specs, three chunking   *)
(* configurations in a cycle, recalls on both sides of the target.          *)
EXTENDS KnowledgeBaseProperties

MCSpecs == {"A", "B", "C"}
MCChunkings == {"c1", "c2", "c3"}
MCSpecChunking == [s \in MCSpecs |-> IF s = "A" THEN "c1" ELSE "c2"]
MCNextChunking == [c \in MCChunkings |->
                     CASE c = "c1" -> "c2" [] c = "c2" -> "c3" [] OTHER -> "c1"]

NoEdits == {}
EditOnce == {<<"A", "B">>}
EditAndRevert == {<<"A", "B">>, <<"B", "A">>}
EditToOversize == EditAndRevert \union {<<"A", "C">>, <<"C", "B">>}

=============================================================================
