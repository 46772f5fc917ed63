----------------------------- MODULE ServingMC -----------------------------
(* Values for the constants of Serving: two embedding models of different   *)
(* dimension, one of them behind a key, two stores of different type, one   *)
(* of them behind the same key, and Retrievers with and without the         *)
(* optional children.                                                       *)
EXTENDS Serving

MCModels == {"local", "hosted"}
MCStores == {"q", "m"}
MCStoreType == [s \in MCStores |-> IF s = "q" THEN "qdrant" ELSE "milvus"]
MCStoreKey == [s \in MCStores |-> IF s = "q" THEN "k1" ELSE None]
MCModelKey == [m \in MCModels |-> IF m = "hosted" THEN "k1" ELSE None]
MCWidth == [m \in MCModels |-> IF m = "local" THEN 1 ELSE 2]
MCExpected == MCWidth

MCFirst == [model |-> "hosted", store |-> "q"]
MCSecond == [model |-> "local", store |-> "q"]
MCThird == [model |-> "local", store |-> "m"]
MCKbSpecs == {MCFirst, MCSecond, MCThird}
MCKbEdits == {<<MCFirst, MCSecond>>, <<MCFirst, MCThird>>, <<MCSecond, MCThird>>}

MCPlain ==
  [ingress |-> None, oidc |-> FALSE, autoscaling |-> FALSE, replicas |-> 2,
   minReplicas |-> 0, pdb |-> "default", secrets |-> {"k2"}]
MCFull ==
  [ingress |-> "host", oidc |-> TRUE, autoscaling |-> TRUE, replicas |-> 1,
   minReplicas |-> 1, pdb |-> "default", secrets |-> {"k2"}]
MCRetrieverSpecs == {MCPlain, MCFull}

=============================================================================
