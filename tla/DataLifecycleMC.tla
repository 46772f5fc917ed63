-------------------------- MODULE DataLifecycleMC --------------------------
(* Corpora of two pages: enough for a batch to be missing and for an export *)
(* to span an ingestion.                                                    *)
EXTENDS DataLifecycle

MCFaults == {"store", "batch", "kill", "lose", "unreported", "unread", "ingest", "crash", "quota",
             "delete", "suspend", "deleteKb"}

=============================================================================
