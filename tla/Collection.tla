----------------------------- MODULE Collection -----------------------------
(***************************************************************************)
(* What readers of a KnowledgeBase's collection are promised: they see a   *)
(* whole corpus, one version of every source, until it is replaced at once *)
(* by a whole corpus that is nowhere older.  The promise ends when an      *)
(* ingestion is interrupted in a way it cannot resume from.                *)
(***************************************************************************)
EXTENDS Naturals

CONSTANTS
  Sources,       \* the sources of the corpus
  Versions,      \* their versions, in the order of publication
  EmptyVersions, \* versions with no text in them
  None

VARIABLES
  served,  \* what a query sees, or None without a collection
  intact   \* no ingestion has been interrupted

Contents == [Sources -> Versions \union {None}]

Corpora == {c \in [Sources -> Versions] : \E s \in Sources : c[s] \notin EmptyVersions}

Init == served = None /\ intact = TRUE

\* The first collection may be there, empty, before the first corpus is.
Create == served = None /\ served' = [s \in Sources |-> None]

Replace ==
  /\ served' \in Corpora
  /\ served # None =>
       \A s \in Sources : served[s] # None => served[s] <= served'[s]

Interrupt == ~intact' /\ served' \in Contents \union {None}

Next == (intact' = intact /\ intact /\ (Create \/ Replace)) \/ Interrupt

Spec == Init /\ [][Next]_<<served, intact>>

=============================================================================
