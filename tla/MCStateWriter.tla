--------------------------- MODULE MCStateWriter ---------------------------
(* Small instances of StateWriterCoordinator for TLC.                      *)
EXTENDS StateWriterCoordinator

CONSTANTS o1, b1, c1

\* One ticket slot per writer class; a slot that ends serves a new client, so
\* contention never dries up.
MCClass == [t \in Tickets |-> CASE t = o1 -> "ordinary"
                                [] t = b1 -> "publication_batch"
                                [] t = c1 -> "cluster_intake"]
============================================================================
