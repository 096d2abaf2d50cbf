------------------------- MODULE MCPublicationLane -------------------------
(* Small instances of PublicationLane for TLC.                             *)
EXTENDS PublicationLane, TLC

\* Two runs with the same lineage and one of a newer revision.
RepeatedThenNewer == [k \in Keys |-> IF k < 3 THEN [src |-> 1, gen |-> 1] ELSE [src |-> 2, gen |-> 1]]

BatchSymmetry == Permutations(Batches)

\* Bound: a newer revision is published by two batches, or one batch leases items
\* again and again; a target that goes, items that age and reviews come with the
\* first lease, or once an item is parked.
MCBounds ==
  LET aged == {k \in Keys : item[k].aged}
      leases == Cardinality(told)
      parked == \E k \in Keys : item[k].st = "parked"
  IN /\ \/ \A k \in Keys : generation[k] <= 1
        \/ /\ head < 2 /\ Cardinality({w.batch : w \in told}) = 1
           /\ leases <= 2 \/ dead # {} \/ \E k \in Keys : generation[k] = leases
     /\ leases <= 4
     /\ gone # {} \/ reviewing \/ aged # {} => leases <= 1 \/ (parked /\ aged = {})
     /\ Cardinality(gone) + Cardinality(aged) + (IF reviewing THEN 1 ELSE 0) <= 1
=============================================================================
