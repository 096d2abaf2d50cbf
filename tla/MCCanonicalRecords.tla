------------------------- MODULE MCCanonicalRecords -------------------------
(* Small instances of CanonicalRecords for TLC.                            *)
EXTENDS CanonicalRecords, TLC

Direct(rev, sec, dig) ==
  [batch |-> FALSE, fence |-> "item", rev |-> rev, src |-> rev, sec |-> sec, dig |-> dig]
Batch(fence, src, dig) ==
  [batch |-> TRUE, fence |-> fence, rev |-> 1, src |-> src, sec |-> "items", dig |-> dig]

\* Direct publications of two revisions, batch publications of two revisions,
\* and a regenerated body of the first batch publication.
AllPlans == [d1 |-> Direct(1, "items", "x"), d2 |-> Direct(2, "closed", "y"),
             b1 |-> Batch("one", 1, "x"), b2 |-> Batch("two", 2, "y"), c1 |-> Batch("one", 1, "z")]

\* "h" is a hydrated report with the normalised body "x".
Normalised == [x |-> "x", y |-> "y", z |-> "z", h |-> "x"]

\* The requests are interchangeable.
RequestSymmetry == Permutations(Requests)

\* Bounds.  Requests overlap each other, or one overlaps a replica or a
\* maintenance pass; publications come by one route; and batches publish to a
\* record that starts empty, that nobody moves and no replica reads.
OneAtATime == \E r \in Requests : \A q \in Requests \ {r} : req[q] = Idle
Quiet == moved = {} /\ sweep = <<>> /\ replica.page = <<>> /\ replica.cursor = 0
Batched ==
  \/ \E f \in BatchFences : lane[f] # "none"
  \/ \E r \in Requests : req[r].what \in Plans /\ PlanOf[req[r].what].batch
DirectPlans == {p \in Plans : ~PlanOf[p].batch}

MCBounds ==
  /\ OneAtATime \/ (Quiet /\ pass = <<>> /\ seq <= 4)
  /\ itemRev = 1 \/ seq <= 4
  /\ Batched => /\ Quiet /\ seq <= 4
                /\ \A r \in Requests : req[r].what \notin DirectPlans
                /\ \A r \in receipts : r.plan \notin DirectPlans
                /\ backfill["items"] = None /\ Hydrated(v1) = {}
                /\ \A d \in Deliveries : seen[d] = [s \in {} |-> None]
=============================================================================
