----------------------- MODULE MCReviewCommentLeases -----------------------
(* Small instances of ReviewCommentLeases for TLC.                         *)
EXTENDS ReviewCommentLeases

\* A sweeper may run a second time, a reviewer only tries again within its run.
SweepersTwice == [p \in Reviewers \cup Sweepers |-> IF p \in Sweepers THEN 2 ELSE 1]
=============================================================================
