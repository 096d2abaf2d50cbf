------------------------ MODULE MCExactReviewQueue ------------------------
(* Small instances of ExactReviewQueue for TLC.                            *)
EXTENDS ExactReviewQueue

\* No command, one comment, two versions of one comment.
MCNoCommands == {}
MCOneCommand == {<<1, 1>>}
MCTwoVersions == {<<1, 1>>, <<1, 2>>}

\* Bounds: a pull request is pushed to or leased a second time; its item is
\* recovered from parking or reaches a third revision; the retry policy changes
\* only for the first revision.
MCBounds ==
  \A k \in Keys : /\ live[k] = 1 \/ leases[k] <= 1
                  /\ items[k].recov = 0 \/ items[k].rev <= 2
                  /\ epoch = 0 \/ (items[k].rev <= 1 /\ live[k] = 1)
============================================================================
