---------------------------- MODULE MCFeedQueues ----------------------------
(***************************************************************************)
(* FeedQueues for TLC: two readers, one of whom wrote the post that two    *)
(* workers fan out, and a review that may make a test post; queues of one  *)
(* slot, which the two posts compete for.                                  *)
(***************************************************************************)
EXTENDS FeedQueues, TLC

CONSTANTS u1, u2, p1, probe, w1, w2, r1, System

MCUsers == {u1, u2}
MCPosts == {p1, probe}
MCProbes == {probe}
MCWorkers == {w1, w2}
MCReviews == {r1}
MCAuthorOf == (p1 :> u1) @@ (probe :> System)

\* The workers are interchangeable; the readers and posts are not.
Symmetry == Permutations(MCWorkers)
=============================================================================
