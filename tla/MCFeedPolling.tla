----------------------------- MODULE MCFeedPolling -----------------------------
(* Instances of FeedPolling for TLC: interchangeable requests.               *)
EXTENDS FeedPolling, TLC

MCSymmetry == Permutations(Requests)
=============================================================================
