----------------------------- MODULE MCWatchSet -----------------------------
(* A herd of two filesystems for WatchRefinement, up to their exchange.     *)
EXTENDS WatchRefinement

MCSymmetry == Permutations(Filesystems)
=============================================================================
