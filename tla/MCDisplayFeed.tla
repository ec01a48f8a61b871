---------------------------- MODULE MCDisplayFeed ----------------------------
(* DisplayFeed with interchangeable subscribers.                           *)
EXTENDS DisplayFeed, TLC

Symmetry == Permutations(Subs)
=============================================================================
