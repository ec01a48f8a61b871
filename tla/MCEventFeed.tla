---------------------------- MODULE MCEventFeed ----------------------------
(* EventFeed with interchangeable request handlers and streams.            *)
EXTENDS EventFeed, TLC

Symmetry == Permutations(Callers) \cup Permutations(Subs)
=============================================================================
