---------------------------- MODULE MCScheduler ----------------------------
(* Small instances of Scheduler for TLC; the cfg files give the bounds.    *)
EXTENDS Scheduler, TLC

CONSTANTS h1, h2, nil

TwoHandlers == {h1, h2}
OneHandler  == {h1}
BothOrders  == Permutations(TwoHandlers)

NoTargets  == {}
NormalHigh == {"normal", "high"}
NormalOnly == {"normal"}
=============================================================================
