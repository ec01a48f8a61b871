------------------------------- MODULE MCQueue -------------------------------
(* Two producers and a queue of two, with more events than fit.            *)
EXTENDS Queue, TLC

CONSTANTS p1, p2
TwoProducers == {p1, p2}
=============================================================================
