----------------------------- MODULE MCSseStream -----------------------------
(* Small queues for SseStream: the scheduler's queue and the merged one can *)
(* overflow, the display's single event always has room.                    *)
EXTENDS SseStream

SmallQueues == [sched |-> 1, display |-> 1]
SomeSeeds   == [sched |-> {1}, display |-> {0}]
FewEvents   == [sched |-> 2, display |-> 1]
=============================================================================
