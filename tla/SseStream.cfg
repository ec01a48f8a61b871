SPECIFICATION FairSpec
CONSTANTS
  Capacity <- SmallQueues
  MergedCapacity = 2
  Seeds <- SomeSeeds
  MaxEvents <- FewEvents
INVARIANTS
  TypeOK
  FedWhileLive
  CanBeCancelled
PROPERTIES
  ImplementsLossyStream
  NothingStuck
  StreamEnds
\* A stream that has ended does nothing more.
CHECK_DEADLOCK FALSE
