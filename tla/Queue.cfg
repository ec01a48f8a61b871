SPECIFICATION FairSpec
CONSTANTS
  p1 = p1
  p2 = p2
  Producers <- TwoProducers
  Capacity = 2
  MaxEvents = 6
INVARIANTS
  TypeOK
  NoLostNotification
PROPERTIES
  ImplementsLossyFifo
  EveryEventLeaves
\* All events pushed and consumed is the end of the run.
CHECK_DEADLOCK FALSE
