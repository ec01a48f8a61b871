SPECIFICATION FairSpec
CONSTANTS
  MaxDrops = 2
  MaxFailures = 2
INVARIANTS
  TypeOK
  ConnectsWhenOff
  NilMeansSent
PROPERTIES
  KeepsTrying
  Resubscribes
  StopReturns
  PublishEnds
\* After Stop nothing need happen any more.
CHECK_DEADLOCK FALSE
