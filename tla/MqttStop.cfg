SPECIFICATION Spec
CONSTANTS
  MaxDrops = 0
  MaxFailures = 0
INVARIANTS
  StoppedIsDisconnected
\* After Stop nothing need happen any more.
CHECK_DEADLOCK FALSE
