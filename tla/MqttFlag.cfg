SPECIFICATION Spec
CONSTANTS
  MaxDrops = 1
  MaxFailures = 0
INVARIANTS
  ConnectedIsCurrent
\* After Stop nothing need happen any more.
CHECK_DEADLOCK FALSE
