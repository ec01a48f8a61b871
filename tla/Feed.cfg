SPECIFICATION Spec
CONSTANTS
  Subs = {s1}
  Callers = {c1}
  Loop = Loop
  MaxTicks = 5
  MaxRequests = 1
INVARIANTS
  TypeOK
  CurrentInSync
  NothingUnannounced
PROPERTIES
  CurrentNeverGoesBack
\* The bounds end the requests and the ticks.
CHECK_DEADLOCK FALSE
