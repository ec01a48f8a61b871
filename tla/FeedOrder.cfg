SPECIFICATION Spec
CONSTANTS
  Subs = {s1}
  Callers = {c1, c2}
  Loop = Loop
  MaxTicks = 0
  MaxRequests = 2
INVARIANTS
  ShowsQueue
SYMMETRY Symmetry
\* The bounds end the requests and the ticks.
CHECK_DEADLOCK FALSE
