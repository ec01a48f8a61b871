SPECIFICATION Spec
CONSTANTS
  Subs = {s1, s2}
  Capacity = 2
  MaxPayloads = 4
INVARIANTS
  TypeOK
  HistoryIsNewest
  ShowsLatest
PROPERTIES
  NeverGoesBack
\* The bound ends the payloads.
CHECK_DEADLOCK FALSE
