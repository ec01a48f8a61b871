SPECIFICATION Spec
CONSTANTS
  h1 = h1
  h2 = h2
  nil = nil
  Handlers <- TwoHandlers
  MaxMessages = 3
  MaxActive = 1
  MaxKeep = 0
  MaxHistory = 2
  DefaultTarget = 0
  Targets <- NoTargets
  Priorities <- NormalOnly
  IdleMode = "publish"
  None <- nil
INVARIANTS
  TypeOK
  ActiveBound
  StoreBound
  NoLostWakeup
  ShownMatchesCount
  HistoryKeepsNewest
PROPERTIES
  ImplementsMessageBoard
SYMMETRY BothOrders
\* After Stop the loop has returned and requests may stop coming.
CHECK_DEADLOCK FALSE
