SPECIFICATION Spec
CONSTANTS
  h1 = h1
  h2 = h2
  nil = nil
  Handlers <- TwoHandlers
  MaxMessages = 2
  MaxActive = 1
  MaxKeep = 1
  MaxHistory = 1
  DefaultTarget = 1
  Targets <- NoTargets
  Priorities <- NormalOnly
  IdleMode = "publish"
  None <- nil
INVARIANTS
  ActiveLimit
\* After Stop the loop has returned and requests may stop coming.
CHECK_DEADLOCK FALSE
