SPECIFICATION FairSpec
CONSTANTS
  h1 = h1
  h2 = h2
  nil = nil
  Handlers <- OneHandler
  MaxMessages = 2
  MaxActive = 2
  MaxKeep = 0
  MaxHistory = 1
  DefaultTarget = 2
  Targets <- NoTargets
  Priorities <- NormalHigh
  IdleMode = "keep"
  None <- nil
INVARIANTS
  ShownAsOftenAsWanted
  CompletionJustified
  AtMostOneLateShow
  CurrentIsOnDisplay
  NoOvertaking
PROPERTIES
  EventuallyCompleted
  DeletedLeavesDisplay
  StopReturns
\* After Stop the loop has returned and requests may stop coming.
CHECK_DEADLOCK FALSE
