SPECIFICATION BSpec
CONSTANTS
  root = root
  file = file
  b1 = b1
  b2 = b2
  Resources = {root, file}
  Root = root
  Planners = {b1, b2}
  Parallel = 2
  MaxTicket = 3
  Requested <- Workloads
  BatchShapes <- Shapes
  ActivationClaims <- WritesFile
INVARIANTS MutualExclusion ConflictsRunInTicketOrder PermitsExact EventStreamSound ErrAccountsForFailures CloseLeavesNothing
CHECK_DEADLOCK FALSE
