SPECIFICATION FairSpec
CONSTANTS
  root = root
  file = file
  Resources = {root, file}
  Planners = {p1}
  Parallel = 2
  MaxTicket = 4
  BatchShapes <- MixedBatches
  ActivationClaims <- Discoveries
INVARIANTS TypeOK MutualExclusion ConflictsRunInTicketOrder PermitsExact FrontierGuards
