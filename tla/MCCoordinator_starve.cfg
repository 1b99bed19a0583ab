SPECIFICATION FairSpec
CONSTANTS
  root = root
  file = file
  Resources = {root, file}
  Planners = {}
  Parallel = 1
  MaxTicket = 2
  BatchShapes <- PlanThenActivate
  ActivationClaims <- FileDiscoveries
PROPERTIES PermitRequestsServed
CHECK_DEADLOCK FALSE
