SPECIFICATION BFairSpec
CONSTANTS
  root = root
  file = file
  b1 = b1
  b2 = b2
  Resources = {root, file}
  Root = root
  Planners = {b1, b2}
  Parallel = 1
  MaxTicket = 2
  Requested <- LiveWorkloads
  BatchShapes <- Shapes
  ActivationClaims <- WritesFile
PROPERTIES BatchTerminates
CHECK_DEADLOCK FALSE
