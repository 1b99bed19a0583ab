SPECIFICATION RSpec
CONSTANTS
  MaxModelTurns = 2
  MaxToolCalls = 2
  MaxIdenticalSteps = 2
  MaxObservedTokens = 2
  MaxInt = 3
  MaxEvents = 1
  Usages <- AnyUsage
  BatchSizes <- OneOrTwo
  Fingerprints <- Steps
  Choices <- AutoOnly
INVARIANTS NoNilBatch
CHECK_DEADLOCK FALSE
