SPECIFICATION RFairSpec
CONSTANTS
  MaxModelTurns = 3
  MaxToolCalls = 2
  MaxIdenticalSteps = 2
  MaxObservedTokens = 2
  MaxInt = 3
  MaxEvents = 1
  Usages <- AnyUsage
  BatchSizes <- OneOrTwo
  Fingerprints <- Steps
  Choices <- EveryChoice
INVARIANTS OutcomeSound TranscriptSound StreamsReleased
PROPERTIES RunReturns
CHECK_DEADLOCK FALSE
