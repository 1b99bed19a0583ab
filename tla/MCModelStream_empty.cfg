SPECIFICATION StreamSpec
CONSTANTS
    Hard <- MCHard
    MaxArgumentsBytes = 2
    MaxBatchArgumentBytes = 3
    MaxProviderStateBytes = 3
    IgnoreUnknown = TRUE
    Closers = {"reader"}
    Configured <- MCConfigured
    Protocols = {"google"}
    Wires <- MCWires
    Answers <- MCAnswers
    MaxWires <- MCMaxWires
    Interrupted = {}
INVARIANTS
    NeverEmptyOnEOF
