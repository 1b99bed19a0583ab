SPECIFICATION StreamSpec
CONSTANTS
    Hard <- MCHard
    MaxArgumentsBytes = 2
    MaxBatchArgumentBytes = 3
    MaxProviderStateBytes = 3
    IgnoreUnknown = TRUE
    Closers = {"reader", "other"}
    Configured <- MCConfigured
    Protocols = {"chat", "anthropic", "responses", "google", "unary", "any"}
    Wires <- MCWires
    Answers <- MCAnswers
    MaxWires <- MCMaxWires
    Interrupted = {"any"}
INVARIANTS
    NoSilentTruncation
    ContentKept
    StateReplays
PROPERTIES
    StreamImplemented
    CloseReleasesReader
