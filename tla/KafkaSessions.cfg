SPECIFICATION Spec
CONSTANTS
    None = None
    MaxCalls = 3
INVARIANT StreamsExcludeTransactions
CHECK_DEADLOCK FALSE
