SPECIFICATION Spec
CONSTANTS
    Owner = {r1}
    Id = {a}
    None = None
    MaxCalls = 3
    MaxConnections = 1
INVARIANT ConsumerOwned
CHECK_DEADLOCK FALSE
