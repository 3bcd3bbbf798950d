SPECIFICATION Spec
CONSTANTS
    Owner = {r1}
    Id = {a}
    None = None
    MaxCalls = 2
    MaxSends = 2
    MaxStreams = 1
    MaxWrites = 2
INVARIANT Tracked
CHECK_DEADLOCK FALSE
