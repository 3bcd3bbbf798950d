SPECIFICATION Spec
CONSTANTS
    Owner = {r1, r2}
    Id = {a}
    None = None
    MaxCalls = 2
    MaxSends = 3
    MaxStreams = 1
    MaxWrites = 2
SYMMETRY Symmetry
INVARIANT WritesArrive
PROPERTY OnlyCurrentSpeaks
CHECK_DEADLOCK FALSE
