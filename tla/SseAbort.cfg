SPECIFICATION FairSpec
CONSTANTS
    Owner = {w1}
    Id = {i1}
    None = None
    MaxCalls = 2
    MaxConnections = 2
PROPERTY DisposeAborts
