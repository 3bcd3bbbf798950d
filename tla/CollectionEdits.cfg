SPECIFICATION Spec
CONSTANTS
    File = {f1, f2}
    FirstFile = f1
    Layout = {{f1, f2}, {f2}}
    Absent = Absent
    Unread = Unread
    MaxSaves = 1
    MaxEdits = 1
    MaxLoads = 1
    MaxFaults = 1
INVARIANTS
    ConcurrentEditsAreReported
CHECK_DEADLOCK FALSE
