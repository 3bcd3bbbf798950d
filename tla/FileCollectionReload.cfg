SPECIFICATION SyncSpec
CONSTANTS
    MaxTasks = 1
    MaxUserEdits = 1
    MaxDiskEdits = 2
    MaxFailures = 0
PROPERTY OnlyCleanIsReloaded
CHECK_DEADLOCK FALSE
