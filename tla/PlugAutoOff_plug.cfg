\* Two timers; one print, one drying cycle, and one edit, crash or disconnection.
CONSTANTS
    MaxTasks = 2
    MaxPrints = 1
    MaxDryings = 1
    MaxChanges = 1
SPECIFICATION FairSpec
CHECK_DEADLOCK FALSE
INVARIANT TypeOK
PROPERTY StartCallsOff
PROPERTY OffSettled
