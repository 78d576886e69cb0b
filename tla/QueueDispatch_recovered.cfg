\* The submission id of a command that landed arrives before its state, after a restart.
CONSTANTS
    j1 = j1  j2 = j2
    p1 = p1  p2 = p2
    Jobs = {j1}
    Printers = {p1}
    NoPrinter = NoPrinter
    UploadLimit = 1
    RequirePlateClear = TRUE
    MaxSid = 1
    MaxRequests = 0
    MaxForeign = 1
    MaxRestarts = 1
    MaxDrops = 0
    MaxFaults = 1
    MaxEvents = 1
SPECIFICATION Spec
CHECK_DEADLOCK FALSE
PROPERTY CompletedAfterItsEnd
