\* One job under fair scheduling; one request, one print outside the queue, one restart or disconnection.
CONSTANTS
    j1 = j1  j2 = j2
    p1 = p1  p2 = p2
    Jobs = {j1}
    Printers = {p1}
    NoPrinter = NoPrinter
    UploadLimit = 1
    RequirePlateClear = TRUE
    MaxSid = 1
    MaxRequests = 1
    MaxForeign = 1
    MaxRestarts = 1
    MaxDrops = 1
    MaxFaults = 1
    MaxEvents = 1
SPECIFICATION FairSpec
CHECK_DEADLOCK FALSE
INVARIANT ClaimPinsPrinter
PROPERTY OwnCompletionOnly
PROPERTY ClaimReleased
PROPERTY DispatchResolves
