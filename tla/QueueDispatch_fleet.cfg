\* Two Any Machine jobs, two printers, one upload slot; the server restarts once.
CONSTANTS
    j1 = j1  j2 = j2
    p1 = p1  p2 = p2
    NoPrinter = NoPrinter
    Jobs = {j1, j2}
    Printers = {p1, p2}
    UploadLimit = 1
    RequirePlateClear = TRUE
    MaxSid = 2
    MaxRequests = 0
    MaxForeign = 0
    MaxRestarts = 1
    MaxDrops = 0
    MaxFaults = 1
    MaxEvents = 1
SPECIFICATION Spec
SYMMETRY FleetSymmetry
CHECK_DEADLOCK FALSE
INVARIANT TypeOK
INVARIANT Attributable
INVARIANT PoolBounded
INVARIANT OneJobPerPrinter
PROPERTY NeverRequeued
PROPERTY QueuePrintCleared
PROPERTY ImplementsLease
