\* Two prints and three writes; three attempts may fail, on a locked database
\* until the last attempt or at once; the server restarts.
CONSTANTS
    a = a  b = b
    Prints = {a, b}
    NoPrint = NoPrint
    MaxWrites = 3
    MaxAttempts = 3
    MaxLocks = 3
    MaxDoor = 0
    MaxDrops = 0
    MaxRestarts = 1
SPECIFICATION Spec
SYMMETRY PrintSymmetry
CHECK_DEADLOCK FALSE
INVARIANT TypeOK
INVARIANT ArchiveNeedsGate
INVARIANT PersistedInTurn
