\* One print, a door that opens and closes, two disconnections.
CONSTANTS
    a = a  b = b
    Prints = {a}
    NoPrint = NoPrint
    MaxWrites = 2
    MaxAttempts = 3
    MaxLocks = 0
    MaxDoor = 3
    MaxDrops = 2
    MaxRestarts = 0
SPECIFICATION Spec
CHECK_DEADLOCK FALSE
PROPERTY DoorAcknowledges
PROPERTY DoorClosedAfterEnd
