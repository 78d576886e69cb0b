\* A tab that mounts the provider twice; one fault, one change of each kind.
CONSTANTS
    AuthEnabled = TRUE
    MaxMounts = 2
    MaxStatus = 1
    MaxEvents = 1
    MaxFaults = 1
SPECIFICATION FairSpec
CHECK_DEADLOCK FALSE
INVARIANT TypeOK
PROPERTY DisposedStaysQuiet
PROPERTY ConnectsAgain
PROPERTY StatusConverges
PROPERTY EventRefreshes
