\* Three drying cycles that end close together.
CONSTANTS
    MaxTasks = 3
    MaxPrints = 0
    MaxDryings = 3
    MaxChanges = 0
SPECIFICATION Spec
CHECK_DEADLOCK FALSE
INVARIANT OneTimer
