\* An archive and a library file; polls overlap; one outage, one restart.
CONSTANTS
    s1 = s1  s2 = s2
    p1 = p1  p2 = p2
    Slices = {s1, s2}
    Archives = {s1}
    Polls = {p1, p2}
    NoSlice = NoSlice
    MaxFailures = 1
    MaxOutages = 1
    MaxRestarts = 1
SPECIFICATION FairSpec
CHECK_DEADLOCK FALSE
INVARIANT TypeOK
INVARIANT SpinnerIsTracked
INVARIANT KeptUntilReported
INVARIANT Truthful
PROPERTY EveryJobReported
