\* A viewer that comes and goes, two streams, a stop at any time.
CONSTANTS
    v1 = v1
    r1 = r1
    Viewers = {v1}
    Stops = {r1}
    QueueSize = 1
    MaxStreams = 2
    MaxReconnects = 1
SPECIFICATION FairSpec
INVARIANT TypeOK
INVARIANT OneUpstream
INVARIANT ViewedIsRegistered
INVARIANT SuccessorKeepsFrame
PROPERTY UpstreamReleased
PROPERTY EndReachesViewer
