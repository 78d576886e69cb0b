\* One viewer; a stop waits for one stream while another is started.
CONSTANTS
    v1 = v1
    r1 = r1
    Viewers = {v1}
    Stops = {r1}
    QueueSize = 1
    MaxStreams = 2
    MaxReconnects = 0
SPECIFICATION Spec
PROPERTY StopSparesViewers
