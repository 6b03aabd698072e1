CONSTANTS
    PingInterval = 6
    PongDeadline = 12
    SendTimeout = 2
    Room = 2
    PeerLag = 1
    PeerPings = 1
    MaxSilence = 22
    MaxOverdue = 4
    MaxUnread = 1

SPECIFICATION FairSpec

PROPERTIES
    StalledEnds

\* A session that has ended takes no further step.
CHECK_DEADLOCK FALSE
