CONSTANTS
    Streams <- MCStreams
    MaxRequest = 3
    ReadTimeout = 3
    ChunkTimeout = 2
    Body <- MCBody
    SessionRoom = 2
    SocketRoom = 1

SPECIFICATION FairSpec

INVARIANTS
    TypeOK
    OutcomeIsRight
    RepliesArriveWhole

PROPERTIES
    ReadEnds
    ImplementsListenerTask

\* A connection that has ended takes no further step.
CHECK_DEADLOCK FALSE
