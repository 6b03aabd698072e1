CONSTANTS
    None = None
    Symbols = {s1, s2}
    StartScore = 2
    Penalty = 1
    RevealTime = 3
    UnflipTime = 2
    ResultTime = 1
    MaxTimers = 4
    MaxConfetti = 2

SPECIFICATION FairSpec

INVARIANTS
    TypeOK
    MatchedArePairs
    BoardShowsTurn

PROPERTY
    LockIsReleased
