CONSTANTS
    Missing = Missing
    Torn = Torn
    MaxPairs = 3
    MaxCrashes = 2
    MaxLosses = 2

SPECIFICATION FairSpec

INVARIANTS
    TypeOK
    PinSurvives
    CertImpliesKey

PROPERTIES
    ServesWhatItKeeps
    BootsWhenBootable

\* A server that serves, with the bounds used up, takes no further step.
CHECK_DEADLOCK FALSE
