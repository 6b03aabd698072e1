CONSTANTS
    Missing = Missing
    Torn = Torn
    MaxPairs = 1
    MaxCrashes = 1
    MaxLosses = 0

SPECIFICATION Spec

INVARIANT
    LoadedIsPair

CHECK_DEADLOCK FALSE
