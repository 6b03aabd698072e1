CONSTANTS
    Size = 5
    Micros = {1, 2, 3}
    Percentiles = {50, 95, 99}

SPECIFICATION Spec

INVARIANTS
    TypeOK
    PercentileIsRank

PROPERTY
    ImplementsWindow
