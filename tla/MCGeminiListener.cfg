CONSTANTS
    c1 = c1
    c2 = c2
    c3 = c3
    d1 = d1
    d2 = d2
    ipC = ipC
    ipD = ipD
    Conns = {c1, c2, c3, d1, d2}
    Ips = {ipC, ipD}
    PeerIp <- MCPeerIp
    Reading = {c1, d1, d2}
    MaxConcurrent = 3
    MaxPerIp = 2

SPECIFICATION FairSpec

INVARIANTS
    TypeOK
    PermitsConserved
    TableCountsGuards

PROPERTIES
    RefusedOnlyAtCap
    ImplementsPools
    PermitsComeBack
    OnlyRepliesWait

\* A stopped listener whose tasks have ended takes no further step.
CHECK_DEADLOCK FALSE
