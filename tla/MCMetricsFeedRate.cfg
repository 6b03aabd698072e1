CONSTANTS
    NoOne = NoOne
    Requests = {r1}
    Viewers = {v1, v2}
    MaxClients = 2
    MaxTotal = 1
    MaxInstant = 2

SPECIFICATION Spec

INVARIANT
    NewRequestsShow
