SPECIFICATION Spec
CONSTANTS
    Requests = {r1, r2}
    Manager = manager
    Nobody = nobody
    Apps = {a, b}
    None = None
    MaxRequests = 3
    MaxFailures = 1
INVARIANTS
    TypeOK
    OneCycleAtATime
    OnlyOverlapDiverges
    CodeIsForClient
    RemovalRemovesToken
PROPERTIES
    RequestsEnd
    TokenIsUsed
