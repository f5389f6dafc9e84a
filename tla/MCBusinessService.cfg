\* Two requests of one client with one key and a pool of one connection, with every
\* way a call can fail; their rows begin and commit in any order, while the portal
\* asks for the statistics of this client or of another one.
SPECIFICATION ServiceSpec
CONSTANTS
    Requests = {r1, r2}
    Clients = {c1, c2}
    c1 = c1
    Keys = {k1}
    MaxSalt = 0
    Inputs <- KeyedInputs
    PoolSize = 1
    Queries = {q1}
    ListLimit = 1
    None = None
INVARIANTS
    ServiceTypeOK
    ConnectionsAreReturned
    StatsAgree
    TotalCountsAnswered
PROPERTIES
    PipelineSpec
    ServiceSettles
CHECK_DEADLOCK FALSE
