\* Two clients that use the same key, and every way a call can fail: the
\* refinement of OperationLedger, and that every request comes to an end.
SPECIFICATION FairSpec
CONSTANTS
    Requests = {r1, r2}
    Clients = {c1, c2}
    Keys = {k1}
    MaxSalt = 0
    Inputs <- UnsignedInputs
    None = None
INVARIANT ReplayNamesOwnScope
PROPERTIES
    LedgerSpec
    RequestsSettle
CHECK_DEADLOCK FALSE
