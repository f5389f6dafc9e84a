\* README.md:87: an operation reported as queued is queued.  It may be lost.
SPECIFICATION Spec
CONSTANTS
    Requests = {r1, r2}
    Clients = {c1}
    Keys = {k1}
    MaxSalt = 0
    Inputs <- KeyedInputs
    None = None
INVARIANT QueuedIsOnTheExchange
CHECK_DEADLOCK FALSE
