\* request_tracker.rs:5: every authenticated request has its row.  It has not.
SPECIFICATION Spec
CONSTANTS
    Requests = {r1, r2}
    Clients = {c1}
    Keys = {k1}
    MaxSalt = 0
    Inputs <- KeyedInputs
    None = None
INVARIANT EveryAuthenticatedRequestIsRecorded
CHECK_DEADLOCK FALSE
