\* Idempotency and billing: three requests of legacy accounts (no salt).
SPECIFICATION Spec
CONSTANTS
    Requests = {r1, r2, r3}
    Clients = {c1}
    Keys = {k1}
    MaxSalt = 0
    Inputs <- KeyedInputs
    None = None
SYMMETRY Symmetry
INVARIANTS
    TypeOK
    SequentialRetryIsReplayed
    BillingMatchesWork
PROPERTY OverwriteOnlyByOverlap
CHECK_DEADLOCK FALSE
