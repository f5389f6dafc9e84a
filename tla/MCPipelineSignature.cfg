\* Signatures: two requests, signed with any salt or with none, against an
\* account whose salt is regenerated meanwhile.
SPECIFICATION Spec
CONSTANTS
    Requests = {r1, r2}
    Clients = {c1}
    Keys = {k1}
    MaxSalt = 2
    Inputs <- SignedInputs
    None = None
SYMMETRY Symmetry
INVARIANT FreshSignature
CHECK_DEADLOCK FALSE
