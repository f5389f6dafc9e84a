\* Four calls of any kind, overlapping in any way, while the clock runs past the
\* end of a token and the account may be turned off.
SPECIFICATION Spec
CONSTANTS
    Calls = {c1, c2, c3, c4}
    Registered = Registered
    TOKEN_EXPIRY = 1
    CHALLENGE_EXPIRY = 0
    Leeway = 0
    MaxTime = 2
    None = None
SYMMETRY Symmetry
INVARIANTS
    TypeOK
    RotatedSecretStaysOut
    AnnouncedSecretsHold
    PortalShowsCurrentSalt
PROPERTIES
    SecretSpec
    DeactivationEndsAccess
CHECK_DEADLOCK FALSE
