\* Four calls of any kind, overlapping in any way, of an account without 2FA,
\* with a secret to confirm, or with 2FA on.
SPECIFICATION Spec
CONSTANTS
    Calls = {c1, c2, c3, c4}
    MaxSecrets = 2
    None = None
SYMMETRY Symmetry
INVARIANTS
    TypeOK
    AnswersMatchSomeMoment
    SecretLostOnlyByCrossing
    UnconfirmedOnlyByOverwrite
CHECK_DEADLOCK FALSE
