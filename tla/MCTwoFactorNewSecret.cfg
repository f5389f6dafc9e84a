\* auth.rs:263: a secret that setup has just stored is not enabled.  It may be.
SPECIFICATION Spec
CONSTANTS
    Calls = {c1, c2, c3}
    MaxSecrets = 2
    None = None
INVARIANT NewSecretNotYetEnabled
CHECK_DEADLOCK FALSE
