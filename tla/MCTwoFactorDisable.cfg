\* auth.rs:326: a disable turns 2FA off.  A confirm under way turns it on again.
SPECIFICATION Spec
CONSTANTS
    Calls = {c1, c2, c3}
    MaxSecrets = 2
    None = None
INVARIANT DisableTakesEffect
CHECK_DEADLOCK FALSE
