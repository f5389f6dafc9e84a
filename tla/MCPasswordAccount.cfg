\* Four calls of any kind on one address, with two passwords to choose from,
\* overlapping in any way, with lost mails, failing statements, tokens that expire
\* and callers that hang up.
SPECIFICATION Spec
CONSTANTS
    Calls = {c1, c2, c3, c4}
    Passwords = {p1, p2}
    None = None
SYMMETRY Symmetry
INVARIANTS
    TypeOK
    ReplacedPasswordStaysOut
    SessionNeedsMailbox
    CreatedOwnsAccount
    AnnouncedPasswordHolds
    LockoutHasACause
CHECK_DEADLOCK FALSE
