\* Two requests of two clients under one key of the header: one asks anything of
\* the nine endpoints, well or badly, while the other mints, deploys or pauses.
SPECIFICATION HandlersSpec
CONSTANTS
    Requests = {r1, r2}
    r1 = r1
    Clients = {c1, c2}
    Keys = {k1}
    k1 = k1
    MaxSalt = 0
    Inputs <- MCInputs
    AddressLength = 4
    Texts <- MCTexts
    Injections <- MCInjections
    Bytes <- MCBytes
    Works <- MCWorks
    NAME_MAX = 3
    SYMBOL_MAX = 1
    EXTERNAL_ID_MAX = 2
    DECIMALS_MAX = 1
    None = None
SYMMETRY Symmetry
INVARIANTS
    HandlersTypeOK
    ValidatorsMeetReference
    AddressesAreChecked
    MessagesIdentifyOperations
CHECK_DEADLOCK FALSE
