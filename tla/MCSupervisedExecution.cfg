CONSTANTS
    Callers = {c1, c2}
    Actions = {a1}
    Attempts = {t1, t2}
    None = none
    MaxTime = 2
    Expiry = 1
    MaxReadbacks = 1
SPECIFICATION Spec
SYMMETRY Symmetry
INVARIANTS
    TypeOK
    OnePostPerAction
    LedgerStaysReadable
    LedgerAccountsForProvider
    FreshReadbackResolves
PROPERTIES
    NoSendAfterRevocation
