CONSTANTS
    Callers = {c1, c2}
    Actions = {a1, a2}
    Attempts = {t1, t2}
    None = none
    MaxTime = 0
    Expiry = 1
    MaxReadbacks = 0
SPECIFICATION Spec
SYMMETRY Symmetry
PROPERTIES
    NoSendFromStalePlan
