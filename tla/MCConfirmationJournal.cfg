CONSTANTS
    Decisions = {d1, d2}
    MaxTime = 3
    Ttl = 2
    MaxRecords = 4
    MaxCrashes = 1
    MaxRestores = 1
SPECIFICATION Spec
SYMMETRY Symmetry
INVARIANTS
    TypeOK
    ReturnedRecordsArePermanent
    CrashesAloneAreNeverRejected
PROPERTIES
    ImplementsReceiptLifecycle
