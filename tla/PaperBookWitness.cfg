CONSTANTS
    Absent = {nofile}
    Books = {b1, b2, b3}
    Edits = {e1, e2}
    MaxGen = 4
SPECIFICATION FairSpec
INVARIANTS
    TypeOK
    JournalStaysReadable
    SnapshotStaysLoadable
    CurrentObjectHoldsSnapshot
PROPERTIES
    NoLostUpdate
    GenerationsAdvance
    PendingIsClosed
