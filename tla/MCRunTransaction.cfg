CONSTANTS
    Absent = {nofile}
    NoRun = norun
    Runs = {r1, r2}
    Datasets = {d1, d2}
    Admissions = {a1}
    Settlements = {s1}
    MaxCrashes = 2
SPECIFICATION Spec
SYMMETRY Symmetry
INVARIANTS
    TypeOK
    AtMostOneUnfinished
    CompletedMeansApplied
    AbortedLeavesNoTrace
    NoSilentRepeat
    BookStaysLoadable
PROPERTIES
    NothingIsUndone
