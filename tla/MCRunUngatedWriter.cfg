CONSTANTS
    Absent = {nofile}
    NoRun = norun
    Runs = {r1, r2}
    Datasets = {d1}
    Admissions = {a1}
    Settlements = {s1}
    MaxCrashes = 2
SPECIFICATION Spec
INVARIANT NoWriterOvertakesARun
