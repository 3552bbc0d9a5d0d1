CONSTANTS
    Absent = {nofile}
    NoRun = norun
    Runs = {r1, r2}
    Datasets = {d1}
    Admissions = {a1}
    Settlements = {}
    MaxCrashes = 2
SPECIFICATION FairSpec
INVARIANTS
    CanonicalIsBaseUntilPrecommit
    PromotionOrder
    ManifestedRunsRecover
PROPERTIES
    ImplementsEconomicCommit
    PrecommittedIsCompleted
    StagedIsClosed
