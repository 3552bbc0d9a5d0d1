\* The loop rests when its decisions are used up or its restart is refused.
CHECK_DEADLOCK FALSE
CONSTANTS
    MaxDecisions = 2
    MaxLegs = 2
    MaxFaults = 3
    MaxStrangers = 1
SPECIFICATION Spec
INVARIANTS
    TypeOK
    ExposureFollowsEvidence
PROPERTIES
    BegunDecisionsCommit
