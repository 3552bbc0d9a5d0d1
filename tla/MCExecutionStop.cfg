CONSTANTS
    Procs = {p1, p2}
    Confs = {c1, c2}
    NoConf = noconf
    NoProc = noproc
    MaxRecords = 4
    MaxCrashes = 2
    MaxRestores = 2
SPECIFICATION Spec
SYMMETRY Symmetry
INVARIANTS
    TypeOK
    LeaseActsOnNewestState
    ReturnedCommandsArePermanent
    ArmExtendsTheStateItsOperatorSaw
    CrashesAloneAreNeverRejected
PROPERTIES
    OnlyAnArmCommandAnchorsAnArm
    ImplementsModeRegister
