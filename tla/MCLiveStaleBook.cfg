CHECK_DEADLOCK FALSE
CONSTANTS
    MaxDecisions = 1
    MaxLegs = 1
    MaxFaults = 0
    MaxStrangers = 1
SPECIFICATION Spec
PROPERTIES
    NoDecisionOnChangedBook
