SPECIFICATION Spec
CONSTANTS
    MaxFaults = 0
    MaxTampering = 0
    MaxVersion = 2
INVARIANTS PassUpdates
CHECK_DEADLOCK FALSE
