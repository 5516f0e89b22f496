SPECIFICATION Spec
CONSTANTS
    MaxFaults = 1
    MaxTampering = 1
    MaxVersion = 2
INVARIANTS TypeOK PassComplete
PROPERTIES UpdatesIfListed MainSettles
CHECK_DEADLOCK FALSE
