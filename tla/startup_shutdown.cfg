SPECIFICATION Spec
CONSTANTS
    MaxFaults = 0
    MaxTampering = 0
    MaxVersion = 2
PROPERTIES GracefulShutdown
CHECK_DEADLOCK FALSE
