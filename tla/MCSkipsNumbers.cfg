SPECIFICATION Spec
CONSTANTS
    averagePeriod = 3
    MaxPacketNumber = 10
INVARIANT SkipsNumbers
CHECK_DEADLOCK FALSE
