SPECIFICATION Spec
CONSTANTS
    MaxPacketNumber = 9
    MaxTrackedReceivedAckRanges = 4
INVARIANTS
    TypeOK
    Separated
PROPERTY
    CallsAreExact
