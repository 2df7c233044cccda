SPECIFICATION FairSpec
CONSTANTS
    f1 = f1
    f2 = f2
    ping = ping
    Frame <- MCFrame
    PingFrame = ping
    ClosePathFrame <- MCNoFrame
    MaxTrackedSentPackets = 3
    MaxTrackedSkippedPackets = 1
    MaxNonRetransmittablePackets = 2
    maxTailLossProbes = 1
    MaxPacketNumber = 8
    MaxTrackedReceivedAckRanges = 3
    BeforeVersion39 = FALSE
    MaxPacketsReceivedBeforeAckSend = 3
    RetransmittablePacketsBeforeAck = 2
    MaxAckPackets = 8
    FillerBound = 0
    Duplication = FALSE
    MaxLosses = 2
    PatientTimers = TRUE
PROPERTIES
    EverythingArrives
    EverythingAcknowledged
CHECK_DEADLOCK FALSE
