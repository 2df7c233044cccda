SPECIFICATION Spec
CONSTANTS
    f1 = f1
    f2 = f2
    ping = ping
    Frame <- MCFrame
    PingFrame = ping
    ClosePathFrame <- MCNoFrame
    MaxTrackedSentPackets = 3
    MaxTrackedSkippedPackets = 1
    MaxNonRetransmittablePackets = 2
    maxTailLossProbes = 1
    MaxPacketNumber = 3
    MaxTrackedReceivedAckRanges = 3
    BeforeVersion39 = FALSE
    MaxPacketsReceivedBeforeAckSend = 3
    RetransmittablePacketsBeforeAck = 2
    MaxAckPackets = 2
    FillerBound = 3
    Duplication = TRUE
    MaxLosses = 0
    PatientTimers = FALSE
INVARIANTS
    TypeOK
    NoFrameForgotten
    AcksAreHonest
    AckHasRanges
    NoHonestAckIsFatal
    BytesInFlightExact
    AlarmCoversHistory
    AckIsDue
    StopWaitingFitsItsPacket
PROPERTY
    LargestAckedMonotone
SYMMETRY Symmetry
CHECK_DEADLOCK FALSE
