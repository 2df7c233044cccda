\* lowRTT and RR: packets are duplicated and retransmitted on the other path.
CONSTANTS
    f1 = f1  f2 = f2  crypto = crypto  ping = ping  pths = pths  wu = wu
    initial = initial  p1 = p1  p2 = p2
    Path <- ThreePaths
    InitialPath = initial
    Frame <- DataAndWindowUpdate
    PingFrame = ping
    PathsFrame <- None
    WindowUpdateFrame <- WindowUpdate
    CryptoFrame <- None
    ClosePathFrame <- None
    Client = FALSE
    oppRedundant = FALSE
    MaxPacketNumber = 2
    LastNumber <- TwoAndOne
    FillerBound = 0
    MaxAckPackets = 1
    Failable <- FirstPath
    Closable <- None
    MaxTrackedSentPackets = 3
    MaxTrackedSkippedPackets = 1
    MaxNonRetransmittablePackets = 2
    maxTailLossProbes = 1
SPECIFICATION Spec
INVARIANTS NoFrameForgotten BytesInFlightExact
CHECK_DEADLOCK FALSE
