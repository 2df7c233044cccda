\* oppRedundant: every packet is copied to the other path.
CONSTANTS
    f1 = f1  f2 = f2  crypto = crypto  ping = ping  pths = pths  wu = wu
    initial = initial  p1 = p1  p2 = p2
    Path <- ThreePaths
    InitialPath = initial
    Frame <- DataFrames
    PingFrame = ping
    PathsFrame <- None
    WindowUpdateFrame <- None
    CryptoFrame <- None
    ClosePathFrame <- None
    Client = FALSE
    oppRedundant = TRUE
    MaxPacketNumber = 2
    LastNumber <- TwoAndOne
    FillerBound = 1
    MaxAckPackets = 1
    Failable <- FirstPath
    Closable <- FirstPath
    MaxTrackedSentPackets = 3
    MaxTrackedSkippedPackets = 1
    MaxNonRetransmittablePackets = 2
    maxTailLossProbes = 1
SPECIFICATION Spec
SYMMETRY SymmetryFrames
INVARIANTS NoFrameForgotten DropsOnlyRedundantPackets BytesInFlightExact
CHECK_DEADLOCK FALSE
