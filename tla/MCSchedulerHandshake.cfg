\* A server: the handshake, and a path that the client opens at its end.
CONSTANTS
    f1 = f1  f2 = f2  crypto = crypto  ping = ping  pths = pths  wu = wu
    initial = initial  p1 = p1  p2 = p2
    Path <- TwoPaths
    InitialPath = initial
    Frame <- HandshakeFrames
    PingFrame = ping
    PathsFrame <- Paths
    WindowUpdateFrame <- None
    CryptoFrame <- Crypto
    ClosePathFrame <- None
    Client = FALSE
    oppRedundant = FALSE
    MaxPacketNumber = 3
    LastNumber <- ThreeAndOne
    FillerBound = 1
    MaxAckPackets = 1
    Failable <- TwoPaths
    Closable <- None
    MaxTrackedSentPackets = 1
    MaxTrackedSkippedPackets = 1
    MaxNonRetransmittablePackets = 1
    maxTailLossProbes = 0
SPECIFICATION Spec
INVARIANTS TypeOK NoFrameForgotten NoDataIsDropped
CHECK_DEADLOCK FALSE
