\* A client: data in secure packets before the end of the handshake.
CONSTANTS
    f1 = f1  f2 = f2  crypto = crypto  ping = ping  pths = pths  wu = wu
    initial = initial  p1 = p1  p2 = p2
    Path <- TwoPaths
    InitialPath = initial
    Frame <- HandshakeFrames
    PingFrame = ping
    PathsFrame <- Paths
    WindowUpdateFrame <- None
    CryptoFrame <- Crypto
    ClosePathFrame <- None
    Client = TRUE
    oppRedundant = FALSE
    MaxPacketNumber = 2
    LastNumber <- TwoEach
    FillerBound = 1
    MaxAckPackets = 2
    Failable <- FirstPath
    Closable <- None
    MaxTrackedSentPackets = 2
    MaxTrackedSkippedPackets = 1
    MaxNonRetransmittablePackets = 1
    maxTailLossProbes = 0
SPECIFICATION Spec
INVARIANT NoDataIsDropped
CHECK_DEADLOCK FALSE
