CONSTANTS
    PktLen <- PacketLengths
    V6 = {4}
    Invalid = {1}
    Paths = {p1, p2}
    Narrow = {p2}
    Mtu = 3
    RingSize = 1
    MaxSenders = 2
    NumFrames = 3
    WorkerRing = 1
    ListCap = 2
    MaxWorkers = 1
    MaxEvents = 2
SPECIFICATION Spec
INVARIANTS TypeOK WholePackets DeliveredOnce FramesAccounted InOrderComplete ListsHoldBeginnings
PROPERTY SendersKeepAll
CHECK_DEADLOCK FALSE
