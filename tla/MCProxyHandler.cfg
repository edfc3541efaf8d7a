SPECIFICATION Spec
CONSTANTS
    UdpMessages <- MCUdpMessages
    OtaFrames <- MCOtaFrames
    ProxyHeaderSize = 8
    DescriptorSize = 10
    SizeModulus = 65536
    None = None
    MaxMessages = 2
    MaxErrors = 1
INVARIANTS
    TypeOK
    RadioIntact
    UdpIntact
    ChainsAlive
PROPERTY EverythingIsRead
CHECK_DEADLOCK FALSE
