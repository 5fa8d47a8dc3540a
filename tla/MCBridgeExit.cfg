SPECIFICATION Spec
CONSTANTS
    MotorMap <- ShippedMap
    MinRotorVelocity = 0
    MaxRotorVelocity = 3
    FullScale = 2
    NotFinite = NotFinite
    Datagrams <- OneDatagram
    ServoPacketSize <- PacketSize
    RecvBuffer = 1
    Timeout = 1
    FdmPeriod = 1
    HeartbeatPeriod = 1
    NavSatRequired = FALSE
    AltitudeSource = "altimeter"
    HasMavlinkOutput = FALSE
    SocketsMayFail = TRUE
    NoPacket = NoPacket
CHECK_DEADLOCK FALSE
INVARIANTS
    EveryEndLeavesZero
