SPECIFICATION FairSpec
CONSTANTS
    MotorMap <- ShippedMap
    MinRotorVelocity = 1
    MaxRotorVelocity = 3
    FullScale = 2
    NotFinite = NotFinite
    Datagrams <- OneDatagram
    ServoPacketSize <- PacketSize
    RecvBuffer = 1
    Timeout = 1
    FdmPeriod = 1
    HeartbeatPeriod = 1
    NavSatRequired = FALSE
    AltitudeSource = "altimeter"
    HasMavlinkOutput = TRUE
    SocketsMayFail = FALSE
    NoPacket = NoPacket
CHECK_DEADLOCK FALSE
PROPERTIES
    SilentSitlStopsRotors
