SPECIFICATION FairSpec
CONSTANTS
    MotorMap <- ShippedMap
    MinRotorVelocity = 1
    MaxRotorVelocity = 3
    FullScale = 2
    NotFinite = NotFinite
    Datagrams <- MotorDatagrams
    ServoPacketSize <- PacketSize
    RecvBuffer = 2
    Timeout = 2
    FdmPeriod = 1
    HeartbeatPeriod = 1
    NavSatRequired = TRUE
    AltitudeSource = "gps"
    HasMavlinkOutput = TRUE
    SocketsMayFail = TRUE
    NoPacket = NoPacket
CHECK_DEADLOCK FALSE
INVARIANTS
    TypeOK
    InductiveInvariant
    TimeoutLatchTruthful
    NewestCommandDrives
    RotorWithinRange
PROPERTIES
    ImplementsFailsafe
    SilentSitlTimesOut
    StopRequestEndsBridge
    PeriodicOutputFlows
