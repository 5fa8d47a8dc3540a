SPECIFICATION FairSpec
CONSTANTS
    Ranges <- AllRanges
    NotFinite = NotFinite
    NoRange = NoRange
    NoFrame = NoFrame
    StaleAfter = 2
    OutputPeriod = 1
    RetryPeriod = 3
    Locations = {TRUE, FALSE}
INVARIANTS
    TypeOK
    SocketAgreesWithLink
PROPERTIES
    ValidFrameIsFreshReading
    SilentLidarIsReported
    LocalPeerIsFed
