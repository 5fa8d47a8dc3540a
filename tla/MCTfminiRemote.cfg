SPECIFICATION FairSpec
CONSTANTS
    Ranges <- FewRanges
    NotFinite = NotFinite
    NoRange = NoRange
    NoFrame = NoFrame
    StaleAfter = 1
    OutputPeriod = 1
    RetryPeriod = 2
    Locations = {FALSE}
PROPERTIES
    ListeningPeerIsFed
