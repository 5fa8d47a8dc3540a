SPECIFICATION FairSpec
CONSTANTS
    Ranges <- AllRanges
    Maxima <- AllMaxima
    Infinite = Infinite
    NoRange = NoRange
    None = None
    StaleAfter = 2
    OutputPeriod = 2
INVARIANTS
    TypeOK
    AnswersHaveScans
    DistanceWithinOwnMaximum
PROPERTIES
    SilentLidarBecomesUnknown
    ObstacleKeepsFlowing
