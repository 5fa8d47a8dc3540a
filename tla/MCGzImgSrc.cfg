SPECIFICATION FairSpec
CONSTANTS
    Images <- GoodAndBad
    MaxFrames = 3
    MaxStarts = 3
    JoinBeforeStop = {TRUE, FALSE}
    FailingStarts = {1, 2, 3}
    NoFrame = NoFrame
CHECK_DEADLOCK FALSE
INVARIANTS
    TypeOK
    StopSparesHeldStates
PROPERTIES
    ImplementsMailbox
    ShutdownHangsOnlyForFrame
    StoredFrameIsTaken
