SPECIFICATION Spec
CONSTANTS
    Images <- OnlyGood
    MaxFrames = 2
    MaxStarts = 1
    JoinBeforeStop = {TRUE}
    FailingStarts = {}
    NoFrame = NoFrame
CHECK_DEADLOCK FALSE
INVARIANTS
    UnlockedMutexExists
