SPECIFICATION Spec
CONSTANTS
    Commands = {"status", "altitude"}
    MaxRequests = 4
    MaxConnects = 2
    Nothing = Nothing
CHECK_DEADLOCK FALSE
INVARIANTS
    TypeOK
    AnswerLagIsBounded
    BadFramesAreLeftovers
