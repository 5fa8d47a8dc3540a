SPECIFICATION Spec
CONSTANTS
    Files <- MCFiles
    Ipv4 <- MCIpv4
    Topics <- MCTopics
    NotANumber = NotANumber
    Malformed = Malformed
    Absent = Absent
    Closed = Closed
CHECK_DEADLOCK FALSE
INVARIANTS
    TypeOK
    DescriptorsHaveOneOwner
    RunFindsItsSockets
    OnlyAddressAndTopicsEscapeValidation
