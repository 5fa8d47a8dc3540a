SPECIFICATION Spec
CONSTANTS
    Poses <- MCPoses
    MaxTime = 2
    StaleAfter = 1
    CounterSize = 2
    None = None
INVARIANTS
    TypeOK
    MessageShowsVehicleMotion
    FdmAndOdometryAgree
PROPERTIES
    TimeGoesBackOnlyWithReset
    DisplacementFollowsVehicle
