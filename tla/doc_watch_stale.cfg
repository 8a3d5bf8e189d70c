SPECIFICATION Spec
CONSTANTS
    NotYet = NotYet
    VersionBound = 3
    HandoverBound = 2
    MovesEarly = TRUE
    Threaded = FALSE
    StartsFail = FALSE
CHECK_DEADLOCK FALSE
PROPERTIES
    FollowsLedger
