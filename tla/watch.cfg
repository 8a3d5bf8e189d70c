SPECIFICATION Spec
CONSTANTS
    NotYet = NotYet
    VersionBound = 3
    HandoverBound = 4
    MovesEarly = FALSE
    Threaded = TRUE
    StartsFail = FALSE
CHECK_DEADLOCK FALSE
INVARIANTS
    TypeOK
    

    
    
