SPECIFICATION Spec
CONSTANTS
    FlipBound = 4
CHECK_DEADLOCK FALSE
INVARIANTS
    TypeOK
    Unsubscribed
PROPERTIES
    NoFalseAlarm
    WaitEnds
