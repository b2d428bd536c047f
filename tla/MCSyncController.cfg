SPECIFICATION ControllerSpec
CONSTANTS
    Card = {c1, c2}
    Tries = 5
INVARIANTS
    ControllerTypeOK
    OneRetry
    FiveAttempts
    DisposedIsQuiet
    IndicatorCounts
PROPERTIES
    EditsAreTried
    SyncingEnds
CHECK_DEADLOCK FALSE
