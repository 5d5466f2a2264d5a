SPECIFICATION RelaysSpec
CONSTANTS
    NumCalls = 2
    Scenarios <- MCScenarios
    MaxAttempts = 2
    CallbackTries = 2
    KeepLines = 1
    MaxLines = 2
    MaxFiles = 2
    MaxSessions = 2
\* The caller makes no more calls; the viewer leaves, or a daemon crashes.
CHECK_DEADLOCK FALSE
INVARIANTS
    RelaysTypeOK
    OneOutcome
    
    LastSetInForce
    
PROPERTIES
    CallConcluded
    CaughtUp
