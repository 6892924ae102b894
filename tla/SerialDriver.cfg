SPECIFICATION Spec
CONSTANTS
    MaxSessions = 4
    MaxCalls = 6
INVARIANT ConnectSurvivesScan
CHECK_DEADLOCK FALSE
