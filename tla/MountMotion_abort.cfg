SPECIFICATION Spec
CONSTANTS
    MaxUser = 3
    MaxFail = 0
PROPERTY AbortConfirms
CHECK_DEADLOCK FALSE
