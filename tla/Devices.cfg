SPECIFICATION FairSpec
CONSTANTS
    qhy = qhy
    canon = canon
    camera = camera
    None = None
    Canon = canon
    Drivers = {qhy, canon}
    Roles = {camera}
    Retries = 2
    MaxGen = 1
    MaxUser = 1
    MaxPlug = 1
CHECK_DEADLOCK FALSE
INVARIANTS DevicesInv NoLostRequest
PROPERTIES HintSettles ShutdownEnds
