SPECIFICATION Spec
CONSTANTS
    MaxUser = 3
    MaxFail = 1
    MaxSessions = 4
    MaxCalls = 6
    Callers = {c1, c2}
    MaxExchanges = 3
    DriverIds = {a, b}
    MaxDirs = 2
    MaxShots = 2
    MaxFaults = 1
    MaxSdkFaults = 3
    Starts = {2}
    MaxPosition = 4
    Coarse = 2
    Fine = 1
    Half = 3
    MaxFocusFaults = 1
    Rois = {r1, r2}
    Center = r1
    LostLimit = 2
    MaxFrames = 3
    MaxRecFaults = 1
    MaxIndiCalls = 3
    MaxIndiFaults = 2
    Keys = {0, 1}
    MaxNetCalls = 2
    MaxNetFaults = 1
    Attempts = 3
    Stack = 2
    Samples = 2
    MaxSolves = 1
    MaxSlips = 1
    MaxHandCalls = 3
    MaxLost = 1
    Fragments = 2
    Lengths = {1, 2}
    MaxOffers = 2
    MaxStops = 2
    MaxPeers = 2
    MaxDrops = 1
INVARIANTS MotionIsKnown DisconnectSticks FirstOfferLoads RepliesMatch FrameIsOwn ShutterCloses CycleEnds FocusAsReported RecordingHolds CommandsAsMeant DoneIsDone SolvingHolds MotionIsAsked StreamHolds LinksHold
PROPERTIES AbortStops
CHECK_DEADLOCK FALSE
