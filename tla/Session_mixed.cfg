SPECIFICATION FairSpec
CONSTANTS
    Plan <- MixedPlan
    Skies <- AnySky
    RejectGoto = TRUE
    NeedDiscovery = FALSE
    MaxStarts = 1
    MaxCrashes = 0
    MaxSkyChanges = 2
    MaxLiveViews = 1
PROPERTIES FramesExact SessionsEnd
