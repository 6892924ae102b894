SPECIFICATION Spec
CONSTANTS
    Plan <- DatedPlan
    Skies <- ClearSky
    RejectGoto = FALSE
    NeedDiscovery = FALSE
    MaxStarts = 1
    MaxCrashes = 1
    MaxSkyChanges = 0
    MaxLiveViews = 0
INVARIANT StopHolds
