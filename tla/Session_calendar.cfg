SPECIFICATION Spec
CONSTANTS
    Plan <- CalendarPlan
    Skies <- HideOrAll
    RejectGoto = FALSE
    NeedDiscovery = TRUE
    MaxStarts = 2
    MaxCrashes = 1
    MaxSkyChanges = 2
    MaxLiveViews = 1
INVARIANTS CalendarInv NoStall NoOrphanOperation PointedAtTarget NeverEarly
