SPECIFICATION Spec
CONSTANTS
    w1 = w1
    w2 = w2
    camera = camera
    mount = mount
    main = main
    Main = main
    Workers <- MCWorkers
    Resources <- MCResources
    ResourceSets <- MCResourceSets
    Cancellable = {TRUE}
    MaxOps = 3
    MaxPosted = 0
SYMMETRY Symmetry
INVARIANTS TypeOK TasksExclusive LocksExact NoOvertaking NoLostWakeup QuietAfterShutdown CancelledNeverRuns
PROPERTY TerminalIsFinal
