SPECIFICATION FairSpec
CONSTANTS
    w1 = w1
    w2 = w2
    camera = camera
    mount = mount
    main = main
    Main = main
    Workers <- MCWorkers
    Resources <- MCResources
    ResourceSets <- MCOverlapping
    Cancellable = {TRUE}
    MaxOps = 2
    MaxPosted = 1
PROPERTIES SeenInOrder ImplementsLifecycle EveryOperationSettles ShutdownCompletes EveryEndIsSeen
