SPECIFICATION FairSpec
CONSTANTS
    w1 = w1
    w2 = w2
    t1 = t1
    t2 = t2
    t3 = t3
    Workers <- MCWorkers
    Main = Main
    Tasks <- MCTasks
    NoThread = NoThread
    NoTask = NoTask
    MaxSpurious = 1
INVARIANTS
    TypeOK
    OnePlace
    NoLostWakeup
    NoSleeperAfterStop
    DestroyedIsDrained
PROPERTIES
    FutureIsFinal
    EveryTaskRuns
    DestructorReturns
    GetReturns
    ServiceSpec
