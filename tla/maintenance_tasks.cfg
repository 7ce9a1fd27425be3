SPECIFICATION FairSpec
CONSTANTS
    None = None
    h1 = h1
    h2 = h2
    a = a
    b = b
    ta = ta
    Restarts = {r1, r2}
    Uids = {u1}
    Cluster <- ThreeNodes
    Pods <- StoragePods
    CreateOptions <- SomeCreateOptions
    CompleteHosts <- SomeCompleteHosts
    Targets <- SomeTargets
INVARIANTS
    TypeOK WorksUnderLock OlderTasksGone
PROPERTIES
    CreateLocksAsked CompletesNamed RestartEnds
