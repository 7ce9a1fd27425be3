SPECIFICATION FairSpec
CONSTANTS
    None = None
    MaxAttempts = 5
    Nodes = {"node1", "node2"}
    Givens <- SomeGivens
    Upgrades <- SomeUpgrades
INVARIANTS
    TypeOK FlagDecides LockOutlastsPass OneTask
    ConnectionsBounded UpgradeNotStopped
PROPERTIES
    DuplicatesOnlyFromOutage
    SkipsNoticed Persists ImplementsCall CallReturns
