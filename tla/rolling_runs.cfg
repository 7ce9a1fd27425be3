SPECIFICATION Spec
CONSTANTS
    n1 = n1
    n2 = n2
    n3 = n3
    Old = Old
    None = None
    Nodes <- ThreeNodes
    Tenants = {}
    Tenant <- NoTenant
    NodesInflight = 2
    TenantsInflight = 0
    RetryNumber = 2
    CleanupOnExit = TRUE
    SuppressCompatibilityCheck = FALSE
    CMSQueryInterval = 0
    Foreign = {Old}
    Faults = {"error", "lost", "incompatible"}
    MaxFaults = 2
    MaxRuns = 2
SYMMETRY NodeSymmetry
INVARIANTS TypeOK LockHeld NoRepeat SuccessMeansDone NoOlderTask CleanedUp
PROPERTIES ReleasedWhenDone ImplementsPhase
