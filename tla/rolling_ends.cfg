SPECIFICATION FairSpec
CONSTANTS
    n1 = n1
    n2 = n2
    n3 = n3
    Old = Old
    None = None
    Nodes <- TwoNodes
    Tenants = {}
    Tenant <- NoTenant
    NodesInflight = 2
    TenantsInflight = 0
    RetryNumber = 2
    CleanupOnExit = TRUE
    SuppressCompatibilityCheck = FALSE
    CMSQueryInterval = 10
    Foreign = {Old}
    Faults = {"error", "lost", "refused", "incompatible"}
    MaxFaults = 1
    MaxRuns = 2
PROPERTIES Terminates SignalEndsRun
