SPECIFICATION FairSpec
CONSTANTS
    s1 = s1
    a1 = a1
    a2 = a2
    b1 = b1
    c1 = c1
    A = A
    B = B
    C = C
    None = None
    Nodes <- MixedNodes
    Tenants = {A}
    Tenant <- TenantOf
    NodesInflight = 2
    TenantsInflight = 1
    RetryNumber = 2
    InitialRetries = {1}
    DelayOutlastsReceiver = FALSE

PROPERTIES HandlersExitOnCancel
CHECK_DEADLOCK FALSE
