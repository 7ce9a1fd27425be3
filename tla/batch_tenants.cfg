SPECIFICATION FairSpec
CONSTANTS
    s1 = s1
    a1 = a1
    a2 = a2
    b1 = b1
    c1 = c1
    A = A
    B = B
    C = C
    None = None
    Nodes <- OnePerTenant
    Tenants = {A, B, C}
    Tenant <- TenantOf
    NodesInflight = 1
    TenantsInflight = 2
    RetryNumber = 2
    InitialRetries = {1}
    DelayOutlastsReceiver = TRUE
INVARIANTS TypeOK InflightLimits SendNeverBlocks SomebodyGoesOn
PROPERTIES Returns
