CONSTANTS
    r1 = r1
    r2 = r2
    r3 = r3
    acme = acme
    loop = loop
    report = report
    Requests <- MCRequests
    Tenants <- MCTenants
    TenantOf <- MCTenantOf
    Costs <- MCCosts
    Budget = 2
    LastPeriod = 1
    Reports <- MCReports
    Loop = loop
SPECIFICATION FairSpec
INVARIANTS
    TypeOK
    Conserved
    SettledIsRefused
PROPERTIES
    NeverOvercounted
    KeepsAccount
    ReachesDisk
