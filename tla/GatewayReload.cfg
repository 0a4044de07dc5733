CONSTANTS
    r1 = r1
    r2 = r2
    s1 = s1
    s2 = s2
    acme = acme
    globex = globex
    host = host
    card = card
    old = old
    new = new
    None = None
    NoSession = NoSession
    Requests <- MCRequests
    SessionIds <- MCSessionIds
    Detached = None
    Tenants <- MCTenants
    Values <- MCValues
    RuleSets <- MCRuleSets
    Class <- MCClass
    Configs <- MCConfigs
    Arrivals <- MCOneOfEach
    Embedders <- MCEmbedders
    SessionMax = 1
    CacheMax = 1
SPECIFICATION FairSpec
PROPERTIES
    OneConfigurationPerRequest
