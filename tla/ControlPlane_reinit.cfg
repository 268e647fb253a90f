SPECIFICATION Spec
CONSTANTS
    RBAC <- InitBootstrapRBAC
    NJoin <- MCNJoin
    CoreDNS <- ApplyCoreDNS
    ClusterInfo = "cluster-info"
    Anonymous <- MCAnonymous
    Deployment = "deployment"
    MaxAttempts = 2
    MaxTokens = 1
    MaxWrites = 1
    Nil = Nil
INVARIANT ReinitIsDiscoverable
