SPECIFICATION Spec
CONSTANTS
    RBAC <- MCRBAC
    NJoin = 1
    CoreDNS <- MCCoreDNS
    ClusterInfo = "cluster-info"
    Anonymous = {}
    Deployment = "deployment"
    MaxAttempts = 2
    MaxTokens = 2
    MaxWrites = 0
    Workers = {w1}
    Names = {w1}
    NameOf <- MCNameOf
    BootstrapperVerbs <- NodeBootstrapper
    Lossy = TRUE
    MaxRuns = 2
    Nil = Nil
    Torn = Torn
INVARIANTS TypeOK WorkerIsOne JoinersAreServed
PROPERTIES Admission
VIEW Observed
