SPECIFICATION Spec
CONSTANTS
    Workers = {w1}
    Names = {w1}
    NameOf <- MCNameOf
    BootstrapperVerbs <- NodeBootstrapper
    w1 = w1
    ca1 = ca1
    ca2 = ca2
    CAs = {ca1, ca2}
    Served <- MCServed
    Lossy = FALSE
    MaxRuns = 2
    None = None
    Torn = Torn
PROPERTY CleanupWorks
