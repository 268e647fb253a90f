SPECIFICATION MCSpec
CONSTANTS
    Workers = {w1, w2}
    Names = {w1, w2}
    NameOf <- MCNameOf
    BootstrapperVerbs <- WithDelete
    w1 = w1
    ca1 = ca1
    ca2 = ca2
    CAs = {ca1, ca2}
    Served <- MCServed
    Lossy = TRUE
    MaxRuns = 2
    None = None
    Torn = Torn
INVARIANTS TypeOK CertMatchesKey FilesMatchConf ConfImpliesExpectedCA
PROPERTIES ConfWrittenOnce JoinEnds
