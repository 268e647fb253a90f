SPECIFICATION FairSpec
CONSTANTS
    Steps <- MCSteps
    NPki = 1
    NConf = 2
    Inputs <- MCInputs
    KubeletConf = "kubelet.conf"
    OutsideEtc <- MCOutsideEtc
    KubeletConfig = "config.yaml"
    Manifests <- MCManifests
    MaxAttempts = 2
    Nil = Nil
    Torn = Torn
    Procs = {p1, p2}
    Main = Main
    Pid1 = Pid1
    None = None
    Gone = Gone
    Kubelet = kubelet
    Crashes = TRUE
INVARIANT ClusterIsOne
PROPERTIES InitEnds LateTickIsSafe
CHECK_DEADLOCK FALSE
