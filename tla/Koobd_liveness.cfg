SPECIFICATION FairSpec
CONSTANTS
    Services = {containerd, kubelet}
    Triggered = {kubelet}
    Cancellable = {kubelet}
    Procs = {p1, p2}
    Main = Main
    Pid1 = Pid1
    None = None
    Gone = Gone
PROPERTIES ZombiesReaped DeathNoticed CancelEndsRun KeepsServices
