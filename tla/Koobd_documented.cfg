SPECIFICATION Spec
CONSTANTS
    Services = {containerd, kubelet}
    Triggered = {kubelet}
    Cancellable = {kubelet}
    Procs = {p1, p2, p3}
    Main = Main
    Pid1 = Pid1
    None = None
    Gone = Gone
INVARIANT ReturnsOnlyAsDocumented
