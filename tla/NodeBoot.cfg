SPECIFICATION FairSpec
CONSTANTS
    Initramfs <- MCInitramfs
    Addresses = {a1, a2}
    Loopback = Loopback
    Polls = 2
    MaxRefused = 2
    Nil = Nil
INVARIANTS TypeOK NothingCovered MountsStandAlone SharedUnlessRefused KernelReady IdentityIsReady
PROPERTY BootReachesShell
CHECK_DEADLOCK FALSE
