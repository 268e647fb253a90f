----------------------------- MODULE MCNodeBoot -----------------------------
(* NodeBoot for TLC.  squashfs-init starts on the bare root file system of  *)
(* the initramfs, or on what the init of u-root would have mounted there,   *)
(* with the v1 cgroups that koobd is written to purge, or where cgroup2 is  *)
(* in place and /proc is not.                                               *)
EXTENDS NodeBoot

Private(at, fs) == [at |-> at, fs |-> fs, shared |-> FALSE]

Bare == <<Private(<<>>, "rootfs")>>

UrootInit == Bare \o <<
    Private(Proc, "proc"), Private(Sys, "sysfs"), Private(Cgroup, "tmpfs"),
    Private(Cgroup \o <<"memory">>, "cgroup"), Private(<<"dev">>, "devtmpfs")>>

Cgroup2Init == Bare \o <<Private(Sys, "sysfs"), Private(Cgroup, "cgroup2")>>

MCInitramfs == {Bare, UrootInit, Cgroup2Init}
=============================================================================
