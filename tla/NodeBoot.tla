------------------------------ MODULE NodeBoot ------------------------------
(***************************************************************************)
(* A node from the start of the initramfs to the console shell:            *)
(* squashfs-init, which builds the writable root and hands over to koobd   *)
(* with switch_root, then koobd's run() up to the shell: the mounts, the   *)
(* cgroups, the kernel parameters, the identity and the wait for DHCP.     *)
(*                                                                         *)
(* The calls to the kernel are data, Plan, because that is what the        *)
(* code is: a fixed list of calls, most of which are only logged when they *)
(* fail.  The kernel may refuse any of them.  The network card may appear  *)
(* at any moment and a lease may arrive at any moment after dhclient runs; *)
(* koobadm init may ask for the identity of the node once there is a shell.*)
(***************************************************************************)
EXTENDS Naturals, Sequences, SequencesExt, FiniteSets

CONSTANTS
    Initramfs,   \* the mount tables squashfs-init may start with
    Addresses,   \* what a lease may say
    Loopback,    \* 127.0.0.1
    Polls,       \* the polls for an address; 12 in the code
    MaxRefused,  \* bound: calls that the kernel refuses
    Nil

Kernel == INSTANCE MountTable
    WITH Singletons <- {"proc", "sysfs", "devtmpfs", "cgroup2"}

Proc == <<"proc">>
Sys == <<"sys">>
Run == <<"run">>
Bpf == <<"sys", "fs", "bpf">>
Cgroup == <<"sys", "fs", "cgroup">>
CniBin == <<"opt", "cni", "bin">>
NewRoot == <<"newroot">>
SquashMount == <<"mnt", "squashfs">>
TmpfsMount == <<"mnt", "tmpfs">>

\* A call: what it does, where, with which file system, and what its error
\* does to the program.  A check or a directory that goes with a call is
\* part of it.
NoFs == "none"
Call(op, at, fs, error) == [op |-> op, at |-> at, fs |-> fs, error |-> error]
MountIfMissing(at, fs) == Call("mount_if_missing", at, fs, "log")
MakeShared(at) == Call("make_all_shared", at, NoFs, "log")
Must(op, at, fs) == Call(op, at, fs, "halt")

SquashfsInit == <<
    Call("mount", Proc, "proc", "log"),
    MountIfMissing(Sys, "sysfs"),
    MountIfMissing(<<"dev">>, "devtmpfs"),
    Must("mount", SquashMount, "squashfs"),
    Must("mount", TmpfsMount, "tmpfs"),
    Must("mount", NewRoot, "overlay"),
    Call("move", SquashMount, NoFs, "log"),
    Call("move", TmpfsMount, NoFs, "log"),
    Must("switch_root", NewRoot, NoFs)>>

MountAPIFilesystems == <<
    MakeShared(<<>>), MountIfMissing(Proc, "proc"), MountIfMissing(Sys, "sysfs"), MakeShared(Sys)>>

SetupDevNodes == <<
    MountIfMissing(<<"dev">>, "devtmpfs"), MountIfMissing(<<"dev", "pts">>, "devpts")>>

\* Mutant: /run is made shared before it is mounted.
SetupRuntimeStorage_ShareFirst == <<
    MakeShared(Run), MountIfMissing(Run, "tmpfs"),
    MountIfMissing(<<"etc", "sysctl.d">>, "tmpfs"),
    MountIfMissing(CniBin, "tmpfs"),
    MountIfMissing(<<"etc", "cni", "net.d">>, "tmpfs"),
    MountIfMissing(<<"var", "lib", "containerd">>, "tmpfs")>>

SetupRuntimeStorage == <<
    MountIfMissing(Run, "tmpfs"), MakeShared(Run),
    MountIfMissing(<<"etc", "sysctl.d">>, "tmpfs"),
    MountIfMissing(CniBin, "tmpfs"),
    MountIfMissing(<<"etc", "cni", "net.d">>, "tmpfs"),
    MountIfMissing(<<"var", "lib", "containerd">>, "tmpfs")>>

SetupBPF == <<MountIfMissing(Bpf, "bpf"), MakeShared(Bpf)>>

\* Mutant: bpf is mounted before the /sys it is in.
SetupMounts_BpfFirst == SetupBPF \o MountAPIFilesystems \o SetupDevNodes \o SetupRuntimeStorage

SetupMounts == MountAPIFilesystems \o SetupDevNodes \o SetupRuntimeStorage \o SetupBPF

Group(name) == Cgroup \o name
System == Group(<<"system">>)
PodRuntime == Group(<<"podruntime">>)
KubePods == Group(<<"kubepods">>)
BestEffort == Group(<<"kubepods", "besteffort">>)
Burstable == Group(<<"kubepods", "burstable">>)

MakeGroup(at) == Call("make_group", at, NoFs, "log")
Delegate(at) == Call("delegate", at, NoFs, "log")

\* Mutant: the controllers are enabled from the leaves up.
SetupCgroups_LeavesFirst == <<
    Call("purge_v1", Cgroup, "cgroup", "log"),
    Call("unmount", Cgroup, NoFs, "log"),
    Call("mount_if_missing", Cgroup, "cgroup2", "return"),
    Call("make_shared", Cgroup, NoFs, "log"),
    Call("read_controllers", Cgroup, NoFs, "log"),
    MakeGroup(Group(<<"init">>)), MakeGroup(System), MakeGroup(PodRuntime),
    MakeGroup(KubePods), MakeGroup(BestEffort), MakeGroup(Burstable),
    Call("move_self", Group(<<"init">>), NoFs, "log"),
    Delegate(BestEffort), Delegate(Burstable), Delegate(KubePods),
    Delegate(PodRuntime), Delegate(System), Delegate(Cgroup)>>

SetupCgroups == <<
    Call("purge_v1", Cgroup, "cgroup", "log"),
    Call("unmount", Cgroup, NoFs, "log"),
    Call("mount_if_missing", Cgroup, "cgroup2", "return"),
    Call("make_shared", Cgroup, NoFs, "log"),
    Call("read_controllers", Cgroup, NoFs, "log"),
    MakeGroup(Group(<<"init">>)), MakeGroup(System), MakeGroup(PodRuntime),
    MakeGroup(KubePods), MakeGroup(BestEffort), MakeGroup(Burstable),
    Call("move_self", Group(<<"init">>), NoFs, "log"),
    Delegate(Cgroup), Delegate(System), Delegate(PodRuntime),
    Delegate(KubePods), Delegate(BestEffort), Delegate(Burstable)>>

ConfigureSysctls == <<Call("sysctl", Proc, NoFs, "log")>>

Plan == SquashfsInit \o SetupMounts \o SetupCgroups \o ConfigureSysctls

\* The calls of koobd, and those of them that mount or share.
KoobdCalls == (Len(SquashfsInit) + 1)..Len(Plan)
MountCalls == {k \in KoobdCalls : Plan[k].op = "mount_if_missing"}
ShareCalls == {k \in KoobdCalls : Plan[k].op \in {"make_shared", "make_all_shared"}}

\* What may be mounted when squashfs-init starts.  The initramfs itself has
\* nothing (build-initramfs.sh); an earlier stage, or a run of koobd before,
\* may have left the API file systems, each on its place, with v1 cgroups
\* below a tmpfs or cgroup2 on /sys/fs/cgroup, which koobd expects there
\* (cgroups.go:37-40).
Undisturbed(t) ==
    /\ t \in Seq([at : Seq(STRING), fs : STRING, shared : BOOLEAN])
    /\ Len(t) > 0 /\ t[1].at = <<>>
    /\ \A i \in DOMAIN t :
        /\ ~Kernel!Covered(t, i)
        /\ \A p \in {NewRoot, SquashMount, TmpfsMount} : ~IsPrefix(p, t[i].at)
        /\ \A k \in MountCalls :
            /\ Plan[k].at = t[i].at /\ Plan[k].at # Cgroup => Plan[k].fs = t[i].fs
            /\ IsPrefix(Plan[k].at, t[i].at) => \E j \in DOMAIN t : t[j].at = Plan[k].at
        /\ t[i].fs = "cgroup" => IsPrefix(Cgroup, t[i].at)
        /\ IsPrefix(Cgroup, t[i].at) /\ t[i].at # Cgroup => t[i].fs = "cgroup"
        /\ t[i].fs = "cgroup2" =>
            t[i].at = Cgroup /\ \A j \in DOMAIN t : IsPrefix(Cgroup, t[j].at) => j = i

ASSUME NodeBootAssumption ==
    /\ \A t \in Initramfs : Undisturbed(t)
    /\ Loopback \notin Addresses /\ Nil \notin Addresses
    /\ Polls \in Nat \ {0} /\ MaxRefused \in Nat

VARIABLES
    next,         \* the call of Plan that is made next
    stage,        \* the phase of the boot
    mounts,       \* the mount table that PID 1 sees
    refused,      \* history: the calls that the kernel refused
    controllers,  \* whether a list of cgroup controllers was read
    groups,       \* cgroups made
    self,         \* the cgroup of PID 1
    delegated,    \* cgroups whose controllers are enabled for their children
    forwarding,   \* net.ipv4.ip_forward
    nic,          \* whether there is an interface named eth* or en*
    lease,        \* its address
    dhclient,     \* whether the client runs
    polls,        \* polls for an address that were made
    hostname,     \* the kernel's host name
    found,        \* history: boot found an address in time
    hosts,        \* /etc/hosts: the name and the address of this node
    identity      \* name and address that koobadm init took

kernelVars == <<mounts, refused, controllers, groups, self, delegated, forwarding>>
wireVars == <<nic, lease>>
netVars == <<dhclient, polls, hostname, found, hosts>>
vars == <<next, stage, kernelVars, wireVars, netVars, identity>>

Names == {"kernel_default", "from_MAC", "random"}
Identities == [name : Names, address : Addresses \cup {Loopback}]

TypeOK ==
    /\ next \in 1..(Len(Plan) + 1)
    /\ stage \in {"calls", "identity", "dhcp", "wait", "hosts", "services", "up", "halted"}
    /\ refused \subseteq 1..Len(Plan)
    /\ controllers \in BOOLEAN
    /\ groups \subseteq {Plan[i].at : i \in 1..Len(Plan)} /\ delegated \subseteq groups \cup {Cgroup}
    /\ self \in {Cgroup, Group(<<"init">>)}
    /\ forwarding \in BOOLEAN /\ nic \in BOOLEAN /\ dhclient \in BOOLEAN /\ found \in BOOLEAN
    /\ lease \in Addresses \cup {Nil}
    /\ polls \in 0..Polls
    /\ hostname \in Names
    /\ hosts \in Identities \cup {Nil}
    /\ identity \in Identities \cup {Nil}
    /\ Len(mounts) > 0 /\ mounts[1].at = <<>>

Init ==
    /\ next = 1 /\ stage = "calls"
    /\ mounts \in Initramfs
    /\ refused = {}
    /\ controllers = FALSE /\ groups = {} /\ delegated = {} /\ self = Cgroup
    /\ forwarding = FALSE
    /\ nic \in BOOLEAN /\ lease = Nil
    /\ dhclient = FALSE /\ polls = 0 /\ found = FALSE
    /\ hostname = "kernel_default"
    /\ hosts = Nil /\ identity = Nil

-----------------------------------------------------------------------------
(* The calls.                                                              *)

Here == Plan[next]

Calling(ops) == stage = "calls" /\ Here.op \in ops

\* The next call, and after the last one the identity of the node.
Continue ==
    /\ next' = next + 1
    /\ stage' = IF next = Len(Plan) THEN "identity" ELSE stage

\* An error is logged, or leaves setupCgroups, or ends squashfs-init, which
\* as PID 1 takes the kernel down.
Fail ==
    \/ Here.error = "log" /\ Continue
    \/ /\ Here.error = "return"
       /\ next' = Len(SquashfsInit) + Len(SetupMounts) + Len(SetupCgroups) + 1
       /\ UNCHANGED stage
    \/ Here.error = "halt" /\ stage' = "halted" /\ UNCHANGED next

\* /proc/mounts can be read while procfs is on /proc.
Readable == Kernel!FsAt(mounts, Proc) = "proc"

IsMounted(path) == Readable /\ \E i \in DOMAIN mounts : mounts[i].at = path

\* A system call that has an effect, or an error.
Try(possible, effect) ==
    IF possible THEN mounts' = effect /\ Continue ELSE Fail /\ UNCHANGED mounts

TryMount ==
    Try(Kernel!CanMount(mounts, Here.at, Here.fs), Kernel!Mounted(mounts, Here.at, Here.fs))

mountsOnly == <<refused, controllers, groups, self, delegated, forwarding, wireVars, netVars, identity>>

Mount == Calling({"mount"}) /\ TryMount /\ UNCHANGED mountsOnly

\* Mutant: what is mounted is mounted again.
MountMissing_Always == Calling({"mount_if_missing"}) /\ TryMount /\ UNCHANGED mountsOnly

MountMissing ==
    /\ Calling({"mount_if_missing"})
    /\ IF IsMounted(Here.at) THEN Continue /\ UNCHANGED mounts ELSE TryMount
    /\ UNCHANGED mountsOnly

Share ==
    /\ Calling({"make_shared", "make_all_shared"})
    /\ Try(Kernel!IsMountPoint(mounts, Here.at),
           Kernel!Shared(mounts, Here.at, Here.op = "make_all_shared"))
    /\ UNCHANGED mountsOnly

\* The backing mounts of the overlay go below the new root.
Move ==
    /\ Calling({"move"})
    /\ Try(Kernel!IsMountPoint(mounts, Here.at),
           Kernel!Moved(mounts, Here.at, NewRoot \o Here.at))
    /\ UNCHANGED mountsOnly

\* switch_root takes the API file systems along, then makes the new root the
\* root; koobd replaces squashfs-init as PID 1.
Carried ==
    UNION {Kernel!Reachable(mounts, p) : p \in {q \in {<<"dev">>, Proc, Sys, Run} :
                                                  Kernel!IsMountPoint(mounts, q)}}

SwitchRoot ==
    /\ Calling({"switch_root"})
    /\ mounts' = Kernel!Chrooted(mounts, NewRoot) \o Kernel!Picked(mounts, Carried)
    /\ Continue
    /\ UNCHANGED mountsOnly

\* A v1 hierarchy is unmounted, or detached with what is mounted below.
V1Mounts ==
    UNION {Kernel!Reachable(mounts, mounts[i].at) : i \in {j \in DOMAIN mounts : mounts[j].fs = "cgroup"}}

PurgeV1Mounts ==
    /\ Calling({"purge_v1"})
    /\ Try(Readable, Kernel!Without(mounts, V1Mounts))
    /\ UNCHANGED mountsOnly

Unmount ==
    /\ Calling({"unmount"})
    /\ Try(Kernel!CanUnmount(mounts, Here.at), Kernel!Unmounted(mounts, Here.at))
    /\ UNCHANGED mountsOnly

OnCgroup2 == Kernel!FsAt(mounts, Cgroup) = "cgroup2"

\* A kernel whose controllers are all taken or left out offers none.
AvailableControllers ==
    /\ Calling({"read_controllers"})
    /\ IF OnCgroup2 THEN controllers' \in BOOLEAN /\ Continue ELSE Fail /\ UNCHANGED controllers
    /\ UNCHANGED <<mounts, refused, groups, self, delegated, forwarding, wireVars, netVars, identity>>

\* MkdirAll; anywhere else than on cgroup2 it makes mere directories.
MakeCgroup ==
    /\ Calling({"make_group"})
    /\ groups' = IF OnCgroup2
                 THEN groups \cup {SubSeq(Here.at, 1, n) : n \in (Len(Cgroup) + 1)..Len(Here.at)}
                 ELSE groups
    /\ Continue
    /\ UNCHANGED <<mounts, refused, controllers, self, delegated, forwarding, wireVars, netVars, identity>>

MoveSelfTo ==
    /\ Calling({"move_self"})
    /\ self' = IF Here.at \in groups THEN Here.at ELSE self
    /\ Continue
    /\ UNCHANGED <<mounts, refused, controllers, groups, delegated, forwarding, wireVars, netVars, identity>>

\* The kernel enables for the children of a group what its parent enabled
\* for it, in a group without processes; the root is exempt.
CanDelegate(g) ==
    /\ OnCgroup2
    /\ g # Cgroup => g \in groups /\ Front(g) \in delegated /\ self # g

\* Without a list of controllers it returns at once and says nothing.
DelegateControllers ==
    /\ Calling({"delegate"})
    /\ IF ~controllers THEN Continue /\ UNCHANGED delegated
       ELSE IF CanDelegate(Here.at) THEN delegated' = delegated \cup {Here.at} /\ Continue
       ELSE Fail /\ UNCHANGED delegated
    /\ UNCHANGED <<mounts, refused, controllers, groups, self, forwarding, wireVars, netVars, identity>>

WriteSysctls ==
    /\ Calling({"sysctl"})
    /\ forwarding' = (forwarding \/ Readable)
    /\ Continue
    /\ UNCHANGED <<mounts, refused, controllers, groups, self, delegated, wireVars, netVars, identity>>

NoCallNeeded ==
    \/ Here.op = "mount_if_missing" /\ IsMounted(Here.at)
    \/ Here.op = "delegate" /\ ~controllers

\* The kernel, or the directory that a mount needs, says no.
Refuse ==
    /\ stage = "calls" /\ ~NoCallNeeded
    /\ Cardinality(refused) < MaxRefused
    /\ refused' = refused \cup {next}
    /\ Fail
    /\ UNCHANGED <<mounts, controllers, groups, self, delegated, forwarding, wireVars, netVars, identity>>

MakeCall ==
    \/ Mount \/ MountMissing \/ Share \/ Move \/ SwitchRoot
    \/ PurgeV1Mounts \/ Unmount
    \/ AvailableControllers \/ MakeCgroup \/ MoveSelfTo \/ DelegateControllers
    \/ WriteSysctls

-----------------------------------------------------------------------------
(* The name and the address of the node.                                   *)

Go(from, to) == stage = from /\ stage' = to /\ UNCHANGED <<next, kernelVars, wireVars, identity>>

\* Mutant: the host name is set by a goroutine that nothing waits for.
SetDynamicHostname_Async ==
    \/ Go("identity", "dhcp") /\ UNCHANGED netVars
    \/ /\ stage \notin {"calls", "identity", "halted"} /\ hostname = "kernel_default"
       /\ hostname' = "random"
       /\ UNCHANGED <<next, stage, kernelVars, wireVars, dhclient, polls, found, hosts, identity>>

\* The MAC address is in sysfs; when it cannot be read the name is a time
\* stamp.  Sethostname may fail.
SetDynamicHostname ==
    /\ Go("identity", "dhcp")
    /\ \/ nic /\ Kernel!FsAt(mounts, Sys) = "sysfs" /\ hostname' = "from_MAC"
       \/ hostname' = "random"
       \/ UNCHANGED hostname
    /\ UNCHANGED <<dhclient, polls, found, hosts>>

\* No interface, or a client that cannot be started: boot goes on at once.
ConfigureDynamicNet ==
    /\ \/ nic /\ Go("dhcp", "wait") /\ dhclient' = TRUE
       \/ Go("dhcp", "services") /\ UNCHANGED dhclient
    /\ UNCHANGED <<polls, hostname, found, hosts>>

\* DefaultIP: an IPv4 address on the first interface named eth* or en*.
HasAddress == nic /\ lease # Nil

PollFinds ==
    /\ HasAddress
    /\ Go("wait", "hosts")
    /\ found' = TRUE
    /\ UNCHANGED <<dhclient, polls, hostname, hosts>>

\* Mutant: the loop goes on until there is an address.
PollAgain_Forever ==
    /\ ~HasAddress
    /\ Go("wait", "wait")
    /\ polls' = (polls + 1) % Polls
    /\ UNCHANGED <<dhclient, hostname, found, hosts>>

\* Mutant: one poll too many.
PollAgain_OneMore ==
    /\ ~HasAddress
    /\ Go("wait", IF polls < Polls THEN "wait" ELSE "services")
    /\ polls' = polls + 1
    /\ UNCHANGED <<dhclient, hostname, found, hosts>>

\* After the last of the polls boot continues without network.
PollAgain ==
    /\ ~HasAddress
    /\ Go("wait", IF polls + 1 < Polls THEN "wait" ELSE "services")
    /\ polls' = polls + 1
    /\ UNCHANGED <<dhclient, hostname, found, hosts>>

WriteHosts ==
    /\ Go("hosts", "services")
    /\ hosts' \in {hosts, [name |-> hostname, address |-> lease]}
    /\ UNCHANGED <<dhclient, polls, hostname, found>>

\* startManagedServices and StartShell; Koobd goes on from here.
StartServicesAndShell == Go("services", "up") /\ UNCHANGED netVars

BootStep ==
    \/ MakeCall
    \/ SetDynamicHostname \/ ConfigureDynamicNet \/ PollFinds \/ PollAgain \/ WriteHosts
    \/ StartServicesAndShell

-----------------------------------------------------------------------------
(* The hardware, the network and the operator.                             *)

NicAppears ==
    /\ ~nic /\ nic' = TRUE
    /\ UNCHANGED <<next, stage, kernelVars, lease, netVars, identity>>

\* koobd's client, or one that the operator starts in the shell; the lease
\* is not renewed.
LeaseArrives ==
    /\ nic /\ lease = Nil /\ (dhclient \/ stage = "up")
    /\ lease' \in Addresses
    /\ UNCHANGED <<next, stage, kernelVars, nic, netVars, identity>>

\* koobadm init: os.Hostname and DefaultIP, with 127.0.0.1 to fall back on.
TakeIdentity ==
    /\ stage = "up"
    /\ identity' = [name |-> hostname, address |-> IF HasAddress THEN lease ELSE Loopback]
    /\ UNCHANGED <<next, stage, kernelVars, wireVars, netVars>>

Next == BootStep \/ Refuse \/ NicAppears \/ LeaseArrives \/ TakeIdentity

Spec == Init /\ [][Next]_vars

\* Every call returns, so PID 1 goes on; nothing is assumed of the hardware
\* and the network.
FairSpec == Spec /\ WF_vars(BootStep)

-----------------------------------------------------------------------------

CallsMade == stage \notin {"calls", "halted"}

Refused(ops, at) == \E k \in refused : Plan[k].op \in ops /\ Plan[k].at = at

\* The directories that the image fills (hack/init-rootfs.sh, fetch-deps.sh).
Shipped == {<<"bin">>, <<"usr", "lib">>, <<"etc", "ssl", "certs">>, <<"var", "lib", "kubelet">>, CniBin}

\* While /proc/mounts can be read no mount ends up over another, whatever
\* an earlier boot stage left and whichever calls fail (MountIfMissing, and
\* the order of setupMounts); and of the image only the CNI plugins are
\* hidden, by the tmpfs of mounts.go:145.
NothingCovered ==
    /\ Readable => \A i \in DOMAIN mounts : ~Kernel!Covered(mounts, i)
    /\ CallsMade => \A d \in Shipped \ {CniBin} : Kernel!FsAt(mounts, d) = "overlay"

\* The failure of one call is contained: each file system of setupMounts and
\* setupCgroups is on its place when boot goes on, unless its own mount was
\* refused, or for cgroup2 the removal of what was there before.
MountsStandAlone ==
    CallsMade => \A k \in MountCalls :
        \/ Kernel!FsAt(mounts, Plan[k].at) = Plan[k].fs
        \/ Refused({"mount_if_missing"}, Plan[k].at)
        \/ Plan[k].at = Cgroup /\ Refused({"purge_v1", "unmount"}, Cgroup)

\* Propagation, which the pods rely on: a mount point that koobd shares is
\* shared unless just that call, or the mount itself, was refused.  The mount
\* of cgroup2 fails too, and its share is not tried (cgroups.go:54-57), where
\* an old cgroup2 could not be unmounted and /proc/mounts does not show it.
SharedUnlessRefused ==
    CallsMade => \A k \in ShareCalls :
        \/ ~Kernel!IsMountPoint(mounts, Plan[k].at)
        \/ mounts[Kernel!Lookup(mounts, Plan[k].at)].shared
        \/ Refused({Plan[k].op, "mount_if_missing"}, Plan[k].at)
        \/ Plan[k].at = Cgroup /\ ~Readable /\ Refused({"unmount"}, Cgroup)

\* With cgroup2 in place and a list of controllers, the controllers reach
\* every group unless a call on it or on a group above it was refused, and
\* PID 1 is out of the way, unless setupCgroups was left at an old cgroup2
\* that /proc/mounts does not show and that could not be unmounted; routing is
\* on whatever became of the cgroups.
KernelReady ==
    CallsMade =>
        /\ OnCgroup2 /\ controllers =>
            \A g \in {Cgroup, System, PodRuntime, KubePods, BestEffort, Burstable} :
                \/ g \in delegated
                \/ \E k \in refused : Plan[k].op \in {"make_group", "delegate"} /\ IsPrefix(Plan[k].at, g)
        /\ \/ ~OnCgroup2 \/ self # Cgroup
           \/ Refused({"make_group", "move_self"}, Group(<<"init">>))
           \/ ~Readable /\ Refused({"unmount"}, Cgroup)
        /\ Readable /\ ~Refused({"sysctl"}, Proc) => forwarding

\* What init takes for the identity of the node (main.go:187-208) is what
\* /etc/hosts says, and it is 127.0.0.1 only on a node whose boot went on
\* without an address, however late the card and the lease come.
IdentityIsReady ==
    identity # Nil =>
        /\ hosts # Nil => identity = hosts
        /\ found => identity.address # Loopback

\* Neither a missing card nor a silent DHCP server keeps the node from its
\* services and its shell (net.go:111-143).
BootReachesShell == <>(stage \in {"up", "halted"})
=============================================================================
