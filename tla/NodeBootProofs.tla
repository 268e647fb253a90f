--------------------------- MODULE NodeBootProofs ---------------------------
(***************************************************************************)
(* Theorems about NodeBoot, for any mount table that squashfs-init may     *)
(* start with, any number of calls refused and any number of polls.        *)
(*                                                                         *)
(* The identity that koobadm init takes is the one that boot wrote down:   *)
(* the host name is set before the wait for an address, and never again    *)
(* (Named); the wait ends with an address only when there is one, which    *)
(* stays, since there is no other lease (Leased); so /etc/hosts and init   *)
(* read the same two values.  None of this depends on the list of calls.   *)
(*                                                                         *)
(* The mounts do, and so the first lemmas compute it.  An entry of the     *)
(* table is told by its path and file system, seldom by its index, and     *)
(* what a look-up of a path meets is its Top.  The invariant says          *)
(*   Shape     which entries there may be before the call that is next,    *)
(*             and that none covers another while procfs is on /proc       *)
(*             (/proc/mounts is what tells MountIfMissing what is there);  *)
(*   Progress  of every call that was made: its mount is on its place,     *)
(*             its share took effect, or one of the calls that this        *)
(*             depends on was refused;                                     *)
(*   GroupInv  the same of the cgroups, the controllers, PID 1's own       *)
(*             group and the forwarding of packets;                        *)
(*   Flow      the next call and what was refused are calls of the plan,   *)
(*             and all calls are made once the boot goes on.               *)
(* Each kind of call keeps Shape and Progress because of where it stands   *)
(* in the plan: no call touches a path above one that an earlier call      *)
(* mounted or shared, save switch_root, which takes the API file systems   *)
(* along, and the purge and unmount of the old cgroups, which precede the  *)
(* mount of cgroup2.                                                       *)
(***************************************************************************)
EXTENDS NodeBoot, TLAPS

Stages == {"calls", "identity", "dhcp", "wait", "hosts", "services", "up", "halted"}

WireTypeOK ==
    /\ stage \in Stages
    /\ nic \in BOOLEAN /\ found \in BOOLEAN
    /\ lease \in Addresses \cup {Nil}

\* What was written down has the name of this node.
Named ==
    /\ hosts # Nil => stage \in {"services", "up"} /\ hosts.name = hostname
    /\ identity # Nil => stage = "up" /\ identity.name = hostname

\* An address that boot waited for is the address.
Leased ==
    /\ stage = "hosts" => found
    /\ found => HasAddress
    /\ hosts # Nil => found /\ hosts.address = lease
    /\ identity # Nil /\ found => identity.address = lease

\* Both have a name and an address, and nothing else.
Records ==
    /\ hosts # Nil => hosts = [name |-> hosts.name, address |-> hosts.address]
    /\ identity # Nil => identity = [name |-> identity.name, address |-> identity.address]

IInv == WireTypeOK /\ Named /\ Leased /\ Records

-----------------------------------------------------------------------------

LEMMA InitInv == Init => IInv
BY DEF Init, IInv, WireTypeOK, Stages, Named, Leased, Records

\* After the calls comes the identity, or nothing at all.
LEMMA FailFacts ==
    ASSUME stage = "calls", Fail \/ Continue
    PROVE  stage' \in {"calls", "identity", "halted"}
BY DEF Fail, Continue

\* No call to the kernel touches what is on the wire or written down.
LEMMA CallInv ==
    ASSUME IInv, MakeCall \/ Refuse
    PROVE  IInv'
<1>1. /\ stage = "calls" /\ (Fail \/ Continue)
      /\ UNCHANGED <<wireVars, netVars, identity>>
  BY DEF MakeCall, Calling, Mount, MountMissing, TryMount, Try, Share, Move, SwitchRoot,
         PurgeV1Mounts, Unmount, AvailableControllers, MakeCgroup, MoveSelfTo,
         DelegateControllers, WriteSysctls, Refuse, mountsOnly
<1>2. UNCHANGED <<nic, lease, hostname, found, hosts, identity>>
  BY <1>1 DEF wireVars, netVars
<1>3. stage' \in {"calls", "identity", "halted"}
  BY <1>1, FailFacts
<1> QED
  BY <1>1, <1>2, <1>3
  DEF IInv, WireTypeOK, Stages, Named, Leased, Records, HasAddress

\* Nothing is written down before the services are started.
LEMMA NothingYet ==
    ASSUME IInv, stage \notin {"services", "up"}
    PROVE  hosts = Nil /\ identity = Nil
BY DEF IInv, Named

LEMMA NetInv ==
    ASSUME IInv,
           \/ SetDynamicHostname \/ ConfigureDynamicNet \/ PollFinds \/ PollAgain \/ WriteHosts
           \/ StartServicesAndShell
    PROVE  IInv'
<1> USE DEF IInv, WireTypeOK, Stages, Named, Leased, Records, HasAddress, Go, wireVars, netVars
<1>1. CASE SetDynamicHostname
  <2>1. hosts = Nil /\ identity = Nil /\ stage = "identity"
    BY <1>1, NothingYet DEF SetDynamicHostname
  <2>2. stage' = "dhcp" /\ UNCHANGED <<nic, lease, found, hosts, identity>>
    BY <1>1 DEF SetDynamicHostname
  <2> QED
    BY <2>1, <2>2
<1>2. CASE ConfigureDynamicNet
  <2>1. hosts = Nil /\ identity = Nil
    BY <1>2, NothingYet DEF ConfigureDynamicNet
  <2>2. stage' \in {"wait", "services"} /\ UNCHANGED <<nic, lease, hostname, found, hosts, identity>>
    BY <1>2 DEF ConfigureDynamicNet
  <2> QED
    BY <2>1, <2>2
<1>3. CASE PollFinds
  <2>1. hosts = Nil /\ identity = Nil
    BY <1>3, NothingYet DEF PollFinds
  <2>2. /\ HasAddress /\ found' = TRUE
        /\ stage' = "hosts" /\ UNCHANGED <<nic, lease, hostname, hosts, identity>>
    BY <1>3 DEF PollFinds
  <2> QED
    BY <2>1, <2>2
<1>4. CASE PollAgain
  <2>1. hosts = Nil /\ identity = Nil
    BY <1>4, NothingYet DEF PollAgain
  <2>2. stage' \in {"wait", "services"} /\ UNCHANGED <<nic, lease, hostname, found, hosts, identity>>
    BY <1>4 DEF PollAgain
  <2> QED
    BY <2>1, <2>2
<1>5. CASE WriteHosts
  <2>1. hosts = Nil /\ identity = Nil
    BY <1>5, NothingYet DEF WriteHosts
  <2> QED
    BY <1>5, <2>1 DEF WriteHosts
<1>6. CASE StartServicesAndShell
  BY <1>6 DEF StartServicesAndShell
<1> HIDE DEF IInv
<1> QED
  BY <1>1, <1>2, <1>3, <1>4, <1>5, <1>6

LEMMA StepInv == IInv /\ [Next]_vars => IInv'
<1> SUFFICES ASSUME IInv, [Next]_vars
             PROVE  IInv'
  OBVIOUS
<1> USE DEF IInv, WireTypeOK, Stages, Named, Leased, Records, HasAddress
<1>1. CASE NicAppears
  <2>1. /\ nic' = TRUE /\ ~nic /\ UNCHANGED <<stage, lease, hostname, found, hosts, identity>>
    BY <1>1 DEF NicAppears, netVars
  <2> QED
    BY <2>1
<1>2. CASE LeaseArrives
  <2>1. /\ lease = Nil /\ lease' \in Addresses
        /\ UNCHANGED <<stage, nic, hostname, found, hosts, identity>>
    BY <1>2 DEF LeaseArrives, netVars
  <2>2. ~found
    BY <2>1
  <2>3. hosts = Nil
    BY <2>2
  <2> QED
    BY <2>1, <2>2, <2>3, NodeBootAssumption
<1>3. CASE TakeIdentity
  BY <1>3 DEF TakeIdentity, wireVars, netVars
<1>4. CASE UNCHANGED vars
  BY <1>4 DEF vars, wireVars, netVars
<1> HIDE DEF IInv
<1> QED
  BY <1>1, <1>2, <1>3, <1>4, CallInv, NetInv DEF Next, BootStep

\* What init takes for the identity of the node is what /etc/hosts says, and
\* no loopback address where boot found another, for any mounts that failed
\* before it and any order of card, lease and polls.
THEOREM IdentityTaken == Spec => []IdentityIsReady
<1>1. ASSUME IInv, identity # Nil
      PROVE  /\ hosts # Nil => identity = hosts
             /\ found => identity.address # Loopback
  <2>1. found => identity.address \in Addresses
    BY <1>1 DEF IInv, WireTypeOK, Leased, HasAddress
  <2>2. hosts # Nil => identity = hosts
    BY <1>1 DEF IInv, Named, Leased, Records
  <2> QED
    BY <2>1, <2>2, NodeBootAssumption
<1>2. IInv => IdentityIsReady
  BY <1>1 DEF IdentityIsReady
<1>3. Spec => []IInv
  BY InitInv, StepInv, PTL DEF Spec
<1> QED
  BY <1>2, <1>3, PTL

-----------------------------------------------------------------------------
Segment == STRING \cup {"proc", "sys", "dev", "run", "fs", "bpf", "cgroup", "opt", "cni", "bin",
    "newroot", "mnt", "squashfs", "tmpfs", "pts", "etc", "sysctl.d", "net.d", "var", "lib", "usr",
    "ssl", "certs", "kubelet", "containerd", "system", "podruntime", "kubepods", "besteffort",
    "burstable", "init"}
FsType == STRING \cup {"proc", "sysfs", "devtmpfs", "squashfs", "tmpfs", "overlay", "none", "devpts",
    "bpf", "cgroup", "cgroup2"}

T == INSTANCE MountTableProofs
    WITH Singletons <- {"proc", "sysfs", "devtmpfs", "cgroup2"}, Segment <- Segment, FsType <- FsType

Path == T!Path
Entry == T!Entry
Table == T!Table

Ops == {"mount", "mount_if_missing", "make_all_shared", "make_shared", "move", "switch_root",
    "purge_v1", "unmount", "read_controllers", "make_group", "move_self", "delegate", "sysctl"}
Calls == [op : Ops, at : Path, fs : FsType, error : {"log", "halt", "return"}]

LEMMA PathsAre ==
    /\ <<>> \in Path /\ Proc \in Path /\ Sys \in Path /\ Run \in Path /\ Bpf \in Path /\ Cgroup \in Path /\ CniBin \in Path
    /\ NewRoot \in Path /\ SquashMount \in Path /\ TmpfsMount \in Path
    /\ <<"dev">> \in Path /\ <<"dev", "pts">> \in Path /\ <<"etc", "sysctl.d">> \in Path
    /\ <<"etc", "cni", "net.d">> \in Path /\ <<"var", "lib", "containerd">> \in Path
    /\ Group(<<"init">>) \in Path /\ System \in Path /\ PodRuntime \in Path /\ KubePods \in Path
    /\ BestEffort \in Path /\ Burstable \in Path
BY DEF Path, T!Path, Segment, Group, System, PodRuntime, KubePods, BestEffort, Burstable, Proc, Sys,
     Run, Bpf, Cgroup, CniBin, NewRoot, SquashMount, TmpfsMount

LEMMA CallIs ==
    ASSUME NEW o \in Ops, NEW p \in Path, NEW f \in FsType, NEW e \in {"log", "halt", "return"}
    PROVE  Call(o, p, f, e) \in Calls
BY DEF Call, Calls

\* The calls of s, then those of t: opaque to the provers below this lemma.
Then(s, t) == s \o t

LEMMA ThenIs ==
    \A s, t \in Seq(Calls) :
        /\ Then(s, t) \in Seq(Calls) /\ Len(Then(s, t)) = Len(s) + Len(t)
        /\ \A i \in Int : 1 <= i /\ i <= Len(s) => Then(s, t)[i] = s[i]
        /\ \A i \in Int : 1 <= i /\ i <= Len(t) => Then(s, t)[Len(s) + i] = t[i]
BY DEF Then

LEMMA SquashfsInitIs ==
    /\ SquashfsInit \in Seq(Calls) /\ Len(SquashfsInit) = 9
    /\ SquashfsInit[1] = Call("mount", Proc, "proc", "log")
    /\ SquashfsInit[2] = MountIfMissing(Sys, "sysfs")
    /\ SquashfsInit[3] = MountIfMissing(<<"dev">>, "devtmpfs")
    /\ SquashfsInit[4] = Must("mount", SquashMount, "squashfs")
    /\ SquashfsInit[5] = Must("mount", TmpfsMount, "tmpfs")
    /\ SquashfsInit[6] = Must("mount", NewRoot, "overlay")
    /\ SquashfsInit[7] = Call("move", SquashMount, NoFs, "log")
    /\ SquashfsInit[8] = Call("move", TmpfsMount, NoFs, "log")
    /\ SquashfsInit[9] = Must("switch_root", NewRoot, NoFs)
<1>1. /\ Call("mount", Proc, "proc", "log") \in Calls
      /\ MountIfMissing(Sys, "sysfs") \in Calls
      /\ MountIfMissing(<<"dev">>, "devtmpfs") \in Calls
      /\ Must("mount", SquashMount, "squashfs") \in Calls
      /\ Must("mount", TmpfsMount, "tmpfs") \in Calls
      /\ Must("mount", NewRoot, "overlay") \in Calls
      /\ Call("move", SquashMount, NoFs, "log") \in Calls
      /\ Call("move", TmpfsMount, NoFs, "log") \in Calls
      /\ Must("switch_root", NewRoot, NoFs) \in Calls
  BY PathsAre, CallIs DEF Must, MountIfMissing, MakeShared, Delegate, MakeGroup, Ops, FsType, NoFs
<1>2. Len(SquashfsInit) = 9
  BY DEF SquashfsInit
<1>3. SquashfsInit \in Seq(Calls)
  BY <1>1 DEF SquashfsInit
<1> QED
  BY <1>2, <1>3 DEF SquashfsInit

LEMMA MountAPIFilesystemsIs ==
    /\ MountAPIFilesystems \in Seq(Calls) /\ Len(MountAPIFilesystems) = 4
    /\ MountAPIFilesystems[1] = MakeShared(<<>>)
    /\ MountAPIFilesystems[2] = MountIfMissing(Proc, "proc")
    /\ MountAPIFilesystems[3] = MountIfMissing(Sys, "sysfs")
    /\ MountAPIFilesystems[4] = MakeShared(Sys)
<1>1. /\ MakeShared(<<>>) \in Calls
      /\ MountIfMissing(Proc, "proc") \in Calls
      /\ MountIfMissing(Sys, "sysfs") \in Calls
      /\ MakeShared(Sys) \in Calls
  BY PathsAre, CallIs DEF Must, MountIfMissing, MakeShared, Delegate, MakeGroup, Ops, FsType, NoFs
<1>2. Len(MountAPIFilesystems) = 4
  BY DEF MountAPIFilesystems
<1>3. MountAPIFilesystems \in Seq(Calls)
  BY <1>1 DEF MountAPIFilesystems
<1> QED
  BY <1>2, <1>3 DEF MountAPIFilesystems

LEMMA SetupDevNodesIs ==
    /\ SetupDevNodes \in Seq(Calls) /\ Len(SetupDevNodes) = 2
    /\ SetupDevNodes[1] = MountIfMissing(<<"dev">>, "devtmpfs")
    /\ SetupDevNodes[2] = MountIfMissing(<<"dev", "pts">>, "devpts")
<1>1. /\ MountIfMissing(<<"dev">>, "devtmpfs") \in Calls
      /\ MountIfMissing(<<"dev", "pts">>, "devpts") \in Calls
  BY PathsAre, CallIs DEF Must, MountIfMissing, MakeShared, Delegate, MakeGroup, Ops, FsType, NoFs
<1>2. Len(SetupDevNodes) = 2
  BY DEF SetupDevNodes
<1>3. SetupDevNodes \in Seq(Calls)
  BY <1>1 DEF SetupDevNodes
<1> QED
  BY <1>2, <1>3 DEF SetupDevNodes

LEMMA SetupRuntimeStorageIs ==
    /\ SetupRuntimeStorage \in Seq(Calls) /\ Len(SetupRuntimeStorage) = 6
    /\ SetupRuntimeStorage[1] = MountIfMissing(Run, "tmpfs")
    /\ SetupRuntimeStorage[2] = MakeShared(Run)
    /\ SetupRuntimeStorage[3] = MountIfMissing(<<"etc", "sysctl.d">>, "tmpfs")
    /\ SetupRuntimeStorage[4] = MountIfMissing(CniBin, "tmpfs")
    /\ SetupRuntimeStorage[5] = MountIfMissing(<<"etc", "cni", "net.d">>, "tmpfs")
    /\ SetupRuntimeStorage[6] = MountIfMissing(<<"var", "lib", "containerd">>, "tmpfs")
<1>1. /\ MountIfMissing(Run, "tmpfs") \in Calls
      /\ MakeShared(Run) \in Calls
      /\ MountIfMissing(<<"etc", "sysctl.d">>, "tmpfs") \in Calls
      /\ MountIfMissing(CniBin, "tmpfs") \in Calls
      /\ MountIfMissing(<<"etc", "cni", "net.d">>, "tmpfs") \in Calls
      /\ MountIfMissing(<<"var", "lib", "containerd">>, "tmpfs") \in Calls
  BY PathsAre, CallIs DEF Must, MountIfMissing, MakeShared, Delegate, MakeGroup, Ops, FsType, NoFs
<1>2. Len(SetupRuntimeStorage) = 6
  BY DEF SetupRuntimeStorage
<1>3. SetupRuntimeStorage \in Seq(Calls)
  BY <1>1 DEF SetupRuntimeStorage
<1> QED
  BY <1>2, <1>3 DEF SetupRuntimeStorage

LEMMA SetupBPFIs ==
    /\ SetupBPF \in Seq(Calls) /\ Len(SetupBPF) = 2
    /\ SetupBPF[1] = MountIfMissing(Bpf, "bpf")
    /\ SetupBPF[2] = MakeShared(Bpf)
<1>1. /\ MountIfMissing(Bpf, "bpf") \in Calls
      /\ MakeShared(Bpf) \in Calls
  BY PathsAre, CallIs DEF Must, MountIfMissing, MakeShared, Delegate, MakeGroup, Ops, FsType, NoFs
<1>2. Len(SetupBPF) = 2
  BY DEF SetupBPF
<1>3. SetupBPF \in Seq(Calls)
  BY <1>1 DEF SetupBPF
<1> QED
  BY <1>2, <1>3 DEF SetupBPF

\* Eighteen calls, as setupCgroups has them, are a sequence of calls.
LEMMA EighteenCalls ==
    \A S : \A a1, a2, a3, a4, a5, a6, a7, a8, a9, a10, a11, a12, a13, a14, a15, a16, a17, a18 \in S :
        <<a1, a2, a3, a4, a5, a6, a7, a8, a9, a10, a11, a12, a13, a14, a15, a16, a17, a18>> \in Seq(S)
OBVIOUS

LEMMA SetupCgroupsIs ==
    /\ SetupCgroups \in Seq(Calls) /\ Len(SetupCgroups) = 18
    /\ SetupCgroups[1] = Call("purge_v1", Cgroup, "cgroup", "log")
    /\ SetupCgroups[2] = Call("unmount", Cgroup, NoFs, "log")
    /\ SetupCgroups[3] = Call("mount_if_missing", Cgroup, "cgroup2", "return")
    /\ SetupCgroups[4] = Call("make_shared", Cgroup, NoFs, "log")
    /\ SetupCgroups[5] = Call("read_controllers", Cgroup, NoFs, "log")
    /\ SetupCgroups[6] = MakeGroup(Group(<<"init">>))
    /\ SetupCgroups[7] = MakeGroup(System)
    /\ SetupCgroups[8] = MakeGroup(PodRuntime)
    /\ SetupCgroups[9] = MakeGroup(KubePods)
    /\ SetupCgroups[10] = MakeGroup(BestEffort)
    /\ SetupCgroups[11] = MakeGroup(Burstable)
    /\ SetupCgroups[12] = Call("move_self", Group(<<"init">>), NoFs, "log")
    /\ SetupCgroups[13] = Delegate(Cgroup)
    /\ SetupCgroups[14] = Delegate(System)
    /\ SetupCgroups[15] = Delegate(PodRuntime)
    /\ SetupCgroups[16] = Delegate(KubePods)
    /\ SetupCgroups[17] = Delegate(BestEffort)
    /\ SetupCgroups[18] = Delegate(Burstable)
<1>1. /\ Call("purge_v1", Cgroup, "cgroup", "log") \in Calls
      /\ Call("unmount", Cgroup, NoFs, "log") \in Calls
      /\ Call("mount_if_missing", Cgroup, "cgroup2", "return") \in Calls
      /\ Call("make_shared", Cgroup, NoFs, "log") \in Calls
      /\ Call("read_controllers", Cgroup, NoFs, "log") \in Calls
      /\ MakeGroup(Group(<<"init">>)) \in Calls
      /\ MakeGroup(System) \in Calls
      /\ MakeGroup(PodRuntime) \in Calls
      /\ MakeGroup(KubePods) \in Calls
      /\ MakeGroup(BestEffort) \in Calls
      /\ MakeGroup(Burstable) \in Calls
      /\ Call("move_self", Group(<<"init">>), NoFs, "log") \in Calls
      /\ Delegate(Cgroup) \in Calls
      /\ Delegate(System) \in Calls
      /\ Delegate(PodRuntime) \in Calls
      /\ Delegate(KubePods) \in Calls
      /\ Delegate(BestEffort) \in Calls
      /\ Delegate(Burstable) \in Calls
  BY PathsAre, CallIs DEF Must, MountIfMissing, MakeShared, Delegate, MakeGroup, Ops, FsType, NoFs
<1>2. Len(SetupCgroups) = 18
  BY DEF SetupCgroups
<1>3. SetupCgroups \in Seq(Calls)
  BY EighteenCalls, <1>1 DEF SetupCgroups
<1> QED
  BY <1>2, <1>3 DEF SetupCgroups

LEMMA ConfigureSysctlsIs ==
    /\ ConfigureSysctls \in Seq(Calls) /\ Len(ConfigureSysctls) = 1
    /\ ConfigureSysctls[1] = Call("sysctl", Proc, NoFs, "log")
<1>1. /\ Call("sysctl", Proc, NoFs, "log") \in Calls
  BY PathsAre, CallIs DEF Must, MountIfMissing, MakeShared, Delegate, MakeGroup, Ops, FsType, NoFs
<1>2. Len(ConfigureSysctls) = 1
  BY DEF ConfigureSysctls
<1>3. ConfigureSysctls \in Seq(Calls)
  BY <1>1 DEF ConfigureSysctls
<1> QED
  BY <1>2, <1>3 DEF ConfigureSysctls

LEMMA SetupMountsIs ==
    /\ SetupMounts \in Seq(Calls) /\ Len(SetupMounts) = 14
    /\ SetupMounts[1] = MakeShared(<<>>)
    /\ SetupMounts[2] = MountIfMissing(Proc, "proc")
    /\ SetupMounts[3] = MountIfMissing(Sys, "sysfs")
    /\ SetupMounts[4] = MakeShared(Sys)
    /\ SetupMounts[5] = MountIfMissing(<<"dev">>, "devtmpfs")
    /\ SetupMounts[6] = MountIfMissing(<<"dev", "pts">>, "devpts")
    /\ SetupMounts[7] = MountIfMissing(Run, "tmpfs")
    /\ SetupMounts[8] = MakeShared(Run)
    /\ SetupMounts[9] = MountIfMissing(<<"etc", "sysctl.d">>, "tmpfs")
    /\ SetupMounts[10] = MountIfMissing(CniBin, "tmpfs")
    /\ SetupMounts[11] = MountIfMissing(<<"etc", "cni", "net.d">>, "tmpfs")
    /\ SetupMounts[12] = MountIfMissing(<<"var", "lib", "containerd">>, "tmpfs")
    /\ SetupMounts[13] = MountIfMissing(Bpf, "bpf")
    /\ SetupMounts[14] = MakeShared(Bpf)
<1> DEFINE s2 == Then(MountAPIFilesystems, SetupDevNodes)
           s3 == Then(s2, SetupRuntimeStorage)
           s4 == Then(s3, SetupBPF)
<1>1. SetupMounts = s4
  BY DEF SetupMounts, Then
<1>2. /\ MountAPIFilesystems \in Seq(Calls) /\ Len(MountAPIFilesystems) = 4
      /\ SetupDevNodes \in Seq(Calls) /\ Len(SetupDevNodes) = 2
      /\ SetupRuntimeStorage \in Seq(Calls) /\ Len(SetupRuntimeStorage) = 6
      /\ SetupBPF \in Seq(Calls) /\ Len(SetupBPF) = 2
  BY MountAPIFilesystemsIs, SetupDevNodesIs, SetupRuntimeStorageIs, SetupBPFIs
<1>3. /\ s2 \in Seq(Calls) /\ Len(s2) = 6
      /\ \A i \in Int : 1 <= i /\ i <= 4 => s2[i] = MountAPIFilesystems[i]
      /\ \A i \in Int : 1 <= i /\ i <= 2 => s2[4 + i] = SetupDevNodes[i]
  <2>1. MountAPIFilesystems \in Seq(Calls) /\ SetupDevNodes \in Seq(Calls) /\ Len(MountAPIFilesystems) = 4 /\ Len(SetupDevNodes) = 2
    BY <1>2
  <2>2. /\ s2 \in Seq(Calls) /\ Len(s2) = Len(MountAPIFilesystems) + Len(SetupDevNodes)
        /\ \A i \in Int : 1 <= i /\ i <= Len(MountAPIFilesystems) => s2[i] = MountAPIFilesystems[i]
        /\ \A i \in Int : 1 <= i /\ i <= Len(SetupDevNodes) => s2[Len(MountAPIFilesystems) + i] = SetupDevNodes[i]
    BY <2>1, ThenIs
  <2> HIDE DEF s2
  <2>3. /\ Len(s2) = 4 + 2
        /\ \A i \in Int : 1 <= i /\ i <= 4 => s2[i] = MountAPIFilesystems[i]
        /\ \A i \in Int : 1 <= i /\ i <= 2 => s2[4 + i] = SetupDevNodes[i]
    BY <2>1, <2>2, Zenon
  <2>4. Len(s2) = 6
    BY <2>3
  <2> QED
    BY <2>2, <2>3, <2>4, Zenon
<1> HIDE DEF s2
<1>4. /\ s3 \in Seq(Calls) /\ Len(s3) = 12
      /\ \A i \in Int : 1 <= i /\ i <= 6 => s3[i] = s2[i]
      /\ \A i \in Int : 1 <= i /\ i <= 6 => s3[6 + i] = SetupRuntimeStorage[i]
  <2>1. s2 \in Seq(Calls) /\ SetupRuntimeStorage \in Seq(Calls) /\ Len(s2) = 6 /\ Len(SetupRuntimeStorage) = 6
    BY <1>2, <1>3
  <2>2. /\ s3 \in Seq(Calls) /\ Len(s3) = Len(s2) + Len(SetupRuntimeStorage)
        /\ \A i \in Int : 1 <= i /\ i <= Len(s2) => s3[i] = s2[i]
        /\ \A i \in Int : 1 <= i /\ i <= Len(SetupRuntimeStorage) => s3[Len(s2) + i] = SetupRuntimeStorage[i]
    BY <2>1, ThenIs
  <2> HIDE DEF s3
  <2>3. /\ Len(s3) = 6 + 6
        /\ \A i \in Int : 1 <= i /\ i <= 6 => s3[i] = s2[i]
        /\ \A i \in Int : 1 <= i /\ i <= 6 => s3[6 + i] = SetupRuntimeStorage[i]
    BY <2>1, <2>2, Zenon
  <2>4. Len(s3) = 12
    BY <2>3
  <2> QED
    BY <2>2, <2>3, <2>4, Zenon
<1> HIDE DEF s3
<1>5. /\ s4 \in Seq(Calls) /\ Len(s4) = 14
      /\ \A i \in Int : 1 <= i /\ i <= 12 => s4[i] = s3[i]
      /\ \A i \in Int : 1 <= i /\ i <= 2 => s4[12 + i] = SetupBPF[i]
  <2>1. s3 \in Seq(Calls) /\ SetupBPF \in Seq(Calls) /\ Len(s3) = 12 /\ Len(SetupBPF) = 2
    BY <1>2, <1>4
  <2>2. /\ s4 \in Seq(Calls) /\ Len(s4) = Len(s3) + Len(SetupBPF)
        /\ \A i \in Int : 1 <= i /\ i <= Len(s3) => s4[i] = s3[i]
        /\ \A i \in Int : 1 <= i /\ i <= Len(SetupBPF) => s4[Len(s3) + i] = SetupBPF[i]
    BY <2>1, ThenIs
  <2> HIDE DEF s4
  <2>3. /\ Len(s4) = 12 + 2
        /\ \A i \in Int : 1 <= i /\ i <= 12 => s4[i] = s3[i]
        /\ \A i \in Int : 1 <= i /\ i <= 2 => s4[12 + i] = SetupBPF[i]
    BY <2>1, <2>2, Zenon
  <2>4. Len(s4) = 14
    BY <2>3
  <2> QED
    BY <2>2, <2>3, <2>4, Zenon
<1> HIDE DEF s4
<1> QED
  BY <1>1, <1>2, <1>3, <1>4, <1>5, MountAPIFilesystemsIs, SetupDevNodesIs, SetupRuntimeStorageIs, SetupBPFIs

LEMMA PlanIs ==
    /\ Len(Plan) = 42
    /\ Plan[1] = Call("mount", Proc, "proc", "log")
    /\ Plan[2] = MountIfMissing(Sys, "sysfs")
    /\ Plan[3] = MountIfMissing(<<"dev">>, "devtmpfs")
    /\ Plan[4] = Must("mount", SquashMount, "squashfs")
    /\ Plan[5] = Must("mount", TmpfsMount, "tmpfs")
    /\ Plan[6] = Must("mount", NewRoot, "overlay")
    /\ Plan[7] = Call("move", SquashMount, NoFs, "log")
    /\ Plan[8] = Call("move", TmpfsMount, NoFs, "log")
    /\ Plan[9] = Must("switch_root", NewRoot, NoFs)
    /\ Plan[10] = MakeShared(<<>>)
    /\ Plan[11] = MountIfMissing(Proc, "proc")
    /\ Plan[12] = MountIfMissing(Sys, "sysfs")
    /\ Plan[13] = MakeShared(Sys)
    /\ Plan[14] = MountIfMissing(<<"dev">>, "devtmpfs")
    /\ Plan[15] = MountIfMissing(<<"dev", "pts">>, "devpts")
    /\ Plan[16] = MountIfMissing(Run, "tmpfs")
    /\ Plan[17] = MakeShared(Run)
    /\ Plan[18] = MountIfMissing(<<"etc", "sysctl.d">>, "tmpfs")
    /\ Plan[19] = MountIfMissing(CniBin, "tmpfs")
    /\ Plan[20] = MountIfMissing(<<"etc", "cni", "net.d">>, "tmpfs")
    /\ Plan[21] = MountIfMissing(<<"var", "lib", "containerd">>, "tmpfs")
    /\ Plan[22] = MountIfMissing(Bpf, "bpf")
    /\ Plan[23] = MakeShared(Bpf)
    /\ Plan[24] = Call("purge_v1", Cgroup, "cgroup", "log")
    /\ Plan[25] = Call("unmount", Cgroup, NoFs, "log")
    /\ Plan[26] = Call("mount_if_missing", Cgroup, "cgroup2", "return")
    /\ Plan[27] = Call("make_shared", Cgroup, NoFs, "log")
    /\ Plan[28] = Call("read_controllers", Cgroup, NoFs, "log")
    /\ Plan[29] = MakeGroup(Group(<<"init">>))
    /\ Plan[30] = MakeGroup(System)
    /\ Plan[31] = MakeGroup(PodRuntime)
    /\ Plan[32] = MakeGroup(KubePods)
    /\ Plan[33] = MakeGroup(BestEffort)
    /\ Plan[34] = MakeGroup(Burstable)
    /\ Plan[35] = Call("move_self", Group(<<"init">>), NoFs, "log")
    /\ Plan[36] = Delegate(Cgroup)
    /\ Plan[37] = Delegate(System)
    /\ Plan[38] = Delegate(PodRuntime)
    /\ Plan[39] = Delegate(KubePods)
    /\ Plan[40] = Delegate(BestEffort)
    /\ Plan[41] = Delegate(Burstable)
    /\ Plan[42] = Call("sysctl", Proc, NoFs, "log")
<1> DEFINE s2 == Then(SquashfsInit, SetupMounts)
           s3 == Then(s2, SetupCgroups)
           s4 == Then(s3, ConfigureSysctls)
<1>1. Plan = s4
  BY DEF Plan, Then
<1>2. /\ SquashfsInit \in Seq(Calls) /\ Len(SquashfsInit) = 9
      /\ SetupMounts \in Seq(Calls) /\ Len(SetupMounts) = 14
      /\ SetupCgroups \in Seq(Calls) /\ Len(SetupCgroups) = 18
      /\ ConfigureSysctls \in Seq(Calls) /\ Len(ConfigureSysctls) = 1
  BY SquashfsInitIs, SetupMountsIs, SetupCgroupsIs, ConfigureSysctlsIs
<1>3. /\ s2 \in Seq(Calls) /\ Len(s2) = 23
      /\ \A i \in Int : 1 <= i /\ i <= 9 => s2[i] = SquashfsInit[i]
      /\ \A i \in Int : 1 <= i /\ i <= 14 => s2[9 + i] = SetupMounts[i]
  <2>1. SquashfsInit \in Seq(Calls) /\ SetupMounts \in Seq(Calls) /\ Len(SquashfsInit) = 9 /\ Len(SetupMounts) = 14
    BY <1>2
  <2>2. /\ s2 \in Seq(Calls) /\ Len(s2) = Len(SquashfsInit) + Len(SetupMounts)
        /\ \A i \in Int : 1 <= i /\ i <= Len(SquashfsInit) => s2[i] = SquashfsInit[i]
        /\ \A i \in Int : 1 <= i /\ i <= Len(SetupMounts) => s2[Len(SquashfsInit) + i] = SetupMounts[i]
    BY <2>1, ThenIs
  <2> HIDE DEF s2
  <2>3. /\ Len(s2) = 9 + 14
        /\ \A i \in Int : 1 <= i /\ i <= 9 => s2[i] = SquashfsInit[i]
        /\ \A i \in Int : 1 <= i /\ i <= 14 => s2[9 + i] = SetupMounts[i]
    BY <2>1, <2>2, Zenon
  <2>4. Len(s2) = 23
    BY <2>3
  <2> QED
    BY <2>2, <2>3, <2>4, Zenon
<1> HIDE DEF s2
<1>4. /\ s3 \in Seq(Calls) /\ Len(s3) = 41
      /\ \A i \in Int : 1 <= i /\ i <= 23 => s3[i] = s2[i]
      /\ \A i \in Int : 1 <= i /\ i <= 18 => s3[23 + i] = SetupCgroups[i]
  <2>1. s2 \in Seq(Calls) /\ SetupCgroups \in Seq(Calls) /\ Len(s2) = 23 /\ Len(SetupCgroups) = 18
    BY <1>2, <1>3
  <2>2. /\ s3 \in Seq(Calls) /\ Len(s3) = Len(s2) + Len(SetupCgroups)
        /\ \A i \in Int : 1 <= i /\ i <= Len(s2) => s3[i] = s2[i]
        /\ \A i \in Int : 1 <= i /\ i <= Len(SetupCgroups) => s3[Len(s2) + i] = SetupCgroups[i]
    BY <2>1, ThenIs
  <2> HIDE DEF s3
  <2>3. /\ Len(s3) = 23 + 18
        /\ \A i \in Int : 1 <= i /\ i <= 23 => s3[i] = s2[i]
        /\ \A i \in Int : 1 <= i /\ i <= 18 => s3[23 + i] = SetupCgroups[i]
    BY <2>1, <2>2, Zenon
  <2>4. Len(s3) = 41
    BY <2>3
  <2> QED
    BY <2>2, <2>3, <2>4, Zenon
<1> HIDE DEF s3
<1>5. /\ s4 \in Seq(Calls) /\ Len(s4) = 42
      /\ \A i \in Int : 1 <= i /\ i <= 41 => s4[i] = s3[i]
      /\ s4[42] = ConfigureSysctls[1]
  <2>1. s3 \in Seq(Calls) /\ ConfigureSysctls \in Seq(Calls) /\ Len(s3) = 41 /\ Len(ConfigureSysctls) = 1
    BY <1>2, <1>4
  <2>2. /\ s4 \in Seq(Calls) /\ Len(s4) = Len(s3) + Len(ConfigureSysctls)
        /\ \A i \in Int : 1 <= i /\ i <= Len(s3) => s4[i] = s3[i]
        /\ s4[Len(s3) + 1] = ConfigureSysctls[1]
    <3>1. s3 \in Seq(Calls) /\ ConfigureSysctls \in Seq(Calls)
      BY <2>1
    <3>2. /\ s4 \in Seq(Calls) /\ Len(s4) = Len(s3) + Len(ConfigureSysctls)
          /\ \A i \in Int : 1 <= i /\ i <= Len(s3) => s4[i] = s3[i]
          /\ \A i \in Int : 1 <= i /\ i <= Len(ConfigureSysctls) => s4[Len(s3) + i] = ConfigureSysctls[i]
      BY <3>1, ThenIs, Zenon
    <3> HIDE DEF s4
    <3>3. 1 \in Int /\ 1 <= 1 /\ 1 <= Len(ConfigureSysctls)
      BY <2>1
    <3> QED
      BY <3>2, <3>3, Zenon
  <2> HIDE DEF s4
  <2>3. /\ Len(s4) = 41 + 1
        /\ \A i \in Int : 1 <= i /\ i <= 41 => s4[i] = s3[i]
        /\ s4[41 + 1] = ConfigureSysctls[1]
    BY <2>1, <2>2, Zenon
  <2>4. Len(s4) = 42 /\ s4[42] = ConfigureSysctls[1]
    BY <2>3
  <2> QED
    BY <2>2, <2>3, <2>4, Zenon
<1> HIDE DEF s4
<1>6. \A i \in Int : 1 <= i /\ i <= 23 => Plan[i] = s2[i]
  <2> TAKE i \in Int
  <2> HAVE 1 <= i /\ i <= 23
  <2> QED
    BY <1>1, <1>4, <1>5
<1>7. \A i \in Int : 1 <= i /\ i <= 9 => Plan[i] = SquashfsInit[i]
  BY <1>3, <1>6
<1>8. \A i \in Int : 1 <= i /\ i <= 14 => Plan[9 + i] = SetupMounts[i]
  <2> TAKE i \in Int
  <2> HAVE 1 <= i /\ i <= 14
  <2>1. 9 + i \in Int /\ 1 <= 9 + i /\ 9 + i <= 23
    OBVIOUS
  <2> QED
    BY <1>3, <1>6, <2>1
<1>9. \A i \in Int : 1 <= i /\ i <= 18 => Plan[23 + i] = SetupCgroups[i]
  <2> TAKE i \in Int
  <2> HAVE 1 <= i /\ i <= 18
  <2>1. 23 + i \in Int /\ 1 <= 23 + i /\ 23 + i <= 41
    OBVIOUS
  <2> QED
    BY <1>1, <1>4, <1>5, <2>1
<1>10. Plan[42] = ConfigureSysctls[1] /\ Len(Plan) = 42
  BY <1>1, <1>5
<1> HIDE DEF s2, s3, s4
<1>11. /\ Plan[1] = SquashfsInit[1]
       /\ Plan[2] = SquashfsInit[2]
       /\ Plan[3] = SquashfsInit[3]
       /\ Plan[4] = SquashfsInit[4]
       /\ Plan[5] = SquashfsInit[5]
       /\ Plan[6] = SquashfsInit[6]
       /\ Plan[7] = SquashfsInit[7]
       /\ Plan[8] = SquashfsInit[8]
       /\ Plan[9] = SquashfsInit[9]
  BY <1>7
<1>12. /\ Plan[10] = SetupMounts[1]
       /\ Plan[11] = SetupMounts[2]
       /\ Plan[12] = SetupMounts[3]
       /\ Plan[13] = SetupMounts[4]
       /\ Plan[14] = SetupMounts[5]
       /\ Plan[15] = SetupMounts[6]
       /\ Plan[16] = SetupMounts[7]
       /\ Plan[17] = SetupMounts[8]
       /\ Plan[18] = SetupMounts[9]
       /\ Plan[19] = SetupMounts[10]
       /\ Plan[20] = SetupMounts[11]
       /\ Plan[21] = SetupMounts[12]
       /\ Plan[22] = SetupMounts[13]
       /\ Plan[23] = SetupMounts[14]
  BY <1>8
<1>13. /\ Plan[24] = SetupCgroups[1]
       /\ Plan[25] = SetupCgroups[2]
       /\ Plan[26] = SetupCgroups[3]
       /\ Plan[27] = SetupCgroups[4]
       /\ Plan[28] = SetupCgroups[5]
       /\ Plan[29] = SetupCgroups[6]
       /\ Plan[30] = SetupCgroups[7]
       /\ Plan[31] = SetupCgroups[8]
       /\ Plan[32] = SetupCgroups[9]
       /\ Plan[33] = SetupCgroups[10]
       /\ Plan[34] = SetupCgroups[11]
       /\ Plan[35] = SetupCgroups[12]
       /\ Plan[36] = SetupCgroups[13]
       /\ Plan[37] = SetupCgroups[14]
       /\ Plan[38] = SetupCgroups[15]
       /\ Plan[39] = SetupCgroups[16]
       /\ Plan[40] = SetupCgroups[17]
       /\ Plan[41] = SetupCgroups[18]
  BY <1>9
<1>14. /\ Plan[42] = ConfigureSysctls[1]
  BY <1>10
<1> QED
  BY <1>10, <1>11, <1>12, <1>13, <1>14, SquashfsInitIs, SetupMountsIs, SetupCgroupsIs, ConfigureSysctlsIs

-----------------------------------------------------------------------------
(* The mount table.                                                        *)

Entries(t) == {t[i] : i \in DOMAIN t}

\* The mount that a lookup of p ends in.
Top(t, p) == t[Kernel!Lookup(t, p)]

\* Nothing is over a mount at or below p, or over any mount.
Open(t, p) == \A i \in DOMAIN t : IsPrefix(p, t[i].at) => ~Kernel!Covered(t, i)
Uncovered(t) == \A i \in DOMAIN t : ~Kernel!Covered(t, i)

LEMMA PrefixIs == \A a, b : (Kernel!IsPrefix(a, b) <=> IsPrefix(a, b)) /\ (T!IsPrefix(a, b) <=> IsPrefix(a, b))
BY DEF Kernel!IsPrefix, IsPrefix, T!IsPrefix

LEMMA KernelIs ==
    /\ Kernel!Root = <<>> /\ T!Root = <<>>
    /\ \A t, p : Kernel!Lookup(t, p) = T!Lookup(t, p)
    /\ \A t, i : Kernel!Covered(t, i) = T!Covered(t, i)
    /\ \A t, p, fs : Kernel!Mounted(t, p, fs) = T!Mounted(t, p, fs)
    /\ \A t, p : Kernel!Reachable(t, p) = T!Reachable(t, p)
    /\ \A t, p, rec : Kernel!Shared(t, p, rec) = T!Shared(t, p, rec)
    /\ \A t, S : Kernel!Picked(t, S) = T!Picked(t, S)
    /\ \A t, p, q : Kernel!Moved(t, p, q) = T!Moved(t, p, q)
    /\ \A t, p : Kernel!Chrooted(t, p) = T!Chrooted(t, p)
<1>1. \A t, p : Kernel!Lookup(t, p) = T!Lookup(t, p)
  BY DEF Kernel!Lookup, T!Lookup, Kernel!IsPrefix, T!IsPrefix, Kernel!Max, T!Max
<1>2. \A t, i : Kernel!Covered(t, i) = T!Covered(t, i)
  BY DEF Kernel!Covered, T!Covered, Kernel!IsPrefix, T!IsPrefix
<1>3. \A t, p : Kernel!Reachable(t, p) = T!Reachable(t, p)
  BY <1>2, PrefixIs DEF Kernel!Reachable, T!Reachable, Kernel!Below, T!Below
<1>4. \A t, S : Kernel!Picked(t, S) = T!Picked(t, S)
  BY DEF Kernel!Picked, T!Picked, Kernel!Rank, T!Rank, Kernel!Cardinality, T!Cardinality
<1>5. \A t, p, fs : Kernel!Mounted(t, p, fs) = T!Mounted(t, p, fs)
  BY <1>1 DEF Kernel!Mounted, T!Mounted
<1>6. \A t, p, rec : Kernel!Shared(t, p, rec) = T!Shared(t, p, rec)
  BY <1>1, <1>3 DEF Kernel!Shared, T!Shared
<1>7. \A t, p, q : Kernel!Moved(t, p, q) = T!Moved(t, p, q)
  <2>1. \A m, p, q : Kernel!Rebased(m, p, q) = T!Rebased(m, p, q)
    BY DEF Kernel!Rebased, T!Rebased
  <2>2. \A t, S : Kernel!Without(t, S) = T!Without(t, S)
    BY <1>4 DEF Kernel!Without, T!Without
  <2> QED
    BY <1>3, <1>4, <2>1, <2>2 DEF Kernel!Moved, T!Moved
<1>8. \A t, p : Kernel!Chrooted(t, p) = T!Chrooted(t, p)
  <2>1. \A m, p, q : Kernel!Rebased(m, p, q) = T!Rebased(m, p, q)
    BY DEF Kernel!Rebased, T!Rebased
  <2>2. \A t, p : Kernel!Below(t, p) = T!Below(t, p)
    BY PrefixIs DEF Kernel!Below, T!Below
  <2>3. Kernel!Root = T!Root
    BY DEF Kernel!Root, T!Root
  <2> QED
    BY <1>4, <2>1, <2>2, <2>3 DEF Kernel!Chrooted, T!Chrooted
<1> QED
  BY <1>1, <1>2, <1>3, <1>4, <1>5, <1>6, <1>7, <1>8 DEF Kernel!Root, T!Root

LEMMA PrefixFacts ==
    /\ \A a \in Path : IsPrefix(<<>>, a) /\ IsPrefix(a, a)
    /\ \A a, b, c \in Path : IsPrefix(a, b) /\ IsPrefix(b, c) => IsPrefix(a, c)
    /\ \A a, b \in Path : IsPrefix(a, b) /\ IsPrefix(b, a) => a = b
    /\ \A a, b, c \in Path : IsPrefix(a, c) /\ IsPrefix(b, c) => IsPrefix(a, b) \/ IsPrefix(b, a)
<1>1. \A a \in Path : IsPrefix(<<>>, a) /\ IsPrefix(a, a)
  BY T!PathFacts, PrefixIs, KernelIs DEF Path
<1>2. \A a, b, c \in Path : IsPrefix(a, b) /\ IsPrefix(b, c) => IsPrefix(a, c)
  BY T!PrefixTransitive, PrefixIs DEF Path
<1>3. \A a, b \in Path : IsPrefix(a, b) /\ IsPrefix(b, a) => a = b
  BY T!PrefixAntisymmetric, PrefixIs DEF Path
<1>4. \A a, b, c \in Path : IsPrefix(a, c) /\ IsPrefix(b, c) => IsPrefix(a, b) \/ IsPrefix(b, a)
  BY T!PrefixesCompare, PrefixIs DEF Path
<1> QED
  BY <1>1, <1>2, <1>3, <1>4

\* Names that differ are not below one another.
LEMMA PrefixElements ==
    \A a, b \in Path : IsPrefix(a, b) <=> Len(a) <= Len(b) /\ \A i \in 1..Len(a) : a[i] = b[i]
BY T!PrefixElements, PrefixIs DEF Path

LEMMA TableIs ==
    ASSUME NEW t \in Table
    PROVE  /\ Len(t) \in Nat /\ Len(t) > 0 /\ 1 \in DOMAIN t /\ t[1].at = <<>>
           /\ Entries(t) \in SUBSET Entry
           /\ \A i \in DOMAIN t : i \in Nat /\ t[i] \in Entries(t) /\ t[i].at \in Path
           /\ \A e \in Entries(t) : e.at \in Path /\ \E i \in DOMAIN t : e = t[i]
<1>1. /\ Len(t) \in Nat /\ 1 \in DOMAIN t /\ t[1].at = <<>> /\ DOMAIN t = 1..Len(t)
      /\ \A i \in DOMAIN t : i \in Nat /\ t[i] \in T!Entry /\ t[i].at \in T!Path
  BY T!TableIs, KernelIs DEF Table
<1> QED
  BY <1>1 DEF Entries, Entry, Path

LEMMA TopIs ==
    ASSUME NEW t \in Table, NEW p \in Path
    PROVE  /\ Top(t, p) \in Entries(t) /\ IsPrefix(Top(t, p).at, p)
           /\ Kernel!Lookup(t, p) \in DOMAIN t
           /\ Kernel!IsMountPoint(t, p) <=> Top(t, p).at = p
           /\ Kernel!FsAt(t, p) = Top(t, p).fs
BY T!LookupFacts, KernelIs, PrefixIs DEF Table, Path, Top, Entries, Kernel!IsMountPoint, Kernel!FsAt

\* A mount that is not covered is what a lookup of its place finds.
LEMMA OpenTop ==
    ASSUME NEW t \in Table, NEW p \in Path, Open(t, p), NEW e \in Entries(t), IsPrefix(p, e.at)
    PROVE  Top(t, e.at) = e
<1>1. PICK i \in DOMAIN t : e = t[i]
  BY TableIs
<1>2. ~T!Covered(t, i)
  BY <1>1, KernelIs DEF Open
<1>3. T!Top(t, t[i].at) = t[i]
  BY <1>2, T!TopUncovered DEF Table
<1> QED
  BY <1>1, <1>3, KernelIs DEF Top, T!Top

LEMMA OpenRoot ==
    ASSUME NEW t \in Table
    PROVE  /\ Uncovered(t) => \A p \in Path : Open(t, p)
           /\ Open(t, <<>>) => Uncovered(t)
BY TableIs, PrefixFacts DEF Open, Uncovered

LEMMA MountedIs ==
    ASSUME NEW t \in Table, NEW p \in Path, NEW fs \in FsType
    PROVE  \E e \in Entry :
              /\ e.at = p /\ e.fs = fs
              /\ Kernel!Mounted(t, p, fs) \in Table
              /\ Entries(Kernel!Mounted(t, p, fs)) = Entries(t) \cup {e}
              /\ \A q \in Path : Top(Kernel!Mounted(t, p, fs), q) = IF IsPrefix(p, q) THEN e ELSE Top(t, q)
              /\ \A q \in Path : Open(t, q) /\ (\A f \in Entries(t) : IsPrefix(q, f.at) => ~IsPrefix(p, f.at))
                                    => Open(Kernel!Mounted(t, p, fs), q)
<1> DEFINE u == Kernel!Mounted(t, p, fs)
           n == Len(t) + 1
           e == [at |-> p, fs |-> fs, shared |-> T!Top(t, p).shared]
<1>1. u = T!Mounted(t, p, fs) /\ t \in T!Table /\ p \in T!Path
  BY KernelIs DEF Table, Path
<1>2. /\ u \in T!Table /\ DOMAIN u = DOMAIN t \cup {n}
      /\ \A i \in DOMAIN t : u[i] = t[i]
      /\ u[n] = e
  <2> DEFINE v == T!Mounted(t, p, fs)
  <2>1. /\ v \in T!Table /\ DOMAIN v = DOMAIN t \cup {n}
        /\ \A i \in DOMAIN t : v[i] = t[i]
        /\ v[n] = e
    BY <1>1, T!MountedFacts, Zenon
  <2> QED
    BY <1>1, <2>1, Zenon
<1>3. \A q \in Path : Top(u, q) = IF IsPrefix(p, q) THEN e ELSE Top(t, q)
  <2>1. \A q \in T!Path : T!Top(T!Mounted(t, p, fs), q) = IF T!IsPrefix(p, q) THEN e ELSE T!Top(t, q)
    BY <1>1, T!MountedTop
  <2> HIDE DEF e
  <2> QED
    BY <1>1, <2>1, KernelIs, PrefixIs DEF Top, T!Top, Path
<1>4. /\ ~Kernel!Covered(u, n)
      /\ \A i \in DOMAIN t : Kernel!Covered(u, i) <=> Kernel!Covered(t, i) \/ IsPrefix(p, t[i].at)
  BY <1>1, T!MountedCovered, KernelIs, PrefixIs
<1>5. e \in Entry /\ e.at = p /\ e.fs = fs
  <2>1. e \in T!Entry
    BY <1>2, T!TableIs
  <2> QED
    BY <2>1 DEF Entry
<1> HIDE DEF u, n, e
<1>6. Entries(u) = Entries(t) \cup {e}
  BY <1>2 DEF Entries
<1>7. ASSUME NEW q \in Path, Open(t, q), \A f \in Entries(t) : IsPrefix(q, f.at) => ~IsPrefix(p, f.at)
      PROVE  Open(u, q)
  <2>1. ASSUME NEW i \in DOMAIN t, IsPrefix(q, t[i].at)
        PROVE  ~Kernel!Covered(u, i)
    BY <1>4, <1>7, <2>1 DEF Open, Entries
  <2> QED
    BY <1>2, <1>4, <2>1 DEF Open
<1> QED
  BY <1>2, <1>3, <1>5, <1>6, <1>7 DEF u, Table

-----------------------------------------------------------------------------
\* Two tables with the same mounts in the same places; what was shared is.
SameShape(t, u) ==
    /\ t \in Table /\ u \in Table
    /\ \A e \in Entries(t) : \E f \in Entries(u) : f.at = e.at /\ f.fs = e.fs
    /\ \A f \in Entries(u) : \E e \in Entries(t) : f.at = e.at /\ f.fs = e.fs
    /\ \A q \in Path : /\ Top(u, q).at = Top(t, q).at /\ Top(u, q).fs = Top(t, q).fs
                       /\ Top(t, q).shared => Top(u, q).shared
                       /\ Open(t, q) => Open(u, q)
    /\ Uncovered(t) => Uncovered(u)

LEMMA SameTable == \A t \in Table : SameShape(t, t)
BY DEF SameShape

LEMMA SharedIs ==
    ASSUME NEW t \in Table, NEW p \in Path, NEW rec \in BOOLEAN
    PROVE  /\ SameShape(t, Kernel!Shared(t, p, rec))
           /\ Kernel!IsMountPoint(t, p) => Top(Kernel!Shared(t, p, rec), p).shared
<1> DEFINE u == Kernel!Shared(t, p, rec)
<1>1. /\ u = T!Shared(t, p, rec) /\ t \in T!Table /\ p \in T!Path
      /\ Kernel!IsMountPoint(t, p) <=> T!IsMountPoint(t, p)
  BY KernelIs DEF Table, Path, Kernel!IsMountPoint, T!IsMountPoint
<1>2. /\ u \in T!Table /\ DOMAIN u = DOMAIN t
      /\ \A i \in DOMAIN t : /\ u[i].at = t[i].at /\ u[i].fs = t[i].fs
                             /\ t[i].shared => u[i].shared
                             /\ T!Covered(u, i) <=> T!Covered(t, i)
      /\ \A q \in T!Path : T!Lookup(u, q) = T!Lookup(t, q)
      /\ T!IsMountPoint(t, p) => u[T!Lookup(t, p)].shared
  <2> DEFINE v == T!Shared(t, p, rec)
  <2>1. v \in T!Table /\ DOMAIN v = DOMAIN t
    BY <1>1, T!SharedFacts
  <2>2. \A i \in DOMAIN t : /\ v[i].at = t[i].at /\ v[i].fs = t[i].fs
                            /\ t[i].shared => v[i].shared
                            /\ T!Covered(v, i) <=> T!Covered(t, i)
    BY <1>1, T!SharedFacts
  <2>3. \A q \in T!Path : T!Lookup(v, q) = T!Lookup(t, q)
    BY <1>1, T!SharedFacts
  <2>4. T!IsMountPoint(t, p) => v[T!Lookup(t, p)].shared
    BY <1>1, T!SharedFacts
  <2> QED
    BY <1>1, <2>1, <2>2, <2>3, <2>4, Zenon
<1> HIDE DEF u
<1>3. /\ \A i \in DOMAIN t : Kernel!Covered(u, i) <=> Kernel!Covered(t, i)
      /\ \A q \in Path : Kernel!Lookup(u, q) = Kernel!Lookup(t, q)
  BY <1>2, KernelIs DEF Path
<1>4. \A q \in Path : /\ Top(u, q).at = Top(t, q).at /\ Top(u, q).fs = Top(t, q).fs
                      /\ Top(t, q).shared => Top(u, q).shared
                      /\ Open(t, q) => Open(u, q)
  BY <1>2, <1>3, TopIs DEF Top, Open
<1>5. Uncovered(t) => Uncovered(u)
  BY <1>2, <1>3 DEF Uncovered
<1>6. Kernel!IsMountPoint(t, p) => Top(u, p).shared
  BY <1>1, <1>2, KernelIs DEF Top, Path
<1>7. /\ \A e \in Entries(t) : \E f \in Entries(u) : f.at = e.at /\ f.fs = e.fs
      /\ \A f \in Entries(u) : \E e \in Entries(t) : f.at = e.at /\ f.fs = e.fs
  BY <1>2 DEF Entries
<1> QED
  BY <1>2, <1>4, <1>5, <1>6, <1>7 DEF SameShape, Table, u

\* Taking out mounts that are at or below r.
LEMMA WithoutIs ==
    ASSUME NEW t \in Table, NEW r \in Path, r # <<>>, NEW gone \in SUBSET (DOMAIN t),
           \A i \in gone : IsPrefix(r, t[i].at)
    PROVE  /\ Kernel!Without(t, gone) \in Table
           /\ \A e \in Entries(Kernel!Without(t, gone)) : \E i \in DOMAIN t \ gone : e = t[i]
           /\ \A i \in DOMAIN t \ gone : t[i] \in Entries(Kernel!Without(t, gone))
           /\ \A q \in Path : ~IsPrefix(r, q) => Top(Kernel!Without(t, gone), q) = Top(t, q)
           /\ \A q \in Path : Open(t, q) => Open(Kernel!Without(t, gone), q)
<1> DEFINE S == DOMAIN t \ gone
           u == Kernel!Without(t, gone)
<1>1. u = T!Picked(t, S) /\ t \in T!Table /\ S \in SUBSET (DOMAIN t)
  BY KernelIs DEF Table, Kernel!Without
<1>2. 1 \in S
  <2>1. 1 \in DOMAIN t /\ t[1].at = <<>> /\ <<>> \in Path
    BY TableIs
  <2>2. ~IsPrefix(r, <<>>)
    BY <2>1, PrefixFacts
  <2> QED
    BY <2>1, <2>2
<1> HIDE DEF S
<1>3. /\ u \in Table
      /\ \A q \in T!Path : T!Lookup(t, q) \in S => T!Top(u, q) = T!Top(t, q)
      /\ \A i \in S : \E j \in DOMAIN u : u[j] = t[i]
      /\ \A j \in DOMAIN u : \E i \in S : u[j] = t[i] /\ (~T!Covered(t, i) => ~T!Covered(u, j))
  BY <1>1, <1>2, T!PickedTable DEF Table
<1> HIDE DEF u
<1>4. ASSUME NEW q \in Path, ~IsPrefix(r, q)
      PROVE  Top(u, q) = Top(t, q)
  <2> DEFINE l == Kernel!Lookup(t, q)
  <2>1. l \in DOMAIN t /\ IsPrefix(t[l].at, q) /\ t[l].at \in Path
    BY TopIs, TableIs DEF Top
  <2>2. l \in S
    BY <1>4, <2>1, PrefixFacts DEF S
  <2> QED
    BY <1>3, <2>2, KernelIs DEF Top, T!Top, Path
<1>5. \A q \in Path : Open(t, q) => Open(u, q)
  BY <1>1, <1>3, KernelIs DEF Open
<1>6. /\ \A e \in Entries(u) : \E i \in S : e = t[i]
      /\ \A i \in S : t[i] \in Entries(u)
  BY <1>3 DEF Entries
<1> QED
  BY <1>3, <1>4, <1>5, <1>6 DEF S, u

LEMMA MovedIs ==
    ASSUME NEW t \in Table, Uncovered(t), NEW from \in Path, from # <<>>, NEW to \in Path,
           \A e \in Entries(t) : ~IsPrefix(to, e.at) /\ (IsPrefix(from, e.at) => e.at = from)
    PROVE  /\ Kernel!Moved(t, from, to) \in Table /\ Uncovered(Kernel!Moved(t, from, to))
           /\ \A e \in Entries(Kernel!Moved(t, from, to)) :
                \/ e \in Entries(t) /\ ~IsPrefix(from, e.at)
                \/ \E f \in Entries(t) : f.at = from /\ e.at = to /\ e.fs = f.fs
           /\ \A e \in Entries(t) : ~IsPrefix(from, e.at) => e \in Entries(Kernel!Moved(t, from, to))
<1> DEFINE u == Kernel!Moved(t, from, to)
<1>1. /\ u = T!Moved(t, from, to) /\ t \in T!Table /\ T!Uncovered(t)
      /\ from \in T!Path /\ to \in T!Path /\ from # T!Root
  BY KernelIs DEF Table, Path, Uncovered, T!Uncovered
<1>2. \A i \in DOMAIN t : ~T!IsPrefix(to, t[i].at)
  BY PrefixIs DEF Entries
<1>3. /\ u \in T!Table /\ T!Uncovered(u)
      /\ \A i \in DOMAIN u : \E j \in DOMAIN t :
            \/ ~T!IsPrefix(from, t[j].at) /\ u[i] = t[j]
            \/ T!IsPrefix(from, t[j].at) /\ u[i] = T!Rebased(t[j], from, to)
      /\ \A j \in DOMAIN t : ~T!IsPrefix(from, t[j].at) => \E i \in DOMAIN u : u[i] = t[j]
  BY <1>1, <1>2, T!MovedFacts
<1> HIDE DEF u
<1>4. ASSUME NEW e \in Entries(u)
      PROVE  \/ e \in Entries(t) /\ ~IsPrefix(from, e.at)
             \/ \E f \in Entries(t) : f.at = from /\ e.at = to /\ e.fs = f.fs
  <2>1. PICK j \in DOMAIN t : \/ ~T!IsPrefix(from, t[j].at) /\ e = t[j]
                              \/ T!IsPrefix(from, t[j].at) /\ e = T!Rebased(t[j], from, to)
    BY <1>3 DEF Entries
  <2>2. CASE ~T!IsPrefix(from, t[j].at) /\ e = t[j]
    BY <2>2, PrefixIs DEF Entries
  <2>3. CASE T!IsPrefix(from, t[j].at) /\ e = T!Rebased(t[j], from, to)
    <3>1. t[j].at = from /\ t[j] \in Entries(t) /\ t[j] \in T!Entry
      BY <2>3, PrefixIs, TableIs DEF Entries, Entry
    <3>2. e.at = to
      BY <1>1, <2>3, <3>1, T!RebasedPrefix
    <3>3. e.fs = t[j].fs
      BY <1>1, <2>3, <3>1, T!RebasedFacts
    <3> QED
      BY <3>1, <3>2, <3>3
  <2> QED
    BY <2>1, <2>2, <2>3
<1>5. \A e \in Entries(t) : ~IsPrefix(from, e.at) => e \in Entries(u)
  BY <1>3, PrefixIs DEF Entries
<1>6. u \in Table /\ Uncovered(u)
  BY <1>3, KernelIs DEF Table, Uncovered, T!Uncovered
<1> QED
  BY <1>4, <1>5, <1>6 DEF u

\* The places below top that are in use are those of inside.
LEMMA ChrootedIs ==
    ASSUME NEW t \in Table, Uncovered(t), NEW top \in Path,
           NEW inside \in SUBSET Path, \E e \in Entries(t) : e.at = top,
           \A e \in Entries(t) : IsPrefix(top, e.at) => \E r \in inside : e.at = top \o r,
           NEW S \in SUBSET (DOMAIN t), \A s \in S : \A r \in inside : ~IsPrefix(t[s].at, r),
           NEW u, u = Kernel!Chrooted(t, top) \o Kernel!Picked(t, S)
    PROVE  /\ u \in Table /\ Uncovered(u)
           /\ \A e \in Entries(u) :
                \/ \E f \in Entries(t) : \E r \in inside : f.at = top \o r /\ e.at = r /\ e.fs = f.fs
                \/ \E s \in S : e = t[s]
           /\ \A s \in S : t[s] \in Entries(u)
<1>1. /\ u = T!Chrooted(t, top) \o T!Picked(t, S)
      /\ t \in T!Table /\ T!Uncovered(t) /\ top \in T!Path
  BY KernelIs DEF Table, Path, Uncovered, T!Uncovered
<1>2. ASSUME NEW i \in DOMAIN t, T!IsPrefix(top, t[i].at)
      PROVE  /\ T!Rebased(t[i], top, T!Root).fs = t[i].fs
             /\ \E r \in inside : t[i].at = top \o r /\ T!Rebased(t[i], top, T!Root).at = r
  <2>1. PICK r \in inside : t[i].at = top \o r
    BY <1>2, PrefixIs DEF Entries
  <2>2. t[i] \in T!Entry /\ r \in T!Path /\ T!Root \in T!Path
    BY TableIs, T!PathIs DEF Entry, Path
  <2>3. T!Rebased(t[i], top, T!Root).at = r
    BY <1>1, <2>1, <2>2, T!RebasedToRoot
  <2>4. T!Rebased(t[i], top, T!Root).fs = t[i].fs
    BY <1>1, <1>2, <2>2, T!RebasedFacts
  <2> QED
    BY <2>1, <2>3, <2>4
<1>3. \A i \in DOMAIN t : T!IsPrefix(top, t[i].at) =>
            \A s \in S : ~T!IsPrefix(t[s].at, T!Rebased(t[i], top, T!Root).at)
  BY <1>2, PrefixIs
<1>4. PICK r \in DOMAIN t : t[r].at = top
  BY DEF Entries
<1>5. /\ u \in T!Table /\ T!Uncovered(u)
      /\ \A i \in DOMAIN u :
            \/ \E j \in DOMAIN t : T!IsPrefix(top, t[j].at) /\ u[i] = T!Rebased(t[j], top, T!Root)
            \/ \E s \in S : u[i] = t[s]
      /\ \A s \in S : \E i \in DOMAIN u : u[i] = t[s]
  BY <1>1, <1>3, <1>4, T!ChrootedFacts
<1>6. ASSUME NEW e \in Entries(u)
      PROVE  \/ \E f \in Entries(t) : \E p \in inside : f.at = top \o p /\ e.at = p /\ e.fs = f.fs
             \/ \E s \in S : e = t[s]
  <2>1. PICK i \in DOMAIN u : e = u[i]
    BY DEF Entries
  <2>2. CASE \E s \in S : u[i] = t[s]
    BY <2>1, <2>2
  <2>3. ASSUME NEW j \in DOMAIN t, T!IsPrefix(top, t[j].at), u[i] = T!Rebased(t[j], top, T!Root)
        PROVE  \E f \in Entries(t) : \E p \in inside : f.at = top \o p /\ e.at = p /\ e.fs = f.fs
    <3>1. PICK p \in inside : t[j].at = top \o p /\ T!Rebased(t[j], top, T!Root).at = p
      BY <1>2, <2>3
    <3>2. t[j] \in Entries(t) /\ e.at = p /\ e.fs = t[j].fs
      BY <1>2, <2>1, <2>3, <3>1 DEF Entries
    <3> QED
      BY <3>1, <3>2, Zenon
  <2> QED
    BY <1>5, <2>1, <2>2, <2>3
<1>7. \A s \in S : t[s] \in Entries(u)
  BY <1>5 DEF Entries
<1>8. u \in Table /\ Uncovered(u)
  BY <1>5, KernelIs DEF Table, Uncovered, T!Uncovered
<1> QED
  BY <1>6, <1>7, <1>8

-----------------------------------------------------------------------------
(* The calls of Plan and their places.                                     *)

Dev == <<"dev">>
DevPts == <<"dev", "pts">>
SysctlD == <<"etc", "sysctl.d">>
CniNetD == <<"etc", "cni", "net.d">>
Containerd == <<"var", "lib", "containerd">>
InitGroup == Group(<<"init">>)

Is(k, o, p, f, e) == Plan[k].op = o /\ Plan[k].at = p /\ Plan[k].fs = f /\ Plan[k].error = e

LEMMA CallsOfPlan ==
    /\ Is(1, "mount", Proc, "proc", "log")
    /\ Is(2, "mount_if_missing", Sys, "sysfs", "log")
    /\ Is(3, "mount_if_missing", Dev, "devtmpfs", "log")
    /\ Is(4, "mount", SquashMount, "squashfs", "halt")
    /\ Is(5, "mount", TmpfsMount, "tmpfs", "halt")
    /\ Is(6, "mount", NewRoot, "overlay", "halt")
    /\ Is(7, "move", SquashMount, NoFs, "log")
    /\ Is(8, "move", TmpfsMount, NoFs, "log")
    /\ Is(9, "switch_root", NewRoot, NoFs, "halt")
    /\ Is(10, "make_all_shared", Kernel!Root, NoFs, "log")
    /\ Is(11, "mount_if_missing", Proc, "proc", "log")
    /\ Is(12, "mount_if_missing", Sys, "sysfs", "log")
    /\ Is(13, "make_all_shared", Sys, NoFs, "log")
    /\ Is(14, "mount_if_missing", Dev, "devtmpfs", "log")
    /\ Is(15, "mount_if_missing", DevPts, "devpts", "log")
    /\ Is(16, "mount_if_missing", Run, "tmpfs", "log")
    /\ Is(17, "make_all_shared", Run, NoFs, "log")
    /\ Is(18, "mount_if_missing", SysctlD, "tmpfs", "log")
    /\ Is(19, "mount_if_missing", CniBin, "tmpfs", "log")
    /\ Is(20, "mount_if_missing", CniNetD, "tmpfs", "log")
    /\ Is(21, "mount_if_missing", Containerd, "tmpfs", "log")
    /\ Is(22, "mount_if_missing", Bpf, "bpf", "log")
    /\ Is(23, "make_all_shared", Bpf, NoFs, "log")
    /\ Is(24, "purge_v1", Cgroup, "cgroup", "log")
    /\ Is(25, "unmount", Cgroup, NoFs, "log")
    /\ Is(26, "mount_if_missing", Cgroup, "cgroup2", "return")
    /\ Is(27, "make_shared", Cgroup, NoFs, "log")
    /\ Is(28, "read_controllers", Cgroup, NoFs, "log")
    /\ Is(29, "make_group", InitGroup, NoFs, "log")
    /\ Is(30, "make_group", System, NoFs, "log")
    /\ Is(31, "make_group", PodRuntime, NoFs, "log")
    /\ Is(32, "make_group", KubePods, NoFs, "log")
    /\ Is(33, "make_group", BestEffort, NoFs, "log")
    /\ Is(34, "make_group", Burstable, NoFs, "log")
    /\ Is(35, "move_self", InitGroup, NoFs, "log")
    /\ Is(36, "delegate", Cgroup, NoFs, "log")
    /\ Is(37, "delegate", System, NoFs, "log")
    /\ Is(38, "delegate", PodRuntime, NoFs, "log")
    /\ Is(39, "delegate", KubePods, NoFs, "log")
    /\ Is(40, "delegate", BestEffort, NoFs, "log")
    /\ Is(41, "delegate", Burstable, NoFs, "log")
    /\ Is(42, "sysctl", Proc, NoFs, "log")
<1>1. Is(1, "mount", Proc, "proc", "log")
  <2>1. Plan[1] = Call("mount", Proc, "proc", "log")
    BY PlanIs, Zenon
  <2> QED
    BY <2>1 DEF Is, Call, Must, MountIfMissing, MakeShared, MakeGroup, Delegate
<1>2. Is(2, "mount_if_missing", Sys, "sysfs", "log")
  <2>1. Plan[2] = MountIfMissing(Sys, "sysfs")
    BY PlanIs, Zenon
  <2> QED
    BY <2>1 DEF Is, Call, Must, MountIfMissing, MakeShared, MakeGroup, Delegate
<1>3. Is(3, "mount_if_missing", Dev, "devtmpfs", "log")
  <2>1. Plan[3] = MountIfMissing(Dev, "devtmpfs")
    BY PlanIs, Zenon DEF Dev
  <2> QED
    BY <2>1 DEF Is, Call, Must, MountIfMissing, MakeShared, MakeGroup, Delegate
<1>4. Is(4, "mount", SquashMount, "squashfs", "halt")
  <2>1. Plan[4] = Must("mount", SquashMount, "squashfs")
    BY PlanIs, Zenon
  <2> QED
    BY <2>1 DEF Is, Call, Must, MountIfMissing, MakeShared, MakeGroup, Delegate
<1>5. Is(5, "mount", TmpfsMount, "tmpfs", "halt")
  <2>1. Plan[5] = Must("mount", TmpfsMount, "tmpfs")
    BY PlanIs, Zenon
  <2> QED
    BY <2>1 DEF Is, Call, Must, MountIfMissing, MakeShared, MakeGroup, Delegate
<1>6. Is(6, "mount", NewRoot, "overlay", "halt")
  <2>1. Plan[6] = Must("mount", NewRoot, "overlay")
    BY PlanIs, Zenon
  <2> QED
    BY <2>1 DEF Is, Call, Must, MountIfMissing, MakeShared, MakeGroup, Delegate
<1>7. Is(7, "move", SquashMount, NoFs, "log")
  <2>1. Plan[7] = Call("move", SquashMount, NoFs, "log")
    BY PlanIs, Zenon
  <2> QED
    BY <2>1 DEF Is, Call, Must, MountIfMissing, MakeShared, MakeGroup, Delegate
<1>8. Is(8, "move", TmpfsMount, NoFs, "log")
  <2>1. Plan[8] = Call("move", TmpfsMount, NoFs, "log")
    BY PlanIs, Zenon
  <2> QED
    BY <2>1 DEF Is, Call, Must, MountIfMissing, MakeShared, MakeGroup, Delegate
<1>9. Is(9, "switch_root", NewRoot, NoFs, "halt")
  <2>1. Plan[9] = Must("switch_root", NewRoot, NoFs)
    BY PlanIs, Zenon
  <2> QED
    BY <2>1 DEF Is, Call, Must, MountIfMissing, MakeShared, MakeGroup, Delegate
<1>10. Is(10, "make_all_shared", Kernel!Root, NoFs, "log")
  <2>1. Plan[10] = MakeShared(Kernel!Root)
    BY PlanIs, Zenon DEF Kernel!Root
  <2> QED
    BY <2>1 DEF Is, Call, Must, MountIfMissing, MakeShared, MakeGroup, Delegate
<1>11. Is(11, "mount_if_missing", Proc, "proc", "log")
  <2>1. Plan[11] = MountIfMissing(Proc, "proc")
    BY PlanIs, Zenon
  <2> QED
    BY <2>1 DEF Is, Call, Must, MountIfMissing, MakeShared, MakeGroup, Delegate
<1>12. Is(12, "mount_if_missing", Sys, "sysfs", "log")
  <2>1. Plan[12] = MountIfMissing(Sys, "sysfs")
    BY PlanIs, Zenon
  <2> QED
    BY <2>1 DEF Is, Call, Must, MountIfMissing, MakeShared, MakeGroup, Delegate
<1>13. Is(13, "make_all_shared", Sys, NoFs, "log")
  <2>1. Plan[13] = MakeShared(Sys)
    BY PlanIs, Zenon
  <2> QED
    BY <2>1 DEF Is, Call, Must, MountIfMissing, MakeShared, MakeGroup, Delegate
<1>14. Is(14, "mount_if_missing", Dev, "devtmpfs", "log")
  <2>1. Plan[14] = MountIfMissing(Dev, "devtmpfs")
    BY PlanIs, Zenon DEF Dev
  <2> QED
    BY <2>1 DEF Is, Call, Must, MountIfMissing, MakeShared, MakeGroup, Delegate
<1>15. Is(15, "mount_if_missing", DevPts, "devpts", "log")
  <2>1. Plan[15] = MountIfMissing(DevPts, "devpts")
    BY PlanIs, Zenon DEF DevPts
  <2> QED
    BY <2>1 DEF Is, Call, Must, MountIfMissing, MakeShared, MakeGroup, Delegate
<1>16. Is(16, "mount_if_missing", Run, "tmpfs", "log")
  <2>1. Plan[16] = MountIfMissing(Run, "tmpfs")
    BY PlanIs, Zenon
  <2> QED
    BY <2>1 DEF Is, Call, Must, MountIfMissing, MakeShared, MakeGroup, Delegate
<1>17. Is(17, "make_all_shared", Run, NoFs, "log")
  <2>1. Plan[17] = MakeShared(Run)
    BY PlanIs, Zenon
  <2> QED
    BY <2>1 DEF Is, Call, Must, MountIfMissing, MakeShared, MakeGroup, Delegate
<1>18. Is(18, "mount_if_missing", SysctlD, "tmpfs", "log")
  <2>1. Plan[18] = MountIfMissing(SysctlD, "tmpfs")
    BY PlanIs, Zenon DEF SysctlD
  <2> QED
    BY <2>1 DEF Is, Call, Must, MountIfMissing, MakeShared, MakeGroup, Delegate
<1>19. Is(19, "mount_if_missing", CniBin, "tmpfs", "log")
  <2>1. Plan[19] = MountIfMissing(CniBin, "tmpfs")
    BY PlanIs, Zenon
  <2> QED
    BY <2>1 DEF Is, Call, Must, MountIfMissing, MakeShared, MakeGroup, Delegate
<1>20. Is(20, "mount_if_missing", CniNetD, "tmpfs", "log")
  <2>1. Plan[20] = MountIfMissing(CniNetD, "tmpfs")
    BY PlanIs, Zenon DEF CniNetD
  <2> QED
    BY <2>1 DEF Is, Call, Must, MountIfMissing, MakeShared, MakeGroup, Delegate
<1>21. Is(21, "mount_if_missing", Containerd, "tmpfs", "log")
  <2>1. Plan[21] = MountIfMissing(Containerd, "tmpfs")
    BY PlanIs, Zenon DEF Containerd
  <2> QED
    BY <2>1 DEF Is, Call, Must, MountIfMissing, MakeShared, MakeGroup, Delegate
<1>22. Is(22, "mount_if_missing", Bpf, "bpf", "log")
  <2>1. Plan[22] = MountIfMissing(Bpf, "bpf")
    BY PlanIs, Zenon
  <2> QED
    BY <2>1 DEF Is, Call, Must, MountIfMissing, MakeShared, MakeGroup, Delegate
<1>23. Is(23, "make_all_shared", Bpf, NoFs, "log")
  <2>1. Plan[23] = MakeShared(Bpf)
    BY PlanIs, Zenon
  <2> QED
    BY <2>1 DEF Is, Call, Must, MountIfMissing, MakeShared, MakeGroup, Delegate
<1>24. Is(24, "purge_v1", Cgroup, "cgroup", "log")
  <2>1. Plan[24] = Call("purge_v1", Cgroup, "cgroup", "log")
    BY PlanIs, Zenon
  <2> QED
    BY <2>1 DEF Is, Call, Must, MountIfMissing, MakeShared, MakeGroup, Delegate
<1>25. Is(25, "unmount", Cgroup, NoFs, "log")
  <2>1. Plan[25] = Call("unmount", Cgroup, NoFs, "log")
    BY PlanIs, Zenon
  <2> QED
    BY <2>1 DEF Is, Call, Must, MountIfMissing, MakeShared, MakeGroup, Delegate
<1>26. Is(26, "mount_if_missing", Cgroup, "cgroup2", "return")
  <2>1. Plan[26] = Call("mount_if_missing", Cgroup, "cgroup2", "return")
    BY PlanIs, Zenon
  <2> QED
    BY <2>1 DEF Is, Call, Must, MountIfMissing, MakeShared, MakeGroup, Delegate
<1>27. Is(27, "make_shared", Cgroup, NoFs, "log")
  <2>1. Plan[27] = Call("make_shared", Cgroup, NoFs, "log")
    BY PlanIs, Zenon
  <2> QED
    BY <2>1 DEF Is, Call, Must, MountIfMissing, MakeShared, MakeGroup, Delegate
<1>28. Is(28, "read_controllers", Cgroup, NoFs, "log")
  <2>1. Plan[28] = Call("read_controllers", Cgroup, NoFs, "log")
    BY PlanIs, Zenon
  <2> QED
    BY <2>1 DEF Is, Call, Must, MountIfMissing, MakeShared, MakeGroup, Delegate
<1>29. Is(29, "make_group", InitGroup, NoFs, "log")
  <2>1. Plan[29] = MakeGroup(InitGroup)
    BY PlanIs, Zenon DEF InitGroup
  <2> QED
    BY <2>1 DEF Is, Call, Must, MountIfMissing, MakeShared, MakeGroup, Delegate
<1>30. Is(30, "make_group", System, NoFs, "log")
  <2>1. Plan[30] = MakeGroup(System)
    BY PlanIs, Zenon
  <2> QED
    BY <2>1 DEF Is, Call, Must, MountIfMissing, MakeShared, MakeGroup, Delegate
<1>31. Is(31, "make_group", PodRuntime, NoFs, "log")
  <2>1. Plan[31] = MakeGroup(PodRuntime)
    BY PlanIs, Zenon
  <2> QED
    BY <2>1 DEF Is, Call, Must, MountIfMissing, MakeShared, MakeGroup, Delegate
<1>32. Is(32, "make_group", KubePods, NoFs, "log")
  <2>1. Plan[32] = MakeGroup(KubePods)
    BY PlanIs, Zenon
  <2> QED
    BY <2>1 DEF Is, Call, Must, MountIfMissing, MakeShared, MakeGroup, Delegate
<1>33. Is(33, "make_group", BestEffort, NoFs, "log")
  <2>1. Plan[33] = MakeGroup(BestEffort)
    BY PlanIs, Zenon
  <2> QED
    BY <2>1 DEF Is, Call, Must, MountIfMissing, MakeShared, MakeGroup, Delegate
<1>34. Is(34, "make_group", Burstable, NoFs, "log")
  <2>1. Plan[34] = MakeGroup(Burstable)
    BY PlanIs, Zenon
  <2> QED
    BY <2>1 DEF Is, Call, Must, MountIfMissing, MakeShared, MakeGroup, Delegate
<1>35. Is(35, "move_self", InitGroup, NoFs, "log")
  <2>1. Plan[35] = Call("move_self", InitGroup, NoFs, "log")
    BY PlanIs, Zenon DEF InitGroup
  <2> QED
    BY <2>1 DEF Is, Call, Must, MountIfMissing, MakeShared, MakeGroup, Delegate
<1>36. Is(36, "delegate", Cgroup, NoFs, "log")
  <2>1. Plan[36] = Delegate(Cgroup)
    BY PlanIs, Zenon
  <2> QED
    BY <2>1 DEF Is, Call, Must, MountIfMissing, MakeShared, MakeGroup, Delegate
<1>37. Is(37, "delegate", System, NoFs, "log")
  <2>1. Plan[37] = Delegate(System)
    BY PlanIs, Zenon
  <2> QED
    BY <2>1 DEF Is, Call, Must, MountIfMissing, MakeShared, MakeGroup, Delegate
<1>38. Is(38, "delegate", PodRuntime, NoFs, "log")
  <2>1. Plan[38] = Delegate(PodRuntime)
    BY PlanIs, Zenon
  <2> QED
    BY <2>1 DEF Is, Call, Must, MountIfMissing, MakeShared, MakeGroup, Delegate
<1>39. Is(39, "delegate", KubePods, NoFs, "log")
  <2>1. Plan[39] = Delegate(KubePods)
    BY PlanIs, Zenon
  <2> QED
    BY <2>1 DEF Is, Call, Must, MountIfMissing, MakeShared, MakeGroup, Delegate
<1>40. Is(40, "delegate", BestEffort, NoFs, "log")
  <2>1. Plan[40] = Delegate(BestEffort)
    BY PlanIs, Zenon
  <2> QED
    BY <2>1 DEF Is, Call, Must, MountIfMissing, MakeShared, MakeGroup, Delegate
<1>41. Is(41, "delegate", Burstable, NoFs, "log")
  <2>1. Plan[41] = Delegate(Burstable)
    BY PlanIs, Zenon
  <2> QED
    BY <2>1 DEF Is, Call, Must, MountIfMissing, MakeShared, MakeGroup, Delegate
<1>42. Is(42, "sysctl", Proc, NoFs, "log")
  <2>1. Plan[42] = Call("sysctl", Proc, NoFs, "log")
    BY PlanIs, Zenon
  <2> QED
    BY <2>1 DEF Is, Call, Must, MountIfMissing, MakeShared, MakeGroup, Delegate
<1> QED
  BY <1>1, <1>2, <1>3, <1>4, <1>5, <1>6, <1>7, <1>8, <1>9, <1>10, <1>11, <1>12, <1>13, <1>14, <1>15,
       <1>16, <1>17, <1>18, <1>19, <1>20, <1>21, <1>22, <1>23, <1>24, <1>25, <1>26, <1>27, <1>28, <1>29,
       <1>30, <1>31, <1>32, <1>33, <1>34, <1>35, <1>36, <1>37, <1>38, <1>39, <1>40, <1>41, <1>42, Zenon

LEMMA CallNumber ==
    ASSUME NEW n \in 1..42
    PROVE  \/ n \in 1..6
           \/ n \in 7..9
           \/ n = 10 \/ n = 11 \/ n = 12 \/ n = 13 \/ n = 14 \/ n = 15 \/ n = 16 \/ n = 17 \/ n = 18
           \/ n = 19 \/ n = 20 \/ n = 21 \/ n = 22 \/ n = 23 \/ n = 24 \/ n = 25 \/ n = 26 \/ n = 27
           \/ n = 28 \/ n \in 29..34 \/ n = 35 \/ n \in 36..41 \/ n = 42
OBVIOUS

\* Which calls are of which kind, and what the errors do.
LEMMA Kinds ==
    \A n \in 1..42 :
        /\ Plan[n].op = "mount" <=> n \in {1, 4, 5, 6}
        /\ Plan[n].op = "mount_if_missing" <=> n \in {2, 3, 11, 12, 14, 15, 16, 18, 19, 20, 21, 22, 26}
        /\ Plan[n].op = "make_all_shared" <=> n \in {10, 13, 17, 23}
        /\ Plan[n].op = "make_shared" <=> n = 27
        /\ Plan[n].op = "move" <=> n \in {7, 8}
        /\ Plan[n].op = "switch_root" <=> n = 9
        /\ Plan[n].op = "purge_v1" <=> n = 24
        /\ Plan[n].op = "unmount" <=> n = 25
        /\ Plan[n].op = "read_controllers" <=> n = 28
        /\ Plan[n].op = "make_group" <=> n \in 29..34
        /\ Plan[n].op = "move_self" <=> n = 35
        /\ Plan[n].op = "delegate" <=> n \in 36..41
        /\ Plan[n].op = "sysctl" <=> n = 42
        /\ Plan[n].error = "halt" <=> n \in {4, 5, 6, 9}
        /\ Plan[n].error = "return" <=> n = 26
        /\ Plan[n].error = "log" <=> n \notin {4, 5, 6, 9, 26}
BY CallsOfPlan DEF Is

LEMMA CallsAre ==
    /\ KoobdCalls = 10..42
    /\ MountCalls = {11, 12, 14, 15, 16, 18, 19, 20, 21, 22, 26}
    /\ ShareCalls = {10, 13, 17, 23, 27}
<1>1. KoobdCalls = 10..42
  <2>1. Len(SquashfsInit) = 9 /\ Len(Plan) = 42
    BY PlanIs, SquashfsInitIs, Zenon
  <2> QED
    BY <2>1 DEF KoobdCalls
<1>2. MountCalls = {11, 12, 14, 15, 16, 18, 19, 20, 21, 22, 26}
  BY <1>1, Kinds DEF MountCalls
<1>3. ShareCalls = {10, 13, 17, 23, 27}
  BY <1>1, Kinds DEF ShareCalls
<1> QED
  BY <1>1, <1>2, <1>3

-----------------------------------------------------------------------------

(* The places: which are below which.                                      *)

Bin == <<"bin">>
UsrLib == <<"usr", "lib">>
Certs == <<"etc", "ssl", "certs">>
Kubelet == <<"var", "lib", "kubelet">>
Moved1 == NewRoot \o SquashMount
Moved2 == NewRoot \o TmpfsMount

LEMMA PlacesAre ==
    /\ Shipped \ {CniBin} \subseteq {Bin, UsrLib, Certs, Kubelet}
    /\ Kernel!Root \in Path
    /\ InitGroup \in Path /\ System \in Path /\ PodRuntime \in Path /\ KubePods \in Path
    /\ BestEffort \in Path /\ Burstable \in Path
    /\ Proc \in Path
    /\ Sys \in Path
    /\ Dev \in Path
    /\ Run \in Path
    /\ DevPts \in Path
    /\ SysctlD \in Path
    /\ CniBin \in Path
    /\ CniNetD \in Path
    /\ Containerd \in Path
    /\ Bpf \in Path
    /\ Cgroup \in Path
    /\ NewRoot \in Path
    /\ SquashMount \in Path
    /\ TmpfsMount \in Path
    /\ Moved1 \in Path
    /\ Moved2 \in Path
    /\ Bin \in Path
    /\ UsrLib \in Path
    /\ Certs \in Path
    /\ Kubelet \in Path
<1>1. /\ Bin \in Path /\ UsrLib \in Path /\ Certs \in Path /\ Kubelet \in Path
      /\ Moved1 \in Path /\ Moved2 \in Path
  BY DEF Path, T!Path, Segment, Bin, UsrLib, Certs, Kubelet, Moved1, Moved2, NewRoot, SquashMount, TmpfsMount
<1>2. /\ Dev \in Path /\ DevPts \in Path /\ SysctlD \in Path /\ CniNetD \in Path /\ Containerd \in Path
      /\ Kernel!Root \in Path
  BY PathsAre, Zenon DEF Dev, DevPts, SysctlD, CniNetD, Containerd, Kernel!Root
<1>4. /\ InitGroup \in Path /\ System \in Path /\ PodRuntime \in Path /\ KubePods \in Path
      /\ BestEffort \in Path /\ Burstable \in Path
  BY PathsAre, Zenon DEF InitGroup
<1>3. Shipped \ {CniBin} \subseteq {Bin, UsrLib, Certs, Kubelet}
  BY Zenon DEF Shipped, Bin, UsrLib, Certs, Kubelet
<1> QED
  BY <1>1, <1>2, <1>3, <1>4, PathsAre, Zenon

LEMMA PlaceNames ==
    /\ Len(Kernel!Root) = 0
    /\ Len(Proc) = 1 /\ Proc[1] = "proc"
    /\ Len(Sys) = 1 /\ Sys[1] = "sys"
    /\ Len(Dev) = 1 /\ Dev[1] = "dev"
    /\ Len(Run) = 1 /\ Run[1] = "run"
    /\ Len(DevPts) = 2 /\ DevPts[1] = "dev" /\ DevPts[2] = "pts"
    /\ Len(SysctlD) = 2 /\ SysctlD[1] = "etc" /\ SysctlD[2] = "sysctl.d"
    /\ Len(CniBin) = 3 /\ CniBin[1] = "opt" /\ CniBin[2] = "cni" /\ CniBin[3] = "bin"
    /\ Len(CniNetD) = 3 /\ CniNetD[1] = "etc" /\ CniNetD[2] = "cni" /\ CniNetD[3] = "net.d"
    /\ Len(Containerd) = 3 /\ Containerd[1] = "var" /\ Containerd[2] = "lib" /\ Containerd[3] = "containerd"
    /\ Len(Bpf) = 3 /\ Bpf[1] = "sys" /\ Bpf[2] = "fs" /\ Bpf[3] = "bpf"
    /\ Len(Cgroup) = 3 /\ Cgroup[1] = "sys" /\ Cgroup[2] = "fs" /\ Cgroup[3] = "cgroup"
    /\ Len(NewRoot) = 1 /\ NewRoot[1] = "newroot"
    /\ Len(SquashMount) = 2 /\ SquashMount[1] = "mnt" /\ SquashMount[2] = "squashfs"
    /\ Len(TmpfsMount) = 2 /\ TmpfsMount[1] = "mnt" /\ TmpfsMount[2] = "tmpfs"
    /\ Len(Moved1) = 3 /\ Moved1[1] = "newroot" /\ Moved1[2] = "mnt" /\ Moved1[3] = "squashfs"
    /\ Len(Moved2) = 3 /\ Moved2[1] = "newroot" /\ Moved2[2] = "mnt" /\ Moved2[3] = "tmpfs"
    /\ Len(Bin) = 1 /\ Bin[1] = "bin"
    /\ Len(UsrLib) = 2 /\ UsrLib[1] = "usr" /\ UsrLib[2] = "lib"
    /\ Len(Certs) = 3 /\ Certs[1] = "etc" /\ Certs[2] = "ssl" /\ Certs[3] = "certs"
    /\ Len(Kubelet) = 3 /\ Kubelet[1] = "var" /\ Kubelet[2] = "lib" /\ Kubelet[3] = "kubelet"
BY DEF Proc, Sys, Dev, Run, DevPts, SysctlD, CniBin, CniNetD, Containerd, Bpf, Cgroup, NewRoot,
     SquashMount, TmpfsMount, Moved1, Moved2, Bin, UsrLib, Certs, Kubelet, Kernel!Root

LEMMA PrefixNames ==
    \A a, b \in Path : IsPrefix(a, b) =>
        /\ Len(a) <= Len(b)
        /\ Len(a) >= 1 => a[1] = b[1]
        /\ Len(a) >= 2 => a[2] = b[2]
        /\ Len(a) >= 3 => a[3] = b[3]
<1> SUFFICES ASSUME NEW a \in Path, NEW b \in Path, IsPrefix(a, b)
             PROVE  /\ Len(a) <= Len(b)
                    /\ Len(a) >= 1 => a[1] = b[1]
                    /\ Len(a) >= 2 => a[2] = b[2]
                    /\ Len(a) >= 3 => a[3] = b[3]
  OBVIOUS
<1>1. Len(a) \in Nat /\ Len(a) <= Len(b) /\ \A i \in 1..Len(a) : a[i] = b[i]
  BY PrefixElements, T!PathIs DEF Path
<1> QED
  BY <1>1

Places == {Kernel!Root, Proc, Sys, Dev, Run, DevPts, SysctlD, CniBin, CniNetD, Containerd, Bpf, Cgroup,
           NewRoot, SquashMount, TmpfsMount, Moved1, Moved2, Bin, UsrLib, Certs, Kubelet}

LEMMA Tree ==
    /\ \A q \in Places : IsPrefix(Proc, q) => q = Proc
    /\ \A q \in Places : IsPrefix(Sys, q) => q \in {Sys, Bpf, Cgroup}
    /\ \A q \in Places : IsPrefix(Dev, q) => q \in {Dev, DevPts}
    /\ \A q \in Places : IsPrefix(Run, q) => q = Run
    /\ \A q \in Places : IsPrefix(DevPts, q) => q = DevPts
    /\ \A q \in Places : IsPrefix(SysctlD, q) => q = SysctlD
    /\ \A q \in Places : IsPrefix(CniBin, q) => q = CniBin
    /\ \A q \in Places : IsPrefix(CniNetD, q) => q = CniNetD
    /\ \A q \in Places : IsPrefix(Containerd, q) => q = Containerd
    /\ \A q \in Places : IsPrefix(Bpf, q) => q = Bpf
    /\ \A q \in Places : IsPrefix(Cgroup, q) => q = Cgroup
    /\ \A q \in Places : IsPrefix(NewRoot, q) => q \in {NewRoot, Moved1, Moved2}
    /\ \A q \in Places : IsPrefix(SquashMount, q) => q = SquashMount
    /\ \A q \in Places : IsPrefix(TmpfsMount, q) => q = TmpfsMount
    /\ \A q \in Places : IsPrefix(Moved1, q) => q = Moved1
    /\ \A q \in Places : IsPrefix(Moved2, q) => q = Moved2
    /\ \A q \in Places : IsPrefix(Bin, q) => q = Bin
    /\ \A q \in Places : IsPrefix(UsrLib, q) => q = UsrLib
    /\ \A q \in Places : IsPrefix(Certs, q) => q = Certs
    /\ \A q \in Places : IsPrefix(Kubelet, q) => q = Kubelet
<1>1. \A q \in Places : IsPrefix(Proc, q) => q = Proc
  BY PlacesAre, PlaceNames, PrefixNames DEF Places
<1>2. \A q \in Places : IsPrefix(Sys, q) => q \in {Sys, Bpf, Cgroup}
  BY PlacesAre, PlaceNames, PrefixNames DEF Places
<1>3. \A q \in Places : IsPrefix(Dev, q) => q \in {Dev, DevPts}
  BY PlacesAre, PlaceNames, PrefixNames DEF Places
<1>4. \A q \in Places : IsPrefix(Run, q) => q = Run
  BY PlacesAre, PlaceNames, PrefixNames DEF Places
<1>5. \A q \in Places : IsPrefix(DevPts, q) => q = DevPts
  BY PlacesAre, PlaceNames, PrefixNames DEF Places
<1>6. \A q \in Places : IsPrefix(SysctlD, q) => q = SysctlD
  BY PlacesAre, PlaceNames, PrefixNames DEF Places
<1>7. \A q \in Places : IsPrefix(CniBin, q) => q = CniBin
  BY PlacesAre, PlaceNames, PrefixNames DEF Places
<1>8. \A q \in Places : IsPrefix(CniNetD, q) => q = CniNetD
  BY PlacesAre, PlaceNames, PrefixNames DEF Places
<1>9. \A q \in Places : IsPrefix(Containerd, q) => q = Containerd
  BY PlacesAre, PlaceNames, PrefixNames DEF Places
<1>10. \A q \in Places : IsPrefix(Bpf, q) => q = Bpf
  BY PlacesAre, PlaceNames, PrefixNames DEF Places
<1>11. \A q \in Places : IsPrefix(Cgroup, q) => q = Cgroup
  BY PlacesAre, PlaceNames, PrefixNames DEF Places
<1>12. \A q \in Places : IsPrefix(NewRoot, q) => q \in {NewRoot, Moved1, Moved2}
  BY PlacesAre, PlaceNames, PrefixNames DEF Places
<1>13. \A q \in Places : IsPrefix(SquashMount, q) => q = SquashMount
  BY PlacesAre, PlaceNames, PrefixNames DEF Places
<1>14. \A q \in Places : IsPrefix(TmpfsMount, q) => q = TmpfsMount
  BY PlacesAre, PlaceNames, PrefixNames DEF Places
<1>15. \A q \in Places : IsPrefix(Moved1, q) => q = Moved1
  BY PlacesAre, PlaceNames, PrefixNames DEF Places
<1>16. \A q \in Places : IsPrefix(Moved2, q) => q = Moved2
  BY PlacesAre, PlaceNames, PrefixNames DEF Places
<1>17. \A q \in Places : IsPrefix(Bin, q) => q = Bin
  BY PlacesAre, PlaceNames, PrefixNames DEF Places
<1>18. \A q \in Places : IsPrefix(UsrLib, q) => q = UsrLib
  BY PlacesAre, PlaceNames, PrefixNames DEF Places
<1>19. \A q \in Places : IsPrefix(Certs, q) => q = Certs
  BY PlacesAre, PlaceNames, PrefixNames DEF Places
<1>20. \A q \in Places : IsPrefix(Kubelet, q) => q = Kubelet
  BY PlacesAre, PlaceNames, PrefixNames DEF Places
<1> QED
  BY <1>1, <1>2, <1>3, <1>4, <1>5, <1>6, <1>7, <1>8, <1>9, <1>10, <1>11, <1>12, <1>13, <1>14, <1>15,
       <1>16, <1>17, <1>18, <1>19, <1>20, Zenon

LEMMA PlacesDiffer ==
    /\ Kernel!Root \notin {Proc, Sys, Dev, Run, DevPts, SysctlD, CniBin, CniNetD, Containerd, Bpf,
                           Cgroup, NewRoot, SquashMount, TmpfsMount, Moved1, Moved2, Bin, UsrLib, Certs, Kubelet}
    /\ Proc \notin {Sys, Dev, Run, DevPts, SysctlD, CniBin, CniNetD, Containerd, Bpf, Cgroup, NewRoot,
                    SquashMount, TmpfsMount, Moved1, Moved2, Bin, UsrLib, Certs, Kubelet}
    /\ Sys \notin {Dev, Run, DevPts, SysctlD, CniBin, CniNetD, Containerd, Bpf, Cgroup, NewRoot,
                   SquashMount, TmpfsMount, Moved1, Moved2, Bin, UsrLib, Certs, Kubelet}
    /\ Dev \notin {Run, DevPts, SysctlD, CniBin, CniNetD, Containerd, Bpf, Cgroup, NewRoot, SquashMount,
                   TmpfsMount, Moved1, Moved2, Bin, UsrLib, Certs, Kubelet}
    /\ Run \notin {DevPts, SysctlD, CniBin, CniNetD, Containerd, Bpf, Cgroup, NewRoot, SquashMount,
                   TmpfsMount, Moved1, Moved2, Bin, UsrLib, Certs, Kubelet}
    /\ DevPts \notin {SysctlD, CniBin, CniNetD, Containerd, Bpf, Cgroup, NewRoot, SquashMount,
                      TmpfsMount, Moved1, Moved2, Bin, UsrLib, Certs, Kubelet}
    /\ SysctlD \notin {CniBin, CniNetD, Containerd, Bpf, Cgroup, NewRoot, SquashMount, TmpfsMount,
                       Moved1, Moved2, Bin, UsrLib, Certs, Kubelet}
    /\ CniBin \notin {CniNetD, Containerd, Bpf, Cgroup, NewRoot, SquashMount, TmpfsMount, Moved1,
                      Moved2, Bin, UsrLib, Certs, Kubelet}
    /\ CniNetD \notin {Containerd, Bpf, Cgroup, NewRoot, SquashMount, TmpfsMount, Moved1, Moved2, Bin,
                       UsrLib, Certs, Kubelet}
    /\ Containerd \notin {Bpf, Cgroup, NewRoot, SquashMount, TmpfsMount, Moved1, Moved2, Bin, UsrLib,
                          Certs, Kubelet}
    /\ Bpf \notin {Cgroup, NewRoot, SquashMount, TmpfsMount, Moved1, Moved2, Bin, UsrLib, Certs, Kubelet}
    /\ Cgroup \notin {NewRoot, SquashMount, TmpfsMount, Moved1, Moved2, Bin, UsrLib, Certs, Kubelet}
    /\ NewRoot \notin {SquashMount, TmpfsMount, Moved1, Moved2, Bin, UsrLib, Certs, Kubelet}
    /\ SquashMount \notin {TmpfsMount, Moved1, Moved2, Bin, UsrLib, Certs, Kubelet}
    /\ TmpfsMount \notin {Moved1, Moved2, Bin, UsrLib, Certs, Kubelet}
    /\ Moved1 \notin {Moved2, Bin, UsrLib, Certs, Kubelet}
    /\ Moved2 \notin {Bin, UsrLib, Certs, Kubelet}
    /\ Bin \notin {UsrLib, Certs, Kubelet}
    /\ UsrLib \notin {Certs, Kubelet}
    /\ Certs \notin {Kubelet}
BY PlaceNames

-----------------------------------------------------------------------------
LEMMA CallPlaces ==
    /\ Plan[1].at = Proc /\ Plan[2].at = Sys /\ Plan[3].at = Dev
    /\ Plan[4].at = SquashMount /\ Plan[5].at = TmpfsMount /\ Plan[6].at = NewRoot
    /\ Plan[7].at = SquashMount /\ Plan[8].at = TmpfsMount /\ Plan[9].at = NewRoot
    /\ Plan[10].at = Kernel!Root /\ Plan[11].at = Proc /\ Plan[12].at = Sys /\ Plan[13].at = Sys
    /\ Plan[14].at = Dev /\ Plan[15].at = DevPts /\ Plan[16].at = Run /\ Plan[17].at = Run
    /\ Plan[18].at = SysctlD /\ Plan[19].at = CniBin /\ Plan[20].at = CniNetD
    /\ Plan[21].at = Containerd /\ Plan[22].at = Bpf /\ Plan[23].at = Bpf
    /\ Plan[24].at = Cgroup /\ Plan[25].at = Cgroup /\ Plan[26].at = Cgroup /\ Plan[27].at = Cgroup
BY CallsOfPlan DEF Is

LEMMA GroupPlaces ==
    /\ Plan[28].at = Cgroup /\ Plan[29].at = InitGroup /\ Plan[30].at = System
    /\ Plan[31].at = PodRuntime /\ Plan[32].at = KubePods /\ Plan[33].at = BestEffort
    /\ Plan[34].at = Burstable /\ Plan[35].at = InitGroup /\ Plan[36].at = Cgroup
    /\ Plan[37].at = System /\ Plan[38].at = PodRuntime /\ Plan[39].at = KubePods
    /\ Plan[40].at = BestEffort /\ Plan[41].at = Burstable /\ Plan[42].at = Proc
BY CallsOfPlan DEF Is

LEMMA CallPaths == \A k \in 1..42 : Plan[k].at \in Path
<1>1. \A k \in 1..27 : Plan[k].at \in Path
  BY CallPlaces, PlacesAre
<1>2. \A k \in 28..42 : Plan[k].at \in Path
  BY GroupPlaces, PlacesAre
<1> QED
  BY <1>1, <1>2

\* What koobd mounts later is not above what it mounted or shared before.
LEMMA TopDown ==
    /\ \A k, n \in MountCalls : k < n => ~IsPrefix(Plan[n].at, Plan[k].at)
    /\ \A k \in ShareCalls : \A n \in MountCalls : k < n => ~IsPrefix(Plan[n].at, Plan[k].at)
<1>1. \A k, n \in MountCalls : k < n => ~IsPrefix(Plan[n].at, Plan[k].at)
  BY CallsAre, CallPlaces, Tree, PlacesDiffer DEF Places
<1>2. \A k \in ShareCalls : \A n \in MountCalls : k < n => ~IsPrefix(Plan[n].at, Plan[k].at)
  BY CallsAre, CallPlaces, Tree, PlacesDiffer DEF Places
<1> QED
  BY <1>1, <1>2

\* squashfs-init mounts the same file systems in the same places, or in
\* places that koobd leaves alone.
LEMMA SameMounts ==
    /\ \A n \in 1..6, k \in MountCalls :
        /\ IsPrefix(Plan[k].at, Plan[n].at) => Plan[k].at = Plan[n].at
        /\ Plan[k].at = Plan[n].at => Plan[k].fs = Plan[n].fs
    /\ \A k, n \in MountCalls : Plan[k].at = Plan[n].at => k = n
    /\ \A n \in 1..3 : \E k \in MountCalls : Plan[k].at = Plan[n].at /\ Plan[k].fs = Plan[n].fs
<1>1. \A n \in 1..6, k \in MountCalls : IsPrefix(Plan[k].at, Plan[n].at) => Plan[k].at = Plan[n].at
  BY CallsAre, CallPlaces, Tree, PlacesDiffer DEF Places
<1>2. /\ Plan[1].fs = Plan[11].fs /\ Plan[2].fs = Plan[12].fs /\ Plan[3].fs = Plan[14].fs
      /\ Plan[1].at = Plan[11].at /\ Plan[2].at = Plan[12].at /\ Plan[3].at = Plan[14].at
  BY CallsOfPlan DEF Is
<1>3. \A n \in 1..6, k \in MountCalls : Plan[k].at = Plan[n].at => Plan[k].fs = Plan[n].fs
  BY <1>2, CallsAre, CallPlaces, PlacesDiffer
<1>4. \A k, n \in MountCalls : Plan[k].at = Plan[n].at => k = n
  BY CallsAre, CallPlaces, PlacesDiffer
<1>5. \A n \in 1..3 : \E k \in MountCalls : Plan[k].at = Plan[n].at /\ Plan[k].fs = Plan[n].fs
  BY <1>2, CallsAre
<1> QED
  BY <1>1, <1>3, <1>4, <1>5

LEMMA ApartFromCgroup ==
    /\ \A n \in 1..23 : ~IsPrefix(Cgroup, Plan[n].at)
    /\ \A n \in 15..23 : ~IsPrefix(Plan[n].at, Cgroup)
    /\ \A n \in (1..6) \cup MountCalls : n < 26 => Plan[n].at # Cgroup
    /\ \A p \in {Kernel!Root, Proc, SquashMount, TmpfsMount, NewRoot, Moved1, Moved2} : ~IsPrefix(Cgroup, p)
    /\ Plan[24].at = Cgroup /\ Plan[25].at = Cgroup /\ Plan[26].at = Cgroup /\ Plan[27].at = Cgroup
<1>1. \A n \in 1..23 : ~IsPrefix(Cgroup, Plan[n].at)
  BY CallPlaces, Tree, PlacesDiffer DEF Places
<1>2. \A n \in 15..23 : ~IsPrefix(Plan[n].at, Cgroup)
  BY CallPlaces, Tree, PlacesDiffer DEF Places
<1>3. \A n \in (1..6) \cup MountCalls : n < 26 => Plan[n].at # Cgroup
  BY CallsAre, CallPlaces, PlacesDiffer
<1>4. \A p \in {Kernel!Root, Proc, SquashMount, TmpfsMount, NewRoot, Moved1, Moved2} : ~IsPrefix(Cgroup, p)
  BY Tree, PlacesDiffer DEF Places
<1> QED
  BY <1>1, <1>2, <1>3, <1>4, CallPlaces

LEMMA ApartFromProc ==
    \A n \in (2..6) \cup MountCalls : n # 11 => ~IsPrefix(Plan[n].at, Proc)
BY CallsAre, CallPlaces, Tree, PlacesDiffer DEF Places

LEMMA ApartFromImage ==
    \A d \in Shipped \ {CniBin} :
        /\ d \in Path
        /\ \A n \in MountCalls : ~IsPrefix(Plan[n].at, d)
        /\ \A p \in {SquashMount, TmpfsMount, Dev, Proc, Sys, Run} : ~IsPrefix(p, d)
<1> SUFFICES ASSUME NEW d \in {Bin, UsrLib, Certs, Kubelet}
             PROVE  /\ d \in Path
                    /\ \A n \in MountCalls : ~IsPrefix(Plan[n].at, d)
                    /\ \A p \in {SquashMount, TmpfsMount, Dev, Proc, Sys, Run} : ~IsPrefix(p, d)
  BY PlacesAre
<1>1. d \in Path
  BY PlacesAre
<1>2. \A n \in MountCalls : ~IsPrefix(Plan[n].at, d)
  BY CallsAre, CallPlaces, Tree, PlacesDiffer DEF Places
<1>3. \A p \in {SquashMount, TmpfsMount, Dev, Proc, Sys, Run} : ~IsPrefix(p, d)
  BY Tree, PlacesDiffer DEF Places
<1> QED
  BY <1>1, <1>2, <1>3

\* The places of squashfs-init and those of koobd.
LEMMA ApartFromInit ==
    /\ \A k \in MountCalls : \A p \in {Kernel!Root, SquashMount, TmpfsMount, NewRoot, Moved1, Moved2} :
            ~IsPrefix(Plan[k].at, p) /\ Plan[k].at # p
    /\ \A k \in MountCalls : \A p \in {SquashMount, TmpfsMount, NewRoot} : ~IsPrefix(p, Plan[k].at)
    /\ \A n \in 1..5 : ~IsPrefix(NewRoot, Plan[n].at)
    /\ \A n \in (1..6) \ {4} : ~IsPrefix(SquashMount, Plan[n].at)
    /\ \A n \in (1..6) \ {5} : ~IsPrefix(TmpfsMount, Plan[n].at)
    /\ \A p \in {Moved1, Moved2, NewRoot} : ~IsPrefix(SquashMount, p) /\ ~IsPrefix(TmpfsMount, p)
    /\ ~IsPrefix(SquashMount, TmpfsMount) /\ ~IsPrefix(TmpfsMount, SquashMount)
    /\ IsPrefix(NewRoot, Moved1) /\ IsPrefix(NewRoot, Moved2)
    /\ ~IsPrefix(Moved1, NewRoot) /\ ~IsPrefix(Moved2, NewRoot) /\ ~IsPrefix(Moved2, Moved1)
    /\ NewRoot # Kernel!Root /\ SquashMount # Kernel!Root /\ TmpfsMount # Kernel!Root
    /\ ~IsPrefix(NewRoot, SquashMount) /\ ~IsPrefix(NewRoot, TmpfsMount)
<1>1. \A k \in MountCalls : \A p \in {Kernel!Root, SquashMount, TmpfsMount, NewRoot, Moved1, Moved2} :
            ~IsPrefix(Plan[k].at, p) /\ Plan[k].at # p
  BY CallsAre, CallPlaces, Tree, PlacesDiffer DEF Places
<1>2. \A k \in MountCalls : \A p \in {SquashMount, TmpfsMount, NewRoot} : ~IsPrefix(p, Plan[k].at)
  BY CallsAre, CallPlaces, Tree, PlacesDiffer DEF Places
<1>3. /\ \A n \in 1..5 : ~IsPrefix(NewRoot, Plan[n].at)
      /\ \A n \in (1..6) \ {4} : ~IsPrefix(SquashMount, Plan[n].at)
      /\ \A n \in (1..6) \ {5} : ~IsPrefix(TmpfsMount, Plan[n].at)
  BY CallPlaces, Tree, PlacesDiffer DEF Places
<1>4. /\ \A p \in {Moved1, Moved2, NewRoot} : ~IsPrefix(SquashMount, p) /\ ~IsPrefix(TmpfsMount, p)
      /\ ~IsPrefix(SquashMount, TmpfsMount) /\ ~IsPrefix(TmpfsMount, SquashMount)
      /\ ~IsPrefix(Moved1, NewRoot) /\ ~IsPrefix(Moved2, NewRoot) /\ ~IsPrefix(Moved2, Moved1)
      /\ NewRoot # Kernel!Root /\ SquashMount # Kernel!Root /\ TmpfsMount # Kernel!Root
      /\ ~IsPrefix(NewRoot, SquashMount) /\ ~IsPrefix(NewRoot, TmpfsMount)
  BY Tree, PlacesDiffer DEF Places
<1>5. IsPrefix(NewRoot, Moved1) /\ IsPrefix(NewRoot, Moved2)
  BY PlacesAre, T!ConcatPrefix, PrefixIs DEF Moved1, Moved2, Path
<1> QED
  BY <1>1, <1>2, <1>3, <1>4, <1>5

\* What switch_root carries.
Taken == {Dev, Proc, Sys, Run}

LEMMA TakenPlaces ==
    /\ Taken \subseteq Path
    /\ \A k \in MountCalls : \A q \in Taken : IsPrefix(Plan[k].at, q) => Plan[k].at = q
    /\ \A q \in Taken : /\ ~IsPrefix(q, Kernel!Root) /\ ~IsPrefix(q, SquashMount) /\ ~IsPrefix(q, TmpfsMount)
                        /\ ~IsPrefix(q, NewRoot)
                        /\ \A d \in Shipped \ {CniBin} : ~IsPrefix(q, d)
<1>1. \A k \in MountCalls : \A q \in Taken : IsPrefix(Plan[k].at, q) => Plan[k].at = q
  BY CallsAre, CallPlaces, Tree, PlacesDiffer DEF Places, Taken
<1>2. \A q \in Taken : /\ ~IsPrefix(q, Kernel!Root) /\ ~IsPrefix(q, SquashMount) /\ ~IsPrefix(q, TmpfsMount)
                       /\ ~IsPrefix(q, NewRoot)
  BY Tree, PlacesDiffer DEF Places, Taken
<1> QED
  BY <1>1, <1>2, ApartFromImage, PlacesAre DEF Taken

\* The calls that mount, and what the kernel does not stack.
LEMMA MountFs ==
    /\ \A n \in {1, 2, 3, 11, 12, 14, 26} : Plan[n].fs \in {"proc", "sysfs", "devtmpfs", "cgroup2"}
    /\ \A n \in (1..6) \cup MountCalls : /\ Plan[n].fs \in FsType /\ Plan[n].fs # "cgroup"
                                         /\ n < 26 => Plan[n].fs # "cgroup2"
    /\ Plan[26].fs = "cgroup2" /\ Plan[6].fs = "overlay"
BY CallsOfPlan, CallsAre DEF Is, FsType

-----------------------------------------------------------------------------
(* What holds of the mount table t when call n is the next one.            *)

HasProc(t) == Top(t, Proc).fs = "proc"

\* A mount: its file system is the one that koobd wants there; v1 cgroups are
\* below /sys/fs/cgroup; squashfs-init uses places of its own; and nothing
\* but the overlay is above what the image ships.
FsIsRight(e) == \A k \in MountCalls \ {26} : Plan[k].at = e.at => Plan[k].fs = e.fs

CgroupIsRight(n, e) ==
    /\ e.fs = "cgroup" => IsPrefix(Cgroup, e.at)
    /\ e.fs = "cgroup2" => e.at = Cgroup
    /\ n <= 26 /\ IsPrefix(Cgroup, e.at) /\ e.at # Cgroup => e.fs = "cgroup"

NewRootIsRight(n, e) ==
    n <= 9 =>
        /\ IsPrefix(NewRoot, e.at) =>
            /\ n >= 7
            /\ \/ e.at = NewRoot /\ e.fs = "overlay"
               \/ n >= 8 /\ e.at = Moved1
               \/ n >= 9 /\ e.at = Moved2
        /\ IsPrefix(SquashMount, e.at) => n >= 5 /\ e.at = SquashMount
        /\ IsPrefix(TmpfsMount, e.at) => n >= 6 /\ e.at = TmpfsMount

ImageIsRight(n, e) ==
    n >= 10 => \A d \in Shipped \ {CniBin} : IsPrefix(e.at, d) => e.fs = "overlay"

Fits(n, e) == FsIsRight(e) /\ CgroupIsRight(n, e) /\ NewRootIsRight(n, e) /\ ImageIsRight(n, e)

HasNewRoot(n, t) == n \in 7..9 => \E e \in Entries(t) : e.at = NewRoot

\* Where koobd has yet to mount, nothing is mounted below unless something is
\* mounted there already.
Parents(n, t) ==
    \A k \in MountCalls : k >= n =>
        \A e \in Entries(t) : IsPrefix(Plan[k].at, e.at) => \E f \in Entries(t) : f.at = Plan[k].at

NoCover(n, t) == HasProc(t) \/ n <= 15 => Uncovered(t)

CgroupOpen(n, t) == n <= 26 => Open(t, Cgroup)

\* cgroup2 that an earlier stage left is alone on its place.
Cgroup2Alone(n, t) ==
    n <= 25 => \A e, f \in Entries(t) : e.fs = "cgroup2" /\ IsPrefix(Cgroup, f.at) => f.at = Cgroup

Shape(n, t) ==
    /\ t \in Table
    /\ \A e \in Entries(t) : Fits(n, e)
    /\ HasNewRoot(n, t) /\ Parents(n, t) /\ NoCover(n, t) /\ CgroupOpen(n, t) /\ Cgroup2Alone(n, t)

\* A call that mounts and unmounts nothing.
LEMMA ShapeStays ==
    ASSUME NEW n \in 1..42, NEW m \in 1..43, n <= m, n \in 7..9 <=> m \in 7..9, n >= 10 <=> m >= 10,
           NEW t, Shape(n, t), NEW u, SameShape(t, u)
    PROVE  Shape(m, u) /\ (HasProc(u) <=> HasProc(t))
<1>1. /\ t \in Table /\ u \in Table
      /\ \A e \in Entries(t) : \E f \in Entries(u) : f.at = e.at /\ f.fs = e.fs
      /\ \A f \in Entries(u) : \E e \in Entries(t) : f.at = e.at /\ f.fs = e.fs
      /\ \A q \in Path : /\ Top(u, q).at = Top(t, q).at /\ Top(u, q).fs = Top(t, q).fs
                         /\ Open(t, q) => Open(u, q)
      /\ Uncovered(t) => Uncovered(u)
  BY DEF SameShape
<1>2. HasProc(u) <=> HasProc(t)
  BY <1>1, PathsAre DEF HasProc
<1>3. ASSUME NEW f \in Entries(u)
      PROVE  Fits(m, f)
  <2>1. PICK e \in Entries(t) : f.at = e.at /\ f.fs = e.fs
    BY <1>1
  <2>2. Fits(n, e)
    BY DEF Shape
  <2>3. FsIsRight(f)
    BY <2>1, <2>2 DEF Fits, FsIsRight
  <2>4. CgroupIsRight(m, f)
    BY <2>1, <2>2 DEF Fits, CgroupIsRight
  <2>5. NewRootIsRight(m, f)
    BY <2>1, <2>2 DEF Fits, NewRootIsRight
  <2>6. ImageIsRight(m, f)
    BY <2>1, <2>2 DEF Fits, ImageIsRight
  <2> QED
    BY <2>3, <2>4, <2>5, <2>6 DEF Fits
<1>4. HasNewRoot(m, u)
  BY <1>1 DEF Shape, HasNewRoot
<1>5. Parents(m, u)
  <2> SUFFICES ASSUME NEW k \in MountCalls, k >= m, NEW e \in Entries(u), IsPrefix(Plan[k].at, e.at)
               PROVE  \E f \in Entries(u) : f.at = Plan[k].at
    BY DEF Parents
  <2>1. k >= n
    BY CallsAre
  <2>2. PICK g \in Entries(t) : g.at = e.at
    BY <1>1
  <2>3. PICK h \in Entries(t) : h.at = Plan[k].at
    BY <2>1, <2>2 DEF Shape, Parents
  <2> QED
    BY <1>1, <2>3
<1>6. NoCover(m, u)
  BY <1>1, <1>2 DEF Shape, NoCover
<1>7. CgroupOpen(m, u)
  BY <1>1, PathsAre DEF Shape, CgroupOpen
<1>8. Cgroup2Alone(m, u)
  BY <1>1 DEF Shape, Cgroup2Alone
<1> QED
  BY <1>1, <1>2, <1>3, <1>4, <1>5, <1>6, <1>7, <1>8 DEF Shape

-----------------------------------------------------------------------------
\* A lookup of a place finds what is mounted there, when nothing is covered.
LEMMA FoundOpen ==
    ASSUME NEW t \in Table, Uncovered(t), NEW p \in Path, NEW e \in Entries(t), e.at = p
    PROVE  Top(t, p) = e
<1>1. Open(t, p) /\ IsPrefix(p, e.at)
  BY OpenRoot, PrefixFacts
<1> QED
  BY <1>1, OpenTop

\* Nothing is at or below a place in which something is about to be mounted.
LEMMA NothingThere ==
    ASSUME NEW n \in (1..6) \cup MountCalls, NEW t, Shape(n, t), Uncovered(t),
           Kernel!CanMount(t, Plan[n].at, Plan[n].fs),
           n >= 15 => ~\E e \in Entries(t) : e.at = Plan[n].at
    PROVE  \A e \in Entries(t) : ~IsPrefix(Plan[n].at, e.at)
<1> SUFFICES ASSUME NEW e \in Entries(t), IsPrefix(Plan[n].at, e.at)
             PROVE  FALSE
  OBVIOUS
<1>1. t \in Table /\ Fits(n, e) /\ Parents(n, t) /\ n \in 1..42 /\ Plan[n].at \in Path
  BY CallsAre, CallPaths DEF Shape
<1>2. CASE n \in 4..6
  <2>1. n <= 9 /\ NewRootIsRight(n, e)
    BY <1>1, <1>2 DEF Fits
  <2> QED
    BY <1>2, <2>1, CallPlaces DEF NewRootIsRight
<1>3. CASE n \notin 4..6
  <2>1. PICK k \in MountCalls : k >= n /\ Plan[k].at = Plan[n].at /\ Plan[k].fs = Plan[n].fs
    BY <1>1, <1>3, SameMounts, CallsAre
  <2>2. PICK f \in Entries(t) : f.at = Plan[n].at
    BY <1>1, <2>1 DEF Parents
  <2>3. n < 15
    BY <1>1, <2>2
  <2>4. n \in {1, 2, 3, 11, 12, 14} /\ n # 26 /\ k # 26
    BY <1>3, <2>1, <2>3, CallsAre, ApartFromCgroup
  <2>5. Top(t, Plan[n].at) = f
    BY <1>1, <2>2, FoundOpen
  <2>6. f.fs = Plan[n].fs
    BY <2>1, <2>2, <2>4 DEF Shape, Fits, FsIsRight
  <2>7. Kernel!IsMountPoint(t, Plan[n].at) /\ Kernel!FsAt(t, Plan[n].at) = Plan[n].fs
    BY <1>1, <2>2, <2>5, <2>6, TopIs
  <2>8. Plan[n].fs \in {"proc", "sysfs", "devtmpfs", "cgroup2"}
    BY <2>4, MountFs
  <2> QED
    BY <2>7, <2>8 DEF Kernel!CanMount
<1> QED
  BY <1>2, <1>3

\* A call that mounts: where, and what.
LEMMA MountPlace ==
    ASSUME NEW n \in (1..6) \cup MountCalls
    PROVE  /\ n \in 1..26 /\ (n <= 6 \/ (n \in MountCalls /\ n >= 11))
           /\ Plan[n].at \in Path /\ Plan[n].fs \in FsType
           /\ n # 26 => n <= 23 /\ ~IsPrefix(Cgroup, Plan[n].at) /\ Plan[n].fs \notin {"cgroup", "cgroup2"}
           /\ n = 26 => Plan[n].at = Cgroup /\ Plan[n].fs = "cgroup2"
           /\ n \in 15..23 => ~IsPrefix(Plan[n].at, Cgroup)
           /\ n >= 15 => ~IsPrefix(Plan[n].at, Proc)
           /\ n = 6 => Plan[n].at = NewRoot /\ Plan[n].fs = "overlay"
<1>1. n \in 1..26 /\ (n <= 6 \/ (n \in MountCalls /\ n >= 11)) /\ n \notin {24, 25}
  BY CallsAre
<1>2. Plan[n].at \in Path /\ Plan[n].fs \in FsType
  BY <1>1, CallPaths, MountFs
<1>3. CASE n = 26
  BY <1>2, <1>3, MountFs, CallPlaces, ApartFromProc, CallsAre
<1>4. CASE n \in 1..23
  <2>1. n < 26 /\ n <= 23 /\ Plan[n].fs # "cgroup" /\ Plan[n].fs # "cgroup2"
    BY <1>4, MountFs
  <2>2. ~IsPrefix(Cgroup, Plan[n].at) /\ (n \in 15..23 => ~IsPrefix(Plan[n].at, Cgroup))
    BY <1>4, ApartFromCgroup
  <2>3. n >= 15 => ~IsPrefix(Plan[n].at, Proc)
    BY <1>1, ApartFromProc
  <2>4. n = 6 => Plan[n].at = NewRoot /\ Plan[n].fs = "overlay"
    BY CallPlaces, MountFs
  <2> QED
    BY <1>1, <1>2, <1>4, <2>1, <2>2, <2>3, <2>4
<1> QED
  BY <1>1, <1>3, <1>4

LEMMA FitsStays ==
    ASSUME NEW n \in 1..26, n <= 6 \/ n >= 11, NEW f, Fits(n, f)
    PROVE  Fits(n + 1, f)
<1>1. CgroupIsRight(n + 1, f) /\ FsIsRight(f)
  BY DEF Fits, CgroupIsRight
<1>2. NewRootIsRight(n + 1, f)
  BY DEF Fits, NewRootIsRight
<1>3. ImageIsRight(n + 1, f)
  BY DEF Fits, ImageIsRight
<1> QED
  BY <1>1, <1>2, <1>3 DEF Fits

LEMMA FitsNew ==
    ASSUME NEW n \in (1..6) \cup MountCalls, NEW e, e.at = Plan[n].at, e.fs = Plan[n].fs
    PROVE  Fits(n + 1, e)
<1>1. /\ n \in 1..26 /\ (n <= 6 \/ (n \in MountCalls /\ n >= 11))
      /\ n # 26 => n <= 23 /\ ~IsPrefix(Cgroup, e.at) /\ e.fs \notin {"cgroup", "cgroup2"}
      /\ n = 26 => e.at = Cgroup /\ e.fs = "cgroup2"
      /\ n = 6 => e.at = NewRoot /\ e.fs = "overlay"
  BY MountPlace
<1>2. FsIsRight(e)
  <2> SUFFICES ASSUME NEW k \in MountCalls, Plan[k].at = e.at
               PROVE  Plan[k].fs = e.fs
    BY DEF FsIsRight
  <2>1. CASE n <= 6
    BY <1>1, <2>1, SameMounts
  <2>2. CASE n \in MountCalls
    BY <2>2, SameMounts
  <2> QED
    BY <1>1, <2>1, <2>2
<1>3. CgroupIsRight(n + 1, e)
  BY <1>1, PlacesAre, PrefixFacts DEF CgroupIsRight
<1>4. NewRootIsRight(n + 1, e)
  <2>1. CASE n <= 6
    <3>1. n # 6 => ~IsPrefix(NewRoot, e.at)
      BY <1>1, <2>1, ApartFromInit
    <3>2. n # 4 => ~IsPrefix(SquashMount, e.at)
      BY <1>1, <2>1, ApartFromInit
    <3>3. n # 5 => ~IsPrefix(TmpfsMount, e.at)
      BY <1>1, <2>1, ApartFromInit
    <3>4. (n = 4 => e.at = SquashMount) /\ (n = 5 => e.at = TmpfsMount)
      BY CallPlaces
    <3> QED
      BY <1>1, <2>1, <3>1, <3>2, <3>3, <3>4 DEF NewRootIsRight
  <2>2. CASE n >= 11
    <3>1. ~(n + 1 <= 9)
      BY <1>1, <2>2
    <3> QED
      BY <3>1, Zenon DEF NewRootIsRight
  <2> QED
    BY <1>1, <2>1, <2>2
<1>5. ImageIsRight(n + 1, e)
  <2>1. CASE n <= 6
    <3>1. ~(n + 1 >= 10)
      BY <1>1, <2>1
    <3> QED
      BY <3>1, Zenon DEF ImageIsRight
  <2>2. CASE n \in MountCalls
    <3>1. \A d \in Shipped \ {CniBin} : ~IsPrefix(e.at, d)
      BY <2>2, ApartFromImage
    <3> QED
      BY <3>1, Zenon DEF ImageIsRight
  <2> QED
    BY <1>1, <2>1, <2>2
<1> QED
  BY <1>2, <1>3, <1>4, <1>5 DEF Fits

LEMMA ShapeMounts ==
    ASSUME NEW n \in (1..6) \cup MountCalls, NEW t, Shape(n, t),
           Kernel!CanMount(t, Plan[n].at, Plan[n].fs),
           n >= 15 => ~(HasProc(t) /\ \E e \in Entries(t) : e.at = Plan[n].at)
    PROVE  Shape(n + 1, Kernel!Mounted(t, Plan[n].at, Plan[n].fs))
<1> DEFINE p == Plan[n].at
           u == Kernel!Mounted(t, p, Plan[n].fs)
<1>1. /\ n \in 1..26 /\ (n <= 6 \/ (n \in MountCalls /\ n >= 11))
      /\ p \in Path /\ Plan[n].fs \in FsType
      /\ n # 26 => n <= 23 /\ ~IsPrefix(Cgroup, p) /\ Plan[n].fs \notin {"cgroup", "cgroup2"}
      /\ n \in 15..23 => ~IsPrefix(p, Cgroup)
      /\ n >= 15 => ~IsPrefix(p, Proc)
      /\ n = 6 => p = NewRoot
  BY MountPlace
<1>2. /\ t \in Table /\ Kernel!Root \in Path /\ Proc \in Path /\ Cgroup \in Path
      /\ \A f \in Entries(t) : f.at \in Path
  BY PlacesAre, TableIs DEF Shape
<1>3. PICK e \in Entry :
        /\ e.at = p /\ e.fs = Plan[n].fs
        /\ u \in Table
        /\ Entries(u) = Entries(t) \cup {e}
        /\ \A q \in Path : Top(u, q) = IF IsPrefix(p, q) THEN e ELSE Top(t, q)
        /\ \A q \in Path : Open(t, q) /\ (\A f \in Entries(t) : IsPrefix(q, f.at) => ~IsPrefix(p, f.at))
                              => Open(u, q)
  <2>1. t \in Table /\ p \in Path /\ Plan[n].fs \in FsType
    BY <1>1, <1>2
  <2> QED
    BY <2>1, MountedIs
<1>4. \A f \in Entries(u) : Fits(n + 1, f)
  <2>1. Fits(n + 1, e)
    BY <1>3, FitsNew
  <2>2. \A f \in Entries(t) : Fits(n + 1, f)
    BY <1>1, FitsStays DEF Shape
  <2> QED
    BY <1>3, <2>1, <2>2
<1>5. n >= 15 /\ HasProc(u) => HasProc(t)
  BY <1>1, <1>2, <1>3 DEF HasProc
<1>6. ASSUME HasProc(t) \/ n + 1 <= 15
      PROVE  Uncovered(t) /\ \A f \in Entries(t) : ~IsPrefix(p, f.at)
  <2>1. Uncovered(t)
    BY <1>1, <1>6 DEF Shape, NoCover
  <2>2. n >= 15 => ~\E f \in Entries(t) : f.at = Plan[n].at
    BY <1>1, <1>6
  <2> QED
    BY <2>1, <2>2, NothingThere
<1> HIDE DEF u, p
<1>7. HasNewRoot(n + 1, u)
  <2> SUFFICES ASSUME n + 1 \in 7..9
               PROVE  \E f \in Entries(u) : f.at = NewRoot
    BY DEF HasNewRoot
  <2>1. n = 6
    BY <1>1
  <2> QED
    BY <1>1, <1>3, <2>1
<1>8. Parents(n + 1, u)
  <2> SUFFICES ASSUME NEW k \in MountCalls, k >= n + 1, NEW f \in Entries(u), IsPrefix(Plan[k].at, f.at)
               PROVE  \E g \in Entries(u) : g.at = Plan[k].at
    BY DEF Parents
  <2>1. k \in Nat /\ k >= n /\ n < k
    BY <1>1, CallsAre
  <2>2. CASE f \in Entries(t)
    <3>1. PICK g \in Entries(t) : g.at = Plan[k].at
      BY <2>1, <2>2 DEF Shape, Parents
    <3> QED
      BY <1>3, <3>1
  <2>3. CASE f = e
    <3>1. IsPrefix(Plan[k].at, Plan[n].at)
      BY <1>3, <2>3 DEF p
    <3>2. n \in 1..6
      BY <1>1, <2>1, <3>1, TopDown
    <3>3. Plan[k].at = p
      BY <3>1, <3>2, SameMounts DEF p
    <3> QED
      BY <1>3, <3>3
  <2> QED
    BY <1>3, <2>2, <2>3
<1>9. NoCover(n + 1, u)
  <2> SUFFICES ASSUME HasProc(u) \/ n + 1 <= 15
               PROVE  Uncovered(u)
    BY DEF NoCover
  <2>1. Uncovered(t) /\ \A f \in Entries(t) : ~IsPrefix(p, f.at)
    BY <1>1, <1>5, <1>6
  <2>2. Open(t, Kernel!Root)
    BY <1>2, <2>1, OpenRoot
  <2>3. Open(u, Kernel!Root)
    BY <1>2, <1>3, <2>1, <2>2
  <2> QED
    BY <1>3, <2>3, OpenRoot DEF Kernel!Root
<1>10. CgroupOpen(n + 1, u)
  <2> SUFFICES ASSUME n + 1 <= 26
               PROVE  Open(u, Cgroup)
    BY DEF CgroupOpen
  <2>1. CASE n + 1 <= 15
    <3>1. Uncovered(u)
      BY <1>9, <2>1 DEF NoCover
    <3> QED
      BY <1>2, <1>3, <3>1, OpenRoot
  <2>2. CASE n >= 15
    <3>1. ~IsPrefix(p, Cgroup) /\ ~IsPrefix(Cgroup, p)
      BY <1>1, <2>2
    <3>2. \A f \in Entries(t) : IsPrefix(Cgroup, f.at) => ~IsPrefix(p, f.at)
      BY <1>1, <1>2, <3>1, PrefixFacts
    <3>3. Open(t, Cgroup)
      BY <1>1 DEF Shape, CgroupOpen
    <3> QED
      BY <1>2, <1>3, <3>2, <3>3
  <2> QED
    BY <1>1, <2>1, <2>2
<1>11. Cgroup2Alone(n + 1, u)
  <2> SUFFICES ASSUME n + 1 <= 25
               PROVE  \A f, g \in Entries(u) : f.fs = "cgroup2" /\ IsPrefix(Cgroup, g.at) => g.at = Cgroup
    BY DEF Cgroup2Alone
  <2>1. ~IsPrefix(Cgroup, e.at) /\ e.fs # "cgroup2"
    BY <1>1, <1>3
  <2>2. \A f, g \in Entries(t) : f.fs = "cgroup2" /\ IsPrefix(Cgroup, g.at) => g.at = Cgroup
    BY <1>1 DEF Shape, Cgroup2Alone
  <2> QED
    BY <1>3, <2>1, <2>2
<1>12. u \in Table
  BY <1>3
<1> QED
  BY <1>4, <1>7, <1>8, <1>9, <1>10, <1>11, <1>12 DEF Shape, u, p

-----------------------------------------------------------------------------
LEMMA ShapeMoves ==
    ASSUME NEW n \in {7, 8}, NEW t, Shape(n, t)
    PROVE  Shape(n + 1, Kernel!Moved(t, Plan[n].at, NewRoot \o Plan[n].at))
<1> DEFINE from == Plan[n].at
           to == NewRoot \o from
           u == Kernel!Moved(t, from, to)
<1>1. /\ t \in Table /\ from \in Path /\ to \in Path /\ from # Kernel!Root /\ Uncovered(t)
      /\ \/ n = 7 /\ from = SquashMount /\ to = Moved1
         \/ n = 8 /\ from = TmpfsMount /\ to = Moved2
  <2>1. \/ n = 7 /\ from = SquashMount
        \/ n = 8 /\ from = TmpfsMount
    BY CallPlaces
  <2>2. \/ n = 7 /\ from = SquashMount /\ to = Moved1
        \/ n = 8 /\ from = TmpfsMount /\ to = Moved2
    BY <2>1 DEF Moved1, Moved2
  <2>3. t \in Table /\ Uncovered(t)
    BY DEF Shape, NoCover
  <2> HIDE DEF from, to
  <2> QED
    BY <2>2, <2>3, PlacesAre, PlacesDiffer
<1> HIDE DEF from, to
<1>2. ASSUME NEW e \in Entries(t)
      PROVE  /\ ~IsPrefix(to, e.at) /\ (IsPrefix(from, e.at) => e.at = from)
             /\ e.at \in Path /\ FsIsRight(e) /\ CgroupIsRight(n, e) /\ NewRootIsRight(n, e)
  <2>1. e.at \in Path /\ FsIsRight(e) /\ CgroupIsRight(n, e) /\ NewRootIsRight(n, e)
    BY <1>1, TableIs DEF Shape, Fits
  <2>2. IsPrefix(from, e.at) => e.at = from
    BY <1>1, <2>1 DEF NewRootIsRight
  <2>3. ASSUME IsPrefix(to, e.at)
        PROVE  FALSE
    <3>1. IsPrefix(NewRoot, e.at)
      BY <1>1, <2>1, <2>3, ApartFromInit, PrefixFacts, PlacesAre
    <3> QED
      BY <1>1, <2>1, <2>3, <3>1, ApartFromInit DEF NewRootIsRight
  <2> QED
    BY <2>1, <2>2, <2>3
<1>3. /\ u \in Table /\ Uncovered(u)
      /\ \A e \in Entries(u) :
            \/ e \in Entries(t) /\ ~IsPrefix(from, e.at)
            \/ \E f \in Entries(t) : f.at = from /\ e.at = to /\ e.fs = f.fs
      /\ \A e \in Entries(t) : ~IsPrefix(from, e.at) => e \in Entries(u)
  BY <1>1, <1>2, MovedIs DEF Kernel!Root
<1> HIDE DEF u
<1>4. to \in {Moved1, Moved2} /\ from \in {SquashMount, TmpfsMount}
  BY <1>1
<1>5. ASSUME NEW e \in Entries(u), NEW f \in Entries(t), f.at = from, e.at = to, e.fs = f.fs
      PROVE  Fits(n + 1, e)
  <2>1. e.fs # "cgroup" /\ e.fs # "cgroup2"
    <3>1. ~IsPrefix(Cgroup, from) /\ from # Cgroup
      <4>1. ~IsPrefix(Cgroup, from)
        BY <1>4, ApartFromCgroup
      <4>2. IsPrefix(Cgroup, Cgroup)
        BY PlacesAre, PrefixFacts
      <4> QED
        BY <4>1, <4>2
    <3> QED
      BY <1>2, <1>5, <3>1 DEF CgroupIsRight
  <2>2. CgroupIsRight(n + 1, e)
    BY <1>4, <1>5, <2>1, ApartFromCgroup DEF CgroupIsRight
  <2>3. FsIsRight(e)
    BY <1>4, <1>5, ApartFromInit DEF FsIsRight
  <2>4. NewRootIsRight(n + 1, e)
    BY <1>1, <1>4, <1>5, ApartFromInit DEF NewRootIsRight
  <2>5. ImageIsRight(n + 1, e)
    BY DEF ImageIsRight
  <2> QED
    BY <2>2, <2>3, <2>4, <2>5 DEF Fits
<1>6. ASSUME NEW e \in Entries(t)
      PROVE  Fits(n + 1, e)
  <2>1. CgroupIsRight(n + 1, e)
    BY <1>2 DEF CgroupIsRight
  <2>2. NewRootIsRight(n + 1, e)
    BY <1>2 DEF NewRootIsRight
  <2>3. ImageIsRight(n + 1, e)
    BY DEF ImageIsRight
  <2> QED
    BY <1>2, <2>1, <2>2, <2>3 DEF Fits
<1>7. \A e \in Entries(u) : Fits(n + 1, e)
  BY <1>3, <1>5, <1>6
<1>8. HasNewRoot(n + 1, u)
  <2>1. PICK e \in Entries(t) : e.at = NewRoot
    BY DEF Shape, HasNewRoot
  <2>2. ~IsPrefix(from, NewRoot)
    BY <1>4, ApartFromInit
  <2> QED
    BY <1>3, <2>1, <2>2 DEF HasNewRoot
<1>9. Parents(n + 1, u)
  <2> SUFFICES ASSUME NEW k \in MountCalls, NEW e \in Entries(u), IsPrefix(Plan[k].at, e.at)
               PROVE  \E f \in Entries(u) : f.at = Plan[k].at
    BY DEF Parents
  <2>1. e.at # to
    BY <1>4, ApartFromInit
  <2>2. e \in Entries(t) /\ k >= n
    BY <1>3, <2>1, CallsAre
  <2>3. PICK f \in Entries(t) : f.at = Plan[k].at
    BY <2>2 DEF Shape, Parents
  <2>4. ~IsPrefix(from, Plan[k].at)
    BY <1>4, ApartFromInit
  <2> QED
    BY <1>3, <2>3, <2>4
<1>10. NoCover(n + 1, u) /\ CgroupOpen(n + 1, u)
  BY <1>3, OpenRoot, PlacesAre DEF NoCover, CgroupOpen
<1>11. Cgroup2Alone(n + 1, u)
  <2> SUFFICES ASSUME NEW e \in Entries(u), NEW f \in Entries(u), e.fs = "cgroup2", IsPrefix(Cgroup, f.at)
               PROVE  f.at = Cgroup
    BY DEF Cgroup2Alone
  <2>1. f \in Entries(t)
    BY <1>3, <1>4, ApartFromCgroup
  <2>2. e.at = Cgroup
    BY <1>7 DEF Fits, CgroupIsRight
  <2>3. e.at # to
    BY <1>4, <2>2, ApartFromCgroup, PlacesDiffer
  <2>4. e \in Entries(t)
    BY <1>3, <2>3
  <2> QED
    BY <2>1, <2>4 DEF Shape, Cgroup2Alone
<1> QED
  BY <1>3, <1>7, <1>8, <1>9, <1>10, <1>11 DEF Shape, u, from, to

CarriedBy(t) ==
    UNION {Kernel!Reachable(t, p) : p \in {q \in {<<"dev">>, Proc, Sys, Run} : Kernel!IsMountPoint(t, q)}}

LEMMA CarriedIs ==
    ASSUME NEW t \in Table
    PROVE  /\ CarriedBy(t) \in SUBSET (DOMAIN t)
           /\ \A s \in CarriedBy(t) : \E q \in Taken : Kernel!IsMountPoint(t, q) /\ IsPrefix(q, t[s].at)
           /\ \A i \in DOMAIN t : \A q \in Taken :
                Kernel!IsMountPoint(t, q) /\ IsPrefix(q, t[i].at) /\ ~Kernel!Covered(t, i) => i \in CarriedBy(t)
<1>1. CarriedBy(t) = UNION {Kernel!Reachable(t, p) : p \in {q \in Taken : Kernel!IsMountPoint(t, q)}}
  BY Zenon DEF CarriedBy, Taken, Dev
<1>2. \A q, i : i \in Kernel!Reachable(t, q) <=> i \in DOMAIN t /\ IsPrefix(q, t[i].at) /\ ~Kernel!Covered(t, i)
  BY PrefixIs DEF Kernel!Reachable, Kernel!Below
<1> QED
  BY <1>1, <1>2

LEMMA ShapeSwitches ==
    ASSUME NEW t, Shape(9, t)
    PROVE  Shape(10, Kernel!Chrooted(t, NewRoot) \o Kernel!Picked(t, CarriedBy(t)))
<1> DEFINE S == CarriedBy(t)
           u == Kernel!Chrooted(t, NewRoot) \o Kernel!Picked(t, S)
           inside == {Kernel!Root, SquashMount, TmpfsMount}
<1>1. t \in Table /\ Uncovered(t) /\ (\A e \in Entries(t) : Fits(9, e)) /\ NewRoot \in Path
  BY PlacesAre DEF Shape, NoCover
<1>2. /\ NewRoot \o Kernel!Root = NewRoot
      /\ NewRoot \o SquashMount = Moved1 /\ NewRoot \o TmpfsMount = Moved2
  BY DEF Moved1, Moved2, NewRoot, Kernel!Root
<1>3. inside \in SUBSET Path /\ \E e \in Entries(t) : e.at = NewRoot
  BY PlacesAre DEF Shape, HasNewRoot
<1>4. \A e \in Entries(t) : IsPrefix(NewRoot, e.at) => \E r \in inside : e.at = NewRoot \o r
  <2> SUFFICES ASSUME NEW e \in Entries(t), IsPrefix(NewRoot, e.at)
               PROVE  e.at \in {NewRoot, Moved1, Moved2}
    BY <1>2
  <2> QED
    BY <1>1 DEF Fits, NewRootIsRight
<1>5. /\ S \in SUBSET (DOMAIN t)
      /\ \A s \in S : \E q \in Taken : Kernel!IsMountPoint(t, q) /\ IsPrefix(q, t[s].at)
  BY <1>1, CarriedIs
<1>6. \A s \in S : t[s] \in Entries(t) /\ t[s].at \in Path
  BY <1>1, <1>5, TableIs
<1>7. \A s \in S : \A r \in inside : ~IsPrefix(t[s].at, r)
  BY <1>3, <1>5, <1>6, TakenPlaces, PrefixFacts
<1> HIDE DEF S, inside
<1>8. /\ u \in Table /\ Uncovered(u)
      /\ \A e \in Entries(u) :
            \/ \E f \in Entries(t) : \E r \in inside : f.at = NewRoot \o r /\ e.at = r /\ e.fs = f.fs
            \/ \E s \in S : e = t[s]
      /\ \A s \in S : t[s] \in Entries(u)
  BY <1>1, <1>3, <1>4, <1>5, <1>7, ChrootedIs
<1> HIDE DEF u
<1>9. ASSUME NEW e \in Entries(u), NEW f \in Entries(t), NEW r \in inside,
             f.at = NewRoot \o r, e.at = r, e.fs = f.fs
      PROVE  Fits(10, e)
  <2>1. \/ r = Kernel!Root /\ f.at = NewRoot
        \/ r = SquashMount /\ f.at = Moved1
        \/ r = TmpfsMount /\ f.at = Moved2
    BY <1>2, <1>9 DEF inside
  <2>2. f.fs # "cgroup" /\ f.fs # "cgroup2"
    <3>1. ~IsPrefix(Cgroup, f.at) /\ f.at # Cgroup
      BY <2>1, ApartFromCgroup, PlacesDiffer
    <3> QED
      BY <1>1, <3>1 DEF Fits, CgroupIsRight
  <2>3. CgroupIsRight(10, e)
    BY <1>9, <2>1, <2>2, ApartFromCgroup DEF CgroupIsRight
  <2>4. FsIsRight(e)
    BY <1>9, <2>1, ApartFromInit DEF FsIsRight
  <2>5. NewRootIsRight(10, e)
    BY DEF NewRootIsRight
  <2>6. ImageIsRight(10, e)
    <3>1. CASE f.at = NewRoot
      <4>1. f.fs = "overlay"
        BY <1>1, <3>1, PrefixFacts, ApartFromInit, PlacesDiffer DEF Fits, NewRootIsRight
      <4> QED
        BY <1>9, <4>1 DEF ImageIsRight
    <3>2. CASE f.at # NewRoot
      BY <1>9, <2>1, <3>2, ApartFromImage DEF ImageIsRight
    <3> QED
      BY <3>1, <3>2
  <2> QED
    BY <2>3, <2>4, <2>5, <2>6 DEF Fits
<1>10. ASSUME NEW s \in S
       PROVE  Fits(10, t[s])
  <2>1. Fits(9, t[s])
    BY <1>1, <1>6
  <2>2. FsIsRight(t[s]) /\ CgroupIsRight(10, t[s])
    BY <2>1 DEF Fits, CgroupIsRight
  <2>3. NewRootIsRight(10, t[s])
    BY DEF NewRootIsRight
  <2>4. ImageIsRight(10, t[s])
    BY <1>5, <1>6, ApartFromImage, TakenPlaces, PrefixFacts DEF ImageIsRight
  <2> QED
    BY <2>2, <2>3, <2>4 DEF Fits
<1>11. \A e \in Entries(u) : Fits(10, e)
  BY <1>8, <1>9, <1>10
<1>12. HasNewRoot(10, u) /\ NoCover(10, u) /\ CgroupOpen(10, u)
  BY <1>8, OpenRoot, PlacesAre DEF HasNewRoot, NoCover, CgroupOpen
<1>13. Parents(10, u)
  <2> SUFFICES ASSUME NEW k \in MountCalls, NEW e \in Entries(u), IsPrefix(Plan[k].at, e.at)
               PROVE  \E f \in Entries(u) : f.at = Plan[k].at
    BY DEF Parents
  <2>1. e.at \notin inside
    BY ApartFromInit DEF inside
  <2>2. PICK s \in S : e = t[s]
    BY <1>8, <2>1
  <2>3. PICK q \in Taken : Kernel!IsMountPoint(t, q) /\ IsPrefix(q, e.at)
    BY <1>5, <2>2
  <2>4. PICK f \in Entries(t) : f.at = Plan[k].at
    <3>1. k >= 9 /\ e \in Entries(t)
      BY <1>6, <2>2, CallsAre
    <3> QED
      BY <3>1 DEF Shape, Parents
  <2>5. IsPrefix(q, f.at)
    <3>1. q \in Path /\ f.at \in Path /\ e.at \in Path
      BY <1>1, <1>6, <2>2, <2>4, TakenPlaces, TableIs
    <3>2. IsPrefix(q, f.at) \/ IsPrefix(f.at, q)
      BY <2>3, <2>4, <3>1, PrefixFacts
    <3> QED
      BY <2>4, <3>1, <3>2, TakenPlaces, PrefixFacts
  <2>6. PICK i \in DOMAIN t : f = t[i]
    BY <1>1, TableIs
  <2>7. i \in S
    BY <1>1, <2>3, <2>5, <2>6, CarriedIs DEF S, Uncovered
  <2> QED
    BY <1>8, <2>4, <2>6, <2>7
<1>14. Cgroup2Alone(10, u)
  <2> SUFFICES ASSUME NEW e \in Entries(u), NEW f \in Entries(u), e.fs = "cgroup2", IsPrefix(Cgroup, f.at)
               PROVE  f.at = Cgroup
    BY DEF Cgroup2Alone
  <2>1. e.at = Cgroup
    BY <1>11 DEF Fits, CgroupIsRight
  <2>2. e.at \notin inside /\ f.at \notin inside
    BY <2>1, ApartFromCgroup, PlacesDiffer DEF inside
  <2>3. e \in Entries(t) /\ f \in Entries(t)
    BY <1>6, <1>8, <2>2
  <2> QED
    BY <2>3 DEF Shape, Cgroup2Alone
<1> QED
  BY <1>8, <1>11, <1>12, <1>13, <1>14 DEF Shape, u, S

-----------------------------------------------------------------------------
\* Below /sys/fs/cgroup only.
LEMMA ShapeLoses ==
    ASSUME NEW n \in {24, 25}, NEW t, Shape(n, t), NEW gone \in SUBSET (DOMAIN t),
           \A i \in gone : IsPrefix(Cgroup, t[i].at),
           NEW u, u = Kernel!Without(t, gone), Parents(n + 1, u)
    PROVE  /\ Shape(n + 1, u)
           /\ \A q \in Path : ~IsPrefix(Cgroup, q) => Top(u, q) = Top(t, q)
           /\ \A e \in Entries(u) : \E i \in DOMAIN t \ gone : e = t[i]
           /\ HasProc(u) <=> HasProc(t)
<1>1. t \in Table /\ (\A e \in Entries(t) : Fits(n, e)) /\ Cgroup \in Path /\ Cgroup # Kernel!Root
  BY PlacesAre, PlacesDiffer DEF Shape
<1>2. /\ u \in Table
      /\ \A e \in Entries(u) : \E i \in DOMAIN t \ gone : e = t[i]
      /\ \A q \in Path : ~IsPrefix(Cgroup, q) => Top(u, q) = Top(t, q)
      /\ \A q \in Path : Open(t, q) => Open(u, q)
  BY <1>1, WithoutIs DEF Kernel!Root
<1>3. HasProc(u) <=> HasProc(t)
  BY <1>2, ApartFromCgroup, PlacesAre DEF HasProc
<1>4. \A e \in Entries(u) : e \in Entries(t)
  BY <1>1, <1>2, TableIs
<1>5. ASSUME NEW e \in Entries(u)
      PROVE  Fits(n + 1, e)
  <2>1. Fits(n, e)
    BY <1>1, <1>4
  <2>2. CgroupIsRight(n + 1, e) /\ FsIsRight(e)
    BY <2>1 DEF Fits, CgroupIsRight
  <2>3. NewRootIsRight(n + 1, e)
    BY DEF NewRootIsRight
  <2>4. ImageIsRight(n + 1, e)
    BY <2>1 DEF Fits, ImageIsRight
  <2> QED
    BY <2>2, <2>3, <2>4 DEF Fits
<1>6. HasNewRoot(n + 1, u)
  BY DEF HasNewRoot
<1>7. NoCover(n + 1, u)
  <2> SUFFICES ASSUME HasProc(u)
               PROVE  Uncovered(u)
    BY DEF NoCover
  <2>1. Kernel!Root \in Path /\ Uncovered(t)
    BY <1>3, PlacesAre DEF Shape, NoCover
  <2>2. Open(u, Kernel!Root)
    BY <1>1, <1>2, <2>1, OpenRoot
  <2> QED
    BY <1>2, <2>2, OpenRoot DEF Kernel!Root
<1>8. CgroupOpen(n + 1, u)
  BY <1>1, <1>2 DEF Shape, CgroupOpen
<1>9. Cgroup2Alone(n + 1, u)
  BY <1>4 DEF Shape, Cgroup2Alone
<1> QED
  BY <1>2, <1>3, <1>5, <1>6, <1>7, <1>8, <1>9 DEF Shape

ReachableAt(t, p, i) == i \in DOMAIN t /\ IsPrefix(p, t[i].at) /\ ~Kernel!Covered(t, i)

LEMMA ReachableMeans == \A t, p, i : i \in Kernel!Reachable(t, p) <=> ReachableAt(t, p, i)
BY PrefixIs DEF Kernel!Reachable, Kernel!Below, ReachableAt

V1By(t) == UNION {Kernel!Reachable(t, t[i].at) : i \in {j \in DOMAIN t : t[j].fs = "cgroup"}}

LEMMA ShapePurges ==
    ASSUME NEW t, Shape(24, t), NEW u, u = Kernel!Without(t, V1By(t))
    PROVE  /\ Shape(25, u)
           /\ \A q \in Path : ~IsPrefix(Cgroup, q) => Top(u, q) = Top(t, q)
           /\ \A e \in Entries(u) : IsPrefix(Cgroup, e.at) => e.at = Cgroup
           /\ HasProc(u) <=> HasProc(t)
<1> DEFINE gone == V1By(t)
<1>1. /\ t \in Table /\ (\A e \in Entries(t) : Fits(24, e)) /\ Cgroup \in Path /\ Cgroup # Kernel!Root
      /\ Open(t, Cgroup)
  BY PlacesAre, PlacesDiffer DEF Shape, CgroupOpen
<1>2. \A i : i \in gone <=> \E j \in DOMAIN t : t[j].fs = "cgroup" /\ ReachableAt(t, t[j].at, i)
  BY ReachableMeans DEF V1By
<1>3. \A j \in DOMAIN t : t[j].at \in Path /\ Fits(24, t[j]) /\ t[j] \in Entries(t)
  BY <1>1, TableIs
<1>4. \A j \in DOMAIN t : t[j].fs = "cgroup" => IsPrefix(Cgroup, t[j].at)
  BY <1>3 DEF Fits, CgroupIsRight
<1> HIDE DEF gone
<1>5. gone \in SUBSET (DOMAIN t) /\ \A i \in gone : IsPrefix(Cgroup, t[i].at)
  BY <1>1, <1>2, <1>3, <1>4, PrefixFacts DEF ReachableAt
<1>6. \A i \in DOMAIN t \ gone : IsPrefix(Cgroup, t[i].at) => t[i].at = Cgroup
  <2> SUFFICES ASSUME NEW i \in DOMAIN t \ gone, IsPrefix(Cgroup, t[i].at), t[i].at # Cgroup
               PROVE  FALSE
    OBVIOUS
  <2>1. t[i].fs = "cgroup"
    BY <1>3 DEF Fits, CgroupIsRight
  <2>2. ReachableAt(t, t[i].at, i)
    BY <1>1, <1>3, PrefixFacts DEF Open, ReachableAt
  <2> QED
    BY <1>2, <2>1, <2>2
<1>7. /\ u \in Table
      /\ \A e \in Entries(u) : \E i \in DOMAIN t \ gone : e = t[i]
      /\ \A i \in DOMAIN t \ gone : t[i] \in Entries(u)
  BY <1>1, <1>5, WithoutIs DEF Kernel!Root, gone
<1>8. Parents(25, u)
  <2> SUFFICES ASSUME NEW k \in MountCalls, k >= 25, NEW e \in Entries(u), IsPrefix(Plan[k].at, e.at)
               PROVE  \E f \in Entries(u) : f.at = Plan[k].at
    BY DEF Parents
  <2>1. Plan[k].at = Cgroup
    BY CallsAre, CallPlaces
  <2> QED
    BY <1>6, <1>7, <2>1
<1>9. \A e \in Entries(u) : IsPrefix(Cgroup, e.at) => e.at = Cgroup
  BY <1>6, <1>7
<1>10. /\ Shape(24 + 1, u)
       /\ \A q \in Path : ~IsPrefix(Cgroup, q) => Top(u, q) = Top(t, q)
       /\ HasProc(u) <=> HasProc(t)
  <2>1. 24 + 1 = 25
    OBVIOUS
  <2>2. Parents(24 + 1, u)
    BY <1>8, <2>1
  <2> QED
    BY <1>5, <2>2, ShapeLoses DEF gone
<1>11. 24 + 1 = 25
  OBVIOUS
<1> QED
  BY <1>9, <1>10, <1>11

\* Nothing is left at /sys/fs/cgroup or below.
LEMMA ShapeUnmounts ==
    ASSUME NEW t, Shape(25, t), Kernel!CanUnmount(t, Cgroup), NEW u, u = Kernel!Unmounted(t, Cgroup)
    PROVE  /\ Shape(26, u)
           /\ \A q \in Path : ~IsPrefix(Cgroup, q) => Top(u, q) = Top(t, q)
           /\ \A e \in Entries(u) : ~IsPrefix(Cgroup, e.at)
           /\ HasProc(u) <=> HasProc(t)
<1> DEFINE gone == {Kernel!Lookup(t, Cgroup)}
<1>1. /\ t \in Table /\ Cgroup \in Path /\ Cgroup # Kernel!Root /\ Open(t, Cgroup)
      /\ u = Kernel!Without(t, gone)
  BY PlacesAre, PlacesDiffer DEF Shape, CgroupOpen, Kernel!Unmounted
<1>2. /\ Kernel!Reachable(t, Cgroup) = gone
      /\ Kernel!Lookup(t, Cgroup) \in DOMAIN t /\ t[Kernel!Lookup(t, Cgroup)].at = Cgroup
  BY <1>1, TopIs DEF Kernel!CanUnmount, Top
<1>3. \A i \in DOMAIN t : IsPrefix(Cgroup, t[i].at) => i \in gone
  BY <1>1, <1>2, ReachableMeans DEF ReachableAt, Open
<1>4. gone \in SUBSET (DOMAIN t) /\ \A i \in gone : IsPrefix(Cgroup, t[i].at)
  BY <1>1, <1>2, PrefixFacts
<1> HIDE DEF gone
<1>5. u \in Table /\ \A e \in Entries(u) : \E i \in DOMAIN t \ gone : e = t[i]
  BY <1>1, <1>4, WithoutIs DEF Kernel!Root
<1>6. \A e \in Entries(u) : ~IsPrefix(Cgroup, e.at)
  BY <1>3, <1>5
<1>7. 25 + 1 = 26
  OBVIOUS
<1>8. Parents(25 + 1, u)
  BY <1>6, <1>7, CallsAre, CallPlaces DEF Parents
<1>9. /\ Shape(25 + 1, u)
      /\ \A q \in Path : ~IsPrefix(Cgroup, q) => Top(u, q) = Top(t, q)
      /\ HasProc(u) <=> HasProc(t)
  BY <1>1, <1>4, <1>8, ShapeLoses
<1> QED
  BY <1>6, <1>7, <1>9

-----------------------------------------------------------------------------
\* cgroup2 alone, or what the purge left, can be unmounted.
LEMMA UnmountWorks ==
    ASSUME NEW t, Shape(25, t), NEW e \in Entries(t), e.at = Cgroup,
           \A f \in Entries(t) : IsPrefix(Cgroup, f.at) => f.at = Cgroup
    PROVE  Kernel!CanUnmount(t, Cgroup)
<1> DEFINE l == Kernel!Lookup(t, Cgroup)
<1>1. t \in Table /\ Cgroup \in Path /\ Open(t, Cgroup) /\ IsPrefix(Cgroup, Cgroup)
  BY PlacesAre, PrefixFacts DEF Shape, CgroupOpen
<1>2. Top(t, Cgroup) = e
  BY <1>1, OpenTop
<1>3. l \in DOMAIN t /\ t[l].at = Cgroup /\ Kernel!IsMountPoint(t, Cgroup)
  BY <1>1, <1>2, TopIs DEF Top
<1>4. \A i \in DOMAIN t : i \in Nat /\ (IsPrefix(Cgroup, t[i].at) => t[i].at = Cgroup)
  BY <1>1, TableIs
<1> HIDE DEF l
<1>5. ASSUME NEW i, ReachableAt(t, Cgroup, i)
      PROVE  i = l
  <2>1. i \in DOMAIN t /\ i \in Nat /\ l \in Nat /\ t[i].at = Cgroup /\ ~Kernel!Covered(t, i) /\ ~Kernel!Covered(t, l)
    BY <1>1, <1>3, <1>4, <1>5 DEF ReachableAt, Open
  <2>2. ~(l > i)
    BY <1>1, <1>3, <2>1, PrefixIs DEF Kernel!Covered
  <2>3. ~(i > l)
    BY <1>1, <1>3, <2>1, PrefixIs DEF Kernel!Covered
  <2> QED
    BY <2>1, <2>2, <2>3
<1>6. ReachableAt(t, Cgroup, l)
  BY <1>1, <1>3 DEF ReachableAt, Open
<1>7. Kernel!Reachable(t, Cgroup) = {l}
  BY <1>5, <1>6, ReachableMeans
<1> QED
  BY <1>3, <1>7 DEF Kernel!CanUnmount, l

-----------------------------------------------------------------------------
(* What the calls have achieved when call n is the next one and the calls  *)
(* in r were refused.                                                      *)

Says(r, ops, at) == \E k \in r : Plan[k].op \in ops /\ Plan[k].at = at

Done(k, t, r) ==
    \/ Top(t, Plan[k].at).fs = Plan[k].fs
    \/ Says(r, {"mount_if_missing"}, Plan[k].at)
    \/ Plan[k].at = Cgroup /\ Says(r, {"purge_v1", "unmount"}, Cgroup)

SharedDone(k, t, r) ==
    \/ Top(t, Plan[k].at).at # Plan[k].at
    \/ Top(t, Plan[k].at).shared
    \/ Says(r, {Plan[k].op, "mount_if_missing"}, Plan[k].at)
    \/ Plan[k].at = Cgroup /\ ~HasProc(t) /\ Says(r, {"unmount"}, Cgroup)

\* Only what is at /sys/fs/cgroup itself is in the way of cgroup2; then
\* nothing is, unless a call was refused.
Purged(t, r) ==
    HasProc(t) /\ ~Says(r, {"purge_v1"}, Cgroup) =>
        \A e \in Entries(t) : IsPrefix(Cgroup, e.at) => e.at = Cgroup

Freed(t, r) ==
    \A e \in Entries(t) : e.at = Cgroup =>
        /\ e.fs = "cgroup2" => Says(r, {"unmount"}, Cgroup)
        /\ HasProc(t) => Says(r, {"purge_v1", "unmount"}, Cgroup)

Progress(n, t, r) ==
    /\ \A k \in MountCalls : k < n => Done(k, t, r)
    /\ \A k \in ShareCalls : k < n => SharedDone(k, t, r)
    /\ n = 25 => Purged(t, r)
    /\ n = 26 => Freed(t, r)

LEMMA SaysGrows ==
    \A r, r2 : r \subseteq r2 => \A ops, at : Says(r, ops, at) => Says(r2, ops, at)
BY DEF Says

LEMMA SaysSelf ==
    \A r, n, ops : n \in r /\ Plan[n].op \in ops => Says(r, ops, Plan[n].at)
BY DEF Says

LEMMA DoneStays ==
    ASSUME NEW t, NEW u, NEW r, NEW r2, r \subseteq r2, NEW k, Top(u, Plan[k].at) = Top(t, Plan[k].at),
           Plan[k].at # Cgroup \/ t = u
    PROVE  (Done(k, t, r) => Done(k, u, r2)) /\ (SharedDone(k, t, r) => SharedDone(k, u, r2))
BY SaysGrows DEF Done, SharedDone

LEMMA DoneSame ==
    ASSUME NEW t, NEW u, SameShape(t, u), NEW r, NEW r2, r \subseteq r2, NEW k \in 1..42
    PROVE  (Done(k, t, r) => Done(k, u, r2)) /\ (SharedDone(k, t, r) => SharedDone(k, u, r2))
<1>1. Plan[k].at \in Path
  BY CallPaths
<1>2. /\ Top(u, Plan[k].at).at = Top(t, Plan[k].at).at /\ Top(u, Plan[k].at).fs = Top(t, Plan[k].at).fs
      /\ Top(t, Plan[k].at).shared => Top(u, Plan[k].at).shared
  BY <1>1 DEF SameShape
<1>3. HasProc(u) <=> HasProc(t)
  BY PathsAre DEF SameShape, HasProc
<1> QED
  BY <1>2, <1>3, SaysGrows DEF Done, SharedDone

LEMMA MoreRefused ==
    ASSUME NEW n \in 1..43, NEW t, Shape(n, t), NEW r, Progress(n, t, r), NEW r2, r \subseteq r2
    PROVE  Progress(n, t, r2)
<1>1. \A k \in 1..42 : (Done(k, t, r) => Done(k, t, r2)) /\ (SharedDone(k, t, r) => SharedDone(k, t, r2))
  BY DoneStays
<1>2. MountCalls \subseteq 1..42 /\ ShareCalls \subseteq 1..42
  BY CallsAre
<1>3. (Purged(t, r) => Purged(t, r2)) /\ (Freed(t, r) => Freed(t, r2))
  BY SaysGrows DEF Purged, Freed
<1> QED
  BY <1>1, <1>2, <1>3 DEF Progress

LEMMA ProgressStays ==
    ASSUME NEW n \in 1..42, n \notin {6, 9}, NEW t, Shape(n, t), NEW r, Progress(n, t, r),
           NEW u, SameShape(t, u), NEW r2, r \subseteq r2,
           n \in MountCalls => Done(n, u, r2),
           n \in ShareCalls => SharedDone(n, u, r2),
           n = 24 /\ HasProc(t) => Says(r2, {"purge_v1"}, Cgroup),
           n = 25 => ~Kernel!CanUnmount(t, Cgroup) \/ Says(r2, {"unmount"}, Cgroup)
    PROVE  Shape(n + 1, u) /\ Progress(n + 1, u, r2)
<1>1. Shape(n + 1, u) /\ (HasProc(u) <=> HasProc(t))
  <2>1. n + 1 \in 1..43 /\ n <= n + 1 /\ (n \in 7..9 <=> n + 1 \in 7..9) /\ (n >= 10 <=> n + 1 >= 10)
    OBVIOUS
  <2> QED
    BY <2>1, ShapeStays
<1>2. \A k \in 1..42 : (Done(k, t, r) => Done(k, u, r2)) /\ (SharedDone(k, t, r) => SharedDone(k, u, r2))
  BY DoneSame
<1>3. MountCalls \subseteq 1..42 /\ ShareCalls \subseteq 1..42
  BY CallsAre
<1>4. \A k \in MountCalls : k < n + 1 => Done(k, u, r2)
  BY <1>2, <1>3 DEF Progress
<1>5. \A k \in ShareCalls : k < n + 1 => SharedDone(k, u, r2)
  BY <1>2, <1>3 DEF Progress
<1>6. n + 1 = 25 => Purged(u, r2)
  BY <1>1 DEF Purged
<1>7. ASSUME n = 25
      PROVE  Freed(u, r2)
  <2>1. CASE Says(r2, {"unmount"}, Cgroup)
    BY <2>1 DEF Freed, Says
  <2>2. CASE ~Kernel!CanUnmount(t, Cgroup)
    <3> SUFFICES ASSUME NEW f \in Entries(u), f.at = Cgroup
                 PROVE  /\ f.fs # "cgroup2"
                        /\ HasProc(u) => Says(r2, {"purge_v1", "unmount"}, Cgroup)
      BY DEF Freed
    <3>1. PICK e \in Entries(t) : e.at = Cgroup /\ e.fs = f.fs
      BY DEF SameShape
    <3>2. PICK g \in Entries(t) : IsPrefix(Cgroup, g.at) /\ g.at # Cgroup
      BY <1>7, <2>2, <3>1, UnmountWorks
    <3>3. f.fs # "cgroup2"
      BY <1>7, <3>1, <3>2 DEF Shape, Cgroup2Alone
    <3>4. HasProc(t) => Says(r, {"purge_v1"}, Cgroup)
      BY <1>7, <3>2 DEF Progress, Purged
    <3> QED
      BY <1>1, <3>3, <3>4, SaysGrows DEF Says
  <2> QED
    BY <1>7, <2>1, <2>2
<1> QED
  BY <1>1, <1>4, <1>5, <1>6, <1>7 DEF Progress

\* cgroup2 could not be mounted: setupCgroups returns.
LEMMA ProgressReturns ==
    ASSUME NEW t, Shape(26, t), NEW r, Progress(26, t, r), NEW r2, r \subseteq r2,
           26 \in r2 \/ ~Kernel!CanMount(t, Cgroup, "cgroup2"),
           ~(HasProc(t) /\ \E e \in Entries(t) : e.at = Cgroup)
    PROVE  /\ Shape(42, t) /\ Progress(42, t, r2)
           /\ Top(t, Cgroup).fs = "cgroup2" => ~HasProc(t) /\ Says(r2, {"unmount"}, Cgroup)
<1>1. t \in Table /\ Cgroup \in Path /\ \A e \in Entries(t) : Fits(26, e)
  BY PlacesAre DEF Shape
<1>2. Shape(42, t)
  BY <1>1, SameTable, ShapeStays
<1>3. Top(t, Cgroup).fs = "cgroup2" => ~HasProc(t) /\ Says(r2, {"unmount"}, Cgroup)
  <2> SUFFICES ASSUME Top(t, Cgroup).fs = "cgroup2"
               PROVE  ~HasProc(t) /\ Says(r2, {"unmount"}, Cgroup)
    OBVIOUS
  <2>1. Top(t, Cgroup) \in Entries(t)
    BY <1>1, TopIs
  <2>2. Top(t, Cgroup).at = Cgroup
    BY <1>1, <2>1 DEF Fits, CgroupIsRight
  <2>3. Says(r, {"unmount"}, Cgroup)
    BY <2>1, <2>2 DEF Progress, Freed
  <2> QED
    BY <2>1, <2>2, <2>3, SaysGrows
<1>4. Done(26, t, r2) /\ SharedDone(27, t, r2)
  <2>1. /\ Plan[26].at = Cgroup /\ Plan[27].at = Cgroup /\ Plan[26].fs = "cgroup2"
        /\ Plan[26].op = "mount_if_missing"
    BY CallPlaces, MountFs, Kinds
  <2>2. CASE 26 \in r2
    BY <2>1, <2>2 DEF Done, SharedDone, Says
  <2>3. CASE ~Kernel!CanMount(t, Cgroup, "cgroup2")
    <3>1. Top(t, Cgroup).fs = "cgroup2"
      BY <1>1, <2>3, TopIs DEF Kernel!CanMount
    <3> QED
      BY <1>3, <2>1, <3>1 DEF Done, SharedDone
  <2> QED
    BY <2>2, <2>3
<1>5. \A k \in 1..42 : (Done(k, t, r) => Done(k, t, r2)) /\ (SharedDone(k, t, r) => SharedDone(k, t, r2))
  BY DoneStays
<1>6. \A k \in MountCalls : k < 42 => Done(k, t, r2)
  <2> TAKE k \in MountCalls
  <2>1. k \in 1..42 /\ (k < 26 \/ k = 26)
    BY CallsAre
  <2> QED
    BY <1>4, <1>5, <2>1 DEF Progress
<1>7. \A k \in ShareCalls : k < 42 => SharedDone(k, t, r2)
  <2> TAKE k \in ShareCalls
  <2>1. k \in 1..42 /\ (k < 26 \/ k = 27)
    BY CallsAre
  <2> QED
    BY <1>4, <1>5, <2>1 DEF Progress
<1> QED
  BY <1>2, <1>3, <1>6, <1>7 DEF Progress

-----------------------------------------------------------------------------
LEMMA ProgressMounts ==
    ASSUME NEW n \in (1..6) \cup MountCalls, NEW t, Shape(n, t), NEW r, Progress(n, t, r),
           Kernel!CanMount(t, Plan[n].at, Plan[n].fs),
           n >= 15 => ~(HasProc(t) /\ \E e \in Entries(t) : e.at = Plan[n].at),
           NEW u, u = Kernel!Mounted(t, Plan[n].at, Plan[n].fs)
    PROVE  Shape(n + 1, u) /\ Progress(n + 1, u, r)
<1>1. Shape(n + 1, u)
  BY ShapeMounts
<1>2. /\ t \in Table /\ n \in 1..26 /\ (n <= 6 \/ n >= 11) /\ n \notin {24, 25}
      /\ Plan[n].at \in Path /\ Plan[n].fs \in FsType
  BY CallsAre, CallPaths, MountFs DEF Shape
<1>3. PICK e \in Entry :
        /\ e.at = Plan[n].at /\ e.fs = Plan[n].fs
        /\ \A q \in Path : Top(u, q) = IF IsPrefix(Plan[n].at, q) THEN e ELSE Top(t, q)
  BY <1>2, MountedIs
<1>4. \A k \in MountCalls : k < n + 1 => Done(k, u, r)
  <2> SUFFICES ASSUME NEW k \in MountCalls, k < n + 1
               PROVE  Done(k, u, r)
    OBVIOUS
  <2>1. k \in 1..42 /\ Plan[k].at \in Path /\ n \in MountCalls
    BY <1>2, CallsAre, CallPaths
  <2>2. CASE k = n
    BY <1>2, <1>3, <2>2, PrefixFacts DEF Done
  <2>3. CASE k < n
    <3>1. Top(u, Plan[k].at) = Top(t, Plan[k].at) /\ Plan[k].at # Cgroup
      BY <1>3, <2>1, <2>3, TopDown, CallsAre, ApartFromCgroup
    <3> QED
      BY <2>3, <3>1, DoneStays DEF Progress
  <2> QED
    BY <1>2, <2>1, <2>2, <2>3
<1>5. \A k \in ShareCalls : k < n + 1 => SharedDone(k, u, r)
  <2> SUFFICES ASSUME NEW k \in ShareCalls, k < n + 1
               PROVE  SharedDone(k, u, r)
    OBVIOUS
  <2>1. k \in 1..42 /\ Plan[k].at \in Path /\ n \in MountCalls /\ k < n
    BY <1>2, CallsAre, CallPaths
  <2>2. Top(u, Plan[k].at) = Top(t, Plan[k].at)
    BY <1>3, <2>1, TopDown
  <2>3. Plan[k].at # Cgroup
    <3>1. k \in 1..23
      BY <1>2, <2>1, CallsAre
    <3>2. ~IsPrefix(Cgroup, Plan[k].at)
      BY <3>1, ApartFromCgroup
    <3> QED
      BY <2>1, <3>2, PrefixFacts
  <2> QED
    BY <2>1, <2>2, <2>3, DoneStays DEF Progress
<1>6. n + 1 # 25 /\ n + 1 # 26
  BY <1>2
<1> QED
  BY <1>1, <1>4, <1>5, <1>6 DEF Progress

\* What is mounted already is what koobd wants there, or for cgroup2 a call
\* was refused; and the kernel says no only to a mount that is there.
LEMMA NoMountNeeded ==
    ASSUME NEW n \in MountCalls, NEW t, Shape(n, t), NEW r, Progress(n, t, r),
           \/ HasProc(t) /\ \E e \in Entries(t) : e.at = Plan[n].at
           \/ ~Kernel!CanMount(t, Plan[n].at, Plan[n].fs)
    PROVE  Done(n, t, r)
<1>1. t \in Table /\ Plan[n].at \in Path /\ n \in 1..42
  BY CallsAre, CallPaths DEF Shape
<1>2. CASE ~Kernel!CanMount(t, Plan[n].at, Plan[n].fs)
  BY <1>1, <1>2, TopIs DEF Kernel!CanMount, Done
<1>3. ASSUME HasProc(t), NEW e \in Entries(t), e.at = Plan[n].at
      PROVE  Done(n, t, r)
  <2>1. CASE n = 26
    BY <1>3, <2>1, CallPlaces DEF Progress, Freed, Done
  <2>2. CASE n # 26
    <3>1. Top(t, Plan[n].at) = e
      BY <1>1, <1>3, FoundOpen DEF Shape, NoCover
    <3>2. e.fs = Plan[n].fs
      BY <1>3, <2>2 DEF Shape, Fits, FsIsRight
    <3> QED
      BY <3>1, <3>2 DEF Done
  <2> QED
    BY <2>1, <2>2
<1> QED
  BY <1>2, <1>3

LEMMA ProgressMoves ==
    ASSUME NEW n \in {7, 8}, NEW t, Shape(n, t), NEW r,
           NEW u, u = Kernel!Moved(t, Plan[n].at, NewRoot \o Plan[n].at)
    PROVE  Shape(n + 1, u) /\ Progress(n + 1, u, r)
<1>1. Shape(n + 1, u)
  BY ShapeMoves
<1> QED
  BY <1>1, CallsAre DEF Progress

LEMMA ProgressSwitches ==
    ASSUME NEW t, Shape(9, t), NEW r,
           NEW u, u = Kernel!Chrooted(t, NewRoot) \o Kernel!Picked(t, CarriedBy(t))
    PROVE  Shape(10, u) /\ Progress(10, u, r)
<1>1. Shape(10, u)
  BY ShapeSwitches
<1> QED
  BY <1>1, CallsAre DEF Progress

\* Unmounting below /sys/fs/cgroup undoes none of what was done before.
LEMMA DoneElsewhere ==
    ASSUME NEW n \in {24, 25}, NEW t, NEW r, Progress(n, t, r),
           NEW u, \A q \in Path : ~IsPrefix(Cgroup, q) => Top(u, q) = Top(t, q)
    PROVE  /\ \A k \in MountCalls : k < n + 1 => Done(k, u, r)
           /\ \A k \in ShareCalls : k < n + 1 => SharedDone(k, u, r)
<1>1. ASSUME NEW k \in MountCalls \cup ShareCalls, k < n + 1
      PROVE  k < n /\ Top(u, Plan[k].at) = Top(t, Plan[k].at) /\ Plan[k].at # Cgroup
  <2>1. k \in 1..23
    BY <1>1, CallsAre
  <2>2. Plan[k].at \in Path /\ ~IsPrefix(Cgroup, Plan[k].at)
    BY <2>1, CallPaths, ApartFromCgroup
  <2>3. Plan[k].at # Cgroup
    BY <2>2, PrefixFacts
  <2>4. k < n /\ Top(u, Plan[k].at) = Top(t, Plan[k].at)
    BY <2>1, <2>2
  <2> QED
    BY <2>3, <2>4
<1> QED
  BY <1>1, DoneStays DEF Progress

LEMMA ProgressPurges ==
    ASSUME NEW t, Shape(24, t), NEW r, Progress(24, t, r), NEW u, u = Kernel!Without(t, V1By(t))
    PROVE  Shape(25, u) /\ Progress(25, u, r)
<1>1. /\ Shape(25, u)
      /\ \A q \in Path : ~IsPrefix(Cgroup, q) => Top(u, q) = Top(t, q)
      /\ \A e \in Entries(u) : IsPrefix(Cgroup, e.at) => e.at = Cgroup
  BY ShapePurges
<1>2. /\ \A k \in MountCalls : k < 24 + 1 => Done(k, u, r)
      /\ \A k \in ShareCalls : k < 24 + 1 => SharedDone(k, u, r)
  BY <1>1, DoneElsewhere
<1>3. Purged(u, r)
  BY <1>1 DEF Purged
<1> QED
  BY <1>1, <1>2, <1>3 DEF Progress

LEMMA ProgressUnmounts ==
    ASSUME NEW t, Shape(25, t), NEW r, Progress(25, t, r),
           Kernel!CanUnmount(t, Cgroup), NEW u, u = Kernel!Unmounted(t, Cgroup)
    PROVE  Shape(26, u) /\ Progress(26, u, r)
<1>1. /\ Shape(26, u)
      /\ \A q \in Path : ~IsPrefix(Cgroup, q) => Top(u, q) = Top(t, q)
      /\ \A e \in Entries(u) : ~IsPrefix(Cgroup, e.at)
  BY ShapeUnmounts
<1>2. /\ \A k \in MountCalls : k < 25 + 1 => Done(k, u, r)
      /\ \A k \in ShareCalls : k < 25 + 1 => SharedDone(k, u, r)
  BY <1>1, DoneElsewhere
<1>3. Freed(u, r)
  BY <1>1, PlacesAre, PrefixFacts DEF Freed
<1> QED
  BY <1>1, <1>2, <1>3 DEF Progress

-----------------------------------------------------------------------------
(* The calls, one after the other.                                         *)

\* Which call is next.
Flow ==
    /\ next \in 1..43 /\ stage \in Stages /\ refused \in SUBSET (1..42)
    /\ stage = "calls" => next <= 42
    /\ CallsMade => next = 43

MountInv == Shape(next, mounts) /\ Progress(next, mounts, refused)

LEMMA FailIs ==
    ASSUME next \in 1..42, Fail
    PROVE  \/ next \notin {4, 5, 6, 9, 26} /\ Continue
           \/ next = 26 /\ next' = 42 /\ stage' = stage
           \/ next \in {4, 5, 6, 9} /\ next' = next /\ stage' = "halted"
<1>1. Len(SquashfsInit) + Len(SetupMounts) + Len(SetupCgroups) + 1 = 42
  <2>1. Len(SquashfsInit) = 9 /\ Len(SetupMounts) = 14 /\ Len(SetupCgroups) = 18
    BY SquashfsInitIs, SetupMountsIs, SetupCgroupsIs, Zenon
  <2> QED
    BY <2>1
<1>2. /\ Plan[next].error = "halt" <=> next \in {4, 5, 6, 9}
      /\ Plan[next].error = "return" <=> next = 26
      /\ Plan[next].error = "log" <=> next \notin {4, 5, 6, 9, 26}
  BY Kinds
<1> QED
  BY <1>1, <1>2 DEF Fail, Here

LEMMA ContinueIs == Continue => next' = next + 1 /\ stage' = IF next = 42 THEN "identity" ELSE stage
<1>1. Len(Plan) = 42
  BY PlanIs, Zenon
<1> QED
  BY <1>1 DEF Continue

LEMMA InitFlow == Init => Flow
BY DEF Init, Flow, Stages, CallsMade

LEMMA StepFlow == Flow /\ [Next]_vars => Flow'
<1> SUFFICES ASSUME Flow, [Next]_vars
             PROVE  Flow'
  OBVIOUS
<1> USE DEF Flow, Stages, CallsMade
<1>1. CASE MakeCall \/ Refuse
  <2>1. stage = "calls" /\ next \in 1..42 /\ (Fail \/ Continue)
    BY <1>1 DEF MakeCall, Calling, Mount, MountMissing, TryMount, Try, Share, Move, SwitchRoot,
         PurgeV1Mounts, Unmount, AvailableControllers, MakeCgroup, MoveSelfTo,
         DelegateControllers, WriteSysctls, Refuse, mountsOnly
  <2>2. refused' \in SUBSET (1..42)
    BY <1>1, <2>1 DEF MakeCall, Calling, Mount, MountMissing, Share, Move, SwitchRoot,
         PurgeV1Mounts, Unmount, AvailableControllers, MakeCgroup, MoveSelfTo,
         DelegateControllers, WriteSysctls, Refuse, mountsOnly
  <2> QED
    BY <2>1, <2>2, FailIs, ContinueIs
<1>2. CASE SetDynamicHostname \/ ConfigureDynamicNet \/ PollFinds \/ PollAgain \/ WriteHosts
           \/ StartServicesAndShell
  BY <1>2 DEF SetDynamicHostname, ConfigureDynamicNet, PollFinds, PollAgain, WriteHosts,
       StartServicesAndShell, Go, kernelVars
<1>3. CASE NicAppears \/ LeaseArrives \/ TakeIdentity \/ UNCHANGED vars
  BY <1>3 DEF NicAppears, LeaseArrives, TakeIdentity, vars, kernelVars
<1> QED
  BY <1>1, <1>2, <1>3 DEF Next, BootStep

LEMMA SeqGrows == \A A, B : A \subseteq B => Seq(A) \subseteq Seq(B)
OBVIOUS

LEMMA EntryGrows ==
    \A A, B, C, D : A \subseteq B /\ C \subseteq D =>
        [at : A, fs : C, shared : BOOLEAN] \subseteq [at : B, fs : D, shared : BOOLEAN]
OBVIOUS

\* What an earlier stage left is a table as koobd expects it.
LEMMA InitMounts == Init => MountInv
<1> SUFFICES ASSUME Init
             PROVE  MountInv
  OBVIOUS
<1> DEFINE t == mounts
<1>1. Undisturbed(t) /\ next = 1
  BY NodeBootAssumption DEF Init
<1>2. t \in Table
  <2>1. /\ t \in Seq([at : Seq(STRING), fs : STRING, shared : BOOLEAN])
        /\ Len(t) > 0 /\ t[1].at = <<>>
    BY <1>1 DEF Undisturbed
  <2>2. Seq(STRING) \subseteq Path /\ STRING \subseteq FsType
    <3>1. STRING \subseteq Segment /\ STRING \subseteq FsType
      BY Zenon DEF Segment, FsType
    <3> QED
      BY <3>1, SeqGrows, Zenon DEF Path, T!Path
  <2>3. [at : Seq(STRING), fs : STRING, shared : BOOLEAN] \subseteq Entry
    BY <2>2, EntryGrows, Zenon DEF Entry, T!Entry, Path
  <2>4. t \in Seq(Entry)
    BY <2>1, <2>3, SeqGrows, Zenon
  <2> QED
    BY <2>1, <2>4, KernelIs DEF Table, T!Table, Entry
<1>3. \A e \in Entries(t) :
        /\ \A p \in {NewRoot, SquashMount, TmpfsMount} : ~IsPrefix(p, e.at)
        /\ \A k \in MountCalls :
            /\ Plan[k].at = e.at /\ Plan[k].at # Cgroup => Plan[k].fs = e.fs
            /\ IsPrefix(Plan[k].at, e.at) => \E f \in Entries(t) : f.at = Plan[k].at
        /\ e.fs = "cgroup" => IsPrefix(Cgroup, e.at)
        /\ IsPrefix(Cgroup, e.at) /\ e.at # Cgroup => e.fs = "cgroup"
        /\ e.fs = "cgroup2" => e.at = Cgroup /\ \A f \in Entries(t) : IsPrefix(Cgroup, f.at) => f = e
  BY <1>1 DEF Undisturbed, Entries
<1>4. Uncovered(t)
  BY <1>1 DEF Undisturbed, Uncovered
<1> HIDE DEF t
<1>5. ASSUME NEW e \in Entries(t)
      PROVE  Fits(1, e)
  <2>1. FsIsRight(e)
    BY <1>3, CallsAre, CallPlaces, ApartFromCgroup DEF FsIsRight
  <2> QED
    BY <1>3, <2>1 DEF Fits, CgroupIsRight, NewRootIsRight, ImageIsRight
<1>6. Shape(1, t)
  BY <1>2, <1>3, <1>4, <1>5, OpenRoot, PlacesAre
  DEF Shape, HasNewRoot, Parents, NoCover, CgroupOpen, Cgroup2Alone
<1>7. Progress(1, t, refused)
  BY CallsAre DEF Progress
<1> QED
  BY <1>1, <1>6, <1>7 DEF MountInv, t

-----------------------------------------------------------------------------
LEMMA MountInvNext == Shape(next', mounts') /\ Progress(next', mounts', refused') => MountInv'
BY DEF MountInv

LEMMA StateIs ==
    ASSUME Flow, MountInv, stage = "calls"
    PROVE  /\ next \in 1..42 /\ mounts \in Table /\ SameShape(mounts, mounts)
           /\ Shape(next, mounts) /\ Progress(next, mounts, refused)
           /\ Plan[next].at \in Path
           /\ Readable <=> HasProc(mounts)
           /\ IsMounted(Here.at) <=> HasProc(mounts) /\ \E e \in Entries(mounts) : e.at = Plan[next].at
           /\ Kernel!IsMountPoint(mounts, Plan[next].at) <=> Top(mounts, Plan[next].at).at = Plan[next].at
<1>1. next \in 1..42 /\ mounts \in Table /\ Shape(next, mounts) /\ Progress(next, mounts, refused)
  BY DEF Flow, MountInv, Shape
<1>2. SameShape(mounts, mounts) /\ Plan[next].at \in Path
  BY <1>1, SameTable, CallPaths
<1>3. Readable <=> HasProc(mounts)
  BY DEF Readable, HasProc, Kernel!FsAt, Top
<1>4. IsMounted(Here.at) <=> HasProc(mounts) /\ \E e \in Entries(mounts) : e.at = Plan[next].at
  BY <1>3 DEF IsMounted, Here, Entries
<1> QED
  BY <1>1, <1>2, <1>3, <1>4, TopIs

\* A call that fails, is refused or is not needed.
LEMMA CallFails ==
    ASSUME Flow, MountInv, stage = "calls", Fail, UNCHANGED mounts, refused \subseteq refused',
           next \in MountCalls => next \in refused' \/ ~Kernel!CanMount(mounts, Plan[next].at, Plan[next].fs),
           next \in ShareCalls => next \in refused' \/ ~Kernel!IsMountPoint(mounts, Plan[next].at),
           next = 24 => next \in refused' \/ ~HasProc(mounts),
           next = 25 => next \in refused' \/ ~Kernel!CanUnmount(mounts, Plan[next].at),
           next = 26 => ~IsMounted(Here.at)
    PROVE  MountInv'
<1>1. /\ next \in 1..42 /\ SameShape(mounts, mounts)
      /\ Shape(next, mounts) /\ Progress(next, mounts, refused)
      /\ Kernel!IsMountPoint(mounts, Plan[next].at) <=> Top(mounts, Plan[next].at).at = Plan[next].at
      /\ IsMounted(Here.at) <=> HasProc(mounts) /\ \E e \in Entries(mounts) : e.at = Plan[next].at
  BY StateIs
<1>2. next \in refused' => \A ops : Plan[next].op \in ops => Says(refused', ops, Plan[next].at)
  BY SaysSelf
<1>3. CASE next \notin {4, 5, 6, 9, 26} /\ Continue
  <2>1. next' = next + 1
    BY <1>3, ContinueIs
  <2>2. next \in MountCalls => Done(next, mounts, refused')
    <3> SUFFICES ASSUME next \in MountCalls
                 PROVE  Done(next, mounts, refused')
      OBVIOUS
    <3>1. CASE next \in refused'
      <4>1. Plan[next].op = "mount_if_missing"
        BY DEF MountCalls
      <4> QED
        BY <1>2, <3>1, <4>1 DEF Done
    <3>2. CASE ~Kernel!CanMount(mounts, Plan[next].at, Plan[next].fs)
      <4>1. Done(next, mounts, refused)
        BY <1>1, <3>2, NoMountNeeded
      <4> QED
        BY <4>1, DoneStays
    <3> QED
      BY <3>1, <3>2
  <2>3. next \in ShareCalls => SharedDone(next, mounts, refused')
    BY <1>1, <1>2 DEF SharedDone
  <2>4. next = 24 /\ HasProc(mounts) => Says(refused', {"purge_v1"}, Cgroup)
    BY <1>2, Kinds, CallPlaces
  <2>5. next = 25 => ~Kernel!CanUnmount(mounts, Cgroup) \/ Says(refused', {"unmount"}, Cgroup)
    BY <1>2, Kinds, CallPlaces
  <2>6. Shape(next + 1, mounts) /\ Progress(next + 1, mounts, refused')
    BY <1>1, <1>3, <2>2, <2>3, <2>4, <2>5, ProgressStays
  <2> QED
    BY <2>1, <2>6, MountInvNext
<1>4. CASE next = 26 /\ next' = 42
  <2>1. /\ 26 \in refused' \/ ~Kernel!CanMount(mounts, Cgroup, "cgroup2")
        /\ ~(HasProc(mounts) /\ \E e \in Entries(mounts) : e.at = Cgroup)
    BY <1>1, <1>4, CallsAre, CallPlaces, MountFs
  <2>2. Shape(42, mounts) /\ Progress(42, mounts, refused')
    BY <1>1, <1>4, <2>1, ProgressReturns
  <2> QED
    BY <1>4, <2>2, MountInvNext
<1>5. CASE next \in {4, 5, 6, 9} /\ next' = next
  <2>1. Progress(next, mounts, refused')
    BY <1>1, MoreRefused
  <2> QED
    BY <1>1, <1>5, <2>1, MountInvNext
<1> QED
  BY <1>1, <1>3, <1>4, <1>5, FailIs

\* A call that has nothing to do with the mount table.
LEMMA CallElsewhere ==
    ASSUME Flow, MountInv, stage = "calls", Continue, UNCHANGED <<mounts, refused>>,
           \/ next \in {2, 3} \/ next \in 28..42
           \/ next \in MountCalls /\ IsMounted(Here.at)
    PROVE  MountInv'
<1>1. /\ next \in 1..42 /\ SameShape(mounts, mounts)
      /\ Shape(next, mounts) /\ Progress(next, mounts, refused)
      /\ IsMounted(Here.at) <=> HasProc(mounts) /\ \E e \in Entries(mounts) : e.at = Plan[next].at
  BY StateIs
<1>2. next \in MountCalls => Done(next, mounts, refused)
  BY <1>1, NoMountNeeded, CallsAre
<1>3. next \notin ShareCalls /\ next \notin {6, 9, 24, 25}
  BY CallsAre
<1>4. Shape(next + 1, mounts) /\ Progress(next + 1, mounts, refused)
  BY <1>1, <1>2, <1>3, ProgressStays
<1> QED
  BY <1>4, ContinueIs, MountInvNext

LEMMA MountStep ==
    ASSUME Flow, MountInv, Mount \/ MountMissing
    PROVE  MountInv'
<1>1. stage = "calls" /\ UNCHANGED refused
  BY DEF Mount, MountMissing, Calling, mountsOnly
<1>2. /\ next \in 1..42 /\ Shape(next, mounts) /\ Progress(next, mounts, refused)
      /\ IsMounted(Here.at) <=> HasProc(mounts) /\ \E e \in Entries(mounts) : e.at = Plan[next].at
  BY <1>1, StateIs
<1>3. next \in (1..6) \cup MountCalls /\ (Mount => next \in 1..6)
  BY <1>2, Kinds, CallsAre DEF Mount, MountMissing, Calling, Here
<1>4. CASE MountMissing /\ IsMounted(Here.at)
  <2>1. Continue /\ UNCHANGED mounts /\ next \in {2, 3} \cup MountCalls
    BY <1>2, <1>4, Kinds, CallsAre DEF MountMissing, Calling, Here
  <2> QED
    BY <1>1, <1>4, <2>1, CallElsewhere
<1>5. ASSUME TryMount, next \in MountCalls => ~IsMounted(Here.at)
      PROVE  MountInv'
  <2>1. CASE Kernel!CanMount(mounts, Here.at, Here.fs)
    <3>1. mounts' = Kernel!Mounted(mounts, Plan[next].at, Plan[next].fs) /\ Continue
      BY <1>5, <2>1 DEF TryMount, Try, Here
    <3>2. next >= 15 => next \in MountCalls
      BY <1>2, <1>3
    <3>3. Shape(next + 1, mounts') /\ Progress(next + 1, mounts', refused)
      BY <1>2, <1>3, <1>5, <2>1, <3>1, <3>2, ProgressMounts DEF Here
    <3> QED
      BY <1>1, <3>1, <3>3, ContinueIs, MountInvNext
  <2>2. CASE ~Kernel!CanMount(mounts, Here.at, Here.fs)
    <3>1. Fail /\ UNCHANGED mounts
      BY <1>5, <2>2 DEF TryMount, Try
    <3>2. next \notin ShareCalls /\ next \notin {24, 25} /\ (next = 26 => ~IsMounted(Here.at))
      BY <1>3, <1>5, CallsAre
    <3> QED
      BY <1>1, <2>2, <3>1, <3>2, CallFails DEF Here
  <2> QED
    BY <2>1, <2>2
<1>6. CASE Mount
  BY <1>3, <1>5, <1>6, CallsAre DEF Mount
<1>7. CASE MountMissing /\ ~IsMounted(Here.at)
  BY <1>5, <1>7 DEF MountMissing
<1> QED
  BY <1>4, <1>6, <1>7

LEMMA ShareStep ==
    ASSUME Flow, MountInv, Share
    PROVE  MountInv'
<1> DEFINE p == Plan[next].at
           u == Kernel!Shared(mounts, p, Here.op = "make_all_shared")
<1>1. stage = "calls" /\ UNCHANGED refused
  BY DEF Share, Calling, mountsOnly
<1>2. /\ next \in 1..42 /\ mounts \in Table /\ p \in Path
      /\ Shape(next, mounts) /\ Progress(next, mounts, refused)
  BY <1>1, StateIs
<1>3. next \in ShareCalls /\ next \notin MountCalls /\ next \notin {6, 9, 24, 25, 26}
  BY <1>2, Kinds, CallsAre DEF Share, Calling, Here
<1>4. CASE Kernel!IsMountPoint(mounts, p)
  <2>1. mounts' = u /\ Continue
    BY <1>4 DEF Share, Try, Here
  <2>2. SameShape(mounts, u) /\ Top(u, p).shared
    BY <1>2, <1>4, SharedIs
  <2>3. Shape(next + 1, mounts') /\ Progress(next + 1, mounts', refused)
    BY <1>2, <1>3, <2>1, <2>2, ProgressStays DEF SharedDone
  <2> QED
    BY <1>1, <2>1, <2>3, ContinueIs, MountInvNext
<1>5. CASE ~Kernel!IsMountPoint(mounts, p)
  <2>1. Fail /\ UNCHANGED mounts
    BY <1>5 DEF Share, Try, Here
  <2> QED
    BY <1>1, <1>3, <1>5, <2>1, CallFails
<1> QED
  BY <1>4, <1>5

LEMMA MoveStep ==
    ASSUME Flow, MountInv, Move
    PROVE  MountInv'
<1>1. stage = "calls" /\ UNCHANGED refused
  BY DEF Move, Calling, mountsOnly
<1>2. next \in 1..42 /\ Shape(next, mounts)
  BY <1>1, StateIs
<1>3. next \in {7, 8} /\ next \notin MountCalls /\ next \notin ShareCalls
  BY <1>2, Kinds, CallsAre DEF Move, Calling, Here
<1>4. CASE mounts' = Kernel!Moved(mounts, Here.at, NewRoot \o Here.at) /\ Continue
  <2>1. Shape(next + 1, mounts') /\ Progress(next + 1, mounts', refused)
    BY <1>2, <1>3, <1>4, ProgressMoves DEF Here
  <2> QED
    BY <1>1, <1>4, <2>1, ContinueIs, MountInvNext
<1>5. CASE Fail /\ UNCHANGED mounts
  BY <1>1, <1>3, <1>5, CallFails
<1> QED
  BY <1>4, <1>5 DEF Move, Try

LEMMA SwitchRootStep ==
    ASSUME Flow, MountInv, SwitchRoot
    PROVE  MountInv'
<1>1. stage = "calls" /\ UNCHANGED refused /\ Continue
  BY DEF SwitchRoot, Calling, mountsOnly
<1>2. next \in 1..42 /\ Shape(next, mounts)
  BY <1>1, StateIs
<1>3. next = 9
  BY <1>2, Kinds DEF SwitchRoot, Calling, Here
<1>4. mounts' = Kernel!Chrooted(mounts, NewRoot) \o Kernel!Picked(mounts, CarriedBy(mounts))
  BY DEF SwitchRoot, Carried, CarriedBy
<1>5. Shape(10, mounts') /\ Progress(10, mounts', refused)
  BY <1>2, <1>3, <1>4, ProgressSwitches
<1> QED
  BY <1>1, <1>3, <1>5, ContinueIs, MountInvNext

LEMMA CgroupStep ==
    ASSUME Flow, MountInv, PurgeV1Mounts \/ Unmount
    PROVE  MountInv'
<1>1. stage = "calls" /\ UNCHANGED refused
  BY DEF PurgeV1Mounts, Unmount, Calling, mountsOnly
<1>2. /\ next \in 1..42 /\ Shape(next, mounts) /\ Progress(next, mounts, refused)
      /\ Readable <=> HasProc(mounts)
  BY <1>1, StateIs
<1>3. (PurgeV1Mounts => next = 24) /\ (Unmount => next = 25) /\ next \notin MountCalls /\ next \notin ShareCalls
  BY <1>2, Kinds, CallsAre DEF PurgeV1Mounts, Unmount, Calling, Here
<1>4. CASE PurgeV1Mounts
  <2>1. CASE Readable
    <3>1. mounts' = Kernel!Without(mounts, V1By(mounts)) /\ Continue
      BY <1>4, <2>1 DEF PurgeV1Mounts, Try, V1Mounts, V1By
    <3>2. Shape(25, mounts') /\ Progress(25, mounts', refused)
      BY <1>2, <1>3, <1>4, <3>1, ProgressPurges
    <3>3. next' = 25
      BY <1>3, <1>4, <3>1, ContinueIs
    <3> QED
      BY <1>1, <3>2, <3>3, MountInvNext
  <2>2. CASE ~Readable
    BY <1>1, <1>2, <1>3, <1>4, <2>2, CallFails DEF PurgeV1Mounts, Try
  <2> QED
    BY <2>1, <2>2
<1>5. CASE Unmount
  <2>1. Plan[next].at = Cgroup /\ next = 25
    BY <1>3, <1>5, CallPlaces
  <2>2. CASE Kernel!CanUnmount(mounts, Cgroup)
    <3>1. mounts' = Kernel!Unmounted(mounts, Cgroup) /\ Continue
      BY <1>5, <2>1, <2>2 DEF Unmount, Try, Here
    <3>2. Shape(26, mounts') /\ Progress(26, mounts', refused)
      BY <1>2, <2>1, <2>2, <3>1, ProgressUnmounts
    <3>3. next' = 26
      BY <2>1, <3>1, ContinueIs
    <3> QED
      BY <1>1, <3>2, <3>3, MountInvNext
  <2>3. CASE ~Kernel!CanUnmount(mounts, Cgroup)
    <3>1. Fail /\ UNCHANGED mounts
      BY <1>5, <2>1, <2>3 DEF Unmount, Try, Here
    <3> QED
      BY <1>1, <1>3, <2>1, <2>3, <3>1, CallFails
  <2> QED
    BY <2>2, <2>3
<1> QED
  BY <1>4, <1>5

-----------------------------------------------------------------------------
\* What keeps the table: all of the boot after the calls, the world outside
\* and a call that is refused.
LEMMA RefuseStep ==
    ASSUME Flow, MountInv, Refuse
    PROVE  MountInv'
<1>1. stage = "calls" /\ Fail /\ UNCHANGED mounts /\ refused' = refused \cup {next}
  BY DEF Refuse
<1>2. next = 26 => ~IsMounted(Here.at)
  BY Kinds DEF Refuse, NoCallNeeded, Here
<1> QED
  BY <1>1, <1>2, CallFails

LEMMA GroupCallStep ==
    ASSUME Flow, MountInv,
           AvailableControllers \/ MakeCgroup \/ MoveSelfTo \/ DelegateControllers \/ WriteSysctls
    PROVE  MountInv'
<1>1. stage = "calls" /\ UNCHANGED <<mounts, refused>> /\ (Fail \/ Continue)
  BY DEF AvailableControllers, MakeCgroup, MoveSelfTo, DelegateControllers, WriteSysctls, Calling
<1>2. next \in 1..42
  BY <1>1, StateIs
<1>3. Plan[next].op \in {"read_controllers", "make_group", "move_self", "delegate", "sysctl"}
  BY DEF AvailableControllers, MakeCgroup, MoveSelfTo, DelegateControllers, WriteSysctls, Calling, Here
<1>4. next \in 28..42
  BY <1>2, <1>3, Kinds
<1>5. Continue
  BY <1>1, <1>2, <1>4, FailIs
<1> QED
  BY <1>1, <1>4, <1>5, CallElsewhere

LEMMA StepMounts == Flow /\ MountInv /\ [Next]_vars => MountInv'
<1> SUFFICES ASSUME Flow, MountInv, [Next]_vars
             PROVE  MountInv'
  OBVIOUS
<1>1. CASE MakeCall
  BY <1>1, MountStep, ShareStep, MoveStep, SwitchRootStep, CgroupStep, GroupCallStep DEF MakeCall
<1>2. CASE Refuse
  BY <1>2, RefuseStep
<1>3. CASE UNCHANGED <<next, mounts, refused>>
  BY <1>3 DEF MountInv
<1>4. CASE SetDynamicHostname \/ ConfigureDynamicNet \/ PollFinds \/ PollAgain \/ WriteHosts
           \/ StartServicesAndShell
  BY <1>3, <1>4 DEF SetDynamicHostname, ConfigureDynamicNet, PollFinds, PollAgain, WriteHosts,
       StartServicesAndShell, Go, kernelVars
<1>5. CASE NicAppears \/ LeaseArrives \/ TakeIdentity \/ UNCHANGED vars
  BY <1>3, <1>5 DEF NicAppears, LeaseArrives, TakeIdentity, vars, kernelVars
<1> QED
  BY <1>1, <1>2, <1>4, <1>5 DEF Next, BootStep

-----------------------------------------------------------------------------
(* The cgroups.                                                            *)

LEMMA GroupNames ==
    /\ Len(Cgroup) = 3 /\ Cgroup[1] = "sys" /\ Cgroup[2] = "fs" /\ Cgroup[3] = "cgroup"
    /\ Len(InitGroup) = 4 /\ InitGroup[1] = "sys" /\ InitGroup[2] = "fs" /\ InitGroup[3] = "cgroup"
    /\ InitGroup[4] = "init"
    /\ Len(System) = 4 /\ System[1] = "sys" /\ System[2] = "fs" /\ System[3] = "cgroup"
    /\ System[4] = "system"
    /\ Len(PodRuntime) = 4 /\ PodRuntime[1] = "sys" /\ PodRuntime[2] = "fs" /\ PodRuntime[3] = "cgroup"
    /\ PodRuntime[4] = "podruntime"
    /\ Len(KubePods) = 4 /\ KubePods[1] = "sys" /\ KubePods[2] = "fs" /\ KubePods[3] = "cgroup"
    /\ KubePods[4] = "kubepods"
    /\ Len(BestEffort) = 5 /\ BestEffort[1] = "sys" /\ BestEffort[2] = "fs" /\ BestEffort[3] = "cgroup"
    /\ BestEffort[4] = "kubepods" /\ BestEffort[5] = "besteffort"
    /\ Len(Burstable) = 5 /\ Burstable[1] = "sys" /\ Burstable[2] = "fs" /\ Burstable[3] = "cgroup"
    /\ Burstable[4] = "kubepods" /\ Burstable[5] = "burstable"
BY DEF Cgroup, InitGroup, System, PodRuntime, KubePods, BestEffort, Burstable, Group

Groups == {System, PodRuntime, KubePods, BestEffort, Burstable}

LEMMA GroupsAre ==
    /\ Groups \subseteq Path /\ Cgroup \in Path /\ InitGroup \in Path
    /\ Cgroup \notin Groups /\ InitGroup \notin Groups /\ InitGroup # Cgroup
BY PlacesAre, GroupNames DEF Groups

\* The beginning of a path, and what is one level up.
LEMMA BeginningIs ==
    ASSUME NEW a \in Path, NEW b \in Path, Len(b) <= Len(a), \A i \in 1..Len(b) : b[i] = a[i]
    PROVE  SubSeq(a, 1, Len(b)) = b
<1>1. a \in Seq(Segment) /\ b \in Seq(Segment)
  BY DEF Path, T!Path
<1> QED
  BY <1>1

LEMMA FrontIs ==
    ASSUME NEW a \in Path, NEW b \in Path, Len(a) = Len(b) + 1, \A i \in 1..Len(b) : b[i] = a[i]
    PROVE  Front(a) = b /\ IsPrefix(b, a)
<1>1. a \in Seq(Segment) /\ b \in Seq(Segment)
  BY DEF Path, T!Path
<1>2. Len(b) \in Nat /\ Len(b) <= Len(a) /\ Len(a) - 1 = Len(b)
  BY <1>1
<1> QED
  BY <1>2, BeginningIs, PrefixElements DEF Front

LEMMA GroupTree ==
    /\ Front(System) = Cgroup /\ IsPrefix(Cgroup, System)
    /\ Front(PodRuntime) = Cgroup /\ IsPrefix(Cgroup, PodRuntime)
    /\ Front(KubePods) = Cgroup /\ IsPrefix(Cgroup, KubePods)
    /\ Front(BestEffort) = KubePods /\ IsPrefix(KubePods, BestEffort)
    /\ Front(Burstable) = KubePods /\ IsPrefix(KubePods, Burstable)
<1>1. \A a \in {System, PodRuntime, KubePods} : \A i \in 1..3 : a[i] = Cgroup[i]
  BY GroupNames
<1>2. \A a \in {BestEffort, Burstable} : \A i \in 1..4 : a[i] = KubePods[i]
  BY GroupNames
<1>3. ASSUME NEW a \in {System, PodRuntime, KubePods}
      PROVE  Front(a) = Cgroup /\ IsPrefix(Cgroup, a)
  <2>1. a \in Path /\ Cgroup \in Path
    BY GroupsAre DEF Groups
  <2>2. Len(a) = Len(Cgroup) + 1 /\ Len(Cgroup) = 3
    BY GroupNames
  <2> QED
    BY <1>1, <2>1, <2>2, FrontIs
<1>4. ASSUME NEW a \in {BestEffort, Burstable}
      PROVE  Front(a) = KubePods /\ IsPrefix(KubePods, a)
  <2>1. a \in Path /\ KubePods \in Path
    BY GroupsAre DEF Groups
  <2>2. Len(a) = Len(KubePods) + 1 /\ Len(KubePods) = 4
    BY GroupNames
  <2> QED
    BY <1>2, <2>1, <2>2, FrontIs
<1> QED
  BY <1>3, <1>4

\* What MkdirAll makes: the group, and its parent.
MadeFor(at) == {SubSeq(at, 1, n) : n \in (Len(Cgroup) + 1)..Len(at)}

LEMMA MadeForIs ==
    \A at \in Groups \cup {InitGroup} : at \in MadeFor(at) /\ MadeFor(at) \subseteq Groups \cup {InitGroup}
<1>1. ASSUME NEW at \in {InitGroup, System, PodRuntime, KubePods}
      PROVE  MadeFor(at) = {at}
  <2>1. at \in Path /\ Len(at) = 4 /\ Len(Cgroup) + 1 = 4
    BY GroupsAre, GroupNames DEF Groups
  <2>2. SubSeq(at, 1, 4) = at
    BY <2>1, BeginningIs
  <2>3. (Len(Cgroup) + 1)..Len(at) = {4}
    BY <2>1
  <2>4. MadeFor(at) = {SubSeq(at, 1, n) : n \in {4}}
    BY <2>3, Zenon DEF MadeFor
  <2> QED
    BY <2>2, <2>4
<1>2. ASSUME NEW at \in {BestEffort, Burstable}
      PROVE  MadeFor(at) = {at, KubePods}
  <2>1. at \in Path /\ KubePods \in Path /\ Len(at) = 5 /\ Len(KubePods) = 4 /\ Len(Cgroup) + 1 = 4
    BY GroupsAre, GroupNames DEF Groups
  <2>2. SubSeq(at, 1, 5) = at
    BY <2>1, BeginningIs
  <2>3. \A i \in 1..4 : KubePods[i] = at[i]
    BY GroupNames
  <2>4. SubSeq(at, 1, 4) = KubePods
    BY <2>1, <2>3, BeginningIs
  <2>5. (Len(Cgroup) + 1)..Len(at) = {4, 5}
    BY <2>1
  <2>6. MadeFor(at) = {SubSeq(at, 1, n) : n \in {4, 5}}
    BY <2>5, Zenon DEF MadeFor
  <2> QED
    BY <2>2, <2>4, <2>6
<1> QED
  BY <1>1, <1>2 DEF Groups

-----------------------------------------------------------------------------
OnTwo(t) == Top(t, Cgroup).fs = "cgroup2"

\* A call on a group, or on one above it, was refused.
Blocked(r, g) == \E k \in r : Plan[k].op \in {"make_group", "delegate"} /\ IsPrefix(Plan[k].at, g)

\* What holds of the cgroups when call n is the next one: there are groups
\* and controllers only on cgroup2; a group is made, and its controllers are
\* enabled, in the order of the calls, parents first; PID 1 moves between the
\* two, so that no group with processes is in the way but the exempt root.
GroupsTypeOK ==
    /\ controllers \in BOOLEAN /\ forwarding \in BOOLEAN
    /\ groups \in SUBSET (Groups \cup {InitGroup})
    /\ delegated \in SUBSET (groups \cup {Cgroup})
    /\ self \in {Cgroup, InitGroup}

Listed == controllers => OnTwo(mounts) /\ next >= 29

AllMade ==
    next \in 29..41 /\ OnTwo(mounts) =>
        \A k \in 29..34 : k < next => Plan[k].at \in groups \/ Says(refused, {"make_group"}, Plan[k].at)

OutOfTheWay ==
    next >= 36 /\ OnTwo(mounts) =>
        \/ self # Cgroup
        \/ Says(refused, {"make_group", "move_self"}, InitGroup)
        \/ ~HasProc(mounts) /\ Says(refused, {"unmount"}, Cgroup)

AllDelegated ==
    OnTwo(mounts) /\ controllers =>
        \A k \in 36..41 : k < next => Plan[k].at \in delegated \/ Blocked(refused, Plan[k].at)

Forwards == next = 43 /\ HasProc(mounts) => forwarding \/ Says(refused, {"sysctl"}, Proc)

GroupInv == GroupsTypeOK /\ Listed /\ AllMade /\ OutOfTheWay /\ AllDelegated /\ Forwards

LEMMA InitGroups == Init => GroupInv
<1> SUFFICES ASSUME Init
             PROVE  GroupInv
  OBVIOUS
<1>1. next = 1 /\ ~controllers /\ GroupsTypeOK
  BY DEF Init, GroupsTypeOK
<1>2. Listed /\ AllMade /\ OutOfTheWay /\ AllDelegated /\ Forwards
  BY <1>1 DEF Listed, AllMade, OutOfTheWay, AllDelegated, Forwards
<1> QED
  BY <1>1, <1>2 DEF GroupInv

LEMMA BlockedGrows == \A r, r2 : r \subseteq r2 => \A g : Blocked(r, g) => Blocked(r2, g)
BY DEF Blocked

\* Nothing but more refusals.
LEMMA GroupsStay ==
    ASSUME GroupInv, refused \subseteq refused',
           UNCHANGED <<next, mounts, controllers, groups, self, delegated, forwarding>>
    PROVE  GroupInv'
<1>1. \A ops, at : Says(refused, ops, at) => Says(refused', ops, at)
  BY SaysGrows
<1>2. \A g : Blocked(refused, g) => Blocked(refused', g)
  BY BlockedGrows
<1>3. (GroupsTypeOK /\ Listed)'
  BY DEF GroupInv, GroupsTypeOK, Listed
<1>4. AllMade'
  BY <1>1 DEF GroupInv, AllMade
<1>5. OutOfTheWay'
  BY <1>1 DEF GroupInv, OutOfTheWay
<1>6. AllDelegated'
  BY <1>2 DEF GroupInv, AllDelegated
<1>7. Forwards'
  BY <1>1 DEF GroupInv, Forwards
<1> QED
  BY <1>3, <1>4, <1>5, <1>6, <1>7 DEF GroupInv

\* The calls before the groups.
LEMMA EarlyCall ==
    ASSUME Flow, MountInv, GroupInv, stage = "calls", next < 28, refused \subseteq refused',
           UNCHANGED <<controllers, groups, self, delegated, forwarding>>,
           \/ next' = next + 1
           \/ next' = next /\ UNCHANGED mounts
           \/ next = 26 /\ next' = 42 /\ UNCHANGED mounts
              /\ (26 \in refused' \/ ~Kernel!CanMount(mounts, Cgroup, "cgroup2"))
              /\ ~(HasProc(mounts) /\ \E e \in Entries(mounts) : e.at = Cgroup)
    PROVE  GroupInv'
<1>1. next \in 1..27 /\ ~controllers
  BY DEF Flow, GroupInv, Listed
<1>2. (GroupsTypeOK /\ Listed /\ AllDelegated)'
  BY <1>1 DEF GroupInv, GroupsTypeOK, Listed, AllDelegated
<1>3. next' \in 1..28 \cup {42}
  BY <1>1
<1>4. (AllMade /\ Forwards)'
  BY <1>3 DEF AllMade, Forwards
<1>5. OutOfTheWay'
  <2>1. CASE next' = 42
    <3>1. OnTwo(mounts) => ~HasProc(mounts) /\ Says(refused', {"unmount"}, Cgroup)
      BY <1>1, <2>1, ProgressReturns DEF MountInv, OnTwo
    <3> QED
      BY <1>1, <2>1, <3>1 DEF OutOfTheWay
  <2>2. CASE next' # 42
    BY <1>3, <2>2 DEF OutOfTheWay
  <2> QED
    BY <2>1, <2>2
<1> QED
  BY <1>2, <1>4, <1>5 DEF GroupInv

-----------------------------------------------------------------------------
\* A call on the cgroups, or the last one: what it has to do for the invariant.
LEMMA LateCall ==
    ASSUME GroupInv, next \in 28..42, next' = next + 1, UNCHANGED mounts,
           refused \subseteq refused', groups \subseteq groups', delegated \subseteq delegated',
           GroupsTypeOK',
           next = 28 \/ UNCHANGED controllers, controllers' => OnTwo(mounts),
           next \in 29..34 /\ OnTwo(mounts) =>
               Plan[next].at \in groups' \/ Says(refused', {"make_group"}, Plan[next].at),
           next = 35 \/ UNCHANGED self,
           next = 35 /\ OnTwo(mounts) =>
               self' # Cgroup \/ Says(refused', {"make_group", "move_self"}, InitGroup),
           next \in 36..41 /\ OnTwo(mounts) /\ controllers =>
               Plan[next].at \in delegated' \/ Blocked(refused', Plan[next].at),
           next = 42 /\ HasProc(mounts) => forwarding' \/ Says(refused', {"sysctl"}, Proc)
    PROVE  GroupInv'
<1>1. \A ops, at : Says(refused, ops, at) => Says(refused', ops, at)
  BY SaysGrows
<1>2. \A g : Blocked(refused, g) => Blocked(refused', g)
  BY BlockedGrows
<1>3. Listed'
  BY DEF Listed
<1>4. AllMade'
  <2> SUFFICES ASSUME next' \in 29..41, OnTwo(mounts), NEW k \in 29..34, k < next'
               PROVE  Plan[k].at \in groups' \/ Says(refused', {"make_group"}, Plan[k].at)
    BY DEF AllMade
  <2>1. CASE k = next
    BY <2>1
  <2>2. CASE k < next
    BY <1>1, <2>2 DEF GroupInv, AllMade
  <2> QED
    BY <2>1, <2>2
<1>5. OutOfTheWay'
  <2>1. CASE next <= 34
    BY <2>1 DEF OutOfTheWay
  <2>2. CASE next = 35
    BY <2>2 DEF OutOfTheWay
  <2>3. CASE next >= 36
    BY <1>1, <2>3 DEF GroupInv, OutOfTheWay
  <2> QED
    BY <2>1, <2>2, <2>3
<1>6. AllDelegated'
  <2> SUFFICES ASSUME controllers', OnTwo(mounts), NEW k \in 36..41, k < next'
               PROVE  Plan[k].at \in delegated' \/ Blocked(refused', Plan[k].at)
    BY DEF AllDelegated
  <2>1. controllers
    <3>1. next # 28
      OBVIOUS
    <3> QED
      BY <3>1, Zenon
  <2>2. CASE k = next
    BY <2>1, <2>2
  <2>3. CASE k < next
    BY <1>2, <2>1, <2>3 DEF GroupInv, AllDelegated
  <2> QED
    BY <2>2, <2>3
<1>7. Forwards'
  BY DEF Forwards
<1> QED
  BY <1>3, <1>4, <1>5, <1>6, <1>7 DEF GroupInv

\* A group whose controllers cannot be enabled: it or its parent was not made,
\* or the parent's are not enabled; never because PID 1 is in it.
LEMMA CannotDelegate ==
    ASSUME Flow, GroupInv, next \in 36..41, OnTwo(mounts), controllers, OnCgroup2,
           ~CanDelegate(Plan[next].at)
    PROVE  Blocked(refused, Plan[next].at)
<1> DEFINE g == Plan[next].at
<1>1. g \in Groups \cup {Cgroup}
  BY GroupPlaces DEF Groups
<1>2. g # Cgroup /\ (g \notin groups \/ Front(g) \notin delegated \/ self = g)
  BY DEF CanDelegate
<1>3. g \in Groups /\ g \in Path /\ self # g
  BY <1>1, <1>2, GroupsAre DEF GroupInv, GroupsTypeOK
<1>4. CASE g \notin groups
  <2>1. PICK k \in 30..34 : Plan[k].at = g
    BY <1>3, GroupPlaces DEF Groups
  <2>2. Says(refused, {"make_group"}, g)
    BY <1>4, <2>1 DEF GroupInv, AllMade
  <2> QED
    BY <1>3, <2>2, PrefixFacts DEF Says, Blocked
<1>5. CASE Front(g) \notin delegated
  <2>1. PICK k \in {36, 39} : k < next /\ Plan[k].at = Front(g)
    <3>1. CASE g \in {System, PodRuntime, KubePods}
      <4>1. next # 36 /\ Front(g) = Cgroup
        BY <1>2, <3>1, GroupPlaces, GroupTree
      <4> QED
        BY <4>1, GroupPlaces
    <3>2. CASE g \in {BestEffort, Burstable}
      <4>1. Front(g) = KubePods
        BY <3>2, GroupTree
      <4>2. next \in {40, 41}
        BY <3>2, GroupPlaces, GroupNames
      <4> QED
        BY <4>1, <4>2, GroupPlaces
    <3> QED
      BY <1>3, <3>1, <3>2 DEF Groups
  <2>2. Blocked(refused, Front(g))
    BY <1>5, <2>1 DEF GroupInv, AllDelegated
  <2>3. PICK j \in refused : Plan[j].op \in {"make_group", "delegate"} /\ IsPrefix(Plan[j].at, Front(g))
    BY <2>2 DEF Blocked
  <2>4. IsPrefix(Front(g), g) /\ Front(g) \in Path
    BY <1>3, GroupTree, GroupsAre DEF Groups
  <2>5. Plan[j].at \in Path
    BY CallPaths DEF Flow
  <2>6. IsPrefix(Plan[j].at, g)
    BY <1>3, <2>3, <2>4, <2>5, PrefixFacts
  <2> QED
    BY <2>3, <2>6 DEF Blocked
<1> QED
  BY <1>2, <1>3, <1>4, <1>5

-----------------------------------------------------------------------------
LEMMA LateIs ==
    ASSUME Flow, next \in 28..42, Fail \/ Continue
    PROVE  next' = next + 1 /\ Continue
BY FailIs, ContinueIs

LEMMA CgroupTwo == Flow /\ MountInv => (OnCgroup2 <=> OnTwo(mounts)) /\ (Readable <=> HasProc(mounts))
BY PlacesAre DEF OnCgroup2, OnTwo, Readable, HasProc, Top, Kernel!FsAt

\* The calls that mount, share, move and unmount.
LEMMA TableCallGroups ==
    ASSUME Flow, MountInv, GroupInv,
           Mount \/ MountMissing \/ Share \/ Move \/ SwitchRoot \/ PurgeV1Mounts \/ Unmount
    PROVE  GroupInv'
<1>1. /\ stage = "calls"
      /\ UNCHANGED <<refused, controllers, groups, self, delegated, forwarding>>
  BY DEF Mount, MountMissing, Share, Move, SwitchRoot, PurgeV1Mounts, Unmount, Calling, mountsOnly
<1>2. /\ next \in 1..42
      /\ IsMounted(Here.at) <=> HasProc(mounts) /\ \E e \in Entries(mounts) : e.at = Plan[next].at
  BY <1>1, StateIs
<1>3. Plan[next].op \in {"mount", "mount_if_missing", "make_shared", "make_all_shared", "move",
                         "switch_root", "purge_v1", "unmount"}
  BY DEF Mount, MountMissing, Share, Move, SwitchRoot, PurgeV1Mounts, Unmount, Calling, Here
<1>4. next < 28
  BY <1>2, <1>3, Kinds
<1> DEFINE CannotMount ==
               /\ ~Kernel!CanMount(mounts, Cgroup, "cgroup2")
               /\ ~(HasProc(mounts) /\ \E e \in Entries(mounts) : e.at = Cgroup)
<1>5. \/ Continue
      \/ Fail /\ UNCHANGED mounts /\ (next = 26 => CannotMount)
  <2>1. CASE next = 26
    <3>1. Plan[next].op = "mount_if_missing" /\ Plan[next].at = Cgroup /\ Plan[next].fs = "cgroup2"
      BY <2>1, Kinds, CallPlaces, MountFs
    <3>2. MountMissing
      BY <3>1 DEF Mount, Share, Move, SwitchRoot, PurgeV1Mounts, Unmount, Calling, Here
    <3> QED
      BY <1>2, <3>1, <3>2 DEF MountMissing, TryMount, Try, Here
  <2>2. CASE next # 26
    BY <2>2 DEF Mount, MountMissing, TryMount, Try, Share, Move, SwitchRoot, PurgeV1Mounts, Unmount
  <2> QED
    BY <2>1, <2>2
<1>6. CASE Continue
  BY <1>1, <1>4, <1>6, ContinueIs, EarlyCall
<1>7. CASE Fail /\ UNCHANGED mounts /\ (next = 26 => CannotMount)
  <2>1. CannotMount => ~(HasProc(mounts) /\ \E e \in Entries(mounts) : e.at = Cgroup)
    OBVIOUS
  <2>2. CannotMount => ~Kernel!CanMount(mounts, Cgroup, "cgroup2")
    OBVIOUS
  <2> HIDE DEF CannotMount
  <2>3. \/ next' = next + 1
        \/ next' = next
        \/ next = 26 /\ next' = 42
    BY <1>2, <1>7, FailIs, ContinueIs
  <2> QED
    BY <1>1, <1>4, <1>7, <2>1, <2>2, <2>3, EarlyCall
<1> QED
  BY <1>5, <1>6, <1>7

LEMMA RefuseGroups ==
    ASSUME Flow, MountInv, GroupInv, Refuse
    PROVE  GroupInv'
<1>1. /\ stage = "calls" /\ Fail /\ refused' = refused \cup {next}
      /\ UNCHANGED <<mounts, controllers, groups, self, delegated, forwarding>>
  BY DEF Refuse
<1>2. next \in 1..42
  BY <1>1, StateIs
<1>3. CASE next < 28
  <2>1. next = 26 => ~(HasProc(mounts) /\ \E e \in Entries(mounts) : e.at = Cgroup)
    <3>1. IsMounted(Here.at) <=> HasProc(mounts) /\ \E e \in Entries(mounts) : e.at = Plan[next].at
      BY <1>1, StateIs
    <3>2. Plan[next].op = "mount_if_missing" => ~IsMounted(Here.at)
      BY DEF Refuse, NoCallNeeded, Here
    <3>3. next = 26 => Plan[next].op = "mount_if_missing" /\ Plan[next].at = Cgroup
      BY Kinds, CallPlaces
    <3> QED
      BY <3>1, <3>2, <3>3, Zenon
  <2>2. \/ next' = next + 1
        \/ next' = next
        \/ next = 26 /\ next' = 42 /\ 26 \in refused'
    BY <1>1, <1>2, FailIs, ContinueIs
  <2>3. refused \subseteq refused'
    BY <1>1
  <2> QED
    BY <1>1, <1>3, <2>1, <2>2, <2>3, EarlyCall
<1>4. CASE next \in 28..42
  <2>1. \A ops : Plan[next].op \in ops => Says(refused', ops, Plan[next].at)
    BY <1>1, SaysSelf
  <2>2. next' = next + 1
    BY <1>1, <1>4, LateIs
  <2>3. GroupsTypeOK'
    BY <1>1 DEF GroupInv, GroupsTypeOK
  <2>4. controllers' => OnTwo(mounts)
    BY <1>1 DEF GroupInv, Listed
  <2>5. next \in 29..34 => Says(refused', {"make_group"}, Plan[next].at)
    BY <2>1, Kinds
  <2>6. next = 35 => Says(refused', {"make_group", "move_self"}, InitGroup)
    BY <2>1, Kinds, GroupPlaces
  <2>7. next \in 36..41 => Blocked(refused', Plan[next].at)
    <3> SUFFICES ASSUME next \in 36..41
                 PROVE  Blocked(refused', Plan[next].at)
      OBVIOUS
    <3>1. Plan[next].op = "delegate" /\ IsPrefix(Plan[next].at, Plan[next].at)
      BY <1>2, Kinds, CallPaths, PrefixFacts
    <3> QED
      BY <1>1, <3>1 DEF Blocked
  <2>8. next = 42 => Says(refused', {"sysctl"}, Proc)
    BY <2>1, Kinds, GroupPlaces
  <2> QED
    BY <1>1, <1>4, <2>2, <2>3, <2>4, <2>5, <2>6, <2>7, <2>8, LateCall
<1> QED
  BY <1>2, <1>3, <1>4

LEMMA ReadGroups ==
    ASSUME Flow, MountInv, GroupInv, AvailableControllers \/ WriteSysctls
    PROVE  GroupInv'
<1>1. /\ stage = "calls" /\ (Fail \/ Continue)
      /\ UNCHANGED <<mounts, refused, groups, self, delegated>>
  BY DEF AvailableControllers, WriteSysctls, Calling
<1>2. next \in 1..42 /\ (OnCgroup2 <=> OnTwo(mounts)) /\ (Readable <=> HasProc(mounts))
  BY <1>1, StateIs, CgroupTwo
<1>3. (AvailableControllers => next = 28) /\ (WriteSysctls => next = 42)
  BY <1>2, Kinds DEF AvailableControllers, WriteSysctls, Calling, Here
<1>4. next' = next + 1
  BY <1>1, <1>3, LateIs
<1>5. CASE AvailableControllers
  <2>1. /\ controllers' \in BOOLEAN /\ UNCHANGED forwarding
        /\ controllers' => OnTwo(mounts)
    <3>1. ~controllers
      BY <1>3, <1>5 DEF GroupInv, Listed
    <3>2. CASE OnCgroup2
      BY <1>2, <1>5, <3>2 DEF AvailableControllers
    <3>3. CASE ~OnCgroup2
      <4>1. UNCHANGED <<controllers, forwarding>>
        BY <1>5, <3>3 DEF AvailableControllers
      <4>2. controllers \in BOOLEAN
        BY DEF GroupInv, GroupsTypeOK
      <4> QED
        BY <3>1, <4>1, <4>2
    <3> QED
      BY <3>2, <3>3
  <2>2. GroupsTypeOK'
    BY <1>1, <2>1 DEF GroupInv, GroupsTypeOK
  <2> QED
    BY <1>1, <1>3, <1>4, <1>5, <2>1, <2>2, LateCall
<1>6. CASE WriteSysctls
  <2>1. forwarding' = (forwarding \/ Readable) /\ UNCHANGED controllers
    BY <1>6 DEF WriteSysctls
  <2>2. GroupsTypeOK'
    BY <1>1, <2>1 DEF GroupInv, GroupsTypeOK
  <2>3. controllers' => OnTwo(mounts)
    BY <2>1 DEF GroupInv, Listed
  <2>4. HasProc(mounts) => forwarding'
    BY <1>2, <2>1
  <2> QED
    BY <1>1, <1>3, <1>4, <1>6, <2>1, <2>2, <2>3, <2>4, LateCall
<1> QED
  BY <1>5, <1>6

-----------------------------------------------------------------------------
LEMMA MakeGroups ==
    ASSUME Flow, MountInv, GroupInv, MakeCgroup
    PROVE  GroupInv'
<1>1. /\ stage = "calls" /\ Continue
      /\ UNCHANGED <<mounts, refused, controllers, self, delegated, forwarding>>
      /\ groups' = IF OnCgroup2 THEN groups \cup MadeFor(Here.at) ELSE groups
  BY DEF MakeCgroup, Calling, MadeFor
<1>2. next \in 1..42 /\ (OnCgroup2 <=> OnTwo(mounts))
  BY <1>1, StateIs, CgroupTwo
<1>3. next \in 29..34
  BY <1>2, Kinds DEF MakeCgroup, Calling, Here
<1>4. next' = next + 1
  BY <1>1, <1>3, LateIs
<1>5. Here.at = Plan[next].at /\ Here.at \in Groups \cup {InitGroup}
  BY <1>3, GroupPlaces DEF Here, Groups
<1>6. Here.at \in MadeFor(Here.at) /\ MadeFor(Here.at) \subseteq Groups \cup {InitGroup}
  BY <1>5, MadeForIs
<1>7. /\ groups \subseteq groups' /\ groups' \in SUBSET (Groups \cup {InitGroup})
      /\ OnTwo(mounts) => Plan[next].at \in groups'
  BY <1>1, <1>2, <1>5, <1>6 DEF GroupInv, GroupsTypeOK
<1>8. GroupsTypeOK'
  BY <1>1, <1>7 DEF GroupInv, GroupsTypeOK
<1>9. controllers' => OnTwo(mounts)
  BY <1>1 DEF GroupInv, Listed
<1> QED
  BY <1>1, <1>3, <1>4, <1>7, <1>8, <1>9, LateCall

LEMMA MoveGroups ==
    ASSUME Flow, MountInv, GroupInv, MoveSelfTo
    PROVE  GroupInv'
<1>1. /\ stage = "calls" /\ Continue
      /\ UNCHANGED <<mounts, refused, controllers, groups, delegated, forwarding>>
      /\ self' = IF Here.at \in groups THEN Here.at ELSE self
  BY DEF MoveSelfTo, Calling
<1>2. next \in 1..42
  BY <1>1, StateIs
<1>3. next = 35
  BY <1>2, Kinds DEF MoveSelfTo, Calling, Here
<1>4. next' = next + 1
  BY <1>1, <1>3, LateIs
<1>5. Here.at = InitGroup
  BY <1>3, GroupPlaces DEF Here
<1>6. OnTwo(mounts) => InitGroup \in groups \/ Says(refused, {"make_group", "move_self"}, InitGroup)
  <2>1. OnTwo(mounts) => InitGroup \in groups \/ Says(refused, {"make_group"}, InitGroup)
    BY <1>3, GroupPlaces DEF GroupInv, AllMade
  <2>2. Says(refused, {"make_group"}, InitGroup) => Says(refused, {"make_group", "move_self"}, InitGroup)
    BY DEF Says
  <2> QED
    BY <2>1, <2>2
<1>7. OnTwo(mounts) => self' # Cgroup \/ Says(refused', {"make_group", "move_self"}, InitGroup)
  BY <1>1, <1>5, <1>6, GroupsAre
<1>8. GroupsTypeOK'
  BY <1>1, <1>5 DEF GroupInv, GroupsTypeOK
<1>9. controllers' => OnTwo(mounts)
  BY <1>1 DEF GroupInv, Listed
<1> QED
  BY <1>1, <1>3, <1>4, <1>7, <1>8, <1>9, LateCall

LEMMA DelegateGroups ==
    ASSUME Flow, MountInv, GroupInv, DelegateControllers
    PROVE  GroupInv'
<1>1. /\ stage = "calls" /\ (Fail \/ Continue)
      /\ UNCHANGED <<mounts, refused, controllers, groups, self, forwarding>>
  BY DEF DelegateControllers, Calling
<1>2. next \in 1..42 /\ (OnCgroup2 <=> OnTwo(mounts))
  BY <1>1, StateIs, CgroupTwo
<1>3. next \in 36..41
  BY <1>2, Kinds DEF DelegateControllers, Calling, Here
<1>4. next' = next + 1
  BY <1>1, <1>3, LateIs
<1>5. \/ UNCHANGED delegated
      \/ CanDelegate(Plan[next].at) /\ delegated' = delegated \cup {Plan[next].at}
  BY DEF DelegateControllers, Here
<1>6. OnTwo(mounts) /\ controllers => Plan[next].at \in delegated' \/ Blocked(refused', Plan[next].at)
  <2> SUFFICES ASSUME OnTwo(mounts), controllers
               PROVE  Plan[next].at \in delegated' \/ Blocked(refused', Plan[next].at)
    OBVIOUS
  <2>1. CASE CanDelegate(Plan[next].at)
    BY <2>1 DEF DelegateControllers, Here
  <2>2. CASE ~CanDelegate(Plan[next].at)
    BY <1>1, <1>2, <1>3, <2>2, CannotDelegate
  <2> QED
    BY <2>1, <2>2
<1>7. delegated \subseteq delegated' /\ delegated' \in SUBSET (groups \cup {Cgroup})
  BY <1>5 DEF GroupInv, GroupsTypeOK, CanDelegate
<1>8. GroupsTypeOK'
  BY <1>1, <1>7 DEF GroupInv, GroupsTypeOK
<1>9. controllers' => OnTwo(mounts)
  BY <1>1 DEF GroupInv, Listed
<1> QED
  BY <1>1, <1>3, <1>4, <1>6, <1>7, <1>8, <1>9, LateCall

LEMMA StepGroups == Flow /\ MountInv /\ GroupInv /\ [Next]_vars => GroupInv'
<1> SUFFICES ASSUME Flow, MountInv, GroupInv, [Next]_vars
             PROVE  GroupInv'
  OBVIOUS
<1>1. CASE MakeCall
  BY <1>1, TableCallGroups, ReadGroups, MakeGroups, MoveGroups, DelegateGroups DEF MakeCall
<1>2. CASE Refuse
  BY <1>2, RefuseGroups
<1>3. CASE UNCHANGED <<next, mounts, refused, controllers, groups, self, delegated, forwarding>>
  BY <1>3, GroupsStay
<1>4. CASE SetDynamicHostname \/ ConfigureDynamicNet \/ PollFinds \/ PollAgain \/ WriteHosts
           \/ StartServicesAndShell
  BY <1>3, <1>4 DEF SetDynamicHostname, ConfigureDynamicNet, PollFinds, PollAgain, WriteHosts,
       StartServicesAndShell, Go, kernelVars
<1>5. CASE NicAppears \/ LeaseArrives \/ TakeIdentity \/ UNCHANGED vars
  BY <1>3, <1>5 DEF NicAppears, LeaseArrives, TakeIdentity, vars, kernelVars
<1> QED
  BY <1>1, <1>2, <1>4, <1>5 DEF Next, BootStep

-----------------------------------------------------------------------------
(* The name, the address and the polls.                                    *)

NetTypeOK ==
    /\ dhclient \in BOOLEAN
    /\ polls \in 0..Polls
    /\ stage \in {"calls", "identity", "dhcp"} => polls = 0
    /\ stage = "wait" => polls < Polls
    /\ hostname \in Names
    /\ hosts \in Identities \cup {Nil}
    /\ identity \in Identities \cup {Nil}

LEMMA PollsIs == Polls \in Nat /\ Polls > 0
BY NodeBootAssumption

LEMMA InitNet == Init => NetTypeOK
<1> SUFFICES ASSUME Init
             PROVE  NetTypeOK
  OBVIOUS
<1>1. /\ stage = "calls" /\ dhclient = FALSE /\ polls = 0
      /\ hostname = "kernel_default" /\ hosts = Nil /\ identity = Nil
  BY DEF Init
<1>2. dhclient \in BOOLEAN /\ hostname \in Names
  BY <1>1 DEF Names
<1>3. polls \in 0..Polls /\ stage # "wait"
  BY <1>1, PollsIs
<1> QED
  BY <1>1, <1>2, <1>3 DEF NetTypeOK

LEMMA StepNet == IInv /\ NetTypeOK /\ [Next]_vars => NetTypeOK'
<1> SUFFICES ASSUME IInv, NetTypeOK, [Next]_vars
             PROVE  NetTypeOK'
  OBVIOUS
<1> USE DEF NetTypeOK
<1>1. CASE MakeCall \/ Refuse
  <2>1. stage = "calls" /\ (Fail \/ Continue) /\ UNCHANGED <<netVars, identity>>
    BY <1>1 DEF MakeCall, Calling, Mount, MountMissing, TryMount, Try, Share, Move, SwitchRoot,
         PurgeV1Mounts, Unmount, AvailableControllers, MakeCgroup, MoveSelfTo,
         DelegateControllers, WriteSysctls, Refuse, mountsOnly
  <2>2. stage' \in {"calls", "identity", "halted"}
    BY <2>1, FailFacts
  <2> QED
    BY <2>1, <2>2 DEF netVars
<1>2. CASE SetDynamicHostname
  BY <1>2 DEF SetDynamicHostname, Go, Names
<1>3. CASE ConfigureDynamicNet
  BY <1>3, PollsIs DEF ConfigureDynamicNet, Go
<1>4. CASE PollFinds
  BY <1>4 DEF PollFinds, Go
<1>5. CASE PollAgain
  BY <1>5, PollsIs DEF PollAgain, Go
<1>6. CASE WriteHosts
  <2>1. lease \in Addresses
    BY <1>6 DEF WriteHosts, Go, IInv, WireTypeOK, Leased, HasAddress
  <2>2. [name |-> hostname, address |-> lease] \in Identities
    BY <2>1 DEF Identities
  <2>3. hosts' \in Identities \cup {Nil}
    BY <1>6, <2>2 DEF WriteHosts
  <2> QED
    BY <1>6, <2>3 DEF WriteHosts, Go
<1>7. CASE StartServicesAndShell
  BY <1>7 DEF StartServicesAndShell, Go, netVars
<1>8. CASE TakeIdentity
  <2>1. (IF HasAddress THEN lease ELSE Loopback) \in Addresses \cup {Loopback}
    BY DEF IInv, WireTypeOK, HasAddress
  <2>2. identity' \in Identities
    BY <1>8, <2>1 DEF TakeIdentity, Identities
  <2> QED
    BY <1>8, <2>2 DEF TakeIdentity, netVars
<1>9. CASE NicAppears \/ LeaseArrives \/ UNCHANGED vars
  BY <1>9 DEF NicAppears, LeaseArrives, vars, netVars
<1> QED
  BY <1>1, <1>2, <1>3, <1>4, <1>5, <1>6, <1>7, <1>8, <1>9 DEF Next, BootStep

-----------------------------------------------------------------------------
(* The theorems.                                                           *)

NodeInv == Flow /\ MountInv /\ GroupInv /\ IInv /\ NetTypeOK

LEMMA InvHolds == Spec => []NodeInv
<1>1. Init => NodeInv
  BY InitFlow, InitMounts, InitGroups, InitInv, InitNet DEF NodeInv
<1>2. NodeInv /\ [Next]_vars => NodeInv'
  BY StepFlow, StepMounts, StepGroups, StepInv, StepNet DEF NodeInv
<1> QED
  BY <1>1, <1>2, PTL DEF Spec

LEMMA TypesHold == NodeInv => TypeOK
<1> SUFFICES ASSUME NodeInv
             PROVE  TypeOK
  OBVIOUS
<1>1. next \in 1..(Len(Plan) + 1) /\ refused \subseteq 1..Len(Plan)
  <2>1. Len(Plan) = 42
    BY PlanIs, Zenon
  <2> QED
    BY <2>1 DEF NodeInv, Flow
<1>2. groups \subseteq {Plan[i].at : i \in 1..Len(Plan)}
  <2>1. Len(Plan) = 42
    BY PlanIs, Zenon
  <2>2. Groups \cup {InitGroup} \subseteq {Plan[i].at : i \in 1..42}
    BY GroupPlaces DEF Groups
  <2> QED
    BY <2>1, <2>2 DEF NodeInv, GroupInv, GroupsTypeOK
<1>3. /\ controllers \in BOOLEAN /\ forwarding \in BOOLEAN
      /\ delegated \subseteq groups \cup {Cgroup} /\ self \in {Cgroup, Group(<<"init">>)}
  BY DEF NodeInv, GroupInv, GroupsTypeOK, InitGroup
<1>4. /\ stage \in {"calls", "identity", "dhcp", "wait", "hosts", "services", "up", "halted"}
      /\ nic \in BOOLEAN /\ found \in BOOLEAN /\ lease \in Addresses \cup {Nil}
  BY DEF NodeInv, IInv, WireTypeOK, Stages
<1>5. /\ dhclient \in BOOLEAN /\ polls \in 0..Polls /\ hostname \in Names
      /\ hosts \in Identities \cup {Nil} /\ identity \in Identities \cup {Nil}
  BY DEF NodeInv, NetTypeOK
<1>6. Len(mounts) > 0 /\ mounts[1].at = <<>>
  BY TableIs DEF NodeInv, MountInv, Shape
<1> QED
  BY <1>1, <1>2, <1>3, <1>4, <1>5, <1>6 DEF TypeOK

\* Every variable has its type: what is delegated is a group that was made,
\* PID 1 is in the root group or in its own, the polls stop at their bound and
\* the table always has a root.
THEOREM TypeCorrect == Spec => []TypeOK
BY InvHolds, TypesHold, PTL

LEMMA AfterCalls ==
    ASSUME NodeInv, CallsMade
    PROVE  /\ next = 43 /\ mounts \in Table /\ Shape(43, mounts) /\ Progress(43, mounts, refused)
           /\ \A k \in MountCalls : Done(k, mounts, refused)
           /\ \A k \in ShareCalls : SharedDone(k, mounts, refused)
<1>1. next = 43 /\ Shape(43, mounts) /\ Progress(43, mounts, refused)
  BY DEF NodeInv, Flow, MountInv
<1>2. \A k \in MountCalls \cup ShareCalls : k < 43
  BY CallsAre
<1> QED
  BY <1>1, <1>2 DEF Shape, Progress

LEMMA RefusedIs == \A ops, at : Refused(ops, at) <=> Says(refused, ops, at)
BY DEF Refused, Says

LEMMA CoverHolds == NodeInv => NothingCovered
<1> SUFFICES ASSUME NodeInv
             PROVE  NothingCovered
  OBVIOUS
<1>1. Readable => \A i \in DOMAIN mounts : ~Kernel!Covered(mounts, i)
  <2>1. Readable <=> HasProc(mounts)
    BY CgroupTwo DEF NodeInv
  <2> QED
    BY <2>1 DEF NodeInv, MountInv, Shape, NoCover, Uncovered
<1>2. CallsMade => \A d \in Shipped \ {CniBin} : Kernel!FsAt(mounts, d) = "overlay"
  <2> SUFFICES ASSUME CallsMade, NEW d \in Shipped \ {CniBin}
               PROVE  Kernel!FsAt(mounts, d) = "overlay"
    OBVIOUS
  <2>1. mounts \in Table /\ Shape(43, mounts)
    BY AfterCalls
  <2>2. d \in Path
    BY PlacesAre
  <2>3. Top(mounts, d) \in Entries(mounts) /\ IsPrefix(Top(mounts, d).at, d)
        /\ Kernel!FsAt(mounts, d) = Top(mounts, d).fs
    BY <2>1, <2>2, TopIs
  <2> QED
    BY <2>1, <2>3 DEF Shape, Fits, ImageIsRight
<1> QED
  BY <1>1, <1>2 DEF NothingCovered

\* While koobd can read /proc/mounts it covers no mount with another
\* (MountIfMissing, and the order of setupMounts), and of what the image ships
\* it hides no more than the CNI plugins, for every mount table that an
\* earlier stage may have left and every set of calls that the kernel refuses.
THEOREM NothingIsCovered == Spec => []NothingCovered
BY InvHolds, CoverHolds, PTL

LEMMA MountsHold == NodeInv => MountsStandAlone
<1> SUFFICES ASSUME NodeInv, CallsMade, NEW k \in MountCalls
             PROVE  \/ Kernel!FsAt(mounts, Plan[k].at) = Plan[k].fs
                    \/ Refused({"mount_if_missing"}, Plan[k].at)
                    \/ Plan[k].at = Cgroup /\ Refused({"purge_v1", "unmount"}, Cgroup)
  BY DEF MountsStandAlone
<1>1. Done(k, mounts, refused)
  BY AfterCalls
<1>2. Kernel!FsAt(mounts, Plan[k].at) = Top(mounts, Plan[k].at).fs
  BY DEF Kernel!FsAt, Top
<1> QED
  BY <1>1, <1>2, RefusedIs DEF Done

\* The failure of one call of setupMounts or setupCgroups is contained: every
\* other file system of theirs is on its place when boot goes on.
THEOREM MountsAreIndependent == Spec => []MountsStandAlone
BY InvHolds, MountsHold, PTL

LEMMA SharesHold == NodeInv => SharedUnlessRefused
<1> SUFFICES ASSUME NodeInv
             PROVE  SharedUnlessRefused
  OBVIOUS
<1> SUFFICES ASSUME CallsMade, NEW k \in ShareCalls
             PROVE  \/ ~Kernel!IsMountPoint(mounts, Plan[k].at)
                    \/ mounts[Kernel!Lookup(mounts, Plan[k].at)].shared
                    \/ Refused({Plan[k].op, "mount_if_missing"}, Plan[k].at)
                    \/ Plan[k].at = Cgroup /\ ~Readable /\ Refused({"unmount"}, Cgroup)
  BY DEF SharedUnlessRefused
<1>1. SharedDone(k, mounts, refused) /\ mounts \in Table /\ (Readable <=> HasProc(mounts))
  BY AfterCalls, CgroupTwo DEF NodeInv
<1>2. Plan[k].at \in Path
  BY CallsAre, CallPaths
<1>3. Kernel!IsMountPoint(mounts, Plan[k].at) <=> Top(mounts, Plan[k].at).at = Plan[k].at
  BY <1>1, <1>2, TopIs
<1> QED
  BY <1>1, <1>3, RefusedIs DEF SharedDone, Top

\* Mount propagation: every mount point that koobd shares is shared when boot
\* goes on, unless that call or the mount was refused, or for cgroup2 the
\* unmount of an old one that /proc/mounts does not show.
THEOREM SharingHolds == Spec => []SharedUnlessRefused
BY InvHolds, SharesHold, PTL

LEMMA ReadyHolds == NodeInv => KernelReady
<1> SUFFICES ASSUME NodeInv
             PROVE  KernelReady
  OBVIOUS
<1> SUFFICES ASSUME CallsMade
             PROVE  /\ OnCgroup2 /\ controllers =>
                         \A g \in Groups \cup {Cgroup} : g \in delegated \/ Blocked(refused, g)
                    /\ \/ ~OnCgroup2 \/ self # Cgroup
                       \/ Refused({"make_group", "move_self"}, InitGroup)
                       \/ ~Readable /\ Refused({"unmount"}, Cgroup)
                    /\ Readable /\ ~Refused({"sysctl"}, Proc) => forwarding
  BY DEF KernelReady, Groups, Blocked, InitGroup
<1>1. next = 43 /\ GroupInv /\ (OnCgroup2 <=> OnTwo(mounts)) /\ (Readable <=> HasProc(mounts))
  BY AfterCalls, CgroupTwo DEF NodeInv
<1>2. OnCgroup2 /\ controllers => \A g \in Groups \cup {Cgroup} : g \in delegated \/ Blocked(refused, g)
  <2> SUFFICES ASSUME OnCgroup2, controllers, NEW g \in Groups \cup {Cgroup}
               PROVE  g \in delegated \/ Blocked(refused, g)
    OBVIOUS
  <2>1. PICK k \in 36..41 : Plan[k].at = g
    BY GroupPlaces DEF Groups
  <2>2. k < next
    BY <1>1
  <2> QED
    BY <1>1, <2>1, <2>2 DEF GroupInv, AllDelegated
<1>3. \/ ~OnCgroup2 \/ self # Cgroup
      \/ Refused({"make_group", "move_self"}, InitGroup)
      \/ ~Readable /\ Refused({"unmount"}, Cgroup)
  BY <1>1, RefusedIs DEF GroupInv, OutOfTheWay
<1>4. Readable /\ ~Refused({"sysctl"}, Proc) => forwarding
  BY <1>1, RefusedIs DEF GroupInv, Forwards
<1> QED
  BY <1>2, <1>3, <1>4

\* What kubelet and the container runtime find: on cgroup2 the controllers
\* reach every group whose own calls and whose parents' were not refused,
\* PID 1 has left the root group, and the kernel forwards packets whenever the
\* sysctl could be written, whatever became of the cgroups.
THEOREM KernelIsReady == Spec => []KernelReady
BY InvHolds, ReadyHolds, PTL
=============================================================================
