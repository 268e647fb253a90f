# koob OS in TLA+

Koob OS is an immutable Linux that does one thing: run a Kubernetes node.  A
single Go binary, `koobd`, is PID 1; a second one, `koobadm`, is what the
operator runs on the console to make the machine a control plane or a worker.
This directory specifies those two programs, checks the specifications with TLC
and proves the main safety results with TLAPS.

Contents: [the system](#1-the-system), [the modules](#2-the-modules),
[the runs](#3-the-runs), [fairness](#4-fairness),
[the proofs](#5-the-proofs), [disagreements found](#6-where-the-code-and-its-text-disagree),
[what is left out](#7-what-is-left-out), [the plan](#8-plan).

## 1. The system

| component | source | state it keeps | operations |
|---|---|---|---|
| service supervisor | `cmd/koobd/internal/supervisor`, `cmd/koobd/services.go` | one goroutine per service: waiting for the trigger file, starting, in `cmd.Wait`, backing off, returned | `Run`, `waitForTrigger`, `runOnce`; cancellation of a context |
| zombie reaper | `cmd/koobd/main.go` `reapZombies` | none of its own; works on the kernel's process table | `Wait4(-1, WNOHANG)` in a loop, one second of sleep |
| main sequence, console shell | `cmd/koobd/main.go` `run`, `shell.go` | where the boot is; the shell's process | `ip`, `dhclient`, the services, the shell, "SYSTEM SEALED" |
| mounts, cgroups, sysctls, environment | `cmd/koobd/mounts.go`, `cgroups.go`, `sysctl.go`, `pkg/sysutil` | the kernel's mount table, the cgroups, who of them has controllers, PID 1's own cgroup | `MountIfMissing`, propagation, purge of v1, `Mkdir`, `moveSelfTo`, delegation |
| networking, identity | `cmd/koobd/net.go`, `pkg/netutil` | hostname, `/etc/hosts` | hostname from the MAC, the wait for DHCP |
| `koobadm init`, files | `cmd/koobadm/main.go`, `internal/pki`, `kubeconfig`, `manifests`, `kubelet` | 25 files under `/etc/kubernetes` and `/var/lib/kubelet` | the guard on admin.conf, the writes in order |
| `koobadm init`, API objects | `internal/bootstrap`, `internal/addons` | RBAC, cluster-info, CoreDNS, the Node object | Create with AlreadyExists ignored, Get and Update of the Node |
| `koobadm token` | `internal/token` | bootstrap Secrets | `IsControlPlane`, `token create` |
| `koobadm join` | `internal/join` | CA, key, certificate, kubelet.conf, config.yaml; the CSR object | discovery, key, CSR, poll, writes |
| `squashfs-init` | `cmd/squashfs-init` | overlay on tmpfs | early boot up to `switch_root` |
| build scripts | `hack/*.sh`, `Makefile` | artifacts on disk | stages that skip what exists |

**How they interact.**  koobd and koobadm share nothing but the file system:
`/etc/kubernetes/kubelet.conf` is at once a credential that koobadm writes and
the trigger file on which koobd starts the kubelet.  Inside koobd the
supervisors, the main goroutine and the reaper share the kernel's process
table: each of them may collect any dead child.  koobadm talks to the API
server, which a kubelet started by koobd runs from manifests that koobadm
wrote; so init waits for something that koobd brings up because of a file that
init wrote.  A worker's join talks to the API server with a bootstrap token
and waits for controllers nobody here implements; the command an operator
carries from the one console to the other is all that ties a run to a cluster,
for its client verifies no server.  Before all this squashfs-init and koobd work
through one list of calls to the kernel, most of whose errors are only logged, so
later steps meet whatever earlier ones left.  The root file system is an
overlay on tmpfs: a reboot loses every file.

**What is hard.**
* *Two collectors of one death.*  `Wait4(-1)` runs against every `cmd.Wait`; the
  loser sees ECHILD and must neither hang, nor start a second instance, nor
  leave a process unwatched.
* *Existence as state.*  admin.conf alone stands for "initialised",
  kubelet.conf alone for "joined" and for "start the kubelet", although each is
  one of many writes, any of which may fail, be torn or be interrupted.
* *Repetition.*  init, join and token create are run again after failures, wipes
  and reboots, over objects that etcd kept and files that the last run left.
* *A check of one thing and a use of another.*  join hashes the first PEM block of the
  CA data in cluster-info and saves all of it (join.go:297-329).
* *Polling by name.*  join asks for "the certificate of the CSR with my name",
  which an earlier run with another key may have created.
* *Read-modify-write* of the Node object next to the kubelet's heartbeats.
* *Bounded waits*: 60 polls of the API server, of the Node and of the CSR, 12 of the
  interface for an address, each racing the late answer.
* *Boot that never stops.*  Some forty calls in an order that matters, each of which
  may be refused and is then only logged.
* *A cluster that is replaced under a join*: wiped or rebooted control planes, and
  join commands typed long after they were shown.

**What makes each component correct.**  The supervisor: one instance at a time,
nothing left behind on return, no start before the trigger, every death
noticed, cancellation ends Run.  The reaper: no zombie stays.  init: the guard
and the trigger file imply a whole PKI of one authority, a completed init is
durable.  init with koobd: one authority on the node, init ends, the kubelet
comes up.  The API objects: discoverable means joinable, a silent init is
complete, no update of the kubelet is undone.  join: a certificate never
stands next to another's key, ca.crt begins with the authority whose hash was
given to the run that wrote kubelet.conf, a join that succeeded is never
overwritten, and every run ends.  Boot: no mount covers another, a refused call spoils only what it was for, the identity that
init takes is the one boot settled on, and the shell is always reached.  The
cluster: a worker's CA and certificate are of one authority, one that had
invited it.

`PROJECT.json` lists every hazard at its line, with the properties that cover it.

## 2. The modules

| module | models | extends / instantiates |
|---|---|---|
| `ProcessTable` | fork, exit, orphans, `cmd.Wait`, `Wait4(-1)`: the kernel and os/exec as koobd uses them (external) | |
| `Supervisor` | `Supervisor.Run` for every service | `ProcessTable` |
| `Koobd` | main goroutine, reaper, all supervisors, the environment | `Supervisor`; refines `ServiceKeeper` |
| `ServiceKeeper` | the abstract promise about a service | |
| `NodeInit` | `koobadm init`: guard, ordered writes, warnings, kills, wipes, reboots | |
| `NodeFiles` | the 25 files in the order of the code, and what a kubeconfig embeds | |
| `Bringup` | init and the kubelet's supervisor side by side, kubelet and static pods external | instances of `NodeInit` and `Supervisor` |
| `ControlPlane` | API objects, MarkControlPlane, token create, several inits | |
| `ClusterObjects` | the objects of the code in their order | |
| `Join` | `koobadm join` on several workers, CSR controllers external | |
| `Cluster` | a control plane and its workers, coupled by the API server and the join command | instances of `ControlPlane` and `Join`; refines `Membership` |
| `Membership` | the abstract promise of joining | |
| `MountTable` | mount(2) and umount(2) as the code uses them (external) | |
| `NodeBoot` | squashfs-init and koobd's `run()` up to the shell, and the identity koobadm init finds | an instance of `MountTable` |
| `KoobdProofs`, `NodeInitProofs`, `JoinProofs`, `ControlPlaneProofs`, `BringupProofs`, `ClusterProofs`, `NodeBootProofs` | theorems | the module each is named after; `BringupProofs` cites `NodeInitProofs`, `ClusterProofs` cites `ControlPlaneProofs` and `JoinProofs` |
| `MountTableProofs` | lemmas: what every operation on the mount table does, for any table | `MountTable`; `NodeBootProofs` cites an instance of it |
| `MCKoobd`, `MCNodeInit`, `MCBringup`, `MCJoin`, `MCControlPlane`, `MCCluster`, `MCNodeBoot` | values of constants for TLC | |

Operators whose name has an underscore (`StartChild_NoWait`) are deliberate
faults: no specification uses them.  Each stands above the action whose place
it takes, and shows what the properties would catch if the code had that bug.

### Koobd

A slot of `table` is a process (free, running, or a zombie with the status it
died with), `owner` the goroutine that started it, `child` the process each
waiter's `exec.Cmd` refers to.  `pc[s]` is the place of service `s` in `Run`:

| action | code |
|---|---|
| `LaunchService`, `FirstPlace` | `startManagedServices`; `Run` enters `waitForTrigger` only with a TriggerFile |
| `TriggerTick` | the ticker's `os.Stat` succeeds |
| `SelectDone` | `ctx.Done()` in the three selects |
| `EnterRunOnce`, `StartFails`, `StartChild` | default branch of the loop; log file, `cmd.Start` |
| `KillOnCancel` | `exec.CommandContext`'s kill |
| `WaitSucceeds`, `WaitExitError`, `WaitNoChild` | the outcomes of `cmd.Wait`: status 0, `ExitError`, ECHILD because the reaper was first |
| `BackoffElapses` | five seconds |
| `Reap`, `ReapNothing`, `ReaperWakes` | `reapZombies` |
| `RunIp`, `StartDhclient`, `ServicesLaunched`, `StartShell`, `ShellReturns` | `run()` from the first child process on |

A waiter whose child was reaped sees `Gone`, never a process that reuses the
number: os/exec holds a pidfd.  koobd passes `context.Background()`; contexts
that can be cancelled belong to the API of `Supervisor` and are exercised by its
tests, so the services in `Cancellable` have one.

### NodeInit

An *attempt* is one run of the command.  `by[f]` is the attempt that wrote file
`f` last (Nil, or Torn if a write was cut short), `read[f]` the author of the
certificates that kubeconfig `f` embeds, which it reads back from disk.
`Start` is the guard of `main.go:163`, `WriteFile`/`WriteFails` one file of the
list, `Configure` the three steps whose error is only a warning, `Kill`,
`DeleteEtcKubernetes` and `Reboot` the operator.  Attempts do not overlap: there
is one console.

### Bringup

Binds the two by `TriggerFollowsFile`: the supervisor's `trigger` is the
existence of kubelet.conf.  `KubeletLoads` is the kubelet as koobd's command line
determines it: with kubelet.conf and config.yaml whole it comes up with the
identity in kubelet.conf, otherwise it exits with an error.  `PodsFollowManifests`
is the API server as the kubelet runs it, `Answered` what a post-bootstrap step
of init needs of it.

### NodeBoot

The calls of squashfs-init, `setupMounts`, `setupCgroups` and `configureSysctls` are
a sequence, `Plan`, each with its operation, path, file system and what its error
does: `"log"`, `"return"` (the one return in the middle of `setupCgroups`) or `"halt"`
(squashfs-init returns an error and PID 1 exits).  One action executes each kind of
call; `Refuse` is any call that the kernel, or the `MkdirAll` before it, says no to.
`MountIfMissing` skips what /proc/mounts shows, and shows nothing while procfs is
not on /proc.

| action | code |
|---|---|
| `Mount`, `MountMissing`, `Share`, `Move` | `sysutil.Mount`, `MountIfMissing`, the MS_SHARED and MS_MOVE calls |
| `SwitchRoot` | the hand-over to koobd; /dev, /proc, /sys and /run go along (switch_root, external) |
| `PurgeV1Mounts`, `Unmount`, `AvailableControllers`, `MakeCgroup`, `MoveSelfTo`, `DelegateControllers` | `setupCgroups` in order |
| `WriteSysctls` | `configureSysctls`; of the parameters only ip_forward is followed |
| `SetDynamicHostname`, `ConfigureDynamicNet`, `PollFinds`, `PollAgain`, `WriteHosts` | `net.go`; `PollAgain` is one of the twelve polls |
| `TakeIdentity` | the identity that `koobadm init` detects (main.go:187-208) |

`MountTable` keeps the mounts in the order they were made; a path lookup ends in the
latest mount at or above the path.  The initramfs comes with a bare root, or with
what u-root's own init mounts, v1 cgroups included, or with cgroup2.  The image uses
`-initcmd=squashfs-init` (hack/build-initramfs.sh:54-56), so only the first is today's
boot, but the others are what `MountIfMissing`, `purgeV1Mounts` and the unmount of
cgroups.go:38 are written for, and without them these have nothing to skip or remove.
`Undisturbed` says which tables count as such a start: a root and anything else that
covers nothing, with no file system of another type where koobd mounts one, nothing on
the three directories of squashfs-init, nothing below a place that koobd mounts without
that place being mounted, and below /sys/fs/cgroup only v1 hierarchies, or cgroup2
alone on it.

Three observations.  A second cgroup2 on /sys/fs/cgroup is EBUSY.  So where an old one
cannot be unmounted and, because procfs is not mounted, MountIfMissing does not see it,
setupCgroups returns early: no cgroup is made, PID 1 stays in the root group and the
mount is not shared.  It takes three refused calls, one more than the run allows; the
attempt to prove `KernelReady` and `SharedUnlessRefused` without that exception found
it, and they now name it.  The tmpfs over /opt/cni/bin hides the CNI plugins that
hack/fetch-deps.sh:97-113 puts in the image: `NothingCovered` makes exactly this
exception.  And main.go:188 says that "koobd ensures networking is ready"; boot gives
up after a minute, so `IdentityIsReady` promises an address other than 127.0.0.1 only
on a node where boot found one in time.

### ControlPlane

The objects of `applyJoinRBAC`, `initDiscovery` and `ApplyCoreDNS` are created in
the order of the code (`Plan`); an object remembers the attempt that created it.
Whether a Create failed, was refused or lost its reply is one choice in
`CreateFails`.  `GetNode`/`UpdateNode` carry the resource version, so a write of
the kubelet in between makes the update fail.  Object data lives in etcd, which a
wipe of `/etc/kubernetes` does not touch and a reboot does.

### Join

Each worker's run is a program counter over the steps of `Cluster`; a key is
(worker, number of the run), a certificate is the key it certifies.  Every
request may be refused or lost in either direction, every write may be torn,
every run interrupted anywhere, every worker rebooted anywhere, the token may
expire and be renewed, and the controllers may issue or clean up a CSR at any
time, or never.  `BootstrapperVerbs` is the role that init binds to bootstrap
tokens.  Each run is given the hash of an authority (`CAs`), not always the same.

What cluster-info has is not one authority but a bundle, the CA data of a kubeconfig:
the authority in its first PEM block (`first`) and those in the blocks after it
(`more`).  `ValidateDiscovery` compares the hash of `first` alone, as join.go:297-313
does, and saves the bundle as it came, as join.go:325-329 does.  No server is verified,
so the bundle may be any of `Served`.  An authority is its key, since what is hashed is
the SubjectPublicKeyInfo.  Which of several clusters of one kubeconfig is looked at (Go's
map order) makes no more bundles than `Served` has.

### Cluster

One control plane and its workers, each of them a machine.  `TokenStatus`, what the
API server says of the token that the workers' operator typed, replaces Join's free
`token`; `WorkerStep` lets discovery succeed only with the authority in cluster-info
and requests about a CSR only when there is an API server and the role bindings
exist; `Controllers` sign with the authority of the API server that runs, which
`issuer` records for each key.  The bundles here are of one authority: initDiscovery
puts init's own ca.crt into cluster-info, which has one block.  A reboot of the control plane loses etcd, so the CSRs
go with the objects.  `TakeCommand` turns to any command that was ever shown, also
to one of a cluster that is no more.

`Membership` is what an operator means by joining: a worker is of at most one
authority, one that had invited it, and leaves before it goes to another.  A worker
counts as a member by the ca.crt beside a whole kubelet.conf.

## 3. The runs

| run | question | instance |
|---|---|---|
| `koobd_safety` | can any interleaving of reaper, waits, deaths, cancels and triggers break `OneInstance`, `NoneLeftBehind`, `NotBeforeTrigger`, `SealedMeansNoShell`, or deadlock koobd? | the two services of the code, 4 process slots (symmetric) |
| `koobd_liveness` | are deaths noticed, zombies collected, cancels honoured, services restarted or given up; does it implement `ServiceKeeper`? | the same services, 2 slots |
| `koobd_documented` | does Run return only for the two documented reasons? **No** | 3 slots |
| `node_files` | do `GuardImpliesPki`, `TriggerImpliesPki`, `DoneIsDurable` survive failed, torn, killed and repeated inits? | the 25 real files, 3 attempts |
| `bringup_node` | one authority on the node, init ends, a late tick is safe | one file per role, 2 attempts, crashing kubelet |
| `bringup_race` | does koobd start the services after "Initialization complete"? **Not always** | 1 attempt |
| `objects` | do the API objects appear in an order that strands nobody; is a silent init complete; is no kubelet update lost? | 2 inits, 1 token, 2 kubelet writes |
| `reinit` | does cluster-info follow a re-init? **No** | 2 inits |
| `join_runs` | identity, CA, durability and termination of join | 2 workers, 2 keys each, 2 authorities, 2 bundles, lossy |
| `boot` | does boot reach the shell, with what mounts, propagation, cgroups and identity, whatever fails? | the 42 calls, 2 of them refused, 3 kinds of initramfs, 2 polls |
| `cluster` | is a worker of one authority although the control plane is replaced under it; is it served; is joining `Membership`? | 1 worker, 2 keys, 2 inits, 2 tokens |
| `join_cleanup` | does "Delete existing if any" delete? **No** | 1 worker |

`TypeOK` is checked with every module's passing run; Bringup's is proved.

**Why the bounds are enough.**
* *Process slots.*  Four let both services and the shell or `ip` live beside an
  orphan or dhclient, or two services and a zombie beside the process that takes
  its successor's place.  With two, in the liveness run, slots run out all the
  time, so `cmd.Start` fails for want of one; every waiter/reaper pair still
  occurs, since the interesting races are between one process and two
  collectors.  The safety properties are proved for any table.  The liveness run
  uses no symmetry.
* *Attempts.*  Two inits are the least in which one can spoil what another wrote;
  a third lets a run follow a failed one and precede a refused one.  `node_files`
  uses the full list of files; Bringup takes one file per role because only the
  order of the roles (PKI, admin.conf, kubelet.conf, manifests, config.yaml) is
  observable by koobd and the kubelet.
* *Keys per worker.*  A second key per worker makes a stale CSR of the first
  possible.  A refused or failing run before a key is made costs none, so the
  number of runs is not bounded, only that of keys.
* *Authorities.*  With two of them, a run may be given another hash than the one before
  it and find the ca.crt of that one, or half of it.  One bundle is ca2 alone, the other
  ca1 with ca2 appended, so a hash may also be that of a block that is not the first.
  `MCSpec` lets the operator of one worker turn from one hash to the other and keeps
  the rest to ca1: workers share no file, and the full product is too large for a run
  with liveness.
* *Two workers* show that one worker's CSR does not reach the other; the name
  sharing case is excluded by the hypothesis discussed in section 5.
* *Boot.*  The list of calls is the code's.  Two refused calls make every pair of a mount
  and something that depends on it fail together; the theorems hold for any number.  Two polls
  stand for twelve: one that finds nothing and one that is the last.
* *Cluster.*  Two inits, two tokens and two keys let a run under one authority be
  followed or overtaken by the other, and a key of an old run meet a certificate of a
  new one.  One worker, since workers meet only through the CSR's name (`join_runs`).
  No writes of the Node object: they touch nothing a worker sees.  Of the objects one
  role binding, cluster-info and one of CoreDNS keep the phases and their order.  The
  VIEW `Observed` leaves out of the state what no later guard and no property reads:
  warnings, key and certificate files, a command's hash once it is validated, who made
  which object, who signed for keys that are gone.  (`TypeOK` is part of it to make TLC
  evaluate every variable.)
* *Tokens, kubelet writes.*  Two writes allow one before the Get and one between Get
  and Update; a second token adds only a copy of the first one's steps.

**`join_runs` and the verbs.**  With the role that the code really binds, Delete
never succeeds (`join_cleanup`), so that run alone would never check what join
does after a Delete that works.  `join_runs` therefore gives bootstrap tokens
the verb "delete" as well; the token's expiry and lost requests make it fail too,
so it covers both.  The theorems hold for any set of verbs.

**Deadlock.**  It is checked in every run of Koobd, Join, ControlPlane and Cluster.  The
runs of NodeInit and Bringup say `CHECK_DEADLOCK FALSE`: when the bound on
attempts is used up and the last one has ended, nobody has to run init again.  So does
`boot`: squashfs-init may halt the machine.

**Mutants.**  For each property of each passing run, `PROJECT.json` names a
fault under which that run finds the property violated.

## 4. Fairness

* *koobd* (`Koobd!Fairness`): the Go scheduler runs every goroutine that can run and
  timers fire: weak fairness of each supervisor, of the main goroutine and of
  the reaper's poll and sleep.  `Reap(p)` is weakly fair for each process:
  Wait4(-1) scans the children of koobd in order, so no zombie is passed over
  for ever.  `ip link set` is a command that ends by itself.  Not assumed: that a
  service or the shell ever exits, that anybody writes a trigger file or
  cancels, that cmd.Wait ever wins against the reaper.
* *Bringup*: an init that is not killed goes on, because its file writes return and
  its three waits are counted loops; koobd's goroutine and a freshly started
  kubelet are scheduled.  Nothing is assumed of the API server, so `InitEnds`
  holds although it may never answer.
* *NodeBoot*: every call to the kernel returns and every poll sleeps five seconds, so
  PID 1 goes on (`WF(BootStep)`).  No card and no lease need ever come.
* *Join*: a run that is not interrupted goes on.  Nothing is assumed of the
  controllers, the network or the token.

NodeInit, ControlPlane and Cluster are checked for safety only and have no fairness.

## 5. The proofs

All results hold for every value of the constants that satisfies the named
assumptions of the modules.  The assumptions say what the constants are (sets,
numbers, markers that differ from values) plus, in `NodeInit`, what the list of
files in the code satisfies: no file twice, the PKI first, the kubeconfigs next,
each embedding some of the PKI; in `Bringup`, that the manifests are written after
the kubeconfigs; in `ControlPlane`, that no object is created twice and the role
bindings come before cluster-info; in `NodeBoot`, that boot starts on a table that is
`Undisturbed`.  TLC evaluates all of them in the runs.

**KoobdProofs** (`TypeCorrect`, `AtMostOneInstance`, `NothingLeftBehind`,
`ShellIsSealed`, `TriggerFirst`, `KeeperSafety`).  None of the safety properties is
inductive: that a service has one process says nothing about which process its
goroutine waits for.  The invariant `IInv` adds *Tracked* (an uncollected process
with an owner is the very child that owner waits for, and a waiter's child is an
uncollected process of its own), *InWait* (a goroutine has a child, collected or
not, exactly when it is in `cmd.Wait`) and *Triggering* (a supervisor past its
trigger has had one).  One lemma per operation of the process table shows that
it keeps Tracked; the reaper keeps it because collecting a process turns its
waiter's child into `Gone`.  `KeeperSafety` proves from the same invariant that
every step of koobd is a step or a stutter of `ServiceKeeper`: a death is
noticed by the supervisor before the service is up again, whoever collected it.

**NodeInitProofs** (`TypeCorrect`, `GuardIsSound`, `TriggerIsSound`, `DoneStays`).
admin.conf is a sound guard because it is the first kubeconfig after the whole
PKI.  The invariant says so: *AdminFirst* (no kubeconfig exists before it),
*Progress* (a running attempt has written all the files before its step and found
no kubeconfig from it on), *Serial* (only the last attempt runs) and *ConfsMatch*
(every whole kubeconfig is of the author of the PKI).  Any number of files and
attempts, any place where a run is cut.

**JoinProofs** (`TypeCorrect`, `OwnCertificate`, `OneIdentityOnDisk`,
`ValidatedAuthority`, `WrittenOnce`).  Nothing in join compares the certificate it
receives with its key.  It is right because Create refuses a name that is in use:
*PollsOwn*, while a run polls, an object of its name can only be its own; *GotOwn*,
what it received certifies its key, and the bundle it saved begins with the authority it
was given the hash of; *NoRunAfterConf*, once kubelet.conf exists no
run passes the pre-flight check.  This needs `UniqueNames`: no two workers have
one hostname.  The code does not ensure it (six hex digits of a MAC address, or
digits of a clock, or one fixed name), so it is a hypothesis of these theorems and
not an assumption of the model.  `ValidatedAuthority` is about the first authority of
ca.crt and no other: nothing in the code looks at the blocks that follow it, so nothing
can be proved of them.

**ControlPlaneProofs** (`TypeCorrect`, `JoinableFirst`, `ConfiguredFirst`,
`SilenceIsSuccess`, `RegisteredFirst`, `CommandsAgree`, `WritesSurvive`).  A phase
creates its objects from the first to the last and stops at the first error, and
objects of earlier inits count as created; so what exists of a phase is always a
prefix of it (*InOrder*), the running phase has everything before its place
(*SoFar*), and an init without a warning everything behind it (*Behind*).  For the
authorities: while init runs, the files are its own (*OwnFiles*), and until a wipe
etcd and console know no other (*OneAuthority*); the guard on admin.conf is what
makes this inductive.  `WritesSurvive` needs *Copied*: the copy that MarkControlPlane
holds is the current Node object whenever the versions agree, which the version
number ensures only because every writer increments it.

**BringupProofs** (`ImplementsInit`, `OneAuthority`, `TypeCorrect`).  No process beside
init writes one of its files, so every step maps to a step or stutter of NodeInit
and the invariant of `NodeInitProofs` is an invariant here, cited as it stands.  To
it come *LoadedOnDisk* and *ServingOnDisk* (what the kubelet and the API server have
read is what is on disk, unless it was wiped), *ManifestsLate* (a manifest of a
current attempt stands beside an admin.conf, so a new attempt is refused and cannot
replace the PKI under the API server) and *NoneFuture*.

**ClusterProofs** (`OneClusterPerWorker`, `ServedToTheEnd`, `AdmissionHolds`,
`ImplementsControlPlane`, `TypeCorrect`).  Workers change nothing of the control plane,
so its invariant holds here as it stands; every step but one maps to a step of Join,
the one being the control plane's reboot, which takes all CSRs at once and is shown
by itself to keep Join's invariant.  What neither module knows is what ties them:
*Hands* (a run works with a command that was shown, and a token that still works is
one that this control plane showed), *Bound* (a run past discovery whose token works
finds its roles bound: objects leave etcd only with the reboot that ends every token),
and, of the signatures, *Unsigned* (nobody signed for a key that is not submitted yet),
*CSROwn* (a CSR lies in the etcd of the authority on disk, which alone signs it) and
*Certified*.  The last three hold until /etc/kubernetes is deleted.  `AdmissionHolds`
maps the print of a command to an invitation, the write of kubelet.conf to an
admission and the reboot of a worker to its leaving.  All but `ImplementsControlPlane`
have `UniqueNames` as a hypothesis.

**NodeBootProofs** (`IdentityTaken`, `TypeCorrect`, `NothingIsCovered`,
`MountsAreIndependent`, `SharingHolds`, `KernelIsReady`).  For every initial mount table
that is `Undisturbed`, any set of refused calls and any number of polls.

The identity does not depend on the list of calls.  The host name is set before boot
waits for an address and never again (*Named*); the wait ends with an address only when
there is one, and it stays because there is no other lease (*Leased*); so /etc/hosts and
init read the same values.

The other five do.  The first lemmas compute `Plan` and compare the paths in it; then,
with one lemma per kind of call, come the two parts of the invariant that speak of the
table.  *Shape* says what may be mounted before the call that is next: on each place of
koobd only its own file system, below a place that koobd has yet to mount only what lies
in a mount there, cgroup2 alone on its place, and no entry over another as long as
/proc/mounts can be read, or the calls up to that for /dev are still being made.  It is
what makes `MountIfMissing` right, which looks for a path and not for a file system.
*Progress* says what has been achieved: each call that was made has its mount on its
place, or its mount point shared, or one of the calls it depends on was refused.  It
survives later calls because none of them touches a path at or above an earlier one's
place: the order of `setupMounts`.  Where that is not so the code undoes on purpose:
switch_root, which comes before all calls that Progress speaks of, and the purge and the
unmount of old cgroups, for which Progress says what is left at /sys/fs/cgroup before
the mount of cgroup2.  *GroupInv* does the same for the cgroups: a group whose controllers
cannot be enabled is one whose own call or a call on its parent was refused, because the
parents come first (`CannotDelegate`), and never one that PID 1 is in, because PID 1 is in
the root group or in /init, to which nothing is delegated.

**MountTableProofs** has the lemmas this rests on, for any table and any paths: what
mount, share, move, unmount, the purge and the change of root do to the entries, to what
covers what, and to what the look-up of a path ends in.  None of these is specific to koob
OS.  The entries of a table that are picked keep their order; this takes a small theory
of ranks, since recursion over a sequence could not be proved about.

**Only model-checked.**  All liveness properties and the fairness part of
`KeepsServices` (fairness and ENABLED are outside what the prover handles); that the
concrete lists in `NodeFiles` and `ClusterObjects` satisfy the assumptions of NodeInit
and ControlPlane, which TLC evaluates.  Every safety invariant of every passing run is
proved.

## 6. Where the code and its text disagree

Each is a run that expects a violation of one property, with TLC's trace.

* `koobd_documented`: Run "returns an error if the process cannot be started
  initially or if the context is cancelled" (supervisor.go:36); it also returns,
  for good, when a service exits with a non-zero status and when the reaper
  collected it first.
* `bringup_race`: kubelet.conf is written before config.yaml.  koobd's tick in
  between starts a kubelet that exits with an error and is given up, and init
  still says "koobd will now start services" (main.go:267).
* `reinit`: the same hint leaves cluster-info with the first authority
  (AlreadyExists is ignored), while later join commands carry the second's hash.
* `join_cleanup`: "Delete existing if any." (join.go:170) has no right to delete: the
  role of bootstrap tokens lacks the verb.

Noted in passing, each plain from one guard and so no run of its own: after a CoreDNS
failure the operator is told to try "re-running init" (main.go:256), which the guard
then always refuses; and a wipe and second init leave a running kubelet with the
identity it has read, because the supervisor looks at the trigger file once.  The
wipe is also why `WorkerIsOne` is stated of control planes whose /etc/kubernetes was
never deleted: cluster-info keeps the old authority while the controllers sign with
the new one, and a worker with an old command gets a certificate of the one and the CA
of the other.  And the bootstrap client goes without TLS verification because "we
validated it manually in discovery" (join.go:345), which is so of the first block of
the CA data only: whatever a server has put after it is in ca.crt as well, unchecked.
`ConfImpliesExpectedCA` therefore claims the first authority and no more.

## 7. What is left out

* `setBaseEnv` (constants in koobd's environment) and squashfs-init's choice of a log
  level from the kernel command line.
* What is in a certificate, a manifest, a template or a token: data that no
  property here tells apart beyond who wrote it.
* `koobadm config`, `version`, `help`, and the choice of a path prefix in container
  mode: no state.
* Logging, console formatting and the terminal's settings.
* A worker's kubelet after join: it meets koobd's tick between kubelet.conf and
  config.yaml just as in Bringup, and the run `bringup_race` speaks for both.
* The build scripts: stages that skip what exists, run by hand; secure-boot keys and the
  kernel's configuration have no logic to check.
* Time.  A timer may take any time; that five seconds is more than one second is
  used nowhere.
* Renewal of a DHCP lease with another address: koobd does not look again after boot.
* Two inits at once: the system offers one console.

## 8. Plan

Done: ProcessTable, Supervisor, Koobd with ServiceKeeper and KoobdProofs;
NodeInit, NodeFiles and NodeInitProofs; Join and JoinProofs; Bringup and
BringupProofs; ControlPlane, ClusterObjects and ControlPlaneProofs; MountTable and
NodeBoot with MountTableProofs and NodeBootProofs; Cluster, Membership and ClusterProofs.

Next, in this order:

1. *A worker's bring-up*: Join composed with Supervisor over kubelet.conf.
2. *Build*: the stages of `hack/*.sh` as artifacts with the inputs they were made from.
