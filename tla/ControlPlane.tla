---------------------------- MODULE ControlPlane ----------------------------
(***************************************************************************)
(* The API objects of a cluster: what init creates after the node's files  *)
(* are written (bootstrap.go, addons.go), MarkControlPlane's               *)
(* read-modify-write of the Node object next to the kubelet's own writes,  *)
(* and `koobadm token create` (token.go).                                  *)
(*                                                                         *)
(*   pc = "idle"      no koobadm runs; one console runs one at a time      *)
(*        "rbac"      InitBootstrapRBAC: applyJoinRBAC, then initDiscovery *)
(*        "coredns"   ApplyCoreDNS                                         *)
(*        "get"       MarkControlPlane, before its Get                     *)
(*        "update"    MarkControlPlane, before its Update                  *)
(*        "register"  CreateToken, before the Secret is created            *)
(*        "print"     CreateToken, before the output                       *)
(*                                                                         *)
(* An attempt of init stands for the authority it made; the objects live   *)
(* in etcd, whose data is not under /etc/kubernetes.                       *)
(***************************************************************************)
EXTENDS Naturals, Sequences

CONSTANTS
    RBAC,         \* what InitBootstrapRBAC creates, in order
    NJoin,        \* how many of these are applyJoinRBAC's
    CoreDNS,      \* what ApplyCoreDNS creates, in order
    ClusterInfo, Anonymous,  \* what a worker reads, and what lets it
    Deployment,   \* the CoreDNS pods
    MaxAttempts,  \* bound: runs of init
    MaxTokens,    \* bound: tokens created
    MaxWrites,    \* bound: writes of the Node object by the kubelet
    Nil

\* The objects that each phase creates, in order.
Plan == [rbac |-> RBAC, coredns |-> CoreDNS]

Elements(s) == {s[i] : i \in 1..Len(s)}
JoinRBAC == {RBAC[i] : i \in 1..NJoin}
Discovery == {RBAC[i] : i \in (NJoin + 1)..Len(RBAC)}
Objects == Elements(RBAC) \cup Elements(CoreDNS)
Attempts == 1..MaxAttempts
Tokens == 1..MaxTokens
Nodes == [marked : BOOLEAN, writes : 0..MaxWrites, version : Nat]

Distinct(s) == \A i, j \in 1..Len(s) : s[i] = s[j] => i = j

\* What the lists of objects in the code satisfy.
ValidObjects ==
    /\ RBAC \in Seq(Objects) /\ CoreDNS \in Seq(Objects)
    /\ Distinct(RBAC) /\ Distinct(CoreDNS)
    /\ Elements(RBAC) \cap Elements(CoreDNS) = {}
    /\ NJoin \in 1..(Len(RBAC) - 1) /\ Len(CoreDNS) > 0
    /\ ClusterInfo \in Discovery /\ Anonymous \subseteq Discovery
    /\ Deployment \in Elements(CoreDNS)
    /\ MaxAttempts \in Nat /\ MaxTokens \in Nat /\ MaxWrites \in Nat
    /\ Nil \notin Attempts /\ Nil \notin Nodes /\ Nil \notin Tokens

ASSUME ControlPlaneAssumption == ValidObjects

VARIABLES
    pc,
    next,     \* the object of the phase that is created next
    run,      \* the last attempt of init
    files,    \* the attempt whose authority is under /etc/kubernetes
    warned,   \* whether the running init has warned
    silent,   \* history: inits that completed with no warning, until a wipe
    obj,      \* who created each object
    node,     \* the Node object: label and taint, the kubelet's own writes
    copy,     \* the Node as MarkControlPlane read it
    tokens,   \* the Secret of each token
    token,    \* the token that the running command has registered
    printed,  \* the join commands shown: a token and the hash of an authority
    serving,  \* whose certificates the running API server has, if one runs
    wiped     \* history: /etc/kubernetes was deleted since the boot

runVars == <<run, files, warned, silent>>
tokenVars == <<tokens, token, printed>>
vars == <<pc, next, runVars, obj, node, copy, tokenVars, serving, wiped>>

TypeOK ==
    /\ pc \in {"idle", "rbac", "coredns", "get", "update", "register", "print"}
    /\ next \in Nat \ {0} /\ (pc \in DOMAIN Plan => next <= Len(Plan[pc]))
    /\ run \in 0..MaxAttempts
    /\ files \in Attempts \cup {Nil}
    /\ warned \in BOOLEAN
    /\ silent \subseteq Attempts
    /\ obj \in [Objects -> Attempts \cup {Nil}]
    /\ node \in Nodes \cup {Nil}
    /\ copy \in Nodes \cup {Nil}
    /\ tokens \in [Tokens -> {"unused", "valid", "expired"}]
    /\ token \in Tokens \cup {Nil}
    /\ printed \subseteq [token : Tokens, hash : Attempts]
    /\ serving \in Attempts \cup {Nil} /\ wiped \in BOOLEAN

Init ==
    /\ pc = "idle" /\ next = 1 /\ run = 0 /\ files = Nil
    /\ warned = FALSE /\ silent = {}
    /\ obj = [o \in Objects |-> Nil]
    /\ node = Nil /\ copy = Nil
    /\ tokens = [t \in Tokens |-> "unused"]
    /\ token = Nil /\ printed = {}
    /\ serving = Nil /\ wiped = FALSE

-----------------------------------------------------------------------------
(* init after its files are written.                                       *)

\* The API server that runs trusts the admin.conf that koobadm reads.
Answers == serving # Nil /\ serving = files

\* Mutant: no guard on admin.conf.
StartInit_NoGuard ==
    /\ pc = "idle" /\ run < MaxAttempts
    /\ run' = run + 1 /\ files' = run + 1
    /\ pc' = "rbac" /\ next' = 1 /\ warned' = FALSE
    /\ UNCHANGED <<silent, obj, node, copy, tokenVars, serving, wiped>>

\* The guard, and the files (NodeInit has them one by one).
StartInit ==
    /\ pc = "idle" /\ run < MaxAttempts /\ files = Nil
    /\ run' = run + 1 /\ files' = run + 1
    /\ pc' = "rbac" /\ next' = 1 /\ warned' = FALSE
    /\ UNCHANGED <<silent, obj, node, copy, tokenVars, serving, wiped>>

NextPhase == pc' = (IF pc = "rbac" THEN "coredns" ELSE "get") /\ next' = 1

\* Mutant: the last object of a phase is followed by one more.
Advance_OneMore ==
    \/ next > Len(Plan[pc]) /\ NextPhase
    \/ next <= Len(Plan[pc]) /\ next' = next + 1 /\ UNCHANGED pc

\* After the last object of a phase comes the next phase.
Advance ==
    \/ next = Len(Plan[pc]) /\ NextPhase
    \/ next < Len(Plan[pc]) /\ next' = next + 1 /\ UNCHANGED pc

\* The object exists, made now or before: AlreadyExists is no error.
Ensure(o) == obj' = IF obj[o] = Nil THEN [obj EXCEPT ![o] = run] ELSE obj

\* Mutant: the objects are created in the opposite order.
CreateObject_Backwards ==
    /\ pc \in DOMAIN Plan /\ Answers
    /\ Ensure(Plan[pc][Len(Plan[pc]) + 1 - next])
    /\ Advance
    /\ UNCHANGED <<runVars, node, copy, tokenVars, serving, wiped>>

CreateObject ==
    /\ pc \in DOMAIN Plan /\ Answers
    /\ Ensure(Plan[pc][next])
    /\ Advance
    /\ UNCHANGED <<runVars, node, copy, tokenVars, serving, wiped>>

\* Mutant: the error of one object is logged and the next one is created.
CreateFails_Continue ==
    /\ pc \in DOMAIN Plan
    /\ UNCHANGED obj
    /\ Advance
    /\ UNCHANGED <<runVars, node, copy, tokenVars, serving, wiped>>

\* No answer within 60 polls, an error, or a reply that is lost: the phase
\* returns it, runInit warns and goes on with the next phase.
CreateFails ==
    /\ pc \in DOMAIN Plan
    /\ UNCHANGED obj \/ (Answers /\ Ensure(Plan[pc][next]))
    /\ NextPhase /\ warned' = TRUE
    /\ UNCHANGED <<run, files, silent, node, copy, tokenVars, serving, wiped>>

\* Get of the Node object; it is polled for until the kubelet made it.
GetNode ==
    /\ pc = "get" /\ Answers /\ node # Nil
    /\ copy' = node
    /\ pc' = "update"
    /\ UNCHANGED <<next, runVars, obj, node, tokenVars, serving, wiped>>

EndInit(ok) ==
    /\ pc' = "idle" /\ copy' = Nil
    /\ silent' = IF ok /\ ~warned THEN silent \cup {run} ELSE silent
    /\ UNCHANGED <<next, run, files, warned, obj, tokenVars, serving, wiped>>

\* Update carries the version that was read; label and taint go together.
Marked(n) == [n EXCEPT !.marked = TRUE, !.version = @ + 1]

\* Mutant: a conflict is answered by writing the same copy again.
UpdateNode_Forced ==
    /\ pc = "update" /\ Answers
    /\ node' = [Marked(copy) EXCEPT !.version = node.version + 1]
    /\ EndInit(TRUE)

UpdateNode ==
    /\ pc = "update" /\ Answers /\ copy.version = node.version
    /\ node' = Marked(copy)
    /\ EndInit(TRUE)

\* Mutant: the error of Update is dropped.
MarkFails_Dropped ==
    /\ pc \in {"get", "update"}
    /\ UNCHANGED node
    /\ EndInit(TRUE)

\* No Node object in time, a conflict or another error: runInit warns.
MarkFails ==
    /\ pc \in {"get", "update"}
    /\ UNCHANGED node
    /\ EndInit(FALSE)

-----------------------------------------------------------------------------
(* token create.                                                           *)

\* IsControlPlane: the label of the Node object decides; when the object
\* cannot be read, admin.conf on disk is enough.
StartToken ==
    /\ pc = "idle" /\ files # Nil
    /\ Answers /\ node # Nil => node.marked
    /\ \E t \in Tokens : tokens[t] = "unused"
    /\ pc' = "register"
    /\ UNCHANGED <<next, runVars, obj, node, copy, tokenVars, serving, wiped>>

\* Tokens are taken in order; random identifiers do not collide here.
Fresh(t) == tokens[t] = "unused" /\ \A u \in Tokens : u < t => tokens[u] # "unused"

\* Mutant: the token is shown although it could not be registered.
RegisterFails_Print ==
    /\ pc = "register" /\ pc' = "print"
    /\ token' \in Tokens
    /\ UNCHANGED <<next, runVars, obj, node, copy, tokens, printed, serving, wiped>>

RegisterToken ==
    /\ pc = "register" /\ Answers /\ pc' = "print"
    /\ \E t \in Tokens :
        Fresh(t) /\ tokens' = [tokens EXCEPT ![t] = "valid"] /\ token' = t
    /\ UNCHANGED <<next, runVars, obj, node, copy, printed, serving, wiped>>

\* The Create fails, or its reply is lost: nothing is shown.
RegisterFails ==
    /\ pc = "register" /\ pc' = "idle"
    /\ \/ UNCHANGED tokens
       \/ Answers /\ \E t \in Tokens : Fresh(t) /\ tokens' = [tokens EXCEPT ![t] = "valid"]
    /\ UNCHANGED <<next, runVars, obj, node, copy, token, printed, serving, wiped>>

\* The hash is that of the authority on disk.
PrintToken ==
    /\ pc = "print" /\ pc' = "idle"
    /\ printed' = printed \cup {[token |-> token, hash |-> files]}
    /\ token' = Nil
    /\ UNCHANGED <<next, runVars, obj, node, copy, tokens, serving, wiped>>

-----------------------------------------------------------------------------
(* The operator, the kubelet and the token cleaner.                        *)

Interrupt ==
    /\ pc # "idle"
    /\ pc' = "idle" /\ next' = 1 /\ copy' = Nil /\ token' = Nil
    /\ UNCHANGED <<runVars, obj, node, tokens, printed, serving, wiped>>

\* "Delete /etc/kubernetes to re-init": etcd's data stays.
DeleteEtcKubernetes ==
    /\ pc = "idle" /\ files # Nil
    /\ files' = Nil /\ silent' = {} /\ wiped' = TRUE
    /\ UNCHANGED <<pc, next, run, warned, obj, node, copy, tokenVars, serving>>

\* Everything on the node is lost; the commands shown are for a cluster
\* that is no more.
Reboot ==
    /\ pc' = "idle" /\ next' = 1 /\ files' = Nil /\ silent' = {} /\ serving' = Nil
    /\ obj' = [o \in Objects |-> Nil]
    /\ node' = Nil /\ copy' = Nil
    /\ tokens' = [t \in Tokens |-> IF tokens[t] = "unused" THEN "unused" ELSE "expired"]
    /\ token' = Nil /\ printed' = {}
    /\ wiped' = FALSE
    /\ UNCHANGED <<run, warned>>

\* The kubelet runs the API server from the files, and stops it.
APIServerStarts ==
    /\ serving = Nil /\ files # Nil
    /\ serving' = files
    /\ UNCHANGED <<pc, next, runVars, obj, node, copy, tokenVars, wiped>>

APIServerStops ==
    /\ serving # Nil
    /\ serving' = Nil
    /\ UNCHANGED <<pc, next, runVars, obj, node, copy, tokenVars, wiped>>

KubeletRegisters ==
    /\ serving # Nil /\ node = Nil
    /\ node' = [marked |-> FALSE, writes |-> 0, version |-> 0]
    /\ UNCHANGED <<pc, next, runVars, obj, copy, tokenVars, serving, wiped>>

\* Heartbeats, addresses and conditions.
KubeletWrites ==
    /\ serving # Nil /\ node # Nil /\ node.writes < MaxWrites
    /\ node' = [node EXCEPT !.writes = @ + 1, !.version = @ + 1]
    /\ UNCHANGED <<pc, next, runVars, obj, copy, tokenVars, serving, wiped>>

TokenExpires ==
    /\ \E t \in Tokens : tokens[t] = "valid" /\ tokens' = [tokens EXCEPT ![t] = "expired"]
    /\ UNCHANGED <<pc, next, runVars, obj, node, copy, token, printed, serving, wiped>>

KoobadmStep ==
    \/ StartInit \/ CreateObject \/ CreateFails \/ GetNode \/ UpdateNode \/ MarkFails
    \/ StartToken \/ RegisterToken \/ RegisterFails \/ PrintToken

\* A step of the node while it is up.
UpStep ==
    \/ KoobadmStep
    \/ Interrupt \/ DeleteEtcKubernetes
    \/ APIServerStarts \/ APIServerStops
    \/ KubeletRegisters \/ KubeletWrites \/ TokenExpires

Next == UpStep \/ Reboot

Spec == Init /\ [][Next]_vars

-----------------------------------------------------------------------------

Exist(S) == \A o \in S : obj[o] # Nil

\* A worker can fetch cluster-info.
Discoverable == Exist({ClusterInfo} \cup Anonymous)

\* A worker that passes discovery may submit its CSR and have it approved:
\* however init failed, was interrupted and was repeated, cluster-info is
\* never readable before both role bindings of the join exist.
DiscoverableMeansJoinable == Discoverable => Exist(JoinRBAC)

\* CoreDNS is never deployed without its account, its Corefile and its role.
DeployedMeansConfigured ==
    obj[Deployment] # Nil =>
        \A i, j \in 1..Len(CoreDNS) : j < i /\ CoreDNS[i] = Deployment => obj[CoreDNS[j]] # Nil

\* An init that completed with no warning left every object in place and
\* the node marked (main.go:248-267).
SilentMeansComplete ==
    silent # {} => Exist(Objects) /\ node # Nil /\ node.marked

\* A join command that was shown names a token the API server knew.
PrintedMeansRegistered == \A j \in printed : tokens[j.token] # "unused"

\* Marking the node never undoes what the kubelet wrote in the meantime.
NoLostUpdate ==
    [][node # Nil /\ node' # Nil => node'.writes >= node.writes]_vars

\* A join command agrees with the cluster: until /etc/kubernetes is deleted,
\* a worker that runs one shown after an init with no warning finds the
\* authority whose hash it has in cluster-info.
HashMatchesDiscovery ==
    ~wiped => \A j \in printed : j.hash \in silent => obj[ClusterInfo] = j.hash

-----------------------------------------------------------------------------

\* main.go:166: "Delete /etc/kubernetes to re-init".  The same of any node, so
\* also of one on which the operator followed the hint.
ReinitIsDiscoverable ==
    \A j \in printed : j.hash \in silent => obj[ClusterInfo] = j.hash
=============================================================================
