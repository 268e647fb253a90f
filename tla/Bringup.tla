------------------------------ MODULE Bringup ------------------------------
(***************************************************************************)
(* A control-plane node coming up: `koobadm init` (NodeInit) and koobd's   *)
(* supervisor of the kubelet (Supervisor) side by side, coupled only by    *)
(* the file system.  kubelet.conf, the second kubeconfig init writes, is    *)
(* the supervisor's trigger file; the kubelet reads it when it starts, and *)
(* config.yaml, which init writes last; init in turn waits for the API     *)
(* server that the kubelet runs from the manifests.                        *)
(*                                                                         *)
(* The kubelet and the pods it runs are not koob OS code: they are modelled *)
(* by what runInit and services.go rely on.  An attempt of init stands for *)
(* the certificate authority it made; a client is trusted by the API       *)
(* server when both are of one attempt.                                    *)
(***************************************************************************)
EXTENDS Naturals, Sequences

CONSTANTS
    Steps, NPki, NConf, Inputs(_), KubeletConf, OutsideEtc, MaxAttempts, Nil, Torn,
    Procs, Main, Pid1, None, Gone,
    Kubelet,        \* the one service modelled here
    KubeletConfig,  \* /var/lib/kubelet/config.yaml
    Manifests,      \* the static pods' manifests
    Crashes         \* whether a kubelet that has come up may die

VARIABLES
    by, read, status, step, warned, latest, current,
    table, owner, child, pc, why, trigger, cancelled,
    loaded,     \* whose kubelet.conf the running kubelet has read
    serving,    \* whose certificates the running API server has read
    registered  \* whether the node's Node object is in etcd

Node == INSTANCE NodeInit

Sup == INSTANCE Supervisor
    WITH Services <- {Kubelet}, Triggered <- {Kubelet}, Cancellable <- {}

nodeVars == <<by, read, status, step, warned, latest, current>>
supVars == <<table, owner, child, pc, why, trigger, cancelled>>
clusterVars == <<loaded, serving, registered>>
vars == <<nodeVars, supVars, clusterVars>>

Attempts == Node!Attempts

\* The manifests come after the kubeconfigs.  The rest is what NodeInit and
\* Supervisor assume of what they share with this module.
ASSUME BringupAssumption ==
    /\ Node!Layout
    /\ Manifests \subseteq Node!Files \ (Node!Pki \cup Node!Confs)
    /\ Manifests # {}
    /\ Main # Kubelet /\ Pid1 \notin {Main, Kubelet}
    /\ None \notin Procs /\ Gone \notin Procs /\ None # Gone

TypeOK ==
    /\ Node!TypeOK
    /\ Sup!TableTypeOK /\ Sup!SupervisorTypeOK
    /\ loaded \in Attempts \cup {Nil}
    /\ serving \in Attempts \cup {Nil}
    /\ registered \in BOOLEAN

\* The console shell, and with it koobadm, is reached after both services
\* were launched.
Init ==
    /\ Node!Init
    /\ Sup!TableInit
    /\ pc = [s \in {Kubelet} |-> "trigger"]
    /\ why = [s \in {Kubelet} |-> "none"]
    /\ trigger = {}
    /\ cancelled = {}
    /\ loaded = Nil /\ serving = Nil /\ registered = FALSE

-----------------------------------------------------------------------------

Whole(f) == by[f] \in Attempts

\* os.Stat of the trigger file sees what init and the operator left.
TriggerFollowsFile == trigger' = IF by'[KubeletConf] # Nil THEN {Kubelet} ELSE {}

\* A step of init or of the operator; nothing in it talks to koobd.
FilesOnly ==
    /\ TriggerFollowsFile
    /\ UNCHANGED <<table, owner, child, pc, why, cancelled, clusterVars>>

\* A post-bootstrap step ends without a warning only if the API server
\* accepted admin.conf and, for MarkControlPlane, found the Node object.
Answered(a) == serving = a /\ (step = Node!N + Len(Node!Post) => registered)

\* Mutant: the loop that waits for the API server has no limit.
InitStep_WaitsForever(a) ==
    /\ Node!AttemptStep(a)
    /\ Node!Configuring(a) => Answered(a)
    /\ FilesOnly

InitStep(a) ==
    /\ Node!AttemptStep(a)
    /\ Node!Configuring(a) /\ warned' = warned => Answered(a)
    /\ FilesOnly

OperatorStep ==
    /\ (\E a \in Attempts : Node!Start(a) \/ Node!Kill(a)) \/ Node!DeleteEtcKubernetes
    /\ FilesOnly

SupervisorStep ==
    /\ Sup!RunStep(Kubelet)
    /\ UNCHANGED <<nodeVars, clusterVars>>

\* PID 1's Wait4(-1), at any moment (Koobd has its polling).
Reap ==
    /\ \E p \in Procs : Sup!CollectAny(p)
    /\ UNCHANGED <<nodeVars, pc, why, trigger, cancelled, clusterVars>>

Running == Sup!Running(Kubelet)

\* A started kubelet reads its two files, or exits because one is missing
\* or damaged.
KubeletLoads ==
    /\ loaded = Nil
    /\ \E p \in Running :
        IF Whole(KubeletConf) /\ Whole(KubeletConfig)
        THEN loaded' = read[KubeletConf] /\ UNCHANGED table
        ELSE table' = [table EXCEPT ![p] = "fail"] /\ UNCHANGED loaded
    /\ UNCHANGED <<nodeVars, owner, child, pc, why, trigger, cancelled, serving, registered>>

\* A kubelet that has loaded its files dies later on; its pods live on.
KubeletDies ==
    /\ Crashes /\ loaded # Nil
    /\ \E p \in Running : Sup!Exit(p)
    /\ loaded' = Nil
    /\ UNCHANGED <<nodeVars, pc, why, trigger, cancelled, serving, registered>>

\* The kubelet follows the manifests directory: the pods are restarted with
\* the files that are there, or stopped.
PodsFollowManifests ==
    /\ loaded # Nil
    /\ serving' = IF \E a \in Attempts : Node!OneAuthor(Manifests \cup Node!Pki, a)
                  THEN Node!OnDisk(Manifests \cup Node!Pki)
                  ELSE Nil
    /\ serving' # serving
    /\ UNCHANGED <<nodeVars, supVars, loaded, registered>>

\* A kubelet that the API server trusts creates its Node object.
Register ==
    /\ loaded # Nil /\ loaded = serving /\ ~registered
    /\ registered' = TRUE
    /\ UNCHANGED <<nodeVars, supVars, loaded, serving>>

\* Everything is lost: files, processes and etcd's data.
Reboot ==
    /\ Node!Reboot
    /\ trigger' = {}
    /\ table' = [p \in Procs |-> "free"]
    /\ owner' = [p \in Procs |-> Pid1]
    /\ child' = [w \in {Kubelet, Main} |-> None]
    /\ pc' = [s \in {Kubelet} |-> "trigger"]
    /\ why' = [s \in {Kubelet} |-> "none"]
    /\ UNCHANGED cancelled
    /\ loaded' = Nil /\ serving' = Nil /\ registered' = FALSE

Next ==
    \/ \E a \in Attempts : InitStep(a)
    \/ OperatorStep
    \/ SupervisorStep
    \/ Reap
    \/ KubeletLoads \/ KubeletDies \/ PodsFollowManifests \/ Register
    \/ Reboot

Spec == Init /\ [][Next]_vars

\* An init that is not killed goes on: its file writes return and its waits
\* are 60 polls long.  koobd's goroutine and the kubelet are scheduled.
FairSpec ==
    /\ Spec
    /\ \A a \in Attempts : WF_vars(InitStep(a))
    /\ WF_vars(SupervisorStep)
    /\ WF_vars(KubeletLoads)

-----------------------------------------------------------------------------

\* Unless the operator wiped /etc/kubernetes, the kubelet that runs has the
\* identity that is on disk and the API server trusts it: no sequence of
\* failed, killed and repeated inits, kubelet deaths and late ticks brings
\* up a node of two authorities.
ClusterIsOne ==
    /\ loaded \in current => by[KubeletConf] = loaded
    /\ loaded \in current /\ serving \in current => loaded = serving

\* init ends, with or without warnings, even when the kubelet was given up
\* and no API server will ever answer (bootstrap.go:49-65, addons.go:52-82).
InitEnds == \A a \in Attempts : status[a] = "running" ~> status[a] # "running"

\* If koobd's tick sees kubelet.conf only after init has completed, the
\* kubelet comes up with that identity, unless it cannot be started at all
\* or the files are taken away.
LateTickIsSafe ==
    \A a \in Attempts :
        (status[a] = "done" /\ a \in current /\ pc[Kubelet] = "trigger")
            ~> (loaded = a \/ a \notin current \/ why[Kubelet] = "cannot_start")

-----------------------------------------------------------------------------

\* main.go:267: "Initialization complete; koobd will now start services".
\* When that is logged koobd has not already given the kubelet up, unless it
\* could not start it.  Stated of a kubelet that does not crash.
WillStartServices ==
    \A a \in Attempts :
        status[a] = "done" /\ a \in current /\ pc[Kubelet] = "returned"
            => why[Kubelet] = "cannot_start"
=============================================================================
