------------------------------ MODULE Cluster ------------------------------
(***************************************************************************)
(* A control plane (ControlPlane) and the workers that join it (Join), each *)
(* on a machine of its own and coupled only by the API server: a join       *)
(* command carries a token and the hash of an authority from one to the     *)
(* other, a worker reads cluster-info and creates its CSR with that token,  *)
(* and the controllers sign it with the authority they run with.            *)
(*                                                                         *)
(* The control plane may be initialised again, after a wipe or a reboot,    *)
(* while a worker is in the middle of a run, and an operator may type a     *)
(* command that was shown long ago.  The client of a run does not verify    *)
(* the server (join.go:250, 346), so it talks to whichever one answers.     *)
(***************************************************************************)
EXTENDS Naturals, Sequences

CONSTANTS
    RBAC, NJoin, CoreDNS, ClusterInfo, Anonymous, Deployment,
    MaxAttempts, MaxTokens, MaxWrites,
    Workers, Names, NameOf, BootstrapperVerbs, Lossy, MaxRuns,
    Nil, Torn

VARIABLES
    pc, next, run, files, warned, silent, obj, node, copy,
    tokens, token, printed, serving, wiped,
    jpc, runs, got, expected, ca, keyFile, certFile, conf, config, csr,
    command,   \* the join command that the workers' operator has
    issuer,    \* history: the authority that signed for each key
    shown,     \* history: every join command that was ever shown
    everWiped  \* history: /etc/kubernetes was deleted on the control plane

cpVars == <<pc, next, run, files, warned, silent, obj, node, copy,
            tokens, token, printed, serving, wiped>>
joinVars == <<jpc, runs, got, expected, ca, keyFile, certFile, conf, config, csr>>
ownVars == <<command, issuer, shown, everWiped>>
vars == <<cpVars, joinVars, ownVars>>

CP == INSTANCE ControlPlane

\* What the API server says of the token of the command.  Without a command
\* no run starts, and either answer will do.
TokenStatus ==
    IF command = Nil \/ tokens[command.token] = "valid" THEN "valid" ELSE "expired"

\* init puts its own authority into cluster-info, and no other with it.
Bundles == [first : CP!Attempts, more : {{}}]

J == INSTANCE Join
    WITH pc <- jpc, token <- TokenStatus, CAs <- CP!Attempts, Served <- Bundles, None <- Nil

ASSUME ClusterAssumption == CP!ValidObjects /\ J!ValidNames

Commands == [token : CP!Tokens, hash : CP!Attempts]

TypeOK ==
    /\ CP!TypeOK /\ J!TypeOK
    /\ command \in Commands \cup {Nil}
    /\ issuer \in [J!Keys -> CP!Attempts \cup {Nil}]
    /\ shown \subseteq Commands
    /\ everWiped \in BOOLEAN

Init ==
    /\ CP!Init
    /\ command = Nil
    /\ J!Init
    /\ issuer = [k \in J!Keys |-> Nil]
    /\ shown = {}
    /\ everWiped = FALSE

-----------------------------------------------------------------------------

\* A step on the control-plane node other than its reboot.
ControlPlaneStep ==
    /\ CP!UpStep
    /\ shown' = shown \cup printed'
    /\ everWiped' = (everWiped \/ wiped')
    /\ UNCHANGED <<joinVars, command, issuer>>

\* etcd is lost with the other files of the control-plane node.
ControlPlaneReboots ==
    /\ CP!Reboot
    /\ csr' = [n \in Names |-> Nil]
    /\ UNCHANGED <<jpc, runs, got, expected, ca, keyFile, certFile, conf, config, ownVars>>

-----------------------------------------------------------------------------

\* cluster-info is there to read and holds the authority of the command.
Discovered(w) == serving # Nil /\ CP!Discoverable /\ obj[ClusterInfo] = expected[w]

\* A request about a CSR is answered, and init has bound the role.
Answered(w) == serving # Nil /\ CP!Exist(CP!JoinRBAC)

\* The operator turns to another command between two runs.
TakeCommand ==
    /\ \A w \in Workers : jpc[w] \notin J!Active
    /\ command' \in shown \ {command}
    /\ UNCHANGED <<cpVars, joinVars, issuer, shown, everWiped>>

\* A run is started with the command, goes on, is interrupted, or ends with
\* a reboot of its worker.  Whatever it achieves over the network needs the
\* control plane's part.
WorkerStep(w) ==
    /\ UNCHANGED <<cpVars, ownVars>>
    /\ \/ command # Nil /\ J!StartWith(w, command.hash)
       \/ J!Step(w)
       \/ J!Kill(w)
       \/ J!Reboot(w)
    /\ jpc[w] = "validate" /\ jpc'[w] = "key" => Discovered(w)
    /\ csr' # csr \/ jpc'[w] = "cert" => Answered(w)

\* The controllers run where and while the API server does.
Controllers ==
    /\ serving # Nil
    /\ UNCHANGED <<cpVars, command, shown, everWiped>>
    /\ \E n \in Names :
        \/ J!Issue(n) /\ issuer' = [issuer EXCEPT ![csr[n].key] = serving]
        \/ J!CleanUp(n) /\ UNCHANGED issuer

Next ==
    \/ ControlPlaneStep \/ ControlPlaneReboots
    \/ TakeCommand \/ \E w \in Workers : WorkerStep(w)
    \/ Controllers

Spec == Init /\ [][Next]_vars

-----------------------------------------------------------------------------

Whole(w) == conf[w] \notin {Nil, Torn}

\* The one authority in a worker's ca.crt.
Trusted(w) == IF ca[w] \in Bundles THEN ca[w].first ELSE Nil

\* A worker is of one cluster: the certificate in its kubelet.conf was signed
\* by the authority in its ca.crt, though two runs of join, with commands of
\* two clusters, may have written the two, and though the client that fetched
\* it verified nobody.  Deleting /etc/kubernetes under a running join, which
\* leaves cluster-info as it was, is the one way to break this.
WorkerIsOne ==
    ~everWiped => \A w \in Workers : Whole(w) =>
        conf[w].cert \in {k \in J!Keys : issuer[k] = Trusted(w)}

\* A worker that passed discovery is not refused later on: as long as its
\* token is valid and the API server answers, the roles it acts under exist.
JoinersAreServed ==
    \A w \in Workers :
        /\ jpc[w] \in {"key", "cleanup", "create", "poll"}
        /\ TokenStatus = "valid" /\ serving # Nil
        => CP!Exist(CP!JoinRBAC)

Membership == INSTANCE Membership
    WITH Authorities <- CP!Attempts,
         invited <- {j.hash : j \in shown},
         member <- [w \in Workers |-> IF Whole(w) THEN Trusted(w) ELSE Nil]

\* Joining admits workers the way Membership says, through every restart of
\* either side.
Admission == Membership!Spec
=============================================================================
