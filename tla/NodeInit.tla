------------------------------ MODULE NodeInit ------------------------------
(***************************************************************************)
(* `koobadm init` and the files it leaves on a control-plane node: the     *)
(* guard on admin.conf, the ordered writes of the PKI, the kubeconfigs,    *)
(* the static-pod manifests and the kubelet configuration, and the three   *)
(* post-bootstrap steps whose failure is only a warning.                   *)
(*                                                                         *)
(* An attempt is one run of the command.  A file is abstracted to the      *)
(* attempt that wrote it, Nil when it does not exist and Torn when a       *)
(* write was cut short; a kubeconfig embeds certificates that it reads     *)
(* back from disk, so the author of what it read is kept with it.          *)
(* Attempts do not overlap: one console shell runs them (shell.go).        *)
(***************************************************************************)
EXTENDS Naturals, Sequences

CONSTANTS
    Steps,        \* the files in the order runInit writes them
    NPki,         \* how many of them are the PKI
    NConf,        \* how many kubeconfigs follow, admin.conf the first
    Inputs(_),    \* the PKI files that a kubeconfig embeds
    KubeletConf,  \* /etc/kubernetes/kubelet.conf, the kubelet's trigger file
    OutsideEtc,   \* files that are not under /etc/kubernetes
    MaxAttempts,  \* bound: runs of the command
    Nil, Torn

N == Len(Steps)
Files == {Steps[i] : i \in 1..N}
Pki == {Steps[i] : i \in 1..NPki}
Confs == {Steps[i] : i \in (NPki + 1)..(NPki + NConf)}
AdminConf == Steps[NPki + 1]
Attempts == 1..MaxAttempts

\* The warnings a post-bootstrap step may leave, in order.
Post == <<"rbac", "coredns", "mark">>

\* What the list of files in the code satisfies.
Layout ==
    /\ Steps \in Seq(Files)
    /\ \A i, j \in 1..N : Steps[i] = Steps[j] => i = j
    /\ NPki \in Nat /\ NConf \in Nat \ {0} /\ NPki + NConf <= N
    /\ MaxAttempts \in Nat
    /\ \A f \in Confs : Inputs(f) \subseteq Pki /\ Inputs(f) # {}
    /\ KubeletConf \in Confs
    /\ OutsideEtc \subseteq Files /\ OutsideEtc \cap (Pki \cup Confs) = {}
    /\ Nil \notin Attempts /\ Torn \notin Attempts /\ Nil # Torn

ASSUME NodeInitAssumption == Layout

VARIABLES
    by,       \* who wrote each file last
    read,     \* who had written what each kubeconfig embeds
    status,   \* how each attempt stands
    step,     \* the next step of the running attempt
    warned,   \* post-bootstrap steps each attempt warned about
    latest,   \* the last attempt started
    current   \* history: attempts not followed by a wipe of their files

vars == <<by, read, status, step, warned, latest, current>>

Author == Attempts \cup {Nil, Torn}

TypeOK ==
    /\ by \in [Files -> Author]
    /\ read \in [Confs -> Author]
    /\ status \in [Attempts -> {"new", "running", "refused", "failed", "killed", "done"}]
    /\ step \in 1..(N + Len(Post) + 1)
    /\ warned \in [Attempts -> SUBSET {"rbac", "coredns", "mark"}]
    /\ latest \in 0..MaxAttempts
    /\ current \subseteq Attempts

Init ==
    /\ by = [f \in Files |-> Nil]
    /\ read = [f \in Confs |-> Nil]
    /\ status = [a \in Attempts |-> "new"]
    /\ step = 1
    /\ warned = [a \in Attempts |-> {}]
    /\ latest = 0
    /\ current = {}

-----------------------------------------------------------------------------

Idle == \A a \in Attempts : status[a] # "running"

\* Mutant: no guard.
Start_NoGuard(a) ==
    /\ Idle
    /\ a = latest + 1
    /\ latest' = a
    /\ status' = [status EXCEPT ![a] = "running"]
    /\ current' = current \cup {a}
    /\ step' = 1
    /\ UNCHANGED <<by, read, warned>>

\* Mutant: the guard takes the last file for the proof, not admin.conf.
Start_GuardOnLast(a) ==
    /\ Idle
    /\ a = latest + 1
    /\ latest' = a
    /\ status' = [status EXCEPT ![a] = IF by[Steps[N]] = Nil THEN "running" ELSE "refused"]
    /\ current' = current \cup {a}
    /\ step' = 1
    /\ UNCHANGED <<by, read, warned>>

\* The guard, then the directories and the identity of the node.
Start(a) ==
    /\ Idle
    /\ a = latest + 1
    /\ latest' = a
    /\ status' = [status EXCEPT ![a] = IF by[AdminConf] = Nil THEN "running" ELSE "refused"]
    /\ current' = current \cup {a}
    /\ step' = 1
    /\ UNCHANGED <<by, read, warned>>

\* All of F was written by one attempt.
OneAuthor(F, a) == \A f \in F : by[f] = a

Writing(a) == status[a] = "running" /\ step <= N

\* The attempt that wrote all of F, or Torn if there is no such attempt.
OnDisk(F) ==
    IF \E b \in Attempts : OneAuthor(F, b)
    THEN CHOOSE b \in Attempts : OneAuthor(F, b)
    ELSE Torn

\* One file is created and filled; a kubeconfig first reads what it embeds.
WriteFile(a) ==
    /\ Writing(a)
    /\ LET f == Steps[step] IN
        /\ f \in Confs => \A g \in Inputs(f) : by[g] # Nil
        /\ by' = [by EXCEPT ![f] = a]
        /\ read' = [g \in Confs |-> IF g = f THEN OnDisk(Inputs(f)) ELSE read[g]]
    /\ step' = step + 1
    /\ UNCHANGED <<status, warned, latest, current>>

\* The attempt ends here, the file it was writing untouched or torn.
StopWriting(a, how) ==
    /\ Writing(a)
    /\ status' = [status EXCEPT ![a] = how]
    /\ \/ UNCHANGED by
       \/ by' = [by EXCEPT ![Steps[step]] = Torn]
    /\ UNCHANGED <<read, step, warned, latest, current>>

\* Mutant: the error of a kubeconfig is logged and the next one is written.
WriteFails_Continue(a) ==
    /\ Writing(a) /\ Steps[step] \in Confs
    /\ \/ UNCHANGED by
       \/ by' = [by EXCEPT ![Steps[step]] = Torn]
    /\ step' = step + 1
    /\ UNCHANGED <<status, read, warned, latest, current>>

\* A directory, key or file cannot be made: runInit returns the error.
WriteFails(a) == StopWriting(a, "failed")

Configuring(a) == status[a] = "running" /\ step \in (N + 1)..(N + Len(Post))

\* Mutant: a post-bootstrap step also skips the next one.
Configure_SkipsOne(a) ==
    /\ Configuring(a)
    /\ \/ UNCHANGED warned
       \/ warned' = [warned EXCEPT ![a] = @ \cup {Post[step - N]}]
    /\ step' = step + 2
    /\ UNCHANGED <<by, read, status, latest, current>>

\* InitBootstrapRBAC, ApplyCoreDNS, MarkControlPlane: an error is a warning.
Configure(a) ==
    /\ Configuring(a)
    /\ \/ UNCHANGED warned
       \/ warned' = [warned EXCEPT ![a] = @ \cup {Post[step - N]}]
    /\ step' = step + 1
    /\ UNCHANGED <<by, read, status, latest, current>>

\* "Initialization complete".
Finish(a) ==
    /\ status[a] = "running"
    /\ step = N + Len(Post) + 1
    /\ status' = [status EXCEPT ![a] = "done"]
    /\ UNCHANGED <<by, read, step, warned, latest, current>>

\* The operator interrupts the command.
Kill(a) ==
    \/ StopWriting(a, "killed")
    \/ /\ Configuring(a)
       /\ status' = [status EXCEPT ![a] = "killed"]
       /\ UNCHANGED <<by, read, step, warned, latest, current>>

\* "Delete /etc/kubernetes to re-init": the operator follows the hint.
DeleteEtcKubernetes ==
    /\ Idle
    /\ \E f \in Files \ OutsideEtc : by[f] # Nil
    /\ by' = [f \in Files |-> IF f \in OutsideEtc THEN by[f] ELSE Nil]
    /\ read' = [f \in Confs |-> Nil]
    /\ current' = {}
    /\ UNCHANGED <<status, step, warned, latest>>

\* The root is an overlay on tmpfs: a reboot loses every file.
Reboot ==
    /\ \E f \in Files : by[f] # Nil
    /\ by' = [f \in Files |-> Nil]
    /\ status' = [a \in Attempts |-> IF status[a] = "running" THEN "killed" ELSE status[a]]
    /\ read' = [f \in Confs |-> Nil]
    /\ current' = {}
    /\ UNCHANGED <<step, warned, latest>>

AttemptStep(a) == WriteFile(a) \/ WriteFails(a) \/ Configure(a) \/ Finish(a)

Next ==
    \/ \E a \in Attempts : Start(a) \/ AttemptStep(a) \/ Kill(a)
    \/ DeleteEtcKubernetes
    \/ Reboot

Spec == Init /\ [][Next]_vars

-----------------------------------------------------------------------------

\* admin.conf is taken as the proof that the node is initialised
\* (main.go:163-169), so whenever it exists, even torn, the PKI on disk is
\* whole and of one attempt: no failed, killed or repeated run leaves an
\* admin.conf next to certificates of two authorities.
GuardImpliesPki ==
    by[AdminConf] # Nil => \E a \in Attempts : OneAuthor(Pki, a)

\* kubelet.conf is koobd's signal to start the kubelet (services.go:42): when
\* it exists its authority is the one on disk, and re-running init is refused.
TriggerImpliesPki ==
    by[KubeletConf] # Nil =>
        /\ by[AdminConf] # Nil
        /\ by[KubeletConf] # Torn =>
            OneAuthor(Pki, by[KubeletConf]) /\ read[KubeletConf] = by[KubeletConf]

\* What a completed init wrote stays, every file of it, through any number
\* of further runs, until the operator wipes it or the node reboots.
DoneIsDurable ==
    \A a \in Attempts : status[a] = "done" /\ a \in current =>
        OneAuthor(Files, a) /\ \A f \in Confs : read[f] = a
=============================================================================
