---------------------------- MODULE ProcessTable ----------------------------
(***************************************************************************)
(* The kernel's process table as koobd (PID 1) sees it: its own children   *)
(* and the orphans the kernel re-parents to it.  This is the part of the   *)
(* kernel and of os/exec that koobd relies on: fork, exit and the ways a   *)
(* dead child is collected.  Nothing here is under src/; the rules are     *)
(* those that cmd.Start, cmd.Wait and syscall.Wait4 depend on.             *)
(*                                                                         *)
(* A waiter is a goroutine that may sit in cmd.Wait: one per supervised    *)
(* service, and koobd's main goroutine.  os/exec holds a pidfd, so a       *)
(* waiter whose child was collected by someone else sees Gone, never       *)
(* another process that reuses the number.                                 *)
(***************************************************************************)
EXTENDS Naturals, FiniteSets

CONSTANTS
    Procs,     \* the slots of the process table (a bound: pid_max)
    Services,  \* the supervised services
    Main,      \* koobd's main goroutine, a waiter too
    Pid1,      \* owner of a child that no goroutine waits for
    None,      \* "no child"
    Gone       \* "the child I wait for was collected by another wait"

Waiters == Services \cup {Main}

ASSUME ProcessTableAssumption ==
    /\ Main \notin Services
    /\ Pid1 \notin Waiters
    /\ None \notin Procs
    /\ Gone \notin Procs
    /\ None # Gone

VARIABLES
    table,  \* state of each slot
    owner,  \* who started the process of each slot (Pid1 for a free one)
    child   \* the process each waiter waits for

tableVars == <<table, owner, child>>

\* A zombie keeps the exit status it died with.
Zombie == {"ok", "fail"}

TableTypeOK ==
    /\ table \in [Procs -> {"free", "running"} \cup Zombie]
    /\ owner \in [Procs -> Waiters \cup {Pid1}]
    /\ child \in [Waiters -> Procs \cup {None, Gone}]

TableInit ==
    /\ table = [p \in Procs |-> "free"]
    /\ owner = [p \in Procs |-> Pid1]
    /\ child = [w \in Waiters |-> None]

-----------------------------------------------------------------------------

\* cmd.Start by a goroutine that goes on to cmd.Wait.
Spawn(w, p) ==
    /\ table[p] = "free"
    /\ table' = [table EXCEPT ![p] = "running"]
    /\ owner' = [owner EXCEPT ![p] = w]
    /\ child' = [child EXCEPT ![w] = p]

\* cmd.Start with no Wait to follow: only Wait4(-1) will ever collect it.
SpawnUnwaited(p) ==
    /\ table[p] = "free"
    /\ table' = [table EXCEPT ![p] = "running"]
    /\ owner' = [owner EXCEPT ![p] = Pid1]
    /\ UNCHANGED child

\* A process ends by itself with some status.
Exit(p) ==
    /\ table[p] = "running"
    /\ \E status \in Zombie : table' = [table EXCEPT ![p] = status]
    /\ UNCHANGED <<owner, child>>

\* A process ends and a child it had is re-parented to PID 1.  Bound: one
\* orphan per death.
ExitOrphaning(p) ==
    /\ table[p] = "running"
    /\ \E status \in Zombie, q \in Procs :
        /\ table[q] = "free"
        /\ table' = [table EXCEPT ![p] = status, ![q] = "running"]
        /\ owner' = [owner EXCEPT ![q] = Pid1]
    /\ UNCHANGED child

\* SIGKILL: the process dies with a status that is not success.
Kill(p) ==
    /\ table[p] = "running"
    /\ table' = [table EXCEPT ![p] = "fail"]
    /\ UNCHANGED <<owner, child>>

\* cmd.Wait finds its child dead and collects it.
Collect(w) ==
    /\ child[w] \in Procs
    /\ table[child[w]] \in Zombie
    /\ table' = [table EXCEPT ![child[w]] = "free"]
    /\ owner' = [owner EXCEPT ![child[w]] = Pid1]
    /\ child' = [child EXCEPT ![w] = None]

\* cmd.Wait fails with ECHILD: another wait collected the child first.
CollectNothing(w) ==
    /\ child[w] = Gone
    /\ child' = [child EXCEPT ![w] = None]
    /\ UNCHANGED <<table, owner>>

\* Wait4(-1) collects a dead child, whoever started it.
CollectAny(p) ==
    /\ table[p] \in Zombie
    /\ table' = [table EXCEPT ![p] = "free"]
    /\ owner' = [owner EXCEPT ![p] = Pid1]
    /\ child' = [w \in Waiters |-> IF child[w] = p THEN Gone ELSE child[w]]

-----------------------------------------------------------------------------

Running(w) == {p \in Procs : table[p] = "running" /\ owner[p] = w}

Dead(w) == child[w] = Gone \/ (child[w] \in Procs /\ table[child[w]] \in Zombie)
=============================================================================
