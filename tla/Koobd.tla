-------------------------------- MODULE Koobd --------------------------------
(***************************************************************************)
(* koobd, the PID 1 daemon: the main goroutine of run() from the first     *)
(* child it starts, the reaper goroutine, one Supervisor.Run per managed   *)
(* service, the kernel's process table they share, and the environment     *)
(* that ends processes and creates or deletes trigger files.               *)
(*                                                                         *)
(*   main = "ip"          initHardwareNet, before `ip link set lo up`      *)
(*          "ip_wait"     cmd.Run of that command                          *)
(*          "dhcp"        configureDynamicNet, before dhclient             *)
(*          "services"    before startManagedServices                      *)
(*          "shell"       before StartShell                                *)
(*          "shell_wait"  shell.Run                                        *)
(*          "sealed"      StartShell returned: select {} forever           *)
(*                                                                         *)
(* The boot steps of run() that start no process are in NodeBoot.          *)
(***************************************************************************)
EXTENDS Supervisor

VARIABLES
    main,    \* where the main goroutine is
    reaper,  \* reapZombies: "poll" before Wait4, "sleep" in time.Sleep
    armed    \* history: services whose trigger file has existed

vars == <<tableVars, supervisorVars, main, reaper, armed>>

TypeOK ==
    /\ TableTypeOK
    /\ SupervisorTypeOK
    /\ main \in {"ip", "ip_wait", "dhcp", "services", "shell", "shell_wait",
                 "sealed"}
    /\ reaper \in {"poll", "sleep"}
    /\ armed \subseteq Triggered

Init ==
    /\ TableInit
    /\ SupervisorInit
    /\ main = "ip"
    /\ reaper = "poll"
    /\ armed = {}

-----------------------------------------------------------------------------
(* The main goroutine.                                                     *)

MainGo(from, to) ==
    /\ main = from
    /\ main' = to
    /\ UNCHANGED <<supervisorVars, reaper, armed>>

\* exec.Command("ip", "link", "set", "lo", "up").Run(): an error only warns.
RunIp ==
    \/ MainGo("ip", "ip_wait") /\ \E p \in Procs : Spawn(Main, p)
    \/ MainGo("ip", "dhcp") /\ UNCHANGED tableVars

IpReturns ==
    /\ MainGo("ip_wait", "dhcp")
    /\ Collect(Main) \/ CollectNothing(Main)

\* dhclient is started and never waited for; with no interface, or when it
\* cannot be started, the boot goes on without it.
StartDhclient ==
    \/ MainGo("dhcp", "services") /\ \E p \in Procs : SpawnUnwaited(p)
    \/ MainGo("dhcp", "services") /\ UNCHANGED tableVars

\* startManagedServices: `go runService(s)` for one service after the other.
LaunchService(s) ==
    /\ main = "services"
    /\ Go(s, "new", FirstPlace(s))
    /\ UNCHANGED <<tableVars, main, reaper, armed>>

ServicesLaunched ==
    /\ \A s \in Services : pc[s] # "new"
    /\ MainGo("services", "shell")
    /\ UNCHANGED tableVars

\* Mutant: shell.Start in place of shell.Run.
StartShell_NoWait ==
    \/ MainGo("shell", "sealed") /\ \E p \in Procs : Spawn(Main, p)
    \/ MainGo("shell", "sealed") /\ UNCHANGED tableVars

\* shell.Run starts the shell and waits; if it cannot start it, StartShell
\* logs that and returns.
StartShell ==
    \/ MainGo("shell", "shell_wait") /\ \E p \in Procs : Spawn(Main, p)
    \/ MainGo("shell", "sealed") /\ UNCHANGED tableVars

\* The shell exited, with any status or none: the console is sealed.
ShellReturns ==
    /\ MainGo("shell_wait", "sealed")
    /\ Collect(Main) \/ CollectNothing(Main)

MainStep ==
    \/ RunIp \/ IpReturns \/ StartDhclient
    \/ \E s \in Services : LaunchService(s)
    \/ ServicesLaunched \/ StartShell \/ ShellReturns

-----------------------------------------------------------------------------
(* The reaper goroutine.                                                   *)

\* Wait4(-1, WNOHANG) returns a pid: it polls again at once.
Reap(p) ==
    /\ reaper = "poll"
    /\ CollectAny(p)
    /\ UNCHANGED <<supervisorVars, main, reaper, armed>>

\* Mutant: with nothing to reap the reaper returns for good.
ReapNothing_Returns ==
    /\ reaper = "poll"
    /\ \A p \in Procs : table[p] \notin Zombie
    /\ reaper' = "returned"
    /\ UNCHANGED <<tableVars, supervisorVars, main, armed>>

\* It returns 0 or ECHILD: no child is dead, or there is no child.
ReapNothing ==
    /\ reaper = "poll"
    /\ \A p \in Procs : table[p] \notin Zombie
    /\ reaper' = "sleep"
    /\ UNCHANGED <<tableVars, supervisorVars, main, armed>>

ReaperWakes ==
    /\ reaper = "sleep"
    /\ reaper' = "poll"
    /\ UNCHANGED <<tableVars, supervisorVars, main, armed>>

-----------------------------------------------------------------------------
(* The environment.                                                        *)

ProcessExits(p) ==
    /\ Exit(p) \/ ExitOrphaning(p)
    /\ UNCHANGED <<supervisorVars, main, reaper, armed>>

\* koobadm, run from the shell, writes the trigger file.
WriteTrigger(s) ==
    /\ main \in {"shell_wait", "sealed"}
    /\ s \in Triggered \ trigger
    /\ trigger' = trigger \cup {s}
    /\ armed' = armed \cup {s}
    /\ UNCHANGED <<tableVars, pc, why, cancelled, main, reaper>>

\* The operator deletes /etc/kubernetes.
DeleteTrigger(s) ==
    /\ s \in trigger
    /\ trigger' = trigger \ {s}
    /\ UNCHANGED <<tableVars, pc, why, cancelled, main, reaper, armed>>

ServiceStep(s) == RunStep(s) /\ UNCHANGED <<main, reaper, armed>>

CancelService(s) == Cancel(s) /\ UNCHANGED <<main, reaper, armed>>

Next ==
    \/ MainStep
    \/ ReapNothing
    \/ ReaperWakes
    \/ \E p \in Procs : Reap(p) \/ ProcessExits(p)
    \/ \E s \in Services :
        ServiceStep(s) \/ CancelService(s) \/ WriteTrigger(s) \/ DeleteTrigger(s)

\* Goroutines are scheduled and timers fire.  Wait4(-1) scans koobd's
\* children oldest first, so no zombie is passed over for ever: fairness of
\* Reap is per process.  `ip link set` ends by itself; no other process, no
\* operator and no canceller is fair.
Fairness ==
    /\ WF_vars(MainStep)
    /\ WF_vars(ReapNothing)
    /\ WF_vars(ReaperWakes)
    /\ \A p \in Procs : WF_vars(Reap(p))
    /\ \A p \in Procs : WF_vars(main = "ip_wait" /\ child[Main] = p /\ ProcessExits(p))
    /\ \A s \in Services : WF_vars(ServiceStep(s))

Spec == Init /\ [][Next]_vars

FairSpec == Spec /\ Fairness

-----------------------------------------------------------------------------
(* Safety.                                                                 *)

\* A service has at most one live process, whoever collects the dead ones
\* (supervisor.go:84-106 against main.go:68-95): a second kubelet would
\* fight the first for its ports and its state.
OneInstance == \A s \in Services : Cardinality(Running(s)) <= 1

\* When Run has returned, by cancellation, by an error or because the reaper
\* took the child, no process of the service is left alive and unwatched.
NoneLeftBehind == \A s \in Services : pc[s] = "returned" => Running(s) = {}

\* A reactive service has no process before koobadm has written its trigger
\* file at least once (supervisor.go:67-81; supervisor_test.go:103).
NotBeforeTrigger ==
    \A s \in Triggered : (Running(s) # {} \/ why[s] = "exit_status") => s \in armed

\* "SYSTEM SEALED" is true when it is logged: no shell that koobd started is
\* alive, even when shell.Run failed because the reaper collected it.
SealedMeansNoShell == main = "sealed" => Running(Main) = {}

(* Liveness.                                                               *)

\* A dead child of PID 1 does not stay a zombie, whether or not a goroutine
\* waits for it (main.go:52: "must reap zombies to prevent system resource
\* exhaustion").
ZombiesReaped == \A p \in Procs : table[p] \in Zombie ~> table[p] = "free"

\* The goroutine that waits for a dead child learns of it: a reaper that gets
\* there first never leaves cmd.Wait blocked.
DeathNoticed == \A s \in Services : (pc[s] = "wait" /\ Dead(s)) ~> pc[s] # "wait"

\* Cancelling the context ends Run, with its child killed and collected.
CancelEndsRun ==
    \A s \in Cancellable : (s \in cancelled /\ pc[s] # "new") ~> pc[s] = "returned"

-----------------------------------------------------------------------------
(* Refinement: each service is kept the way ServiceKeeper says.            *)

Phase(s) ==
    CASE pc[s] \in {"new", "trigger"} -> "held"
      [] pc[s] \in {"loop", "start", "backoff"} -> "down"
      [] pc[s] = "wait" /\ ~Dead(s) -> "up"
      [] pc[s] = "wait" /\ Dead(s) -> "dead"
      [] pc[s] = "returned" -> "abandoned"

Keeper == INSTANCE ServiceKeeper WITH phase <- [s \in Services |-> Phase(s)]

\* Every behaviour of koobd, with the reaper, is one the abstract keeper
\* allows, its fairness included.
KeepsServices == Keeper!FairSpec

-----------------------------------------------------------------------------
(* What the comments say.                                                  *)

\* supervisor.go:35-38 names two reasons for Run to return: the process
\* cannot be started initially, or the context is cancelled.
ReturnsOnlyAsDocumented ==
    \A s \in Services :
        pc[s] = "returned" => why[s] = "cannot_start" \/ s \in cancelled
=============================================================================
