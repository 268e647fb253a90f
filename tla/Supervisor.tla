----------------------------- MODULE Supervisor -----------------------------
(***************************************************************************)
(* koobd/internal/supervisor: Supervisor.Run, one goroutine per service.   *)
(*                                                                         *)
(*   pc = "new"       runService has not been started by main              *)
(*        "trigger"   waitForTrigger polls for the trigger file            *)
(*        "loop"      head of Run's for loop, before the select on ctx     *)
(*        "start"     runOnce, before cmd.Start                            *)
(*        "wait"      runOnce, in cmd.Wait                                 *)
(*        "backoff"   the five seconds before the next iteration           *)
(*        "returned"  Run returned an error; runService only logs it       *)
(*                                                                         *)
(* Timers are abstracted to their order: a tick or a backoff may take any  *)
(* time.  koobd passes context.Background(), which is never cancelled; the *)
(* services of Cancellable have a context that may be, as the tests do.    *)
(***************************************************************************)
EXTENDS ProcessTable

CONSTANTS
    Triggered,   \* services with a TriggerFile
    Cancellable  \* services whose context can be cancelled

ASSUME SupervisorAssumption ==
    /\ Triggered \subseteq Services
    /\ Cancellable \subseteq Services

VARIABLES
    pc,         \* where each Run is
    why,        \* the error each Run returned
    trigger,    \* services whose trigger file exists
    cancelled   \* services whose context is done

supervisorVars == <<pc, why, trigger, cancelled>>

Reasons == {"cancelled", "cannot_start", "exit_status", "no_child"}

SupervisorTypeOK ==
    /\ pc \in [Services -> {"new", "trigger", "loop", "start", "wait",
                            "backoff", "returned"}]
    /\ why \in [Services -> Reasons \cup {"none"}]
    /\ trigger \subseteq Triggered
    /\ cancelled \subseteq Cancellable

SupervisorInit ==
    /\ pc = [s \in Services |-> "new"]
    /\ why = [s \in Services |-> "none"]
    /\ trigger = {}
    /\ cancelled = {}

-----------------------------------------------------------------------------

\* Move s from one place of Run to another.
Go(s, from, to) ==
    /\ pc[s] = from
    /\ pc' = [pc EXCEPT ![s] = to]
    /\ UNCHANGED <<why, trigger, cancelled>>

\* Run returns err; nothing calls it again.
Return(s, from, err) ==
    /\ pc[s] = from
    /\ pc' = [pc EXCEPT ![s] = "returned"]
    /\ why' = [why EXCEPT ![s] = err]
    /\ UNCHANGED <<trigger, cancelled>>

\* Mutant: the TriggerFile is not looked at.
FirstPlace_Immediate(s) == "loop"

\* Run enters waitForTrigger, or the loop when there is no TriggerFile.
FirstPlace(s) == IF s \in Triggered THEN "trigger" ELSE "loop"

\* A tick finds the trigger file.
TriggerTick(s) ==
    /\ s \in trigger
    /\ Go(s, "trigger", "loop")
    /\ UNCHANGED tableVars

\* Mutant: Run also selects on ctx while the child runs, and leaves it.
SelectDone_WhileRunning(s) ==
    /\ s \in cancelled
    /\ \E from \in {"trigger", "loop", "wait", "backoff"} : Return(s, from, "cancelled")
    /\ UNCHANGED tableVars

\* The blocking selects: the ticker's and the backoff's.
SelectDone(s) ==
    /\ s \in cancelled
    /\ \E from \in {"trigger", "loop", "backoff"} : Return(s, from, "cancelled")
    /\ UNCHANGED tableVars

\* The select at the head of the loop takes default only if ctx is not done.
EnterRunOnce(s) ==
    /\ s \notin cancelled
    /\ Go(s, "loop", "start")
    /\ UNCHANGED tableVars

\* os.Create of the log file or cmd.Start fails, as it does when the context
\* is done by then or no slot is free.
StartFails(s) ==
    /\ \/ Return(s, "start", "cannot_start")
       \/ s \in cancelled /\ Return(s, "start", "cancelled")
    /\ UNCHANGED tableVars

\* Mutant: runOnce does not wait for what it started.
StartChild_NoWait(s) ==
    /\ s \notin cancelled
    /\ Go(s, "start", "backoff")
    /\ \E p \in Procs : Spawn(s, p)

StartChild(s) ==
    /\ s \notin cancelled
    /\ Go(s, "start", "wait")
    /\ \E p \in Procs : Spawn(s, p)

\* Mutant: exec.Command, which knows no context.
KillOnCancel_Never(s) == FALSE

\* exec.CommandContext kills the child of a context that is done.
KillOnCancel(s) ==
    /\ s \in cancelled
    /\ pc[s] = "wait"
    /\ child[s] \in Procs
    /\ Kill(child[s])
    /\ UNCHANGED supervisorVars

\* cmd.Wait returns nil only for exit status 0.
WaitSucceeds(s) ==
    /\ child[s] \in Procs
    /\ table[child[s]] = "ok"
    /\ Go(s, "wait", "backoff")
    /\ Collect(s)

\* Any other status is an ExitError, which runOnce and Run return.
WaitExitError(s) ==
    /\ child[s] \in Procs
    /\ table[child[s]] = "fail"
    /\ Return(s, "wait", "exit_status")
    /\ Collect(s)

\* Mutant: ECHILD is taken for an interrupted wait, and waited for again.
WaitNoChild_Retry(s) ==
    /\ child[s] = Gone
    /\ Go(s, "wait", "wait")
    /\ UNCHANGED tableVars

\* The reaper was first: ECHILD, whatever the child's exit status was.
WaitNoChild(s) ==
    /\ Return(s, "wait", "no_child")
    /\ CollectNothing(s)

BackoffElapses(s) ==
    /\ Go(s, "backoff", "loop")
    /\ UNCHANGED tableVars

\* Whoever holds the context cancels it.
Cancel(s) ==
    /\ s \in Cancellable \ cancelled
    /\ cancelled' = cancelled \cup {s}
    /\ UNCHANGED <<pc, why, trigger>>
    /\ UNCHANGED tableVars

\* What the goroutine of s does by itself, and what the scheduler owes it.
RunStep(s) ==
    \/ TriggerTick(s)
    \/ SelectDone(s)
    \/ EnterRunOnce(s)
    \/ StartFails(s)
    \/ StartChild(s)
    \/ KillOnCancel(s)
    \/ WaitSucceeds(s)
    \/ WaitExitError(s)
    \/ WaitNoChild(s)
    \/ BackoffElapses(s)
=============================================================================
