----------------------------- MODULE KoobdProofs -----------------------------
(***************************************************************************)
(* Theorems about Koobd for any set of services and any process table.     *)
(*                                                                         *)
(* The argument rests on one fact, Tracked: a process of a waiter that is  *)
(* not yet collected is the one that waiter is waiting for.  It is what a  *)
(* reaper in the same program puts at risk, so it is stated together with  *)
(* where each goroutine is (InWait) and shown to be inductive.             *)
(***************************************************************************)
EXTENDS Koobd, FiniteSetTheorems, TLAPS

\* A process that has an owner among the waiters is that owner's child, and
\* a waiter's child is an uncollected process of its own.
Tracked ==
    /\ \A p \in Procs : \A w \in Waiters :
        table[p] # "free" /\ owner[p] = w => child[w] = p
    /\ \A w \in Waiters :
        child[w] \in Procs => table[child[w]] # "free" /\ owner[child[w]] = w

\* A waiter has a child, collected by another wait or not, exactly when its
\* goroutine is in cmd.Wait.
InWait ==
    /\ \A s \in Services : child[s] # None <=> pc[s] = "wait"
    /\ child[Main] # None <=> main \in {"ip_wait", "shell_wait"}

\* A supervisor past waitForTrigger has seen its trigger file.
Triggering ==
    /\ trigger \subseteq armed
    /\ \A s \in Triggered :
        pc[s] \in {"loop", "start", "wait", "backoff"} \/ why[s] = "exit_status"
            => s \in armed

IInv == TypeOK /\ Tracked /\ InWait /\ Triggering

-----------------------------------------------------------------------------
(* What each operation of the process table preserves.                     *)

\* The waiters are those of the model; their children are slots or markers.
LEMMA WaiterFacts ==
    /\ Main \in Waiters
    /\ Services \subseteq Waiters
    /\ Pid1 \notin Waiters
    /\ Main \notin Services
    /\ None \notin Procs /\ Gone \notin Procs /\ None # Gone
BY ProcessTableAssumption DEF Waiters

TableInv == TableTypeOK /\ Tracked

\* A waiter without a child may start one.
LEMMA SpawnTracked ==
    ASSUME TableInv, NEW w \in Waiters, NEW p \in Procs, child[w] = None, Spawn(w, p)
    PROVE  TableInv' /\ child' = [child EXCEPT ![w] = p]
BY WaiterFacts DEF TableInv, TableTypeOK, Tracked, Spawn

\* A child nobody waits for is no waiter's.
LEMMA SpawnUnwaitedTracked ==
    ASSUME TableInv, NEW p \in Procs, SpawnUnwaited(p)
    PROVE  TableInv' /\ child' = child
BY WaiterFacts DEF TableInv, TableTypeOK, Tracked, SpawnUnwaited

\* Ends of processes, with or without an orphan, change no child.
LEMMA ExitTracked ==
    ASSUME TableInv, NEW p \in Procs, Exit(p) \/ ExitOrphaning(p) \/ Kill(p)
    PROVE  TableInv' /\ child' = child
<1>1. CASE Exit(p)
  BY <1>1, WaiterFacts DEF TableInv, TableTypeOK, Tracked, Exit, Zombie
<1>2. CASE ExitOrphaning(p)
  BY <1>2, WaiterFacts DEF TableInv, TableTypeOK, Tracked, ExitOrphaning, Zombie
<1>3. CASE Kill(p)
  BY <1>3, WaiterFacts DEF TableInv, TableTypeOK, Tracked, Kill, Zombie
<1> QED BY <1>1, <1>2, <1>3

\* cmd.Wait leaves its caller without a child, however it ends.
LEMMA CollectTracked ==
    ASSUME TableInv, NEW w \in Waiters, Collect(w) \/ CollectNothing(w)
    PROVE  TableInv' /\ child' = [child EXCEPT ![w] = None] /\ child[w] # None
<1>1. CASE Collect(w)
  BY <1>1, WaiterFacts DEF TableInv, TableTypeOK, Tracked, Collect, Zombie
<1>2. CASE CollectNothing(w)
  BY <1>2, WaiterFacts DEF TableInv, TableTypeOK, Tracked, CollectNothing
<1> QED BY <1>1, <1>2

\* The reaper never makes a waiter's child None: cmd.Wait is still to return.
LEMMA ReapTracked ==
    ASSUME TableInv, NEW p \in Procs, CollectAny(p)
    PROVE  TableInv' /\ \A w \in Waiters : child'[w] = None <=> child[w] = None
BY WaiterFacts DEF TableInv, TableTypeOK, Tracked, CollectAny, Zombie

-----------------------------------------------------------------------------

LEMMA InitInv == Init => IInv
BY WaiterFacts, SupervisorAssumption
DEF Init, TableInit, SupervisorInit, IInv, TypeOK, TableTypeOK, SupervisorTypeOK,
    Tracked, InWait, Triggering, Reasons, Zombie

\* One step of a supervisor's goroutine.
LEMMA RunStepInv ==
    ASSUME IInv, NEW s \in Services, ServiceStep(s)
    PROVE  IInv'
<1> USE WaiterFacts, SupervisorAssumption
<1>0. TableInv /\ UNCHANGED <<main, reaper, armed>> /\ s \in Waiters
  BY DEF IInv, TypeOK, TableInv, ServiceStep
<1> USE DEF IInv, TypeOK, SupervisorTypeOK, InWait, Triggering, TableInv
<1>1. CASE TriggerTick(s)
  BY <1>0, <1>1 DEF TriggerTick, Go, tableVars, TableTypeOK, Tracked
<1>2. CASE SelectDone(s)
  BY <1>0, <1>2 DEF SelectDone, Return, Reasons, tableVars, TableTypeOK, Tracked
<1>3. CASE EnterRunOnce(s)
  BY <1>0, <1>3 DEF EnterRunOnce, Go, tableVars, TableTypeOK, Tracked
<1>4. CASE StartFails(s)
  BY <1>0, <1>4 DEF StartFails, Return, Reasons, tableVars, TableTypeOK, Tracked
<1>5. CASE StartChild(s)
  <2>1. PICK p \in Procs : Spawn(s, p)
    BY <1>5 DEF StartChild
  <2>2. child[s] = None
    BY <1>5 DEF StartChild, Go, TableTypeOK
  <2>3. TableInv' /\ child' = [child EXCEPT ![s] = p]
    BY <1>0, <2>1, <2>2, SpawnTracked
  <2> QED
    BY <1>0, <1>5, <2>3 DEF StartChild, Go, TableTypeOK
<1>6. CASE KillOnCancel(s)
  <2>1. TableInv' /\ child' = child
    BY <1>0, <1>6, ExitTracked DEF KillOnCancel
  <2> QED
    BY <1>0, <1>6, <2>1 DEF KillOnCancel, supervisorVars
<1>7. CASE WaitSucceeds(s)
  <2>1. TableInv' /\ child' = [child EXCEPT ![s] = None]
    BY <1>0, <1>7, CollectTracked DEF WaitSucceeds
  <2> QED
    BY <1>0, <1>7, <2>1 DEF WaitSucceeds, Go, TableTypeOK
<1>8. CASE WaitExitError(s)
  <2>1. TableInv' /\ child' = [child EXCEPT ![s] = None]
    BY <1>0, <1>8, CollectTracked DEF WaitExitError
  <2> QED
    BY <1>0, <1>8, <2>1 DEF WaitExitError, Return, Reasons, TableTypeOK
<1>9. CASE WaitNoChild(s)
  <2>1. TableInv' /\ child' = [child EXCEPT ![s] = None]
    BY <1>0, <1>9, CollectTracked DEF WaitNoChild
  <2> QED
    BY <1>0, <1>9, <2>1 DEF WaitNoChild, Return, Reasons, TableTypeOK
<1>10. CASE BackoffElapses(s)
  BY <1>0, <1>10 DEF BackoffElapses, Go, tableVars, TableTypeOK, Tracked
<1> QED
  BY <1>1, <1>2, <1>3, <1>4, <1>5, <1>6, <1>7, <1>8, <1>9, <1>10
  DEF ServiceStep, RunStep

\* One step of the main goroutine.
LEMMA MainStepInv ==
    ASSUME IInv, MainStep
    PROVE  IInv'
<1> USE WaiterFacts, SupervisorAssumption
<1>0. TableInv
  BY DEF IInv, TypeOK, TableInv
<1> USE DEF IInv, TypeOK, SupervisorTypeOK, InWait, Triggering, TableInv,
            MainGo, supervisorVars
\* Start of a command main waits for.
<1>1. ASSUME NEW from, NEW to, MainGo(from, to), from \in {"ip", "shell"},
             to \in {"ip_wait", "shell_wait"}, NEW p \in Procs, Spawn(Main, p)
      PROVE  IInv'
  <2>1. child[Main] = None
    BY <1>1 DEF TableTypeOK
  <2>2. TableInv' /\ child' = [child EXCEPT ![Main] = p]
    BY <1>0, <1>1, <2>1, SpawnTracked
  <2> QED
    BY <1>1, <2>2 DEF TableTypeOK
\* Return of a command main waited for.
<1>2. ASSUME NEW from, NEW to, MainGo(from, to), from \in {"ip_wait", "shell_wait"},
             to \in {"dhcp", "sealed"}, Collect(Main) \/ CollectNothing(Main)
      PROVE  IInv'
  <2>1. TableInv' /\ child' = [child EXCEPT ![Main] = None]
    BY <1>0, <1>2, CollectTracked
  <2> QED
    BY <1>2, <2>1 DEF TableTypeOK
\* A step of main that leaves its own child alone.
<1>3. ASSUME NEW from, NEW to, MainGo(from, to),
             from \in {"ip", "dhcp", "services", "shell"},
             to \in {"dhcp", "services", "shell", "sealed"},
             TableInv', child' = child
      PROVE  IInv'
  BY <1>3 DEF TableTypeOK
<1>4. UNCHANGED tableVars => TableInv' /\ child' = child
  BY <1>0 DEF tableVars, TableTypeOK, Tracked
<1>5. CASE RunIp
  BY <1>1, <1>3, <1>4, <1>5 DEF RunIp
<1>6. CASE IpReturns
  BY <1>2, <1>6 DEF IpReturns
<1>7. CASE StartDhclient
  BY <1>0, <1>3, <1>4, <1>7, SpawnUnwaitedTracked DEF StartDhclient
<1>8. ASSUME NEW s \in Services, LaunchService(s)
      PROVE  IInv'
  BY <1>4, <1>8 DEF LaunchService, Go, FirstPlace
<1>9. CASE ServicesLaunched
  BY <1>3, <1>4, <1>9 DEF ServicesLaunched
<1>10. CASE StartShell
  BY <1>1, <1>3, <1>4, <1>10 DEF StartShell
<1>11. CASE ShellReturns
  BY <1>2, <1>11 DEF ShellReturns
<1> QED
  BY <1>5, <1>6, <1>7, <1>8, <1>9, <1>10, <1>11 DEF MainStep

\* One step of the reaper or of the environment.
LEMMA OtherStepInv ==
    ASSUME IInv,
           \/ ReapNothing \/ ReaperWakes
           \/ \E p \in Procs : Reap(p) \/ ProcessExits(p)
           \/ \E s \in Services : CancelService(s) \/ WriteTrigger(s) \/ DeleteTrigger(s)
    PROVE  IInv'
<1> USE WaiterFacts, SupervisorAssumption
<1>0. TableInv
  BY DEF IInv, TypeOK, TableInv
<1> USE DEF IInv, TypeOK, SupervisorTypeOK, InWait, Triggering, TableInv, supervisorVars
<1>1. UNCHANGED tableVars => TableInv' /\ child' = child
  BY <1>0 DEF tableVars, TableTypeOK, Tracked
<1>2. CASE ReapNothing \/ ReaperWakes
  BY <1>1, <1>2 DEF ReapNothing, ReaperWakes
<1>3. ASSUME NEW p \in Procs, Reap(p)
      PROVE  IInv'
  <2>1. TableInv' /\ \A w \in Waiters : child'[w] = None <=> child[w] = None
    BY <1>0, <1>3, ReapTracked DEF Reap
  <2> QED
    BY <1>3, <2>1 DEF Reap
<1>4. ASSUME NEW p \in Procs, ProcessExits(p)
      PROVE  IInv'
  <2>1. TableInv' /\ child' = child
    BY <1>0, <1>4, ExitTracked DEF ProcessExits
  <2> QED
    BY <1>4, <2>1 DEF ProcessExits
<1>5. ASSUME NEW s \in Services, CancelService(s)
      PROVE  IInv'
  BY <1>1, <1>5 DEF CancelService, Cancel
<1>6. ASSUME NEW s \in Services, WriteTrigger(s)
      PROVE  IInv'
  BY <1>1, <1>6 DEF WriteTrigger
<1>7. ASSUME NEW s \in Services, DeleteTrigger(s)
      PROVE  IInv'
  BY <1>1, <1>7 DEF DeleteTrigger
<1> QED
  BY <1>2, <1>3, <1>4, <1>5, <1>6, <1>7

LEMMA StutterInv == IInv /\ UNCHANGED vars => IInv'
BY DEF IInv, TypeOK, TableTypeOK, SupervisorTypeOK, Tracked, InWait, Triggering,
       vars, tableVars, supervisorVars

LEMMA StepInv == IInv /\ [Next]_vars => IInv'
BY RunStepInv, MainStepInv, OtherStepInv, StutterInv DEF Next

\* IInv holds of every reachable state.
THEOREM Invariance == Spec => []IInv
BY InitInv, StepInv, PTL DEF Spec

-----------------------------------------------------------------------------

\* Every variable keeps its type.
THEOREM TypeCorrect == Spec => []TypeOK
<1>1. IInv => TypeOK
  BY DEF IInv
<1> QED
  BY <1>1, Invariance, PTL

\* A live process of a service is the one its goroutine waits for.
LEMMA RunningIsChild ==
    ASSUME IInv, NEW w \in Waiters
    PROVE  Running(w) \subseteq {child[w]}
BY DEF IInv, Tracked, Running

\* At most one live process per service, for any number of services and any
\* size of the process table.
THEOREM AtMostOneInstance == Spec => []OneInstance
<1>1. ASSUME IInv, NEW s \in Services
      PROVE  Cardinality(Running(s)) <= 1
  <2>1. Running(s) \subseteq {child[s]}
    BY <1>1, RunningIsChild, WaiterFacts
  <2>2. IsFiniteSet({child[s]}) /\ Cardinality({child[s]}) = 1
    BY FS_Singleton
  <2>3. IsFiniteSet(Running(s)) /\ Cardinality(Running(s)) <= Cardinality({child[s]})
    BY <2>1, <2>2, FS_Subset
  <2> QED
    BY <2>2, <2>3
<1>2. IInv => OneInstance
  BY <1>1 DEF OneInstance
<1> QED
  BY <1>2, Invariance, PTL

\* When Run has returned, for whatever reason, nothing it started is alive.
THEOREM NothingLeftBehind == Spec => []NoneLeftBehind
<1>1. ASSUME IInv, NEW s \in Services, pc[s] = "returned"
      PROVE  Running(s) = {}
  <2>1. child[s] = None /\ s \in Waiters
    BY <1>1, WaiterFacts DEF IInv, InWait
  <2> QED
    BY <1>1, <2>1, WaiterFacts DEF IInv, Tracked, Running
<1>2. IInv => NoneLeftBehind
  BY <1>1 DEF NoneLeftBehind
<1> QED
  BY <1>2, Invariance, PTL

\* The log line that says the console is sealed is true.
THEOREM ShellIsSealed == Spec => []SealedMeansNoShell
<1>1. ASSUME IInv, main = "sealed"
      PROVE  Running(Main) = {}
  <2>1. child[Main] = None
    BY <1>1 DEF IInv, InWait
  <2> QED
    BY <1>1, <2>1, WaiterFacts DEF IInv, Tracked, Running
<1>2. IInv => SealedMeansNoShell
  BY <1>1 DEF SealedMeansNoShell
<1> QED
  BY <1>2, Invariance, PTL

\* No process of a reactive service runs before its trigger file was written.
THEOREM TriggerFirst == Spec => []NotBeforeTrigger
<1>1. ASSUME IInv, NEW s \in Triggered, Running(s) # {} \/ why[s] = "exit_status"
      PROVE  s \in armed
  <2>1. s \in Services /\ s \in Waiters
    BY SupervisorAssumption, WaiterFacts
  <2>2. CASE Running(s) # {}
    <3>1. PICK p \in Procs : table[p] = "running" /\ owner[p] = s
      BY <2>2 DEF Running
    <3>2. child[s] = p
      BY <1>1, <2>1, <3>1 DEF IInv, Tracked
    <3>3. pc[s] = "wait"
      BY <1>1, <2>1, <3>2, WaiterFacts DEF IInv, InWait
    <3> QED
      BY <1>1, <3>3 DEF IInv, Triggering
  <2>3. CASE why[s] = "exit_status"
    BY <1>1, <2>3 DEF IInv, Triggering
  <2> QED
    BY <1>1, <2>2, <2>3
<1>2. IInv => NotBeforeTrigger
  BY <1>1 DEF NotBeforeTrigger
<1> QED
  BY <1>2, Invariance, PTL
-----------------------------------------------------------------------------
(* Koobd implements ServiceKeeper (its safety part).                       *)

Phases == [s \in Services |-> Phase(s)]

\* The moves ServiceKeeper allows one service.
Moves == {<<"held", "down">>, <<"down", "up">>, <<"up", "dead">>, <<"dead", "down">>,
          <<"held", "abandoned">>, <<"down", "abandoned">>, <<"dead", "abandoned">>}

\* A step that moves one service, or none, is a step of ServiceKeeper.
LEMMA OneMove ==
    ASSUME NEW s \in Services,
           \A t \in Services : t # s => Phase(t)' = Phase(t),
           Phase(s)' = Phase(s) \/ <<Phase(s), Phase(s)'>> \in Moves
    PROVE  [Keeper!Next]_Phases
<1>1. CASE Phase(s)' = Phase(s)
  BY <1>1 DEF Phases
<1>2. CASE <<Phase(s), Phase(s)'>> \in Moves
  <2>1. Phases' = [Phases EXCEPT ![s] = Phase(s)'] /\ Phases[s] = Phase(s)
    BY DEF Phases
  <2> QED
    BY <1>2, <2>1 DEF Moves, Phases, Keeper!Next, Keeper!Move, Keeper!Release,
       Keeper!BringUp, Keeper!Die, Keeper!Notice, Keeper!GiveUp
<1> QED BY <1>1, <1>2

\* A step that moves no service is a stutter of ServiceKeeper.
LEMMA NoMove ==
    ASSUME \A t \in Services : Phase(t)' = Phase(t)
    PROVE  [Keeper!Next]_Phases
BY DEF Phases

\* Two services never wait for the same process.
LEMMA ChildrenDiffer ==
    ASSUME IInv, NEW s \in Waiters, NEW t \in Waiters, s # t, child[s] \in Procs
    PROVE  child[t] # child[s]
BY DEF IInv, Tracked

\* What a service's phase depends on.
LEMMA SamePhase ==
    ASSUME NEW t \in Services, pc'[t] = pc[t], child'[t] = child[t],
           child[t] \in Procs => table'[child[t]] = table[child[t]]
    PROVE  Phase(t)' = Phase(t)
<1>1. Dead(t)' <=> Dead(t)
  BY DEF Dead
<1> QED
  BY <1>1 DEF Phase

LEMMA InitPhases == Init => Keeper!Init
BY DEF Init, SupervisorInit, Phase, Keeper!Init

\* One step of a supervisor moves at most its own service.
LEMMA RunStepKeeps ==
    ASSUME IInv, NEW s \in Services, ServiceStep(s)
    PROVE  [Keeper!Next]_Phases
<1> USE WaiterFacts
<1> DEFINE Others == \A t \in Services : t # s => Phase(t)' = Phase(t)
<1>0. s \in Waiters /\ TableTypeOK /\ pc \in [Services -> {"new", "trigger", "loop",
         "start", "wait", "backoff", "returned"}]
  BY DEF IInv, TypeOK, SupervisorTypeOK
\* A step with the process table untouched.
<1>1. ASSUME UNCHANGED tableVars, NEW to, pc' = [pc EXCEPT ![s] = to]
      PROVE  Others
  <2>1. ASSUME NEW t \in Services, t # s
        PROVE  pc'[t] = pc[t] /\ child'[t] = child[t] /\ table' = table
    BY <1>0, <1>1, <2>1 DEF tableVars
  <2> QED
    BY <2>1, SamePhase
\* The end of cmd.Wait.
<1>2. ASSUME Collect(s) \/ CollectNothing(s), NEW to, pc' = [pc EXCEPT ![s] = to],
             to \in {"backoff", "returned"}, pc[s] = "wait",
             to = "backoff" => Dead(s)
      PROVE  [Keeper!Next]_Phases
  <2>1. ASSUME NEW t \in Services, t # s
        PROVE  Phase(t)' = Phase(t)
    <3>1. pc'[t] = pc[t] /\ child'[t] = child[t]
      BY <1>0, <1>2, <2>1 DEF Collect, CollectNothing, TableTypeOK
    <3>2. child[s] \in Procs => child[t] # child[s]
      BY <1>0, <2>1, ChildrenDiffer
    <3>3. child[t] \in Procs => table'[child[t]] = table[child[t]]
      BY <1>0, <1>2, <3>2 DEF Collect, CollectNothing, TableTypeOK
    <3> QED
      BY <3>1, <3>3, SamePhase
  <2>2. Dead(s)
    BY <1>2 DEF Collect, CollectNothing, Dead
  <2>3. Phase(s) = "dead"
    BY <1>2, <2>2 DEF Phase
  <2>4. Phase(s)' \in {"down", "abandoned"}
    BY <1>0, <1>2 DEF Phase
  <2> QED
    BY <2>1, <2>3, <2>4, OneMove DEF Moves
<1>3. CASE TriggerTick(s)
  <2>1. Phase(s) = "held" /\ Phase(s)' = "down"
    BY <1>0, <1>3 DEF TriggerTick, Go, Phase
  <2> QED
    BY <1>1, <1>3, <2>1, OneMove DEF TriggerTick, Go, Moves
<1>4. CASE SelectDone(s)
  <2>1. Phase(s) \in {"held", "down"} /\ Phase(s)' = "abandoned"
    BY <1>0, <1>4 DEF SelectDone, Return, Phase
  <2> QED
    BY <1>1, <1>4, <2>1, OneMove DEF SelectDone, Return, Moves
<1>5. CASE EnterRunOnce(s)
  <2>1. Phase(s) = "down" /\ Phase(s)' = "down"
    BY <1>0, <1>5 DEF EnterRunOnce, Go, Phase
  <2> QED
    BY <1>1, <1>5, <2>1, OneMove DEF EnterRunOnce, Go
<1>6. CASE StartFails(s)
  <2>1. Phase(s) = "down" /\ Phase(s)' = "abandoned"
    BY <1>0, <1>6 DEF StartFails, Return, Phase
  <2> QED
    BY <1>1, <1>6, <2>1, OneMove DEF StartFails, Return, Moves
<1>7. CASE StartChild(s)
  <2>1. PICK p \in Procs : Spawn(s, p)
    BY <1>7 DEF StartChild
  <2>2. ASSUME NEW t \in Services, t # s
        PROVE  Phase(t)' = Phase(t)
    <3>1. pc'[t] = pc[t] /\ child'[t] = child[t]
      BY <1>0, <1>7, <2>1, <2>2 DEF StartChild, Go, Spawn, TableTypeOK
    <3>2. child[t] \in Procs => table[child[t]] # "free" /\ table[p] = "free"
      BY <2>1 DEF IInv, Tracked, Spawn
    <3>3. child[t] \in Procs => table'[child[t]] = table[child[t]]
      BY <1>0, <2>1, <3>2 DEF Spawn, TableTypeOK
    <3> QED
      BY <3>1, <3>3, SamePhase
  <2>3. Phase(s) = "down"
    BY <1>7 DEF StartChild, Go, Phase
  <2>4. child'[s] = p /\ table'[p] = "running" /\ pc'[s] = "wait"
    BY <1>0, <1>7, <2>1 DEF StartChild, Go, Spawn, TableTypeOK
  <2>5. ~Dead(s)'
    BY <2>4 DEF Dead, Zombie
  <2>6. Phase(s)' = "up"
    BY <2>4, <2>5 DEF Phase
  <2> QED
    BY <2>2, <2>3, <2>6, OneMove DEF Moves
<1>8. CASE KillOnCancel(s)
  <2>1. ASSUME NEW t \in Services, t # s
        PROVE  Phase(t)' = Phase(t)
    <3>1. pc'[t] = pc[t] /\ child'[t] = child[t]
      BY <1>8 DEF KillOnCancel, Kill, supervisorVars
    <3>2. child[t] # child[s]
      BY <1>0, <1>8, <2>1, ChildrenDiffer DEF KillOnCancel
    <3>3. child[t] \in Procs => table'[child[t]] = table[child[t]]
      BY <1>0, <1>8, <3>2 DEF KillOnCancel, Kill, TableTypeOK
    <3> QED
      BY <3>1, <3>3, SamePhase
  <2>2. ~Dead(s) /\ pc[s] = "wait"
    BY <1>8 DEF KillOnCancel, Kill, Dead, Zombie
  <2>3. Dead(s)' /\ pc'[s] = "wait"
    BY <1>0, <1>8 DEF KillOnCancel, Kill, Dead, Zombie, TableTypeOK, supervisorVars
  <2>4. Phase(s) = "up" /\ Phase(s)' = "dead"
    BY <2>2, <2>3 DEF Phase
  <2> QED
    BY <2>1, <2>4, OneMove DEF Moves
<1>9. CASE WaitSucceeds(s)
  BY <1>2, <1>9 DEF WaitSucceeds, Go, Dead, Zombie
<1>10. CASE WaitExitError(s)
  BY <1>2, <1>10 DEF WaitExitError, Return
<1>11. CASE WaitNoChild(s)
  BY <1>2, <1>11 DEF WaitNoChild, Return
<1>12. CASE BackoffElapses(s)
  <2>1. Phase(s) = "down" /\ Phase(s)' = "down"
    BY <1>0, <1>12 DEF BackoffElapses, Go, Phase
  <2> QED
    BY <1>1, <1>12, <2>1, OneMove DEF BackoffElapses, Go
<1> QED
  BY <1>3, <1>4, <1>5, <1>6, <1>7, <1>8, <1>9, <1>10, <1>11, <1>12
  DEF ServiceStep, RunStep

\* A process that ends takes at most the service that waits for it down.
LEMMA ExitKeeps ==
    ASSUME IInv, NEW p \in Procs, ProcessExits(p)
    PROVE  [Keeper!Next]_Phases
<1> USE WaiterFacts
<1>0. TableTypeOK /\ UNCHANGED <<pc, child>> /\ table[p] = "running"
  BY DEF IInv, TypeOK, ProcessExits, Exit, ExitOrphaning, supervisorVars
<1>1. table'[p] \in Zombie
  BY <1>0 DEF ProcessExits, Exit, ExitOrphaning, TableTypeOK
<1>2. \A q \in Procs : q # p /\ table[q] # "free" => table'[q] = table[q]
  BY <1>0 DEF ProcessExits, Exit, ExitOrphaning, TableTypeOK
<1>3. ASSUME NEW t \in Services, child[t] # p
      PROVE  Phase(t)' = Phase(t)
  <2>1. child[t] \in Procs => table'[child[t]] = table[child[t]]
    BY <1>2, <1>3 DEF IInv, Tracked
  <2> QED
    BY <1>0, <2>1, SamePhase
<1>4. CASE \E s \in Services : child[s] = p
  <2>1. PICK s \in Services : child[s] = p
    BY <1>4
  <2>2. pc[s] = "wait"
    BY <2>1 DEF IInv, InWait
  <2>3. ~Dead(s) /\ Dead(s)'
    BY <1>0, <1>1, <2>1 DEF Dead, Zombie
  <2>4. Phase(s) = "up" /\ Phase(s)' = "dead"
    BY <1>0, <2>2, <2>3 DEF Phase
  <2>5. \A t \in Services : t # s => child[t] # p
    BY <2>1, ChildrenDiffer
  <2> QED
    BY <1>3, <2>4, <2>5, OneMove DEF Moves
<1>5. CASE \A s \in Services : child[s] # p
  BY <1>3, <1>5, NoMove
<1> QED BY <1>4, <1>5

\* Reaping is invisible: what the reaper takes was dead already.
LEMMA ReapKeeps ==
    ASSUME IInv, NEW p \in Procs, Reap(p)
    PROVE  [Keeper!Next]_Phases
<1> USE WaiterFacts
<1>0. TableTypeOK /\ pc' = pc /\ CollectAny(p)
  BY DEF IInv, TypeOK, Reap, supervisorVars
<1>1. ASSUME NEW t \in Services
      PROVE  Dead(t)' <=> Dead(t)
  <2>1. CASE child[t] = p
    BY <1>0, <2>1 DEF CollectAny, Dead
  <2>2. CASE child[t] # p
    BY <1>0, <2>2 DEF CollectAny, Dead, TableTypeOK
  <2> QED BY <2>1, <2>2
<1>2. ASSUME NEW t \in Services
      PROVE  Phase(t)' = Phase(t)
  BY <1>0, <1>1, <1>2 DEF Phase
<1> QED BY <1>2, NoMove

\* Main releases the services that have no trigger file; its own child is
\* no service's.
LEMMA MainStepKeeps ==
    ASSUME IInv, MainStep
    PROVE  [Keeper!Next]_Phases
<1> USE WaiterFacts
<1>0. TableTypeOK /\ pc \in [Services -> {"new", "trigger", "loop",
         "start", "wait", "backoff", "returned"}]
  BY DEF IInv, TypeOK, SupervisorTypeOK
<1>1. ASSUME pc' = pc, \A t \in Services : child'[t] = child[t],
             \A t \in Services : child[t] \in Procs => table'[child[t]] = table[child[t]]
      PROVE  [Keeper!Next]_Phases
  BY <1>1, SamePhase, NoMove
<1>2. ASSUME NEW p \in Procs, Spawn(Main, p) \/ SpawnUnwaited(p), pc' = pc
      PROVE  [Keeper!Next]_Phases
  <2>1. \A t \in Services : child'[t] = child[t]
    BY <1>0, <1>2 DEF Spawn, SpawnUnwaited, TableTypeOK
  <2>2. \A t \in Services : child[t] \in Procs => table[child[t]] # "free"
    BY DEF IInv, Tracked
  <2>3. \A t \in Services : child[t] \in Procs => table'[child[t]] = table[child[t]]
    BY <1>0, <1>2, <2>2 DEF Spawn, SpawnUnwaited, TableTypeOK
  <2> QED
    BY <1>1, <1>2, <2>1, <2>3
<1>3. ASSUME Collect(Main) \/ CollectNothing(Main), pc' = pc
      PROVE  [Keeper!Next]_Phases
  <2>1. \A t \in Services : child'[t] = child[t]
    BY <1>0, <1>3 DEF Collect, CollectNothing, TableTypeOK
  <2>2. \A t \in Services : child[Main] \in Procs => child[t] # child[Main]
    BY ChildrenDiffer
  <2>3. \A t \in Services : child[t] \in Procs => table'[child[t]] = table[child[t]]
    BY <1>0, <1>3, <2>2 DEF Collect, CollectNothing, TableTypeOK
  <2> QED
    BY <1>1, <1>3, <2>1, <2>3
<1>4. ASSUME UNCHANGED tableVars, pc' = pc
      PROVE  [Keeper!Next]_Phases
  BY <1>1, <1>4 DEF tableVars
<1>5. ASSUME NEW s \in Services, LaunchService(s)
      PROVE  [Keeper!Next]_Phases
  <2>1. Phase(s) = "held" /\ Phase(s)' \in {"held", "down"}
    BY <1>0, <1>5 DEF LaunchService, Go, FirstPlace, Phase
  <2>2. ASSUME NEW t \in Services, t # s
        PROVE  Phase(t)' = Phase(t)
    <3>1. pc'[t] = pc[t] /\ child'[t] = child[t] /\ table' = table
      BY <1>0, <1>5, <2>2 DEF LaunchService, Go, tableVars
    <3> QED
      BY <3>1, SamePhase
  <2> QED
    BY <2>1, <2>2, OneMove DEF Moves
<1> QED
  BY <1>2, <1>3, <1>4, <1>5 DEF MainStep, RunIp, IpReturns, StartDhclient,
     ServicesLaunched, StartShell, ShellReturns, MainGo, supervisorVars

LEMMA StepKeeps == IInv /\ [Next]_vars => [Keeper!Next]_Phases
<1> SUFFICES ASSUME IInv, [Next]_vars
             PROVE  [Keeper!Next]_Phases
  OBVIOUS
<1>1. ASSUME UNCHANGED <<tableVars, pc>>
      PROVE  [Keeper!Next]_Phases
  BY <1>1, SamePhase, NoMove DEF tableVars
<1>2. CASE MainStep
  BY <1>2, MainStepKeeps
<1>3. ASSUME NEW p \in Procs, Reap(p) \/ ProcessExits(p)
      PROVE  [Keeper!Next]_Phases
  BY <1>3, ReapKeeps, ExitKeeps
<1>4. ASSUME NEW s \in Services, ServiceStep(s)
      PROVE  [Keeper!Next]_Phases
  BY <1>4, RunStepKeeps
<1>5. ASSUME NEW s \in Services, CancelService(s) \/ WriteTrigger(s) \/ DeleteTrigger(s)
      PROVE  [Keeper!Next]_Phases
  BY <1>1, <1>5 DEF CancelService, Cancel, WriteTrigger, DeleteTrigger, supervisorVars
<1>6. CASE ReapNothing \/ ReaperWakes
  BY <1>1, <1>6 DEF ReapNothing, ReaperWakes, supervisorVars
<1>7. CASE UNCHANGED vars
  BY <1>1, <1>7 DEF vars, supervisorVars
<1> QED
  BY <1>2, <1>3, <1>4, <1>5, <1>6, <1>7 DEF Next

\* Each service, whatever the reaper does, goes only through the moves of
\* ServiceKeeper: the safety half of the refinement.
THEOREM KeeperSafety == Spec => Keeper!Spec
<1>1. Init => Keeper!Init
  BY InitPhases
<1>2. IInv /\ [Next]_vars => [Keeper!Next]_Phases
  BY StepKeeps
<1> QED
  BY <1>1, <1>2, Invariance, PTL DEF Spec, Keeper!Spec, Phases
=============================================================================
