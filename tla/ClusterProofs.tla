---------------------------- MODULE ClusterProofs ----------------------------
(***************************************************************************)
(* Theorems about Cluster for any objects, commands, workers and runs.     *)
(* They need, as those of JoinProofs do, that no two workers share a name. *)
(*                                                                         *)
(* A control plane that workers join implements ControlPlane, and every    *)
(* step but the reboot of the control plane is one of Join; the invariants *)
(* of both hold here.  What the two have in common is added: the command   *)
(* that a run works with was shown and is of the control plane that       *)
(* validates its token (Hands), a run past discovery finds its roles bound *)
(* (Bound), a CSR lies in the etcd of the authority on disk (CSROwn), and  *)
(* a key that a run still has to submit was never signed for (Unsigned).   *)
(***************************************************************************)
EXTENDS Cluster, TLAPS

CPP == INSTANCE ControlPlaneProofs

JP == INSTANCE JoinProofs
    WITH pc <- jpc, token <- TokenStatus, CAs <- CP!Attempts, Served <- Bundles, None <- Nil

\* A command was shown while its token was valid and its authority on disk;
\* a run works with the command that its operator has.
Hands ==
    /\ command \in shown \cup {Nil}
    /\ printed \subseteq shown
    /\ \A j \in shown :
        /\ tokens[j.token] # "unused"
        /\ tokens[j.token] = "valid" => j \in printed
    /\ \A w \in Workers : jpc[w] \in JP!Active => command # Nil /\ expected[w] = command.hash

NeedsRoles == {"key", "cleanup", "create", "poll"}

\* A run past discovery, with a token that works, finds its roles bound.
Bound ==
    \A w \in Workers : jpc[w] \in NeedsRoles /\ TokenStatus = "valid" =>
        CPP!Exist(CPP!JoinRBAC)

\* Keys that are still to be made or to be submitted.
Ahead(k) ==
    \/ runs[k[1]] < k[2]
    \/ runs[k[1]] = k[2] /\ jpc[k[1]] \in {"cleanup", "create"}

\* Nobody has signed for these, and they are in no CSR.
Unsigned ==
    \A k \in JP!Keys : Ahead(k) =>
        issuer[k] = Nil /\ \A n \in Names : csr[n] # Nil => csr[n].key # k

\* A CSR is of a worker of its name, and only the authority on disk signs it.
CSROwn ==
    \A n \in Names : csr[n] # Nil =>
        /\ NameOf[csr[n].key[1]] = n
        /\ files # Nil
        /\ issuer[csr[n].key] = IF csr[n].issued THEN files ELSE Nil

\* A certificate, received or embedded, is by the authority in ca.crt.
Certified ==
    \A w \in Workers :
        /\ jpc[w] \in {"cert", "conf"} => issuer[got[w]] = Trusted(w) /\ Trusted(w) # Nil
        /\ Whole(w) => issuer[conf[w].cert] = Trusted(w) /\ Trusted(w) # Nil

OneIssuer ==
    /\ wiped => everWiped
    /\ ~everWiped => Unsigned /\ CSROwn /\ Certified

OwnTypeOK ==
    /\ command \in Commands \cup {Nil}
    /\ issuer \in [JP!Keys -> CP!Attempts \cup {Nil}]
    /\ shown \subseteq Commands
    /\ everWiped \in BOOLEAN

IInv == CPP!IInv /\ JP!IInv /\ OwnTypeOK /\ Hands /\ Bound /\ OneIssuer

-----------------------------------------------------------------------------
(* Each component is the same specification in both of its instances.      *)

LEMMA SameConstants ==
    /\ CP!Plan = CPP!Plan /\ CP!JoinRBAC = CPP!JoinRBAC /\ CP!Objects = CPP!Objects
    /\ CP!Attempts = CPP!Attempts /\ CP!Tokens = CPP!Tokens /\ CP!Nodes = CPP!Nodes
    /\ J!Keys = JP!Keys /\ J!Active = JP!Active
    /\ CPP!ValidObjects /\ JP!ValidNames
<1>1. /\ CP!Plan = CPP!Plan /\ CP!JoinRBAC = CPP!JoinRBAC
      /\ CP!Attempts = CPP!Attempts /\ CP!Tokens = CPP!Tokens /\ CP!Nodes = CPP!Nodes
  BY DEF CP!Plan, CPP!Plan, CP!JoinRBAC, CPP!JoinRBAC, CP!Attempts, CPP!Attempts,
         CP!Tokens, CPP!Tokens, CP!Nodes, CPP!Nodes
<1>2. \A s : CP!Elements(s) = CPP!Elements(s) /\ (CP!Distinct(s) <=> CPP!Distinct(s))
  BY DEF CP!Elements, CPP!Elements, CP!Distinct, CPP!Distinct
<1>3. CP!Objects = CPP!Objects /\ CP!Discovery = CPP!Discovery
  BY <1>2 DEF CP!Objects, CPP!Objects, CP!Discovery, CPP!Discovery
<1>4. CPP!ValidObjects
  BY <1>1, <1>2, <1>3, ClusterAssumption DEF CP!ValidObjects, CPP!ValidObjects
<1>5. J!Keys = JP!Keys /\ J!Active = JP!Active
  BY DEF J!Keys, JP!Keys, J!Active, JP!Active
<1>6. JP!ValidNames
  BY <1>5, ClusterAssumption DEF J!ValidNames, JP!ValidNames
<1> QED
  BY <1>1, <1>3, <1>4, <1>5, <1>6

\* Every action, by the definitions it is made of.
\* Every action, by the definitions it is made of.
LEMMA SameControlPlane ==
    /\ CP!Init <=> CPP!Init
    /\ CP!Next <=> CPP!Next
    /\ CP!vars = CPP!vars
    /\ CP!TypeOK <=> CPP!TypeOK
    /\ CP!Reboot <=> CPP!Reboot
    /\ CP!UpStep <=> CPP!UpStep
    /\ CP!Next <=> CP!UpStep \/ CP!Reboot
<1> USE SameConstants
<1> USE DEF CP!runVars, CPP!runVars, CP!tokenVars, CPP!tokenVars
<1>1. /\ (CP!Init <=> CPP!Init) /\ (CP!TypeOK <=> CPP!TypeOK)
      /\ (CP!vars = CPP!vars)
  BY DEF CP!Init, CPP!Init, CP!TypeOK, CPP!TypeOK, CP!vars, CPP!vars
<1>2. /\ (CP!Answers <=> CPP!Answers) /\ (CP!NextPhase <=> CPP!NextPhase)
  BY DEF CP!Answers, CPP!Answers, CP!NextPhase, CPP!NextPhase
<1>3. /\ (CP!Advance <=> CPP!Advance) /\ (\A o : CP!Ensure(o) <=> CPP!Ensure(o))
  BY <1>2 DEF CP!Advance, CPP!Advance, CP!Ensure, CPP!Ensure
<1>4. /\ (CP!StartInit <=> CPP!StartInit) /\ (CP!CreateObject <=> CPP!CreateObject)
      /\ (CP!CreateFails <=> CPP!CreateFails) /\ (CP!GetNode <=> CPP!GetNode)
  BY <1>2, <1>3 DEF CP!StartInit, CPP!StartInit, CP!CreateObject, CPP!CreateObject, CP!CreateFails,
         CPP!CreateFails, CP!GetNode, CPP!GetNode
<1>5. (\A ok : CP!EndInit(ok) <=> CPP!EndInit(ok)) /\ \A n : CP!Marked(n) = CPP!Marked(n)
  BY DEF CP!EndInit, CPP!EndInit, CP!Marked, CPP!Marked
<1>6. /\ (CP!UpdateNode <=> CPP!UpdateNode) /\ (CP!MarkFails <=> CPP!MarkFails)
  BY <1>2, <1>5 DEF CP!UpdateNode, CPP!UpdateNode, CP!MarkFails, CPP!MarkFails
<1>7. \A t : CP!Fresh(t) <=> CPP!Fresh(t)
  BY DEF CP!Fresh, CPP!Fresh
<1>8. /\ (CP!StartToken <=> CPP!StartToken) /\ (CP!RegisterToken <=> CPP!RegisterToken)
      /\ (CP!RegisterFails <=> CPP!RegisterFails) /\ (CP!PrintToken <=> CPP!PrintToken)
  BY <1>2, <1>7 DEF CP!StartToken, CPP!StartToken, CP!RegisterToken, CPP!RegisterToken,
         CP!RegisterFails, CPP!RegisterFails, CP!PrintToken, CPP!PrintToken
<1>9. /\ (CP!Interrupt <=> CPP!Interrupt) /\ (CP!DeleteEtcKubernetes <=> CPP!DeleteEtcKubernetes)
      /\ (CP!Reboot <=> CPP!Reboot) /\ (CP!TokenExpires <=> CPP!TokenExpires)
  BY DEF CP!Interrupt, CPP!Interrupt, CP!DeleteEtcKubernetes, CPP!DeleteEtcKubernetes,
         CP!Reboot, CPP!Reboot, CP!TokenExpires, CPP!TokenExpires
<1>10. /\ (CP!APIServerStarts <=> CPP!APIServerStarts) /\ (CP!APIServerStops <=> CPP!APIServerStops)
      /\ (CP!KubeletRegisters <=> CPP!KubeletRegisters) /\ (CP!KubeletWrites <=> CPP!KubeletWrites)
  BY DEF CP!APIServerStarts, CPP!APIServerStarts, CP!APIServerStops, CPP!APIServerStops,
         CP!KubeletRegisters, CPP!KubeletRegisters, CP!KubeletWrites, CPP!KubeletWrites
<1>11. CP!KoobadmStep <=> CPP!KoobadmStep
  BY <1>4, <1>6, <1>8 DEF CP!KoobadmStep, CPP!KoobadmStep
<1>12. CP!UpStep <=> CPP!UpStep
  BY <1>9, <1>10, <1>11 DEF CP!UpStep, CPP!UpStep
<1> QED
  BY <1>1, <1>9, <1>12 DEF CP!Next, CPP!Next

LEMMA SameJoin ==
    /\ J!Init <=> JP!Init
    /\ J!TypeOK <=> JP!TypeOK
    /\ J!UniqueNames <=> JP!UniqueNames
    /\ \A w \in Workers :
        /\ J!Step(w) <=> JP!Step(w)
        /\ J!Kill(w) <=> JP!Kill(w)
        /\ J!Reboot(w) <=> JP!Reboot(w)
        /\ \A hash \in CP!Attempts : J!StartWith(w, hash) => JP!Start(w)
    /\ \A n \in Names : (J!Issue(n) <=> JP!Issue(n)) /\ (J!CleanUp(n) <=> JP!CleanUp(n))
<1> USE SameConstants
<1> USE DEF J!disk, JP!disk
<1>1. /\ (J!Init <=> JP!Init) /\ (J!TypeOK <=> JP!TypeOK)
      /\ (J!UniqueNames <=> JP!UniqueNames)
  BY DEF J!Init, JP!Init, J!TypeOK, JP!TypeOK, J!UniqueNames, JP!UniqueNames
<1>2. /\ \A w, a, b : J!Go(w, a, b) <=> JP!Go(w, a, b)
      /\ \A verb : J!Allowed(verb) <=> JP!Allowed(verb)
      /\ \A w : J!MyKey(w) = JP!MyKey(w)
      /\ \A f, w : J!CutShort(f, w) = JP!CutShort(f, w)
  BY DEF J!Go, JP!Go, J!Allowed, JP!Allowed, J!MyKey, JP!MyKey, J!CutShort, JP!CutShort
<1>3. /\ \A w \in Workers : J!ValidateDiscovery(w) <=> JP!ValidateDiscovery(w)
      /\ \A w \in Workers : J!GenerateKey(w) <=> JP!GenerateKey(w)
      /\ \A w \in Workers : J!DeleteExisting(w) <=> JP!DeleteExisting(w)
  BY <1>2 DEF J!ValidateDiscovery, JP!ValidateDiscovery, J!GenerateKey, JP!GenerateKey,
         J!DeleteExisting, JP!DeleteExisting
<1>4. /\ \A w \in Workers : J!CreateCSR(w) <=> JP!CreateCSR(w)
      /\ \A w \in Workers : J!PollSucceeds(w) <=> JP!PollSucceeds(w)
      /\ \A w \in Workers : J!PollTimesOut(w) <=> JP!PollTimesOut(w)
  BY <1>2 DEF J!CreateCSR, JP!CreateCSR, J!PollSucceeds, JP!PollSucceeds, J!PollTimesOut,
         JP!PollTimesOut
<1>5. /\ \A w \in Workers : J!WriteCert(w) <=> JP!WriteCert(w)
      /\ \A w \in Workers : J!WriteConf(w) <=> JP!WriteConf(w)
      /\ \A w \in Workers : J!WriteConfig(w) <=> JP!WriteConfig(w)
  BY <1>2 DEF J!WriteCert, JP!WriteCert, J!WriteConf, JP!WriteConf, J!WriteConfig, JP!WriteConfig
<1>6. \A w \in Workers : J!Step(w) <=> JP!Step(w)
  BY <1>3, <1>4, <1>5 DEF J!Step, JP!Step
<1>7. /\ \A w \in Workers : J!Kill(w) <=> JP!Kill(w)
      /\ \A w \in Workers : J!Reboot(w) <=> JP!Reboot(w)
  BY <1>2 DEF J!Kill, JP!Kill, J!Reboot, JP!Reboot
<1>8. \A w \in Workers : \A hash \in CP!Attempts : J!StartWith(w, hash) => JP!Start(w)
  BY DEF J!StartWith, JP!StartWith, JP!Start
<1>9. \A n \in Names : (J!Issue(n) <=> JP!Issue(n)) /\ (J!CleanUp(n) <=> JP!CleanUp(n))
  BY DEF J!Issue, JP!Issue, J!CleanUp, JP!CleanUp
<1> QED
  BY <1>1, <1>6, <1>7, <1>8, <1>9

-----------------------------------------------------------------------------
(* Every step is one of the control plane and one of Join, or nearly so.   *)

LEMMA ControlPlaneMoves ==
    ASSUME [Next]_vars
    PROVE  [CPP!Next]_(CPP!vars)
<1>1. CASE ControlPlaneStep \/ ControlPlaneReboots
  BY <1>1, SameControlPlane DEF ControlPlaneStep, ControlPlaneReboots
<1>2. CASE TakeCommand \/ Controllers \/ (\E w \in Workers : WorkerStep(w)) \/ UNCHANGED vars
  <2>1. UNCHANGED cpVars
    BY <1>2 DEF TakeCommand, Controllers, WorkerStep, vars
  <2> QED
    BY <2>1 DEF cpVars, CPP!vars, CPP!runVars, CPP!tokenVars
<1> QED
  BY <1>1, <1>2 DEF Next

\* The status of the command's token is one of two.
LEMMA StatusFacts ==
    /\ TokenStatus \in {"valid", "expired"}
    /\ TokenStatus' \in {"valid", "expired"}
BY DEF TokenStatus

\* Joins are moved by their own steps, and a token expires or is another's.
LEMMA JoinMoves ==
    ASSUME Next, ~ControlPlaneReboots, command \in Commands \cup {Nil}
    PROVE  [JP!Next]_(JP!vars)
<1>1. CASE ControlPlaneStep \/ TakeCommand
  <2>1. UNCHANGED joinVars
    BY <1>1 DEF ControlPlaneStep, TakeCommand
  <2>2. TokenStatus' = TokenStatus \/ TokenStatus' = IF TokenStatus = "valid" THEN "expired" ELSE "valid"
    BY StatusFacts
  <2> QED
    BY <2>1, <2>2 DEF joinVars, JP!Next, JP!TokenChanges, JP!vars, JP!disk
<1>2. ASSUME NEW w \in Workers, WorkerStep(w)
      PROVE  JP!Next
  <2>1. CASE command # Nil /\ J!StartWith(w, command.hash)
    <3>1. command.hash \in CP!Attempts
      BY <1>2, <2>1 DEF Commands
    <3>2. JP!Start(w)
      BY <2>1, <3>1, SameJoin
    <3> QED
      BY <3>2 DEF JP!Next
  <2>2. CASE J!Step(w) \/ J!Kill(w) \/ J!Reboot(w)
    BY <2>2, SameJoin DEF JP!Next
  <2> QED
    BY <1>2, <2>1, <2>2 DEF WorkerStep
<1>3. CASE Controllers
  BY <1>3, SameJoin DEF Controllers, JP!Next
<1> QED
  BY <1>1, <1>2, <1>3 DEF Next

-----------------------------------------------------------------------------
(* The invariants of the two components.                                   *)

LEMMA InitInv == Init => IInv
<1> SUFFICES ASSUME Init
             PROVE  IInv
  OBVIOUS
<1>1. CPP!IInv /\ JP!IInv
  BY SameControlPlane, SameJoin, SameConstants, CPP!InitInv, JP!InitInv DEF Init
<1>2. OwnTypeOK
  BY SameConstants DEF Init, OwnTypeOK
<1>3. /\ \A w \in Workers : jpc[w] = "idle" /\ conf[w] = Nil
      /\ \A n \in Names : csr[n] = Nil
      /\ printed = {} /\ ~wiped
  BY DEF Init, J!Init, CP!Init
<1>4. Hands /\ Bound
  BY <1>3 DEF Init, Hands, Bound, NeedsRoles, JP!Active
<1>5. OneIssuer
  BY <1>3, SameConstants DEF Init, OneIssuer, Unsigned, CSROwn, Certified, Whole
<1> QED
  BY <1>1, <1>2, <1>4, <1>5 DEF IInv

\* The reboot of the control plane takes every CSR along: no run is moved.
LEMMA JoinAfterReboot ==
    ASSUME JP!IInv, ControlPlaneReboots
    PROVE  JP!IInv'
<1>1. /\ csr' = [n \in Names |-> Nil]
      /\ UNCHANGED <<jpc, runs, got, expected, ca, keyFile, certFile, conf, config>>
  BY DEF ControlPlaneReboots
<1>2. \A w \in Workers : NameOf[w] \in Names
  BY SameConstants DEF JP!ValidNames
<1>3. JP!TypeOK'
  BY <1>1, StatusFacts DEF JP!IInv, JP!TypeOK
<1>4. JP!PollsOwn'
  BY <1>1, <1>2 DEF JP!PollsOwn
<1> QED
  BY <1>1, <1>3, <1>4
  DEF JP!IInv, JP!GotOwn, JP!NoRunAfterConf, JP!Safe, JP!CertMatchesKey,
      JP!FilesMatchConf, JP!ConfImpliesExpectedCA, JP!MyKey

LEMMA ComponentsStep ==
    ASSUME J!UniqueNames, IInv, [Next]_vars
    PROVE  CPP!IInv' /\ JP!IInv'
<1>1. CPP!IInv'
  BY ControlPlaneMoves, SameConstants, CPP!StepInv DEF IInv
<1>2. CASE ControlPlaneReboots
  BY <1>1, <1>2, JoinAfterReboot DEF IInv
<1>3. CASE ~ControlPlaneReboots
  <2>1. [JP!Next]_(JP!vars)
    <3>1. CASE UNCHANGED vars
      <4>1. UNCHANGED joinVars /\ UNCHANGED <<command, tokens>>
        BY <3>1 DEF vars, cpVars, ownVars
      <4> QED
        BY <4>1 DEF joinVars, JP!vars, JP!disk, TokenStatus
    <3> QED
      BY <1>3, <3>1, JoinMoves DEF IInv, OwnTypeOK
  <2> QED
    BY <1>1, <2>1, SameJoin, SameConstants, JP!StepInv DEF IInv
<1> QED
  BY <1>2, <1>3

-----------------------------------------------------------------------------
(* Types, and the commands that were shown.                                *)

LEMMA ConstantFacts ==
    /\ Nil \notin CP!Attempts /\ Nil \notin CP!Tokens
    /\ NameOf \in [Workers -> Names] /\ MaxRuns \in Nat /\ JP!Keys = Workers \X (1..MaxRuns)
    /\ Nil # Torn /\ Nil \notin JP!Keys /\ Nil \notin [key : JP!Keys, issued : BOOLEAN]
    /\ {Nil, Torn} \cap [cert : JP!Keys, key : JP!Keys] = {}
BY SameConstants DEF CPP!ValidObjects, JP!ValidNames, JP!Keys

LEMMA OwnTypeStep ==
    ASSUME IInv, CPP!IInv', Next
    PROVE  OwnTypeOK'
<1>0. OwnTypeOK
  BY DEF IInv
<1>1. CASE ControlPlaneStep
  <2>1. printed' \subseteq Commands /\ wiped' \in BOOLEAN
    BY SameConstants DEF CPP!IInv, CPP!TypeOK, Commands
  <2> QED
    BY <1>0, <1>1, <2>1 DEF ControlPlaneStep, OwnTypeOK
<1>2. CASE ControlPlaneReboots
  BY <1>0, <1>2 DEF ControlPlaneReboots, ownVars, OwnTypeOK
<1>3. CASE TakeCommand
  BY <1>0, <1>3 DEF TakeCommand, OwnTypeOK
<1>4. CASE \E w \in Workers : WorkerStep(w)
  BY <1>0, <1>4 DEF WorkerStep, ownVars, OwnTypeOK
<1>5. CASE Controllers
  <2>1. serving \in CP!Attempts
    BY <1>5, SameConstants DEF Controllers, IInv, CPP!IInv, CPP!TypeOK
  <2> QED
    BY <1>0, <1>5, <2>1 DEF Controllers, OwnTypeOK
<1> QED
  BY <1>1, <1>2, <1>3, <1>4, <1>5 DEF Next

LEMMA ActiveFacts ==
    JP!Active = {"validate", "key", "cleanup", "create", "poll", "cert", "conf", "config"}
BY DEF JP!Active

\* A run is started with its operator's command, and keeps it.
LEMMA RunKeepsCommand ==
    ASSUME IInv, NEW w \in Workers, WorkerStep(w), NEW v \in Workers, jpc'[v] \in JP!Active
    PROVE  command # Nil /\ expected'[v] = command.hash
<1> USE ActiveFacts
<1>0. /\ jpc[v] \in JP!Active => command # Nil /\ expected[v] = command.hash
      /\ jpc \in [Workers -> JP!Active \cup {"idle", "joined", "error", "refused"}]
      /\ expected \in [Workers -> CP!Attempts \cup {Nil}]
  BY DEF IInv, Hands, JP!IInv, JP!TypeOK
<1>1. CASE command # Nil /\ J!StartWith(w, command.hash)
  BY <1>0, <1>1, SameConstants DEF J!StartWith
<1>2. CASE J!Step(w)
  BY <1>0, <1>2
  DEF J!Step, J!ValidateDiscovery, J!GenerateKey, J!DeleteExisting, J!CreateCSR,
      J!PollSucceeds, J!PollTimesOut, J!WriteCert, J!WriteConf, J!WriteConfig, J!Go
<1>3. CASE J!Kill(w) \/ J!Reboot(w)
  BY <1>0, <1>3 DEF J!Kill, J!Reboot
<1> QED
  BY <1>1, <1>2, <1>3 DEF WorkerStep

LEMMA HandsStep ==
    ASSUME IInv, CPP!IInv', Next
    PROVE  Hands'
<1>0. Hands /\ shown \subseteq Commands
  BY DEF IInv, OwnTypeOK
<1>a. \A j \in Commands : j.token \in CPP!Tokens
  BY SameConstants DEF Commands
<1>1. CASE ControlPlaneStep
  <2>1. /\ CPP!UpStep /\ CPP!Next /\ shown' = shown \cup printed'
        /\ UNCHANGED <<command, jpc, expected>>
    BY <1>1, SameControlPlane DEF ControlPlaneStep, joinVars
  <2>2. printed \subseteq printed'
    BY <2>1, CPP!ShownKept, SameConstants DEF IInv
  <2>3. \A j \in shown : tokens'[j.token] # "unused" /\ (tokens'[j.token] = "valid" => j \in printed')
    BY <1>0, <1>a, <2>1, <2>2, CPP!TokensAge, SameConstants DEF IInv, Hands
  <2>4. \A j \in printed' : tokens'[j.token] # "unused"
    BY DEF CPP!IInv, CPP!Handles, CPP!PrintedMeansRegistered
  <2> QED
    BY <1>0, <2>1, <2>3, <2>4 DEF Hands
<1>2. CASE ControlPlaneReboots
  <2>1. /\ CPP!Next /\ CPP!Reboot /\ UNCHANGED <<command, shown, jpc, expected>>
    BY <1>2, SameControlPlane DEF ControlPlaneReboots, ownVars
  <2>2. \A t \in CPP!Tokens : tokens'[t] # "valid"
    BY <2>1 DEF CPP!Reboot
  <2>3. \A j \in shown : tokens'[j.token] # "unused"
    BY <1>0, <1>a, <2>1, CPP!TokensAge, SameConstants DEF IInv, Hands
  <2>4. printed' = {}
    BY <2>1 DEF CPP!Reboot
  <2> QED
    BY <1>0, <1>a, <2>1, <2>2, <2>3, <2>4 DEF Hands
<1>3. CASE TakeCommand
  BY <1>0, <1>3, SameConstants DEF TakeCommand, cpVars, joinVars, Hands
<1>4. ASSUME NEW w \in Workers, WorkerStep(w)
      PROVE  Hands'
  <2>1. UNCHANGED <<command, shown, printed, tokens>>
    BY <1>4 DEF WorkerStep, cpVars, ownVars
  <2> QED
    BY <1>0, <1>4, <2>1, RunKeepsCommand DEF Hands
<1>5. CASE Controllers
  BY <1>0, <1>5 DEF Controllers, cpVars, J!Issue, J!CleanUp, Hands
<1> QED
  BY <1>1, <1>2, <1>3, <1>4, <1>5 DEF Next

-----------------------------------------------------------------------------
(* The roles that a run needs.                                             *)

\* A run whose token works has the command of the authority on disk.
LEMMA CommandWorks ==
    ASSUME IInv, NEW w \in Workers, jpc[w] \in JP!Active, TokenStatus = "valid"
    PROVE  /\ command \in shown /\ tokens[command.token] = "valid"
           /\ expected[w] = command.hash /\ command.hash \in CP!Attempts
           /\ ~wiped => command.hash = files
<1>1. command \in shown /\ command # Nil /\ expected[w] = command.hash
  BY DEF IInv, Hands
<1>2. tokens[command.token] = "valid"
  BY <1>1 DEF TokenStatus
<1>3. command \in printed
  BY <1>1, <1>2 DEF IInv, Hands
<1>4. ~wiped => command.hash = files
  BY <1>3 DEF IInv, CPP!IInv, CPP!Identity, CPP!OneAuthority
<1> QED
  BY <1>1, <1>2, <1>4 DEF IInv, OwnTypeOK, Commands

\* A token that expired, or was lost, does not come back.
LEMMA StatusAges ==
    ASSUME IInv, CPP!Next, command \in shown, command # Nil, UNCHANGED command,
           TokenStatus' = "valid"
    PROVE  TokenStatus = "valid" /\ tokens'[command.token] = "valid"
<1>1. tokens'[command.token] = "valid"
  BY DEF TokenStatus
<1>2. command.token \in CPP!Tokens /\ tokens[command.token] # "unused"
  BY SameConstants DEF IInv, OwnTypeOK, Hands, Commands
<1>3. tokens[command.token] = "valid"
  BY <1>1, <1>2, CPP!TokensAge, SameConstants DEF IInv
<1> QED
  BY <1>1, <1>3 DEF TokenStatus

LEMMA JoinRBACFacts == CPP!JoinRBAC \subseteq CPP!Objects
BY SameConstants DEF CPP!ValidObjects, CPP!JoinRBAC, CPP!Objects, CPP!Elements

\* The only way into the places where the roles are needed is discovery.
LEMMA OnlyByDiscovery ==
    ASSUME IInv, NEW w \in Workers, WorkerStep(w), NEW v \in Workers, jpc'[v] \in NeedsRoles
    PROVE  jpc[v] \in NeedsRoles \/ (v = w /\ jpc[w] = "validate" /\ jpc'[w] = "key")
<1> USE DEF NeedsRoles
<1>0. jpc \in [Workers -> JP!Active \cup {"idle", "joined", "error", "refused"}]
  BY DEF IInv, JP!IInv, JP!TypeOK
<1>1. CASE J!StartWith(w, command.hash)
  BY <1>0, <1>1 DEF J!StartWith
<1>2. CASE J!Step(w)
  BY <1>0, <1>2
  DEF J!Step, J!ValidateDiscovery, J!GenerateKey, J!DeleteExisting, J!CreateCSR,
      J!PollSucceeds, J!PollTimesOut, J!WriteCert, J!WriteConf, J!WriteConfig, J!Go
<1>3. CASE J!Kill(w) \/ J!Reboot(w)
  BY <1>0, <1>3 DEF J!Kill, J!Reboot
<1> QED
  BY <1>1, <1>2, <1>3 DEF WorkerStep

LEMMA BoundStep ==
    ASSUME IInv, Next
    PROVE  Bound'
<1> SUFFICES ASSUME NEW v \in Workers, jpc'[v] \in NeedsRoles, TokenStatus' = "valid"
             PROVE  CPP!Exist(CPP!JoinRBAC)'
  BY DEF Bound
<1>0. /\ jpc[v] \in NeedsRoles => command # Nil /\ command \in shown
      /\ jpc[v] \in NeedsRoles /\ TokenStatus = "valid" => CPP!Exist(CPP!JoinRBAC)
  BY ActiveFacts DEF IInv, Hands, Bound, NeedsRoles
<1>1. CASE ControlPlaneStep
  <2>1. /\ CPP!UpStep /\ CPP!Next /\ UNCHANGED <<command, jpc>>
    BY <1>1, SameControlPlane DEF ControlPlaneStep, joinVars
  <2>2. CPP!Exist(CPP!JoinRBAC)
    BY <1>0, <2>1, StatusAges
  <2>3. \A o \in CPP!JoinRBAC : obj'[o] # Nil
    BY <2>1, <2>2, JoinRBACFacts, CPP!ObjectsStay, SameConstants DEF IInv, CPP!Exist
  <2> QED
    BY <2>3 DEF CPP!Exist, CPP!JoinRBAC
<1>2. CASE ControlPlaneReboots
  <2>1. /\ CPP!Next /\ CPP!Reboot /\ UNCHANGED <<command, jpc>>
    BY <1>2, SameControlPlane DEF ControlPlaneReboots, ownVars
  <2>2. command \in shown /\ tokens'[command.token] = "valid"
    BY <1>0, <2>1, StatusAges
  <2>3. tokens'[command.token] # "valid"
    BY <2>1, <2>2, SameConstants DEF CPP!Reboot, IInv, OwnTypeOK, Commands
  <2> QED
    BY <2>2, <2>3
<1>3. CASE TakeCommand
  BY <1>3, ActiveFacts, SameConstants DEF TakeCommand, joinVars, NeedsRoles
<1>4. ASSUME NEW w \in Workers, WorkerStep(w)
      PROVE  CPP!Exist(CPP!JoinRBAC)'
  <2>1. UNCHANGED <<command, tokens, obj>>
    BY <1>4 DEF WorkerStep, cpVars, ownVars
  <2>2. TokenStatus = "valid"
    BY <2>1 DEF TokenStatus
  <2>3. CASE jpc[v] \in NeedsRoles
    BY <1>0, <2>1, <2>2, <2>3 DEF CPP!Exist, CPP!JoinRBAC
  <2>4. CASE jpc[w] = "validate" /\ jpc'[w] = "key"
    <3>1. CP!Discoverable
      BY <1>4, <2>4 DEF WorkerStep, Discovered
    <3>2. CPP!Discoverable
      BY <3>1 DEF CP!Discoverable, CPP!Discoverable, CP!Exist, CPP!Exist
    <3>3. CPP!Exist(CPP!JoinRBAC)
      BY <3>2, CPP!JoinableInv, SameConstants DEF IInv, CPP!DiscoverableMeansJoinable
    <3> QED
      BY <2>1, <3>3 DEF CPP!Exist, CPP!JoinRBAC
  <2> QED
    BY <1>4, <2>3, <2>4, OnlyByDiscovery
<1>5. CASE Controllers
  <2>1. UNCHANGED <<command, tokens, obj, jpc>>
    BY <1>5 DEF Controllers, cpVars, J!Issue, J!CleanUp
  <2>2. CPP!Exist(CPP!JoinRBAC)
    BY <1>0, <2>1 DEF TokenStatus
  <2> QED
    BY <2>1, <2>2 DEF CPP!Exist, CPP!JoinRBAC
<1> QED
  BY <1>1, <1>2, <1>3, <1>4, <1>5 DEF Next

-----------------------------------------------------------------------------
(* Who signs what.                                                         *)

\* A step of a worker makes no key new again.
LEMMA AheadShrinks ==
    ASSUME IInv, NEW w \in Workers, WorkerStep(w), NEW k \in JP!Keys, Ahead(k)'
    PROVE  Ahead(k)
<1>0. /\ jpc \in [Workers -> JP!Active \cup {"idle", "joined", "error", "refused"}]
      /\ runs \in [Workers -> 0..MaxRuns]
      /\ k[1] \in Workers /\ k[2] \in 1..MaxRuns /\ MaxRuns \in Nat
  BY ConstantFacts DEF IInv, JP!IInv, JP!TypeOK
<1>1. CASE J!StartWith(w, command.hash)
  BY <1>0, <1>1 DEF J!StartWith, Ahead
<1>2. CASE J!GenerateKey(w)
  BY <1>0, <1>2 DEF J!GenerateKey, J!Go, Ahead
<1>3. CASE J!Step(w) /\ ~J!GenerateKey(w)
  BY <1>0, <1>3
  DEF J!Step, J!ValidateDiscovery, J!DeleteExisting, J!CreateCSR,
      J!PollSucceeds, J!PollTimesOut, J!WriteCert, J!WriteConf, J!WriteConfig, J!Go, Ahead
<1>4. CASE J!Kill(w) \/ J!Reboot(w)
  BY <1>0, <1>4 DEF J!Kill, J!Reboot, Ahead
<1> QED
  BY <1>1, <1>2, <1>3, <1>4 DEF WorkerStep

\* A CSR that appears is for the key of the run that creates it.
LEMMA NewCSR ==
    ASSUME IInv, NEW w \in Workers, WorkerStep(w), NEW n \in Names, csr'[n] \notin {csr[n], Nil}
    PROVE  /\ n = NameOf[w] /\ csr'[n] = [key |-> <<w, runs[w]>>, issued |-> FALSE]
           /\ jpc[w] = "create" /\ jpc'[w] \notin {"cleanup", "create"}
           /\ runs' = runs /\ TokenStatus = "valid"
<1>0. /\ csr \in [Names -> [key : JP!Keys, issued : BOOLEAN] \cup {Nil}]
      /\ jpc \in [Workers -> JP!Active \cup {"idle", "joined", "error", "refused"}]
      /\ NameOf[w] \in Names
  BY ConstantFacts DEF IInv, JP!IInv, JP!TypeOK
<1>1. CASE J!CreateCSR(w)
  BY <1>0, <1>1 DEF J!CreateCSR, J!Go, J!Allowed, J!MyKey
<1>2. CASE J!DeleteExisting(w)
  BY <1>0, <1>2 DEF J!DeleteExisting
<1>3. CASE UNCHANGED csr
  BY <1>3
<1> QED
  BY <1>1, <1>2, <1>3
  DEF WorkerStep, J!StartWith, J!Step, J!ValidateDiscovery, J!GenerateKey, J!PollSucceeds,
      J!PollTimesOut, J!WriteCert, J!WriteConf, J!WriteConfig, J!Kill, J!Reboot

\* A step of a worker touches its own files only.
LEMMA OwnFilesOnly ==
    ASSUME IInv, NEW w \in Workers, WorkerStep(w), NEW v \in Workers, v # w
    PROVE  jpc'[v] = jpc[v] /\ got'[v] = got[v] /\ ca'[v] = ca[v] /\ conf'[v] = conf[v]
<1>0. /\ jpc \in [Workers -> JP!Active \cup {"idle", "joined", "error", "refused"}]
      /\ got \in [Workers -> JP!Keys \cup {Nil}]
      /\ ca \in [Workers -> Bundles \cup {Nil, Torn}]
      /\ conf \in [Workers -> [cert : JP!Keys, key : JP!Keys] \cup {Nil, Torn}]
  BY DEF IInv, JP!IInv, JP!TypeOK
<1> QED
  BY <1>0
  DEF WorkerStep, J!StartWith, J!Step, J!ValidateDiscovery, J!GenerateKey, J!DeleteExisting,
      J!CreateCSR, J!PollSucceeds, J!PollTimesOut, J!WriteCert, J!WriteConf, J!WriteConfig,
      J!Kill, J!Reboot, J!Go, J!CutShort, J!disk

\* What a worker comes to hold was signed by the authority in its ca.crt.
LEMMA CertifiedStep ==
    ASSUME IInv, Unsigned, CSROwn, Certified, ~wiped, NEW w \in Workers, WorkerStep(w)
    PROVE  Certified'
<1>0. /\ UNCHANGED issuer
      /\ jpc \in [Workers -> JP!Active \cup {"idle", "joined", "error", "refused"}]
      /\ got \in [Workers -> JP!Keys \cup {Nil}]
      /\ ca \in [Workers -> Bundles \cup {Nil, Torn}]
      /\ conf \in [Workers -> [cert : JP!Keys, key : JP!Keys] \cup {Nil, Torn}]
  BY DEF IInv, JP!IInv, JP!TypeOK, WorkerStep, ownVars
<1>1. \A v \in Workers \ {w} : Whole(v)' <=> Whole(v)
  BY OwnFilesOnly DEF Whole
<1> SUFFICES /\ jpc'[w] \in {"cert", "conf"} => issuer[got'[w]] = Trusted(w)' /\ Trusted(w)' # Nil
             /\ Whole(w)' => issuer[conf'[w].cert] = Trusted(w)' /\ Trusted(w)' # Nil
  BY <1>0, <1>1, OwnFilesOnly DEF Certified, Trusted
<1>2. /\ jpc[w] \in {"cert", "conf"} => issuer[got[w]] = Trusted(w) /\ Trusted(w) # Nil
      /\ Whole(w) => issuer[conf[w].cert] = Trusted(w) /\ Trusted(w) # Nil
  BY DEF Certified
\* Discovery is behind a worker with a kubelet.conf.
<1>3. jpc[w] \in JP!Active \ {"config"} => ~Whole(w) /\ conf[w] = Nil
  BY DEF IInv, JP!IInv, JP!NoRunAfterConf, Whole
<1>4. CASE J!PollSucceeds(w)
  <2>1. /\ jpc[w] = "poll" /\ TokenStatus = "valid" /\ UNCHANGED <<ca, conf>>
        /\ csr[NameOf[w]] # Nil /\ csr[NameOf[w]].issued
        /\ got' = [got EXCEPT ![w] = csr[NameOf[w]].key]
    BY <1>4 DEF J!PollSucceeds, J!Allowed, J!Go, J!disk
  <2>2. issuer[got'[w]] = files /\ files # Nil
    BY <1>0, <2>1, ConstantFacts DEF CSROwn
  <2>3. ca[w] \in Bundles /\ Trusted(w) = expected[w]
    BY <2>1, ActiveFacts DEF IInv, JP!IInv, JP!GotOwn, Trusted
  <2>4. expected[w] = files
    BY <2>1, CommandWorks, ActiveFacts
  <2> QED
    BY <1>3, <2>1, <2>2, <2>3, <2>4, ActiveFacts DEF Whole, Trusted
<1>5. CASE J!WriteConf(w)
  <2>1. jpc[w] = "conf" /\ UNCHANGED <<got, ca>> /\ jpc'[w] \in {"config", "error"}
    BY <1>0, <1>5 DEF J!WriteConf, J!Go
  <2>2. Whole(w)' => conf'[w].cert = got[w]
    BY <1>0, <1>3, <1>5, <2>1, ActiveFacts DEF J!WriteConf, J!Go, J!CutShort, Whole
  <2> QED
    BY <1>2, <2>1, <2>2 DEF Trusted
<1>6. CASE J!ValidateDiscovery(w) \/ J!Kill(w) \/ J!Reboot(w)
  <2>1. jpc'[w] \notin {"cert", "conf"}
    BY <1>0, <1>6 DEF J!ValidateDiscovery, J!Kill, J!Reboot, J!Go
  <2>2. Whole(w)' => Whole(w) /\ conf'[w] = conf[w] /\ ca'[w] = ca[w]
    BY <1>0, <1>3, <1>6, ActiveFacts, ConstantFacts
    DEF J!ValidateDiscovery, J!Kill, J!Reboot, J!Go, J!CutShort, Whole
  <2> QED
    BY <1>2, <2>1, <2>2 DEF Trusted
<1>7. CASE \/ J!StartWith(w, command.hash) \/ J!GenerateKey(w) \/ J!DeleteExisting(w)
           \/ J!CreateCSR(w) \/ J!PollTimesOut(w) \/ J!WriteCert(w) \/ J!WriteConfig(w)
  <2>1. UNCHANGED <<ca, conf>>
    BY <1>7
    DEF J!StartWith, J!GenerateKey, J!DeleteExisting, J!CreateCSR, J!PollTimesOut,
        J!WriteCert, J!WriteConfig, J!disk
  <2>2. jpc'[w] \in {"cert", "conf"} => jpc[w] = "cert" /\ got' = got
    BY <1>0, <1>7
    DEF J!StartWith, J!GenerateKey, J!DeleteExisting, J!CreateCSR, J!PollTimesOut,
        J!WriteCert, J!WriteConfig, J!Go
  <2> QED
    BY <1>2, <2>1, <2>2 DEF Whole, Trusted
<1> QED
  BY <1>4, <1>5, <1>6, <1>7 DEF WorkerStep, J!Step

\* The controllers sign a CSR that nobody signed yet, with the authority of
\* the API server, which is the one on disk.
LEMMA IssueStep ==
    ASSUME IInv, Unsigned, CSROwn, Certified, ~wiped, serving # Nil, UNCHANGED files,
           NEW n \in Names, J!Issue(n), issuer' = [issuer EXCEPT ![csr[n].key] = serving]
    PROVE  Unsigned' /\ CSROwn' /\ Certified'
<1> DEFINE k == csr[n].key
<1>0. /\ csr \in [Names -> [key : JP!Keys, issued : BOOLEAN] \cup {Nil}]
      /\ issuer \in [JP!Keys -> CP!Attempts \cup {Nil}]
      /\ UNCHANGED <<jpc, runs, got, ca, conf>>
      /\ csr[n] # Nil /\ ~csr[n].issued /\ csr' = [csr EXCEPT ![n].issued = TRUE]
  BY DEF IInv, OwnTypeOK, JP!IInv, JP!TypeOK, J!Issue, J!disk
<1>1. csr[n] \in [key : JP!Keys, issued : BOOLEAN] /\ k \in JP!Keys
  BY <1>0
<1>2. /\ csr'[n].key = k /\ csr'[n].issued
      /\ \A m \in Names : m # n => csr'[m] = csr[m]
  BY <1>0, <1>1
<1>3. issuer[k] = Nil /\ NameOf[k[1]] = n /\ files # Nil
  BY <1>0 DEF CSROwn
<1>4. serving = files
  BY DEF IInv, CPP!IInv, CPP!Identity, CPP!OneAuthority
<1>5. issuer'[k] = files /\ \A j \in JP!Keys : j # k => issuer'[j] = issuer[j]
  BY <1>0, <1>1, <1>4
<1> HIDE DEF k
<1>6. Unsigned'
  <2> SUFFICES ASSUME NEW j \in JP!Keys, Ahead(j)'
               PROVE  issuer'[j] = Nil /\ \A m \in Names : csr'[m] # Nil => csr'[m].key # j
    BY DEF Unsigned, JP!Keys
  <2>1. issuer[j] = Nil /\ \A m \in Names : csr[m] # Nil => csr[m].key # j
    BY <1>0 DEF Unsigned, Ahead
  <2>2. j # k
    BY <1>0, <2>1 DEF k
  <2> QED
    BY <1>2, <1>5, <2>1, <2>2
<1>7. CSROwn'
  <2> SUFFICES ASSUME NEW m \in Names, csr'[m] # Nil
               PROVE  /\ NameOf[csr'[m].key[1]] = m
                      /\ files # Nil
                      /\ issuer'[csr'[m].key] = IF csr'[m].issued THEN files ELSE Nil
    BY DEF CSROwn
  <2>1. CASE m = n
    BY <1>2, <1>3, <1>5, <2>1
  <2>2. CASE m # n
    <3>1. csr[m] # Nil /\ csr'[m] = csr[m] /\ csr[m].key \in JP!Keys /\ NameOf[csr[m].key[1]] = m
      BY <1>0, <1>2, <2>2 DEF CSROwn
    <3>2. csr[m].key # k
      BY <1>3, <2>2, <3>1
    <3> QED
      BY <1>5, <3>1, <3>2 DEF CSROwn
  <2> QED
    BY <2>1, <2>2
<1>8. Certified'
  <2>1. \A j : issuer[j] # Nil => j # k
    BY <1>3
  <2>2. \A w \in Workers : Whole(w) => conf[w].cert \in JP!Keys
    BY DEF IInv, JP!IInv, JP!TypeOK, Whole
  <2>3. ASSUME NEW w \in Workers, jpc[w] \in {"cert", "conf"}
        PROVE  got[w] \in JP!Keys
    <3>1. got[w] = <<w, runs[w]>> /\ runs[w] \in 1..MaxRuns
      BY <2>3 DEF IInv, JP!IInv, JP!GotOwn, JP!MyKey, JP!HasKey
    <3>2. <<w, runs[w]>> \in Workers \X (1..MaxRuns)
      BY <3>1
    <3> QED
      BY <3>1, <3>2, ConstantFacts
  <2> QED
    BY <1>0, <1>5, <2>1, <2>2, <2>3 DEF Certified, Whole, Trusted
<1> QED
  BY <1>6, <1>7, <1>8

LEMMA WorkerIssuers ==
    ASSUME IInv, Unsigned, CSROwn, Certified, ~wiped, NEW w \in Workers, WorkerStep(w)
    PROVE  Unsigned' /\ CSROwn' /\ Certified'
<1>0. UNCHANGED <<issuer, files>>
  BY DEF WorkerStep, cpVars, ownVars
<1>1. \A n \in Names : csr'[n] \notin {csr[n], Nil} =>
        /\ n = NameOf[w] /\ csr'[n] = [key |-> <<w, runs[w]>>, issued |-> FALSE]
        /\ jpc[w] = "create" /\ jpc'[w] \notin {"cleanup", "create"}
        /\ runs' = runs /\ TokenStatus = "valid"
  BY NewCSR
<1>2. jpc[w] = "create" => runs[w] \in 1..MaxRuns /\ <<w, runs[w]>> \in JP!Keys
  BY ConstantFacts DEF IInv, JP!IInv, JP!GotOwn, JP!HasKey
<1>3. Unsigned'
  <2> SUFFICES ASSUME NEW k \in JP!Keys, Ahead(k)'
               PROVE  issuer[k] = Nil /\ \A n \in Names : csr'[n] # Nil => csr'[n].key # k
    BY <1>0 DEF Unsigned, JP!Keys
  <2>1. issuer[k] = Nil /\ \A n \in Names : csr[n] # Nil => csr[n].key # k
    BY AheadShrinks DEF Unsigned
  <2>2. ASSUME NEW n \in Names, csr'[n] \notin {csr[n], Nil}
        PROVE  csr'[n].key # k
    <3>1. /\ csr'[n].key = <<w, runs[w]>> /\ runs'[w] = runs[w]
          /\ jpc'[w] \notin {"cleanup", "create"} /\ runs[w] \in 1..MaxRuns
      BY <1>1, <1>2, <2>2
    <3>2. ASSUME k = <<w, runs[w]>>
          PROVE  FALSE
      <4>1. k[1] = w /\ k[2] = runs'[w]
        BY <3>1, <3>2
      <4>2. ~(runs'[w] < runs'[w])
        BY <3>1, ConstantFacts
      <4> QED
        BY <3>1, <4>1, <4>2 DEF Ahead
    <3> QED
      BY <3>1, <3>2
  <2> QED
    BY <2>1, <2>2
<1>4. CSROwn'
  <2> SUFFICES ASSUME NEW n \in Names, csr'[n] # Nil
               PROVE  /\ NameOf[csr'[n].key[1]] = n
                      /\ files # Nil
                      /\ issuer[csr'[n].key] = IF csr'[n].issued THEN files ELSE Nil
    BY <1>0 DEF CSROwn
  <2>1. CASE csr'[n] = csr[n]
    BY <2>1 DEF CSROwn
  <2>2. CASE csr'[n] # csr[n]
    <3>1. /\ n = NameOf[w] /\ csr'[n].key = <<w, runs[w]>> /\ ~csr'[n].issued
          /\ jpc[w] = "create" /\ TokenStatus = "valid"
      BY <1>1, <2>2
    <3>2. files # Nil
      BY <3>1, CommandWorks, ActiveFacts, ConstantFacts
    <3>3. issuer[<<w, runs[w]>>] = Nil
      BY <1>2, <3>1 DEF Unsigned, Ahead
    <3> QED
      BY <3>1, <3>2, <3>3
  <2> QED
    BY <2>1, <2>2
<1> QED
  BY <1>3, <1>4, CertifiedStep

LEMMA IssuerStep ==
    ASSUME IInv, Next
    PROVE  OneIssuer'
<1>0. OneIssuer
  BY DEF IInv
<1>1. CASE ControlPlaneStep
  <2>1. /\ CPP!UpStep /\ everWiped' = (everWiped \/ wiped')
        /\ UNCHANGED <<jpc, runs, got, ca, conf, csr, issuer>>
    BY <1>1, SameControlPlane DEF ControlPlaneStep, joinVars
  <2> SUFFICES ASSUME ~everWiped'
               PROVE  Unsigned' /\ CSROwn' /\ Certified'
    BY <2>1 DEF OneIssuer
  <2>3. ~everWiped /\ ~wiped'
    BY <2>1, Zenon
  <2>4. Unsigned /\ CSROwn /\ Certified
    BY <1>0, <2>3 DEF OneIssuer
  <2>5. files # Nil => files' = files
    BY <2>1, <2>3, CPP!FilesStay, SameConstants
  <2>6. Unsigned' /\ Certified'
    BY <2>1, <2>4 DEF Unsigned, Certified, Ahead, Whole, Trusted, JP!Keys
  <2>7. CSROwn'
    BY <2>1, <2>4, <2>5 DEF CSROwn
  <2> QED
    BY <2>6, <2>7
<1>2. CASE ControlPlaneReboots
  <2>1. /\ ~wiped' /\ csr' = [n \in Names |-> Nil]
        /\ UNCHANGED <<jpc, runs, got, ca, conf, issuer, everWiped>>
    BY <1>2 DEF ControlPlaneReboots, CP!Reboot, ownVars
  <2> QED
    BY <1>0, <2>1 DEF OneIssuer, Unsigned, CSROwn, Certified, Ahead, Whole, Trusted, JP!Keys
<1>3. CASE TakeCommand
  <2>1. UNCHANGED <<wiped, files, jpc, runs, got, ca, conf, csr, issuer, everWiped>>
    BY <1>3 DEF TakeCommand, cpVars, joinVars
  <2> QED
    BY <1>0, <2>1 DEF OneIssuer, Unsigned, CSROwn, Certified, Ahead, Whole, Trusted, JP!Keys
<1>4. ASSUME NEW w \in Workers, WorkerStep(w)
      PROVE  OneIssuer'
  <2>1. UNCHANGED <<wiped, everWiped>>
    BY <1>4 DEF WorkerStep, cpVars, ownVars
  <2> QED
    BY <1>0, <1>4, <2>1, WorkerIssuers DEF OneIssuer
<1>5. CASE Controllers
  <2>1. UNCHANGED <<wiped, everWiped, files>> /\ serving # Nil
    BY <1>5 DEF Controllers, cpVars
  <2>2. ASSUME NEW n \in Names, J!Issue(n), issuer' = [issuer EXCEPT ![csr[n].key] = serving]
        PROVE  OneIssuer'
    BY <1>0, <2>1, <2>2, IssueStep DEF OneIssuer
  <2>3. ASSUME NEW n \in Names, J!CleanUp(n), UNCHANGED issuer
        PROVE  OneIssuer'
    <3>1. /\ UNCHANGED <<jpc, runs, got, ca, conf>>
          /\ \A m \in Names : csr'[m] # Nil => csr'[m] = csr[m]
      BY <2>3 DEF J!CleanUp, J!disk, IInv, JP!IInv, JP!TypeOK
    <3> QED
      BY <1>0, <2>1, <2>3, <3>1
      DEF OneIssuer, Unsigned, CSROwn, Certified, Ahead, Whole, Trusted, JP!Keys
  <2> QED
    BY <1>5, <2>2, <2>3 DEF Controllers
<1> QED
  BY <1>1, <1>2, <1>3, <1>4, <1>5 DEF Next

-----------------------------------------------------------------------------

LEMMA Unmoved ==
    ASSUME IInv, UNCHANGED vars
    PROVE  OwnTypeOK' /\ Hands' /\ Bound' /\ OneIssuer'
<1>1. /\ UNCHANGED <<files, obj, tokens, printed, serving, wiped>>
      /\ UNCHANGED <<jpc, runs, got, expected, ca, conf, csr>>
      /\ UNCHANGED <<command, issuer, shown, everWiped>>
  BY DEF vars, cpVars, joinVars, ownVars
<1>2. OwnTypeOK' /\ Hands'
  BY <1>1, SameConstants DEF IInv, OwnTypeOK, Hands
<1>3. Bound'
  BY <1>1 DEF IInv, Bound, TokenStatus, CPP!Exist, CPP!JoinRBAC
<1>4. OneIssuer'
  BY <1>1 DEF IInv, OneIssuer, Unsigned, CSROwn, Certified, Ahead, Whole, Trusted, JP!Keys
<1> QED
  BY <1>2, <1>3, <1>4

LEMMA StepInv ==
    ASSUME J!UniqueNames
    PROVE  IInv /\ [Next]_vars => IInv'
<1> SUFFICES ASSUME IInv, [Next]_vars
             PROVE  IInv'
  OBVIOUS
<1>1. CPP!IInv' /\ JP!IInv'
  BY ComponentsStep
<1>2. CASE Next
  BY <1>1, <1>2, OwnTypeStep, HandsStep, BoundStep, IssuerStep DEF IInv
<1>3. CASE UNCHANGED vars
  BY <1>1, <1>3, Unmoved DEF IInv
<1> QED
  BY <1>2, <1>3

\* IInv holds of every reachable state.
THEOREM Invariance ==
    ASSUME J!UniqueNames
    PROVE  Spec => []IInv
BY InitInv, StepInv, PTL DEF Spec

\* Every variable of the control plane, the workers and their coupling keeps
\* its type.
THEOREM TypeCorrect ==
    ASSUME J!UniqueNames
    PROVE  Spec => []TypeOK
<1>1. IInv => TypeOK
  BY SameControlPlane, SameJoin, SameConstants
  DEF IInv, CPP!IInv, JP!IInv, OwnTypeOK, TypeOK
<1> QED
  BY <1>1, Invariance, PTL

\* A worker is of one cluster: who signed its certificate is whom it trusts,
\* unless /etc/kubernetes was deleted under it.
THEOREM OneClusterPerWorker ==
    ASSUME J!UniqueNames
    PROVE  Spec => []WorkerIsOne
<1>1. IInv => WorkerIsOne
  <2> SUFFICES ASSUME IInv, ~everWiped, NEW w \in Workers, Whole(w)
               PROVE  conf[w].cert \in {k \in J!Keys : issuer[k] = Trusted(w)}
    BY DEF WorkerIsOne
  <2>1. conf[w].cert \in J!Keys
    BY SameConstants DEF IInv, JP!IInv, JP!TypeOK, Whole
  <2>2. issuer[conf[w].cert] = Trusted(w)
    BY DEF IInv, OneIssuer, Certified
  <2> QED
    BY <2>1, <2>2
<1> QED
  BY <1>1, Invariance, PTL

\* A worker that passed discovery finds the roles it acts under.
THEOREM ServedToTheEnd ==
    ASSUME J!UniqueNames
    PROVE  Spec => []JoinersAreServed
<1>1. IInv => JoinersAreServed
  BY SameConstants DEF IInv, Bound, NeedsRoles, JoinersAreServed, CP!Exist, CPP!Exist
<1> QED
  BY <1>1, Invariance, PTL

\* Workers take nothing from the control plane: all that is proved of
\* ControlPlane holds of a control plane that workers join.
THEOREM ImplementsControlPlane == Spec => CP!Spec
<1>1. Init => CP!Init
  BY DEF Init
<1>2. [Next]_vars => [CP!Next]_(CP!vars)
  <2>1. (CP!Next <=> CPP!Next) /\ CP!vars = CPP!vars
    BY SameControlPlane
  <2> QED
    BY <2>1, ControlPlaneMoves
    DEF CP!vars, CPP!vars, CP!runVars, CPP!runVars, CP!tokenVars, CPP!tokenVars
<1> QED
  BY <1>1, <1>2, PTL DEF Spec, CP!Spec

-----------------------------------------------------------------------------
(* The refinement: a command that is shown invites, the whole kubelet.conf *)
(* of a run admits, the reboot of a worker leaves.                         *)

Invited == {j.hash : j \in shown}
Belongs(w) == IF Whole(w) THEN Trusted(w) ELSE Nil
Member == [w \in Workers |-> Belongs(w)]

\* One command more is shown, for an authority that has invited or has not.
LEMMA ShowInvites ==
    ASSUME IInv, ControlPlaneStep
    PROVE  Membership!Next \/ UNCHANGED Invited
<1>1. /\ CPP!UpStep /\ shown' = shown \cup printed' /\ UNCHANGED <<conf, ca>>
  BY SameControlPlane DEF ControlPlaneStep, joinVars
<1>2. printed \subseteq shown
  BY DEF IInv, Hands
<1>3. CASE printed' = printed
  BY <1>1, <1>2, <1>3 DEF Invited
<1>4. CASE /\ files \in CP!Attempts
           /\ printed' = printed \cup {[token |-> token, hash |-> files]}
  <2>1. shown' = shown \cup {[token |-> token, hash |-> files]}
    BY <1>1, <1>2, <1>4
  <2>2. Invited' = Invited \cup {files}
    <3> DEFINE new == [token |-> token, hash |-> files]
    <3>1. new.hash = files
      OBVIOUS
    <3>2. shown' = shown \cup {new}
      BY <2>1
    <3> HIDE DEF new
    <3>3. {j.hash : j \in shown \cup {new}} = {j.hash : j \in shown} \cup {new.hash}
      OBVIOUS
    <3> QED
      BY <3>1, <3>2, <3>3 DEF Invited
  <2>3. CASE files \in Invited
    BY <2>2, <2>3
  <2>4. CASE files \notin Invited
    BY <1>1, <1>4, <2>2, <2>4 DEF Invited, Membership!Next, Membership!Invite, Whole, Trusted
  <2> QED
    BY <2>3, <2>4
<1> QED
  BY <1>1, <1>3, <1>4, CPP!ShownKept, SameConstants DEF IInv

\* What a step of a worker does to its membership.
LEMMA WorkerBelongs ==
    ASSUME IInv, NEW w \in Workers, WorkerStep(w)
    PROVE  \/ Belongs(w)' = Belongs(w)
           \/ Belongs(w) = Nil /\ Belongs(w)' \in Invited
           \/ Belongs(w) # Nil /\ Belongs(w)' = Nil
<1>0. /\ jpc \in [Workers -> JP!Active \cup {"idle", "joined", "error", "refused"}]
      /\ ca \in [Workers -> Bundles \cup {Nil, Torn}]
      /\ conf \in [Workers -> [cert : JP!Keys, key : JP!Keys] \cup {Nil, Torn}]
  BY DEF IInv, JP!IInv, JP!TypeOK
<1>1. jpc[w] \in JP!Active \ {"config"} => conf[w] = Nil /\ Belongs(w) = Nil
  BY DEF IInv, JP!IInv, JP!NoRunAfterConf, Belongs, Whole, Trusted
<1>2. CASE J!WriteConf(w)
  <2>1. jpc[w] = "conf" /\ ca' = ca
    BY <1>0, <1>2 DEF J!WriteConf, J!Go
  <2>2. Trusted(w) = command.hash /\ command \in shown
    BY <2>1, ActiveFacts DEF IInv, JP!IInv, JP!GotOwn, Hands, Trusted
  <2>3. command.hash \in Invited
    BY <2>2 DEF Invited
  <2> QED
    BY <1>1, <2>1, <2>2, <2>3, ActiveFacts DEF Belongs, Trusted
<1>3. CASE J!Reboot(w)
  <2>1. Belongs(w)' = Nil
    BY <1>0, <1>3 DEF J!Reboot, Belongs, Whole, Trusted
  <2> QED
    BY <2>1
<1>4. CASE J!ValidateDiscovery(w) \/ J!Kill(w)
  <2>1. \/ UNCHANGED <<ca, conf>>
        \/ jpc[w] \in {"validate", "conf"} /\ conf'[w] \in {conf[w], Torn}
        \/ jpc[w] = "config" /\ UNCHANGED <<ca, conf>>
    BY <1>0, <1>4 DEF J!ValidateDiscovery, J!Kill, J!Go, J!CutShort
  <2>2. CASE UNCHANGED <<ca, conf>>
    BY <2>2 DEF Belongs, Whole, Trusted
  <2>3. CASE jpc[w] \in {"validate", "conf"} /\ conf'[w] \in {conf[w], Torn}
    <3>1. Belongs(w)' = Nil
      BY <1>1, <2>3, ActiveFacts DEF Belongs, Whole, Trusted
    <3> QED
      BY <3>1
  <2> QED
    BY <2>1, <2>2, <2>3
<1>5. CASE \/ J!StartWith(w, command.hash) \/ J!GenerateKey(w) \/ J!DeleteExisting(w)
           \/ J!CreateCSR(w) \/ J!PollSucceeds(w) \/ J!PollTimesOut(w)
           \/ J!WriteCert(w) \/ J!WriteConfig(w)
  <2>1. UNCHANGED <<ca, conf>>
    BY <1>5
    DEF J!StartWith, J!GenerateKey, J!DeleteExisting, J!CreateCSR, J!PollSucceeds,
        J!PollTimesOut, J!WriteCert, J!WriteConfig, J!disk
  <2> QED
    BY <2>1 DEF Belongs, Whole, Trusted
<1> QED
  BY <1>2, <1>3, <1>4, <1>5 DEF WorkerStep, J!Step

LEMMA StepRefines ==
    ASSUME IInv, Next
    PROVE  Membership!Next \/ UNCHANGED <<Invited, Member>>
<1>1. CASE ControlPlaneStep
  <2>1. UNCHANGED Member
    BY <1>1 DEF ControlPlaneStep, joinVars, Member, Belongs, Whole, Trusted
  <2> QED
    BY <1>1, <2>1, ShowInvites
<1>2. CASE ControlPlaneReboots \/ TakeCommand \/ Controllers
  <2>1. UNCHANGED <<shown, conf, ca>>
    BY <1>2
    DEF ControlPlaneReboots, TakeCommand, Controllers, joinVars, ownVars, J!Issue, J!CleanUp,
        J!disk
  <2> QED
    BY <2>1 DEF Invited, Member, Belongs, Whole, Trusted
<1>3. ASSUME NEW w \in Workers, WorkerStep(w)
      PROVE  Membership!Next \/ UNCHANGED <<Invited, Member>>
  <2>1. UNCHANGED Invited
    BY <1>3 DEF WorkerStep, ownVars, Invited
  <2>2. \A v \in Workers \ {w} : Belongs(v)' = Belongs(v)
    BY <1>3, OwnFilesOnly DEF Belongs, Whole, Trusted
  <2>a. Member' = [Member EXCEPT ![w] = Belongs(w)'] /\ Member[w] = Belongs(w)
    BY <2>2 DEF Member
  <2>3. CASE Belongs(w)' = Belongs(w)
    BY <2>1, <2>2, <2>3 DEF Member
  <2>4. CASE Belongs(w) = Nil /\ Belongs(w)' \in Invited
    <3>1. Membership!Admit(w)
      BY <2>1, <2>4, <2>a DEF Membership!Admit, Member, Belongs, Invited
    <3> QED
      BY <3>1 DEF Membership!Next
  <2>5. CASE Belongs(w) # Nil /\ Belongs(w)' = Nil
    <3>1. Member[w] # Nil /\ Member' = [Member EXCEPT ![w] = Nil]
      BY <2>5, <2>a
    <3>2. Membership!Leave(w)
      BY <2>1, <3>1 DEF Membership!Leave, Member, Belongs, Invited
    <3> QED
      BY <3>2 DEF Membership!Next
  <2> QED
    BY <1>3, <2>3, <2>4, <2>5, WorkerBelongs
<1> QED
  BY <1>1, <1>2, <1>3 DEF Next

\* Joining implements Membership: a worker belongs to an authority only if a
\* command of its was shown, and to another one only after it was rebooted.
THEOREM AdmissionHolds ==
    ASSUME J!UniqueNames
    PROVE  Spec => Admission
<1>1. Init => Membership!Init
  BY DEF Init, J!Init, Membership!Init, Whole
<1>2. IInv /\ [Next]_vars =>
        [Membership!Next]_<<{j.hash : j \in shown}, [w \in Workers |-> IF Whole(w) THEN Trusted(w) ELSE Nil]>>
  <2> SUFFICES ASSUME IInv, [Next]_vars
               PROVE  Membership!Next \/ UNCHANGED <<Invited, Member>>
    BY DEF Invited, Member, Belongs
  <2>1. CASE UNCHANGED vars
    BY <2>1 DEF vars, joinVars, ownVars, Invited, Member, Belongs, Whole, Trusted
  <2> QED
    BY <2>1, StepRefines
<1> QED
  BY <1>1, <1>2, Invariance, PTL DEF Spec, Admission, Membership!Spec
=============================================================================
