------------------------- MODULE ControlPlaneProofs -------------------------
(***************************************************************************)
(* Theorems about ControlPlane for any objects, in any order and number,   *)
(* and any number of inits, tokens and writes of the kubelet.              *)
(*                                                                         *)
(* The argument: each phase of init creates its objects from the first to  *)
(* the last and stops at the first error, so what exists of a phase is a   *)
(* prefix of it (InOrder, SoFar); an init that has not warned has every    *)
(* object of the phases behind it (Behind); while init runs its authority  *)
(* is the one on disk (OwnFiles), and until a wipe everything in etcd and  *)
(* on the console is of that authority (OneAuthority); the Node object     *)
(* that MarkControlPlane holds is the current one if the versions agree    *)
(* (Copied).                                                               *)
(***************************************************************************)
EXTENDS ControlPlane, TLAPS

InOrder ==
    \A p \in DOMAIN Plan : \A i, j \in 1..Len(Plan[p]) :
        j < i /\ obj[Plan[p][i]] # Nil => obj[Plan[p][j]] # Nil

SoFar ==
    pc \in DOMAIN Plan => \A j \in 1..Len(Plan[pc]) : j < next => obj[Plan[pc][j]] # Nil

Behind ==
    /\ pc = "coredns" /\ ~warned => Exist(Elements(RBAC))
    /\ pc \in {"get", "update"} /\ ~warned => Exist(Objects)

OwnFiles ==
    /\ pc # "idle" => files # Nil
    /\ pc \in {"rbac", "coredns", "get", "update"} => files = run

OneAuthority ==
    ~wiped =>
        /\ \A o \in Objects : obj[o] \in {Nil, files}
        /\ \A j \in printed : j.hash = files
        /\ silent \subseteq {files}
        /\ serving \in {Nil, files}

Registered ==
    /\ pc = "print" => token # Nil
    /\ token # Nil => tokens[token] # "unused"

Copied ==
    /\ pc = "update" => copy # Nil
    /\ copy # Nil =>
        /\ node # Nil
        /\ copy.version <= node.version
        /\ copy.version = node.version => copy = node

Progress == InOrder /\ SoFar /\ Behind /\ SilentMeansComplete
Identity == OwnFiles /\ OneAuthority
Handles == Registered /\ PrintedMeansRegistered /\ Copied

IInv == TypeOK /\ Progress /\ Identity /\ Handles

-----------------------------------------------------------------------------

LEMMA PlanFacts ==
    /\ DOMAIN Plan = {"rbac", "coredns"}
    /\ Plan["rbac"] = RBAC /\ Plan["coredns"] = CoreDNS
    /\ \A p \in DOMAIN Plan :
        /\ Plan[p] \in Seq(Objects) /\ Len(Plan[p]) \in Nat \ {0}
        /\ \A i \in 1..Len(Plan[p]) : Plan[p][i] \in Objects
<1>1. DOMAIN Plan = {"rbac", "coredns"} /\ Plan["rbac"] = RBAC /\ Plan["coredns"] = CoreDNS
  BY DEF Plan
<1>2. RBAC \in Seq(Objects) /\ Len(RBAC) \in Nat \ {0} /\ \A i \in 1..Len(RBAC) : RBAC[i] \in Objects
  BY ControlPlaneAssumption DEF ValidObjects
<1>3. CoreDNS \in Seq(Objects) /\ Len(CoreDNS) \in Nat \ {0} /\ \A i \in 1..Len(CoreDNS) : CoreDNS[i] \in Objects
  BY ControlPlaneAssumption DEF ValidObjects
<1> QED
  BY <1>1, <1>2, <1>3

\* No object is created at two places.
LEMMA Apart ==
    ASSUME NEW p \in DOMAIN Plan, NEW q \in DOMAIN Plan,
           NEW i \in 1..Len(Plan[p]), NEW j \in 1..Len(Plan[q]), Plan[p][i] = Plan[q][j]
    PROVE  p = q /\ i = j
<1>1. \A r \in DOMAIN Plan : Distinct(Plan[r])
  BY PlanFacts, ControlPlaneAssumption DEF ValidObjects
<1>2. Plan[p][i] \in Elements(Plan[p]) /\ Plan[q][j] \in Elements(Plan[q])
  BY DEF Elements
<1>3. p = q
  BY <1>2, PlanFacts, ControlPlaneAssumption DEF ValidObjects
<1> QED
  BY <1>1, <1>3 DEF Distinct

LEMMA ConstantFacts ==
    /\ MaxAttempts \in Nat /\ MaxTokens \in Nat /\ MaxWrites \in Nat
    /\ Nil \notin Attempts /\ Nil \notin Nodes /\ Nil \notin Tokens
    /\ ClusterInfo \in Objects
BY ControlPlaneAssumption DEF ValidObjects, Discovery, Objects, Elements

\* Marking a Node object and writing its status.
LEMMA NodeFacts ==
    ASSUME NEW n \in Nodes, NEW k \in 0..MaxWrites, NEW v \in Nat
    PROVE  [n EXCEPT !.writes = k, !.version = v] \in Nodes
BY DEF Nodes

LEMMA MarkedFacts ==
    ASSUME NEW n \in Nodes
    PROVE  /\ Marked(n) \in Nodes /\ Marked(n).marked /\ Marked(n).writes = n.writes
           /\ Marked(n).version = n.version + 1
<1>1. Marked(n) = [n EXCEPT !.marked = TRUE, !.version = n.version + 1]
  BY DEF Marked, Nodes
<1>2. n.version + 1 \in Nat
  BY DEF Nodes
<1>3. [n EXCEPT !.marked = TRUE, !.version = n.version + 1] \in Nodes
  BY <1>2 DEF Nodes
<1>4. Marked(n) \in Nodes
  BY <1>1, <1>3, Zenon
<1> QED
  BY <1>1, <1>4 DEF Nodes

LEMMA WrittenFacts ==
    ASSUME TypeOK, KubeletWrites
    PROVE  /\ node \in Nodes /\ node' \in Nodes
           /\ node'.marked = node.marked /\ node'.writes = node.writes + 1
           /\ node'.version = node.version + 1
<1>1. node \in Nodes /\ node.writes + 1 \in 0..MaxWrites /\ node.version + 1 \in Nat
  BY ConstantFacts DEF KubeletWrites, TypeOK, Nodes
<1>2. node' = [node EXCEPT !.writes = node.writes + 1, !.version = node.version + 1]
  BY <1>1 DEF KubeletWrites, Nodes
<1>3. node' \in Nodes
  BY <1>1, <1>2, NodeFacts
<1> QED
  BY <1>1, <1>2, <1>3 DEF Nodes

LEMMA InitInv == Init => IInv
<1> SUFFICES ASSUME Init PROVE IInv
  OBVIOUS
<1> USE DEF Init
<1>1. TypeOK
  <2>1. pc \notin DOMAIN Plan /\ run \in 0..MaxAttempts
    BY PlanFacts, ConstantFacts
  <2>2. obj \in [Objects -> Attempts \cup {Nil}]
    OBVIOUS
  <2>3. tokens \in [Tokens -> {"unused", "valid", "expired"}]
    OBVIOUS
  <2>4. silent \subseteq Attempts /\ printed \subseteq [token : Tokens, hash : Attempts]
    OBVIOUS
  <2>5. next \in Nat \ {0}
    OBVIOUS
  <2> QED
    BY <2>1, <2>2, <2>3, <2>4, <2>5, Zenon DEF TypeOK
<1>2. Progress
  BY PlanFacts DEF Progress, InOrder, SoFar, Behind, SilentMeansComplete
<1>3. Identity
  BY DEF Identity, OwnFiles, OneAuthority
<1>4. Handles
  BY DEF Handles, Registered, PrintedMeansRegistered, Copied
<1> QED
  BY <1>1, <1>2, <1>3, <1>4 DEF IInv

\* In a phase the next object is one of it.
LEMMA InPhase ==
    ASSUME IInv, pc \in DOMAIN Plan
    PROVE  /\ next \in 1..Len(Plan[pc]) /\ Plan[pc][next] \in Objects
           /\ pc \in {"rbac", "coredns"}
           /\ files = run /\ run \in Attempts
BY PlanFacts, ConstantFacts DEF IInv, TypeOK, Identity, OwnFiles

\* What a step of a phase does to the objects.
LEMMA EnsureFacts ==
    ASSUME IInv, pc \in DOMAIN Plan, Ensure(Plan[pc][next])
    PROVE  /\ obj' \in [Objects -> Attempts \cup {Nil}]
           /\ obj'[Plan[pc][next]] # Nil
           /\ \A o \in Objects : obj[o] # Nil => obj'[o] = obj[o]
           /\ \A o \in Objects : obj'[o] \in {obj[o], files}
           /\ \A o \in Objects : o # Plan[pc][next] => obj'[o] = obj[o]
BY InPhase, ConstantFacts DEF IInv, TypeOK, Ensure

\* Where a phase leads to.
LEMMA AdvanceFacts ==
    ASSUME IInv, pc \in DOMAIN Plan, Advance
    PROVE  \/ /\ pc' = pc /\ next' = next + 1 /\ next' \in 1..Len(Plan[pc])
           \/ /\ next = Len(Plan[pc]) /\ next' = 1
              /\ pc' = IF pc = "rbac" THEN "coredns" ELSE "get"
BY InPhase, PlanFacts DEF Advance, NextPhase

-----------------------------------------------------------------------------
(* Types.                                                                  *)

LEMMA TypeStep ==
    ASSUME IInv, Next
    PROVE  TypeOK'
<1> USE ConstantFacts
<1>0. TypeOK /\ Identity /\ Handles
  BY DEF IInv
<1>a. 1 \in Nat \ {0} /\ \A p \in DOMAIN Plan : 1 <= Len(Plan[p])
  BY PlanFacts
<1>1. CASE StartInit
  <2>1. run + 1 \in Attempts /\ run + 1 \in 0..MaxAttempts
    BY <1>0, <1>1 DEF StartInit, TypeOK, Attempts
  <2> QED
    BY <1>0, <1>1, <1>a, <2>1 DEF StartInit, TypeOK, tokenVars
<1>2. CASE CreateObject
  <2>1. obj' \in [Objects -> Attempts \cup {Nil}]
    BY <1>2, EnsureFacts DEF CreateObject
  <2>2. /\ pc' \in {"idle", "rbac", "coredns", "get", "update", "register", "print"}
        /\ next' \in Nat \ {0} /\ (pc' \in DOMAIN Plan => next' <= Len(Plan[pc']))
    BY <1>2, <1>a, AdvanceFacts, InPhase DEF CreateObject
  <2> QED
    BY <1>0, <1>2, <2>1, <2>2 DEF CreateObject, TypeOK, tokenVars, runVars
<1>3. CASE CreateFails
  <2>1. obj' \in [Objects -> Attempts \cup {Nil}]
    BY <1>0, <1>3, EnsureFacts DEF CreateFails, TypeOK
  <2>2. /\ pc' \in {"coredns", "get"} /\ next' = 1
    BY <1>3 DEF CreateFails, NextPhase
  <2> QED
    BY <1>0, <1>3, <1>a, <2>1, <2>2 DEF CreateFails, TypeOK, tokenVars
<1>4. CASE GetNode
  BY <1>0, <1>4, PlanFacts DEF GetNode, TypeOK, tokenVars, runVars
<1>5. ASSUME NEW ok \in BOOLEAN, pc \in {"get", "update"}, EndInit(ok), node' \in Nodes \cup {Nil}
      PROVE  TypeOK'
  <2>1. run \in Attempts
    BY <1>0, <1>5 DEF Identity, OwnFiles, TypeOK
  <2>2. silent' \subseteq Attempts
    BY <1>0, <1>5, <2>1 DEF EndInit, TypeOK
  <2> QED
    BY <1>0, <1>5, <2>2, PlanFacts DEF EndInit, TypeOK, tokenVars
<1>6. CASE UpdateNode
  <2>1. copy \in Nodes
    BY <1>0, <1>6 DEF UpdateNode, TypeOK, Handles, Copied
  <2>2. Marked(copy) \in Nodes
    BY <2>1, MarkedFacts
  <2> QED
    BY <1>5, <1>6, <2>2 DEF UpdateNode
<1>7. CASE MarkFails
  BY <1>0, <1>5, <1>7 DEF MarkFails, TypeOK
<1>8. CASE StartToken
  BY <1>0, <1>8, PlanFacts DEF StartToken, TypeOK, tokenVars, runVars
<1>9. CASE RegisterToken
  BY <1>0, <1>9, PlanFacts DEF RegisterToken, TypeOK, runVars
<1>10. CASE RegisterFails
  BY <1>0, <1>10, PlanFacts DEF RegisterFails, TypeOK, runVars
<1>11. CASE PrintToken
  <2>1. token \in Tokens /\ files \in Attempts
    BY <1>0, <1>11 DEF PrintToken, TypeOK, Handles, Registered, Identity, OwnFiles
  <2> QED
    BY <1>0, <1>11, <2>1, PlanFacts DEF PrintToken, TypeOK, runVars
<1>12. CASE Interrupt
  BY <1>0, <1>12, PlanFacts DEF Interrupt, TypeOK, runVars
<1>13. CASE DeleteEtcKubernetes
  BY <1>0, <1>13, PlanFacts DEF DeleteEtcKubernetes, TypeOK, tokenVars
<1>14. CASE Reboot
  <2>1. obj' \in [Objects -> Attempts \cup {Nil}]
    BY <1>14 DEF Reboot
  <2>2. tokens' \in [Tokens -> {"unused", "valid", "expired"}]
    BY <1>14 DEF Reboot
  <2>3. pc' \notin DOMAIN Plan /\ next' \in Nat \ {0}
    BY <1>14, PlanFacts DEF Reboot
  <2>4. silent' \subseteq Attempts /\ printed' \subseteq [token : Tokens, hash : Attempts]
    BY <1>14 DEF Reboot
  <2> QED
    BY <1>0, <1>14, <2>1, <2>2, <2>3, <2>4, Zenon DEF Reboot, TypeOK
<1>15. CASE APIServerStarts \/ APIServerStops
  BY <1>0, <1>15 DEF APIServerStarts, APIServerStops, TypeOK, tokenVars, runVars
<1>16. CASE KubeletRegisters
  <2>1. [marked |-> FALSE, writes |-> 0, version |-> 0] \in Nodes
    BY DEF Nodes
  <2> QED
    BY <1>0, <1>16, <2>1 DEF KubeletRegisters, TypeOK, tokenVars, runVars
<1>17. CASE KubeletWrites
  <2>1. node' \in Nodes
    BY <1>0, <1>17, WrittenFacts
  <2> QED
    BY <1>0, <1>17, <2>1 DEF KubeletWrites, TypeOK, tokenVars, runVars
<1>18. CASE TokenExpires
  BY <1>0, <1>18 DEF TokenExpires, TypeOK, runVars
<1> QED
  BY <1>1, <1>2, <1>3, <1>4, <1>6, <1>7, <1>8, <1>9, <1>10, <1>11, <1>12, <1>13,
     <1>14, <1>15, <1>16, <1>17, <1>18 DEF Next, UpStep, KoobadmStep

-----------------------------------------------------------------------------
(* Order and completeness.                                                 *)

\* A step that leaves the objects and the place in a phase alone, and adds
\* nothing to what a silent init promises.
LEMMA ProgressKept ==
    ASSUME IInv, UNCHANGED obj, silent' \subseteq silent,
           \/ pc' \notin {"rbac", "coredns", "get", "update"}
           \/ UNCHANGED <<pc, next, warned>>
           \/ pc = "get" /\ pc' = "update" /\ UNCHANGED warned,
           node # Nil /\ node.marked => node' # Nil /\ node'.marked
    PROVE  Progress'
<1> USE PlanFacts
<1>1. InOrder' /\ Behind'
  BY DEF IInv, Progress, InOrder, Behind, Exist
<1>2. SoFar'
  BY DEF IInv, Progress, SoFar
<1>3. SilentMeansComplete'
  BY DEF IInv, Progress, SilentMeansComplete, Exist
<1> QED
  BY <1>1, <1>2, <1>3 DEF Progress

\* Objects are only added, and an addition extends the prefix of its phase.
LEMMA OrderKept ==
    ASSUME IInv, pc \in DOMAIN Plan, UNCHANGED obj \/ Ensure(Plan[pc][next])
    PROVE  /\ InOrder'
           /\ \A o \in Objects : obj[o] # Nil => obj'[o] # Nil
<1>1. CASE UNCHANGED obj
  BY <1>1 DEF IInv, Progress, InOrder
<1>2. CASE Ensure(Plan[pc][next])
  <2>1. \A o \in Objects : obj[o] # Nil => obj'[o] # Nil
    BY <1>2, EnsureFacts
  <2>2. ASSUME NEW p \in DOMAIN Plan, NEW i \in 1..Len(Plan[p]), NEW j \in 1..Len(Plan[p]),
               j < i, obj'[Plan[p][i]] # Nil
        PROVE  obj'[Plan[p][j]] # Nil
    <3>1. Plan[p][i] \in Objects /\ Plan[p][j] \in Objects
      BY PlanFacts
    <3>2. CASE obj[Plan[p][i]] # Nil
      <4>1. obj[Plan[p][j]] # Nil
        BY <2>2, <3>2 DEF IInv, Progress, InOrder
      <4> QED
        BY <2>1, <3>1, <4>1
    <3>3. CASE obj[Plan[p][i]] = Nil
      <4>1. Plan[p][i] = Plan[pc][next]
        BY <1>2, <2>2, <3>1, <3>3, EnsureFacts
      <4>2. p = pc /\ i = next
        BY <4>1, Apart, InPhase
      <4>3. obj[Plan[p][j]] # Nil
        BY <2>2, <4>2 DEF IInv, Progress, SoFar
      <4> QED
        BY <2>1, <3>1, <4>3
    <3> QED
      BY <3>2, <3>3
  <2> QED
    BY <2>1, <2>2 DEF InOrder
<1> QED
  BY <1>1, <1>2

LEMMA SilentKept ==
    ASSUME IInv, UNCHANGED <<silent, node>>,
           \A o \in Objects : obj[o] # Nil => obj'[o] # Nil
    PROVE  SilentMeansComplete'
BY DEF IInv, Progress, SilentMeansComplete, Exist

LEMMA ProgressStep ==
    ASSUME IInv, Next
    PROVE  Progress'
<1> USE PlanFacts
<1>1. CASE StartInit
  <2>1. InOrder' /\ SilentMeansComplete'
    BY <1>1 DEF StartInit, IInv, Progress, InOrder, SilentMeansComplete, Exist
  <2>2. SoFar' /\ Behind'
    BY <1>1 DEF StartInit, SoFar, Behind
  <2> QED
    BY <2>1, <2>2 DEF Progress
<1>2. CASE CreateObject
  <2> DEFINE o == Plan[pc][next]
  <2>1. /\ pc \in DOMAIN Plan /\ Ensure(o) /\ Advance
        /\ UNCHANGED <<silent, warned, node>>
    BY <1>2 DEF CreateObject, runVars
  <2>2. InOrder' /\ \A x \in Objects : obj[x] # Nil => obj'[x] # Nil
    BY <2>1, OrderKept
  <2>3. obj'[o] # Nil
    BY <2>1, EnsureFacts
  <2>4. \A j \in 1..Len(Plan[pc]) : j <= next => obj'[Plan[pc][j]] # Nil
    <3> SUFFICES ASSUME NEW j \in 1..Len(Plan[pc]), j <= next
                 PROVE  obj'[Plan[pc][j]] # Nil
      OBVIOUS
    <3>1. CASE j = next
      BY <2>3, <3>1
    <3>2. CASE j # next
      <4>1. j < next
        BY <2>1, <3>2, InPhase
      <4>2. obj[Plan[pc][j]] # Nil
        BY <2>1, <4>1 DEF IInv, Progress, SoFar
      <4> QED
        BY <2>1, <2>2, <4>2
    <3> QED
      BY <3>1, <3>2
  <2>5. SoFar'
    BY <2>1, <2>4, InPhase, AdvanceFacts DEF SoFar
  <2>6. Behind'
    <3>1. CASE pc' = pc
      BY <2>1, <2>2, <3>1, InPhase DEF IInv, Progress, Behind, Exist, Objects
    <3>2. CASE pc' # pc
      <4>1. next = Len(Plan[pc]) /\ pc' = IF pc = "rbac" THEN "coredns" ELSE "get"
        BY <2>1, <3>2, AdvanceFacts
      <4>2. \A j \in 1..Len(Plan[pc]) : obj'[Plan[pc][j]] # Nil
        BY <2>4, <4>1
      <4>3. CASE pc = "rbac"
        BY <4>1, <4>2, <4>3 DEF Behind, Exist, Elements
      <4>4. CASE pc = "coredns"
        <5>1. ~warned => \A x \in Elements(RBAC) : obj'[x] # Nil
          BY <2>2, <4>4 DEF IInv, Progress, Behind, Exist, Objects
        <5>2. \A x \in Elements(CoreDNS) : obj'[x] # Nil
          BY <4>2, <4>4 DEF Elements
        <5> QED
          BY <2>1, <4>1, <4>4, <5>1, <5>2 DEF Behind, Exist, Objects
      <4> QED
        BY <2>1, <4>3, <4>4
    <3> QED
      BY <3>1, <3>2
  <2> QED
    BY <2>1, <2>2, <2>5, <2>6, SilentKept DEF Progress
<1>3. CASE CreateFails
  <2>1. /\ pc \in DOMAIN Plan
        /\ UNCHANGED obj \/ Ensure(Plan[pc][next])
        /\ warned' = TRUE /\ pc' \in {"coredns", "get"} /\ next' = 1
        /\ UNCHANGED <<silent, node>>
    BY <1>3 DEF CreateFails, NextPhase
  <2>2. InOrder' /\ \A o \in Objects : obj[o] # Nil => obj'[o] # Nil
    BY <2>1, OrderKept
  <2>3. SoFar'
    <3>1. \A j \in 1..Len(Plan[pc']) : ~(j < next')
      BY <2>1
    <3> QED
      BY <3>1 DEF SoFar
  <2>4. Behind'
    BY <2>1, Zenon DEF Behind
  <2> QED
    BY <2>1, <2>2, <2>3, <2>4, SilentKept DEF Progress
<1>4. CASE GetNode
  BY <1>4, ProgressKept DEF GetNode, runVars
<1>5. CASE UpdateNode
  <2>1. node'.marked /\ node' # Nil
    <3>1. copy \in Nodes
      BY <1>5 DEF UpdateNode, IInv, TypeOK, Handles, Copied
    <3> QED
      BY <1>5, <3>1, MarkedFacts, ConstantFacts DEF UpdateNode
  <2>2. UNCHANGED obj /\ pc' = "idle" /\ (~warned => Exist(Objects))
    BY <1>5 DEF UpdateNode, EndInit, IInv, Progress, Behind
  <2>3. InOrder' /\ SoFar' /\ Behind'
    BY <2>2 DEF IInv, Progress, InOrder, SoFar, Behind
  <2>4. silent' # {} => silent # {} \/ ~warned
    BY <1>5 DEF UpdateNode, EndInit
  <2>5. SilentMeansComplete'
    BY <2>1, <2>2, <2>4 DEF IInv, Progress, SilentMeansComplete, Exist
  <2> QED
    BY <2>3, <2>5 DEF Progress
<1>6. CASE MarkFails
  BY <1>6, ProgressKept DEF MarkFails, EndInit
<1>7. CASE StartToken \/ RegisterToken \/ RegisterFails \/ PrintToken \/ Interrupt
  BY <1>7, ProgressKept
  DEF StartToken, RegisterToken, RegisterFails, PrintToken, Interrupt, runVars
<1>8. CASE DeleteEtcKubernetes
  BY <1>8, ProgressKept DEF DeleteEtcKubernetes
<1>9. CASE Reboot
  <2>1. \A o \in Objects : obj'[o] = Nil
    BY <1>9 DEF Reboot
  <2>2. InOrder'
    BY <2>1 DEF InOrder
  <2> QED
    BY <1>9, <2>2 DEF Reboot, Progress, SoFar, Behind, SilentMeansComplete
<1>10. CASE APIServerStarts \/ APIServerStops \/ TokenExpires
  BY <1>10, ProgressKept DEF APIServerStarts, APIServerStops, TokenExpires, runVars
<1>11. CASE KubeletRegisters
  BY <1>11, ProgressKept DEF KubeletRegisters, runVars
<1>12. CASE KubeletWrites
  <2>1. node' # Nil /\ node'.marked = node.marked
    BY <1>12, WrittenFacts, ConstantFacts DEF IInv
  <2> QED
    BY <1>12, <2>1, ProgressKept DEF KubeletWrites, runVars
<1> QED
  BY <1>1, <1>2, <1>3, <1>4, <1>5, <1>6, <1>7, <1>8, <1>9, <1>10, <1>11, <1>12
  DEF Next, UpStep, KoobadmStep

-----------------------------------------------------------------------------
(* One authority.                                                          *)

LEMMA IdentityStep ==
    ASSUME IInv, Next
    PROVE  Identity'
<1> USE ConstantFacts
<1>0. TypeOK /\ OwnFiles /\ OneAuthority
  BY DEF IInv, Identity
<1>1. CASE StartInit
  <2>1. OwnFiles'
    <3>1. run + 1 \in Attempts
      BY <1>0, <1>1 DEF StartInit, TypeOK, Attempts
    <3> QED
      BY <1>1, <3>1 DEF StartInit, OwnFiles
  <2>2. ~wiped => /\ printed = {} /\ silent = {} /\ \A o \in Objects : obj[o] = Nil
                  /\ serving = Nil
    <3> SUFFICES ASSUME ~wiped
                 PROVE  /\ printed = {} /\ silent = {} /\ \A o \in Objects : obj[o] = Nil
                        /\ serving = Nil
      OBVIOUS
    <3>1. files = Nil
      BY <1>1 DEF StartInit
    <3>2. \A j \in printed : j.hash = Nil /\ j.hash \in Attempts
      BY <1>0, <3>1 DEF OneAuthority, TypeOK
    <3>3. \A a \in silent : a = Nil /\ a \in Attempts
      BY <1>0, <3>1 DEF OneAuthority, TypeOK
    <3> QED
      BY <1>0, <3>1, <3>2, <3>3 DEF OneAuthority
  <2>3. OneAuthority'
    BY <1>1, <2>2 DEF StartInit, OneAuthority, tokenVars
  <2> QED
    BY <2>1, <2>3 DEF Identity
<1>2. CASE CreateObject
  <2>1. /\ pc \in DOMAIN Plan /\ \A o \in Objects : obj'[o] \in {obj[o], files}
        /\ UNCHANGED <<files, run, printed, silent, wiped, serving>>
        /\ pc' \in {pc, "coredns", "get"}
    BY <1>2, EnsureFacts, AdvanceFacts, InPhase DEF CreateObject, runVars, tokenVars
  <2>2. files = run /\ files # Nil
    BY <2>1, InPhase
  <2> QED
    BY <1>0, <2>1, <2>2 DEF Identity, OwnFiles, OneAuthority
<1>3. CASE CreateFails
  <2>1. /\ pc \in DOMAIN Plan /\ \A o \in Objects : obj'[o] \in {obj[o], files}
        /\ UNCHANGED <<files, run, printed, silent, wiped, serving>>
    BY <1>3, EnsureFacts DEF CreateFails, tokenVars
  <2>2. files = run /\ files # Nil
    BY <2>1, InPhase
  <2> QED
    BY <1>0, <2>1, <2>2 DEF Identity, OwnFiles, OneAuthority
<1>4. CASE UpdateNode \/ MarkFails
  <2>1. /\ pc \in {"get", "update"} /\ pc' = "idle" /\ silent' \subseteq silent \cup {run}
        /\ UNCHANGED <<files, run, printed, wiped, obj, serving>>
    BY <1>4 DEF UpdateNode, MarkFails, EndInit, tokenVars
  <2>2. files = run
    BY <1>0, <2>1 DEF OwnFiles
  <2> QED
    BY <1>0, <2>1, <2>2 DEF Identity, OwnFiles, OneAuthority
<1>5. CASE GetNode \/ StartToken \/ RegisterToken \/ RegisterFails \/ Interrupt
  BY <1>0, <1>5
  DEF GetNode, StartToken, RegisterToken, RegisterFails, Interrupt, runVars, tokenVars,
      Identity, OwnFiles, OneAuthority
<1>6. CASE PrintToken
  BY <1>0, <1>6 DEF PrintToken, runVars, Identity, OwnFiles, OneAuthority
<1>7. CASE DeleteEtcKubernetes
  BY <1>0, <1>7 DEF DeleteEtcKubernetes, Identity, OwnFiles, OneAuthority
<1>8. CASE Reboot
  BY <1>8 DEF Reboot, Identity, OwnFiles, OneAuthority
<1>9. CASE \/ APIServerStarts \/ APIServerStops
           \/ KubeletRegisters \/ KubeletWrites \/ TokenExpires
  BY <1>0, <1>9
  DEF APIServerStarts, APIServerStops, KubeletRegisters, KubeletWrites, TokenExpires,
      runVars, tokenVars, Identity, OwnFiles, OneAuthority
<1> QED
  BY <1>1, <1>2, <1>3, <1>4, <1>5, <1>6, <1>7, <1>8, <1>9 DEF Next, UpStep, KoobadmStep

-----------------------------------------------------------------------------
(* The token and the Node object that a command holds.                     *)

LEMMA HandlesStep ==
    ASSUME IInv, Next
    PROVE  Handles'
<1> USE ConstantFacts
<1>0. TypeOK /\ Registered /\ PrintedMeansRegistered /\ Copied
  BY DEF IInv, Handles
<1>1. CASE \/ StartInit \/ CreateObject \/ CreateFails \/ StartToken \/ DeleteEtcKubernetes
           \/ APIServerStarts \/ APIServerStops
  <2>1. /\ UNCHANGED <<tokens, token, printed, node, copy>>
        /\ pc' \notin {"update", "print"} \/ pc' = pc
    BY <1>1, AdvanceFacts, InPhase
    DEF StartInit, CreateObject, CreateFails, NextPhase, StartToken, DeleteEtcKubernetes,
        APIServerStarts, APIServerStops, tokenVars
  <2> QED
    BY <1>0, <2>1 DEF Handles, Registered, PrintedMeansRegistered, Copied
<1>2. CASE GetNode
  <2>1. node.version \in Nat
    BY <1>0, <1>2 DEF GetNode, TypeOK, Nodes
  <2> QED
    BY <1>0, <1>2, <2>1
    DEF GetNode, tokenVars, Handles, Registered, PrintedMeansRegistered, Copied
<1>3. CASE UpdateNode \/ MarkFails
  BY <1>0, <1>3
  DEF UpdateNode, MarkFails, EndInit, tokenVars, Handles, Registered, PrintedMeansRegistered,
      Copied
<1>4. CASE RegisterToken \/ RegisterFails \/ TokenExpires
  <2>1. /\ UNCHANGED <<printed, node, copy>>
        /\ pc' # "update" \/ pc' = pc
        /\ \A t \in Tokens : tokens[t] # "unused" => tokens'[t] # "unused"
    BY <1>0, <1>4 DEF RegisterToken, RegisterFails, TokenExpires, Fresh, TypeOK
  <2>2. Registered'
    BY <1>0, <1>4 DEF RegisterToken, RegisterFails, TokenExpires, Fresh, Registered, TypeOK
  <2>3. PrintedMeansRegistered'
    BY <1>0, <2>1 DEF PrintedMeansRegistered, TypeOK
  <2> QED
    BY <1>0, <2>1, <2>2, <2>3 DEF Handles, Copied
<1>5. CASE PrintToken
  <2>1. PrintedMeansRegistered'
    BY <1>0, <1>5 DEF PrintToken, Registered, PrintedMeansRegistered
  <2> QED
    BY <1>0, <1>5, <2>1 DEF PrintToken, Handles, Registered, Copied
<1>6. CASE Interrupt \/ Reboot
  BY <1>0, <1>6
  DEF Interrupt, Reboot, Handles, Registered, PrintedMeansRegistered, Copied
<1>7. CASE KubeletRegisters
  BY <1>0, <1>7
  DEF KubeletRegisters, tokenVars, Handles, Registered, PrintedMeansRegistered, Copied
<1>8. CASE KubeletWrites
  <2>1. node' # Nil /\ node'.version = node.version + 1 /\ node \in Nodes
    BY <1>0, <1>8, WrittenFacts
  <2>2. copy # Nil => copy.version < node'.version /\ copy.version \in Nat /\ node'.version \in Nat
    BY <1>0, <2>1 DEF Copied, TypeOK, Nodes
  <2>3. UNCHANGED <<pc, copy, tokens, token, printed>>
    BY <1>8 DEF KubeletWrites, tokenVars
  <2>4. Copied'
    BY <1>0, <2>1, <2>2, <2>3 DEF Copied
  <2> QED
    BY <1>0, <2>3, <2>4 DEF Handles, Registered, PrintedMeansRegistered
<1> QED
  BY <1>1, <1>2, <1>3, <1>4, <1>5, <1>6, <1>7, <1>8 DEF Next, UpStep, KoobadmStep

-----------------------------------------------------------------------------

LEMMA StepInv == IInv /\ [Next]_vars => IInv'
<1>1. ASSUME IInv, UNCHANGED vars PROVE IInv'
  BY <1>1
  DEF vars, runVars, tokenVars, IInv, TypeOK, Progress, InOrder, SoFar, Behind,
      SilentMeansComplete, Exist, Identity, OwnFiles, OneAuthority, Handles, Registered,
      PrintedMeansRegistered, Copied
<1>2. ASSUME IInv, Next PROVE IInv'
  BY <1>2, TypeStep, ProgressStep, IdentityStep, HandlesStep DEF IInv
<1> QED
  BY <1>1, <1>2

-----------------------------------------------------------------------------
(* What a step of the node leaves as it was, for those that depend on it.  *)

\* A Secret is created once and expires once.
LEMMA TokensAge ==
    ASSUME IInv, Next, NEW t \in Tokens, tokens[t] # "unused"
    PROVE  tokens'[t] # "unused" /\ (tokens'[t] = "valid" => tokens[t] = "valid")
<1>0. TypeOK
  BY DEF IInv
<1>1. CASE Reboot
  BY <1>0, <1>1 DEF Reboot, TypeOK
<1>2. CASE RegisterToken \/ RegisterFails \/ TokenExpires
  BY <1>0, <1>2 DEF RegisterToken, RegisterFails, TokenExpires, Fresh, TypeOK
<1>3. CASE UNCHANGED tokens
  BY <1>3
<1> QED
  BY <1>1, <1>2, <1>3
  DEF tokenVars, Next, UpStep, KoobadmStep, StartInit, CreateObject, CreateFails, GetNode,
      UpdateNode, MarkFails, EndInit, StartToken, PrintToken, Interrupt,
      DeleteEtcKubernetes, APIServerStarts, APIServerStops, KubeletRegisters, KubeletWrites

\* Nothing is deleted from etcd while the node is up.
LEMMA ObjectsStay ==
    ASSUME IInv, UpStep, NEW o \in Objects, obj[o] # Nil
    PROVE  obj'[o] = obj[o]
<1>1. CASE CreateObject \/ CreateFails
  BY <1>1, EnsureFacts DEF CreateObject, CreateFails
<1>2. CASE UNCHANGED obj
  BY <1>2
<1> QED
  BY <1>1, <1>2
  DEF UpStep, KoobadmStep, StartInit, GetNode, UpdateNode, MarkFails, EndInit, StartToken,
      RegisterToken, RegisterFails, PrintToken, Interrupt, DeleteEtcKubernetes,
      APIServerStarts, APIServerStops, KubeletRegisters, KubeletWrites, TokenExpires

\* A command is shown one at a time, by token create only.
LEMMA ShownKept ==
    ASSUME IInv, UpStep
    PROVE  \/ printed' = printed
           \/ /\ token \in Tokens /\ files \in Attempts
              /\ printed' = printed \cup {[token |-> token, hash |-> files]}
<1>1. CASE PrintToken
  BY <1>1 DEF PrintToken, IInv, TypeOK, Handles, Registered, Identity, OwnFiles
<1>2. CASE UNCHANGED printed
  BY <1>2
<1> QED
  BY <1>1, <1>2
  DEF tokenVars, UpStep, KoobadmStep, StartInit, CreateObject, CreateFails, GetNode,
      UpdateNode, MarkFails, EndInit, StartToken, RegisterToken, RegisterFails, Interrupt,
      DeleteEtcKubernetes, APIServerStarts, APIServerStops, KubeletRegisters, KubeletWrites,
      TokenExpires

\* An authority on disk is there until a wipe.
LEMMA FilesStay ==
    ASSUME UpStep, files # Nil, ~wiped'
    PROVE  ~wiped /\ files' = files
<1>1. UNCHANGED <<files, wiped>>
  BY DEF runVars, UpStep, KoobadmStep, StartInit, CreateObject, CreateFails, GetNode,
         UpdateNode, MarkFails, EndInit, StartToken, RegisterToken, RegisterFails,
         PrintToken, Interrupt, DeleteEtcKubernetes, APIServerStarts, APIServerStops,
         KubeletRegisters, KubeletWrites, TokenExpires
<1> QED BY <1>1

-----------------------------------------------------------------------------

\* IInv holds of every reachable state.
THEOREM Invariance == Spec => []IInv
BY InitInv, StepInv, PTL DEF Spec

\* Every variable keeps its type.
THEOREM TypeCorrect == Spec => []TypeOK
<1>1. IInv => TypeOK
  BY DEF IInv
<1> QED
  BY <1>1, Invariance, PTL

LEMMA JoinableInv == IInv => DiscoverableMeansJoinable
<1>1. ASSUME IInv, Discoverable, NEW j \in 1..NJoin
      PROVE  obj[RBAC[j]] # Nil
  <2>1. PICK i \in (NJoin + 1)..Len(RBAC) : ClusterInfo = RBAC[i]
    BY ControlPlaneAssumption DEF ValidObjects, Discovery
  <2>2. NJoin \in Nat /\ Len(RBAC) \in Nat /\ NJoin < Len(RBAC)
    BY ControlPlaneAssumption DEF ValidObjects
  <2>3. i \in 1..Len(RBAC) /\ j \in 1..Len(RBAC) /\ j < i
    BY <2>1, <2>2
  <2>4. obj[RBAC[i]] # Nil
    BY <1>1, <2>1 DEF Discoverable, Exist
  <2> QED
    BY <1>1, <2>3, <2>4, PlanFacts DEF IInv, Progress, InOrder
<1> QED
  BY <1>1 DEF DiscoverableMeansJoinable, JoinRBAC, Exist

\* cluster-info is never readable before the roles of the join are bound.
THEOREM JoinableFirst == Spec => []DiscoverableMeansJoinable
BY JoinableInv, Invariance, PTL

\* CoreDNS is never deployed before what it needs exists.
THEOREM ConfiguredFirst == Spec => []DeployedMeansConfigured
<1>1. IInv => DeployedMeansConfigured
  BY PlanFacts DEF IInv, Progress, InOrder, DeployedMeansConfigured
<1> QED
  BY <1>1, Invariance, PTL

\* An init that did not warn is complete.
THEOREM SilenceIsSuccess == Spec => []SilentMeansComplete
<1>1. IInv => SilentMeansComplete
  BY DEF IInv, Progress
<1> QED
  BY <1>1, Invariance, PTL

\* No join command is shown with a token that was not registered.
THEOREM RegisteredFirst == Spec => []PrintedMeansRegistered
<1>1. IInv => PrintedMeansRegistered
  BY DEF IInv, Handles
<1> QED
  BY <1>1, Invariance, PTL

\* A join command agrees with cluster-info until a wipe.
THEOREM CommandsAgree == Spec => []HashMatchesDiscovery
<1>1. ASSUME IInv, ~wiped, NEW j \in printed, j.hash \in silent
      PROVE  obj[ClusterInfo] = j.hash
  <2>1. obj[ClusterInfo] # Nil
    BY <1>1, ConstantFacts DEF IInv, Progress, SilentMeansComplete, Exist
  <2> QED
    BY <1>1, <2>1, ConstantFacts DEF IInv, Identity, OneAuthority
<1>2. IInv => HashMatchesDiscovery
  BY <1>1 DEF HashMatchesDiscovery
<1> QED
  BY <1>2, Invariance, PTL

\* MarkControlPlane never undoes a write of the kubelet.
THEOREM WritesSurvive == Spec => NoLostUpdate
<1>1. ASSUME IInv, [Next]_vars, node # Nil, node' # Nil
      PROVE  node'.writes >= node.writes
  <2>0. TypeOK /\ Copied /\ node \in Nodes /\ node.writes \in Nat
    BY <1>1, ConstantFacts DEF IInv, Handles, TypeOK, Nodes
  <2>1. CASE UpdateNode
    BY <2>0, <2>1, MarkedFacts, ConstantFacts DEF UpdateNode, Copied, TypeOK
  <2>2. CASE KubeletWrites
    BY <2>0, <2>2, WrittenFacts
  <2>3. CASE UNCHANGED node
    BY <2>0, <2>3
  <2>4. UpdateNode \/ KubeletWrites \/ UNCHANGED node
    BY <1>1
    DEF vars, runVars, tokenVars, Next, UpStep, KoobadmStep, StartInit, CreateObject, CreateFails,
        GetNode, MarkFails, StartToken, RegisterToken, RegisterFails, PrintToken, Interrupt,
        DeleteEtcKubernetes, Reboot, APIServerStarts, APIServerStops, KubeletRegisters,
        TokenExpires
  <2> QED
    BY <2>1, <2>2, <2>3, <2>4
<1>2. IInv /\ [Next]_vars => [node # Nil /\ node' # Nil => node'.writes >= node.writes]_vars
  BY <1>1
<1> QED
  BY <1>2, Invariance, PTL DEF Spec, NoLostUpdate
=============================================================================
