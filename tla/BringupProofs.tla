---------------------------- MODULE BringupProofs ----------------------------
(***************************************************************************)
(* Theorems about Bringup for any list of files, any number of attempts    *)
(* and any process table.                                                  *)
(*                                                                         *)
(* Bringup implements NodeInit: what runs beside init changes none of its  *)
(* files, so NodeInit's invariant holds here.  ClusterIsOne then needs what *)
(* the processes have read: the running kubelet has read the kubelet.conf  *)
(* on disk (LoadedOnDisk), the running API server the PKI on disk          *)
(* (ServingOnDisk), whose manifests came after admin.conf (ManifestsLate), *)
(* and nothing names an attempt that is still to come (NoneFuture).        *)
(***************************************************************************)
EXTENDS Bringup, TLAPS

NP == INSTANCE NodeInitProofs

\* Unless its files were wiped, the kubelet's identity is the one on disk.
LoadedOnDisk == loaded \in current => by[KubeletConf] = loaded

\* Unless its files were wiped, the API server's certificates are on disk,
\* and the guard on admin.conf protects them.
ServingOnDisk ==
    serving \in current => by[NP!AdminConf] # Nil /\ NP!OneAuthor(NP!Pki, serving)

\* A manifest of a current attempt stands beside an admin.conf.
ManifestsLate == \A f \in Manifests : by[f] \in current => by[NP!AdminConf] # Nil

\* What is on disk and what was read is of attempts that have started.
NoneFuture ==
    /\ \A f \in NP!Files : by[f] \in Attempts => by[f] <= latest
    /\ loaded \in Attempts => loaded <= latest
    /\ serving \in Attempts => serving <= latest

OwnTypeOK ==
    /\ loaded \in Attempts \cup {Nil}
    /\ serving \in Attempts \cup {Nil}
    /\ registered \in BOOLEAN

IInv ==
    /\ NP!IInv
    /\ OwnTypeOK
    /\ LoadedOnDisk /\ ServingOnDisk /\ ManifestsLate /\ NoneFuture

-----------------------------------------------------------------------------

\* The two instances of NodeInit are one specification.
LEMMA SameFiles ==
    /\ Node!N = NP!N /\ Node!Post = NP!Post /\ Node!vars = NP!vars
    /\ Node!Files = NP!Files /\ Node!Pki = NP!Pki /\ Node!Confs = NP!Confs
    /\ Node!AdminConf = NP!AdminConf
    /\ Attempts = NP!Attempts /\ Node!Attempts = NP!Attempts
    /\ NP!Layout
<1>1. /\ Node!N = NP!N /\ Node!Post = NP!Post /\ Node!vars = NP!vars
      /\ Attempts = NP!Attempts /\ Node!Attempts = NP!Attempts
      /\ Node!AdminConf = NP!AdminConf
  BY DEF Node!N, NP!N, Node!Post, NP!Post, Node!vars, NP!vars, Node!Attempts, NP!Attempts, Node!AdminConf, NP!AdminConf, Attempts
<1>2. Node!Files = NP!Files /\ Node!Pki = NP!Pki /\ Node!Confs = NP!Confs
  BY <1>1 DEF Node!Files, NP!Files, Node!Pki, NP!Pki, Node!Confs, NP!Confs
<1>3. NP!Layout
  BY <1>1, <1>2, BringupAssumption DEF Node!Layout, NP!Layout
<1> QED BY <1>1, <1>2, <1>3

LEMMA SameSteps ==
    /\ Node!Init <=> NP!Init
    /\ \A a \in Attempts : Node!Start(a) <=> NP!Start(a)
    /\ \A a \in Attempts : Node!AttemptStep(a) <=> NP!AttemptStep(a)
    /\ \A a \in Attempts : Node!Kill(a) <=> NP!Kill(a)
    /\ Node!DeleteEtcKubernetes <=> NP!DeleteEtcKubernetes
    /\ Node!Reboot <=> NP!Reboot
<1>1. Node!Init <=> NP!Init
  BY SameFiles DEF Node!Init, NP!Init
<1>2. \A a \in Attempts : Node!Start(a) <=> NP!Start(a)
  BY SameFiles DEF Node!Start, NP!Start, Node!Idle, NP!Idle
<1>3. \A a \in Attempts : Node!StopWriting(a, "failed") <=> NP!StopWriting(a, "failed")
  BY SameFiles DEF Node!StopWriting, NP!StopWriting, Node!Writing, NP!Writing
<1>4. \A F : Node!OnDisk(F) = NP!OnDisk(F)
  BY SameFiles DEF Node!OnDisk, NP!OnDisk, Node!OneAuthor, NP!OneAuthor
<1>5. \A a \in Attempts : Node!WriteFile(a) <=> NP!WriteFile(a)
  BY SameFiles, <1>4 DEF Node!WriteFile, NP!WriteFile, Node!Writing, NP!Writing
<1>6. \A a \in Attempts : Node!Configure(a) <=> NP!Configure(a)
  BY SameFiles DEF Node!Configure, NP!Configure, Node!Configuring, NP!Configuring
<1>7. \A a \in Attempts : Node!Finish(a) <=> NP!Finish(a)
  BY SameFiles DEF Node!Finish, NP!Finish
<1>8. \A a \in Attempts : Node!AttemptStep(a) <=> NP!AttemptStep(a)
  BY <1>3, <1>5, <1>6, <1>7 DEF Node!AttemptStep, NP!AttemptStep, Node!WriteFails, NP!WriteFails
<1>9. \A a \in Attempts : Node!Kill(a) <=> NP!Kill(a)
  BY SameFiles DEF Node!Kill, NP!Kill, Node!StopWriting, NP!StopWriting, Node!Writing, NP!Writing, Node!Configuring, NP!Configuring
<1>10. Node!DeleteEtcKubernetes <=> NP!DeleteEtcKubernetes
  BY SameFiles DEF Node!DeleteEtcKubernetes, NP!DeleteEtcKubernetes, Node!Idle, NP!Idle
<1>11. Node!Reboot <=> NP!Reboot
  BY SameFiles DEF Node!Reboot, NP!Reboot
<1> QED BY <1>1, <1>2, <1>8, <1>9, <1>10, <1>11

-----------------------------------------------------------------------------
(* Facts about the files.                                                  *)

LEMMA FileFacts ==
    /\ NP!Pki \subseteq NP!Files /\ NP!Confs \subseteq NP!Files
    /\ NP!Pki # {} /\ NP!Pki \cap NP!Confs = {}
    /\ NP!AdminConf \in NP!Confs /\ KubeletConf \in NP!Confs
    /\ Manifests # {} /\ Manifests \subseteq NP!Files
    /\ Manifests \cap (NP!Pki \cup NP!Confs) = {}
    /\ Nil \notin Attempts /\ Torn \notin Attempts /\ Nil # Torn
    /\ Attempts = 1..MaxAttempts /\ MaxAttempts \in Nat
<1>1. /\ NP!Pki \subseteq NP!Files /\ NP!Confs \subseteq NP!Files
      /\ NP!Pki \cap NP!Confs = {}
      /\ NP!AdminConf \in NP!Confs /\ KubeletConf \in NP!Confs
  BY SameFiles, NP!FileFacts
<1>2. NP!Pki # {} /\ MaxAttempts \in Nat
      /\ Nil \notin NP!Attempts /\ Torn \notin NP!Attempts /\ Nil # Torn
  BY <1>1, SameFiles DEF NP!Layout
<1>3. Attempts = 1..MaxAttempts
  BY SameFiles DEF NP!Attempts
<1> QED
  BY <1>1, <1>2, <1>3, SameFiles, BringupAssumption

\* A whole kubelet.conf embeds the authority on disk.
LEMMA KubeletConfFacts ==
    ASSUME NP!IInv, by[KubeletConf] \in Attempts
    PROVE  /\ read[KubeletConf] = by[KubeletConf]
           /\ by[NP!AdminConf] # Nil
           /\ NP!OneAuthor(NP!Pki, by[KubeletConf])
<1>1. by[NP!AdminConf] # Nil
  BY FileFacts DEF NP!IInv, NP!AdminFirst
<1> QED
  BY <1>1, FileFacts DEF NP!IInv, NP!ConfsMatch

\* What a running attempt is about to write, and what that says of the disk.
LEMMA NextFile ==
    ASSUME NP!IInv, NEW a \in Attempts, status[a] = "running", step \in 1..NP!N
    PROVE  /\ Steps[step] \in NP!Files
           /\ Steps[step] \in NP!Pki => by[NP!AdminConf] = Nil
           /\ Steps[step] \in NP!Confs => by[Steps[step]] = Nil
           /\ Steps[step] \notin NP!Pki \cup NP!Confs => by[NP!AdminConf] = a
<1>1. /\ NP!Written(a, step - 1)
      /\ \A i \in 1..NP!N : i >= step /\ Steps[i] \in NP!Confs => by[Steps[i]] = Nil
  BY SameFiles DEF NP!IInv, NP!Progress
<1>2. /\ Steps[step] \in NP!Files
      /\ Steps[step] \in NP!Pki <=> step <= NPki
      /\ Steps[step] \in NP!Confs <=> step > NPki /\ step <= NPki + NConf
  BY SameFiles, NP!StepFacts
<1>3. NP!AdminConf = Steps[NPki + 1] /\ NPki + 1 \in 1..NP!N
      /\ NPki \in Nat /\ NConf \in Nat /\ NConf > 0
  BY SameFiles, NP!ConstFacts DEF NP!AdminConf
<1>4. Steps[step] \in NP!Pki => by[NP!AdminConf] = Nil
  BY <1>1, <1>2, <1>3, FileFacts
<1>5. Steps[step] \notin NP!Pki \cup NP!Confs => by[NP!AdminConf] = a
  BY <1>1, <1>2, <1>3 DEF NP!Written
<1> QED BY <1>1, <1>2, <1>4, <1>5

-----------------------------------------------------------------------------
(* What each step of init and of the operator does to what was read.       *)

Read == LoadedOnDisk /\ ServingOnDisk /\ ManifestsLate /\ NoneFuture

LEMMA StartReads ==
    ASSUME IInv, NEW a \in Attempts, NP!Start(a), UNCHANGED clusterVars
    PROVE  Read'
<1>1. /\ by' = by /\ latest' = latest + 1 /\ a = latest + 1 /\ latest \in Nat
      /\ current' = current \cup {a} /\ loaded' = loaded /\ serving' = serving
  BY DEF IInv, NP!IInv, NP!TypeOK, NP!Start, clusterVars
<1>2. loaded # a /\ serving # a /\ \A f \in Manifests : by[f] # a
  BY <1>1, FileFacts DEF IInv, NoneFuture
<1>3. NoneFuture'
  BY <1>1, FileFacts DEF IInv, NoneFuture
<1>4. LoadedOnDisk' /\ ServingOnDisk' /\ ManifestsLate'
  BY <1>1, <1>2
  DEF IInv, LoadedOnDisk, ServingOnDisk, ManifestsLate, NP!OneAuthor, NP!AdminConf
<1> QED BY <1>3, <1>4 DEF Read

\* One file is written, torn or left as it is.
LEMMA FileReads ==
    ASSUME IInv, NEW a \in Attempts, status[a] = "running", step \in 1..NP!N,
           NEW v \in {a, Torn},
           by' = by \/ by' = [by EXCEPT ![Steps[step]] = v],
           UNCHANGED <<latest, current, loaded, serving>>
    PROVE  Read'
<1> DEFINE f == Steps[step]
<1>0. /\ by \in [NP!Files -> NP!Author] /\ current \subseteq Attempts /\ a = latest
      /\ latest \in Nat
  BY SameFiles DEF IInv, NP!IInv, NP!TypeOK, NP!Serial
<1>1. /\ f \in NP!Files
      /\ f \in NP!Pki => by[NP!AdminConf] = Nil
      /\ f \in NP!Confs => by[f] = Nil
      /\ f \notin NP!Pki \cup NP!Confs => by[NP!AdminConf] = a
  BY NextFile DEF IInv
<1>2. \A g \in NP!Files : by'[g] = by[g] \/ (g = f /\ by'[g] = v)
  BY <1>0, <1>1
<1>3. LoadedOnDisk'
  BY <1>0, <1>1, <1>2, FileFacts DEF IInv, LoadedOnDisk
<1>4. by[NP!AdminConf] # Nil => by'[NP!AdminConf] # Nil
  BY <1>2, FileFacts
<1>5. NP!AdminConf' = NP!AdminConf
  BY DEF NP!AdminConf
<1>6. ServingOnDisk'
  <2> SUFFICES ASSUME serving \in current
               PROVE  by'[NP!AdminConf] # Nil /\ \A g \in NP!Pki : by'[g] = serving
    BY <1>5 DEF ServingOnDisk, NP!OneAuthor
  <2>1. by[NP!AdminConf] # Nil /\ \A g \in NP!Pki : by[g] = serving
    BY DEF IInv, ServingOnDisk, NP!OneAuthor
  <2> QED
    BY <1>1, <1>2, <1>4, <2>1, FileFacts
<1>7. ManifestsLate'
  <2> SUFFICES ASSUME NEW g \in Manifests, by'[g] \in current
               PROVE  by'[NP!AdminConf] # Nil
    BY <1>5 DEF ManifestsLate
  <2>1. CASE by'[g] = by[g]
    BY <1>4, <2>1 DEF IInv, ManifestsLate
  <2>2. CASE g = f /\ by'[g] = v
    BY <1>1, <1>4, <2>2, FileFacts
  <2> QED
    BY <1>2, <2>1, <2>2, FileFacts
<1>8. NoneFuture'
  BY <1>0, <1>2, FileFacts DEF IInv, NoneFuture
<1> QED BY <1>3, <1>6, <1>7, <1>8 DEF Read

\* The files are wiped, by the operator or by a reboot.
LEMMA WipeReads ==
    ASSUME IInv, NP!DeleteEtcKubernetes \/ NP!Reboot,
           UNCHANGED <<loaded, serving>> \/ (loaded' = Nil /\ serving' = Nil)
    PROVE  Read'
<1>1. current' = {} /\ latest' = latest
  BY DEF NP!DeleteEtcKubernetes, NP!Reboot
<1>2. \A f \in NP!Files : by'[f] = by[f] \/ by'[f] = Nil
  BY DEF NP!DeleteEtcKubernetes, NP!Reboot
<1> QED
  BY <1>1, <1>2, FileFacts
  DEF Read, IInv, LoadedOnDisk, ServingOnDisk, ManifestsLate, NoneFuture

\* The files, the attempts and what was read stay as they are.
LEMMA NothingRead ==
    ASSUME IInv, UNCHANGED <<by, latest, current, loaded, serving>>
    PROVE  Read'
BY DEF IInv, Read, LoadedOnDisk, ServingOnDisk, ManifestsLate, NoneFuture,
       NP!OneAuthor, NP!AdminConf

\* A step of init, whichever it is.
LEMMA AttemptReads ==
    ASSUME IInv, NEW a \in Attempts, NP!AttemptStep(a) \/ NP!Kill(a),
           UNCHANGED clusterVars
    PROVE  Read'
<1>0. UNCHANGED <<loaded, serving>> /\ step \in Nat \ {0}
  BY DEF clusterVars, IInv, NP!IInv, NP!TypeOK
<1>1. CASE NP!WriteFile(a)
  <2>1. /\ status[a] = "running" /\ step \in 1..NP!N
        /\ by' = [by EXCEPT ![Steps[step]] = a] /\ UNCHANGED <<latest, current>>
    BY <1>0, <1>1, SameFiles, NP!ConstFacts DEF NP!WriteFile, NP!Writing
  <2> QED
    BY <1>0, <2>1, FileReads
<1>2. ASSUME NEW how \in {"failed", "killed"}, NP!StopWriting(a, how)
      PROVE  Read'
  BY <1>0, <1>2, FileReads, SameFiles, NP!ConstFacts DEF NP!StopWriting, NP!Writing
<1>3. CASE NP!Configure(a) \/ NP!Finish(a)
  BY <1>0, <1>3, NothingRead DEF NP!Configure, NP!Finish
<1>4. CASE NP!Kill(a)
  BY <1>0, <1>2, <1>4, NothingRead DEF NP!Kill
<1> QED
  BY <1>1, <1>2, <1>3, <1>4 DEF NP!AttemptStep, NP!WriteFails

-----------------------------------------------------------------------------
(* Every step.                                                             *)

LEMMA InitInv == Init => IInv
<1> SUFFICES ASSUME Init
             PROVE  IInv
  OBVIOUS
<1>1. NP!IInv
  BY SameFiles, SameSteps, NP!InitInv DEF Init
<1>2. OwnTypeOK /\ current = {} /\ latest = 0 /\ \A f \in NP!Files : by[f] = Nil
  BY SameSteps DEF Init, OwnTypeOK, NP!Init
<1> QED
  BY <1>1, <1>2, FileFacts
  DEF Init, IInv, LoadedOnDisk, ServingOnDisk, ManifestsLate, NoneFuture

\* Whatever runs beside init, its files change by its own steps only.
LEMMA NodeStep == [Next]_vars => [NP!Next]_(NP!vars)
<1>1. ASSUME NEW a \in Attempts, InitStep(a)
      PROVE  NP!Next
  BY <1>1, SameFiles, SameSteps DEF InitStep, NP!Next
<1>2. CASE OperatorStep
  BY <1>2, SameFiles, SameSteps DEF OperatorStep, NP!Next
<1>3. CASE Reboot
  BY <1>3, SameSteps DEF Reboot, NP!Next
<1>4. ASSUME \/ SupervisorStep \/ Reap \/ KubeletLoads \/ KubeletDies
             \/ PodsFollowManifests \/ Register \/ UNCHANGED vars
      PROVE  UNCHANGED NP!vars
  BY <1>4 DEF SupervisorStep, Reap, KubeletLoads, KubeletDies, PodsFollowManifests,
              Register, vars, nodeVars, NP!vars
<1> QED
  BY <1>1, <1>2, <1>3, <1>4 DEF Next

LEMMA StepInv == IInv /\ [Next]_vars => IInv'
<1> SUFFICES ASSUME IInv, [Next]_vars
             PROVE  IInv'
  OBVIOUS
<1>1. NP!IInv'
  BY SameFiles, NodeStep, NP!StepInv DEF IInv
<1> SUFFICES OwnTypeOK' /\ Read'
  BY <1>1 DEF IInv, Read
<1>2. ASSUME NEW a \in Attempts, InitStep(a)
      PROVE  OwnTypeOK' /\ Read'
  BY <1>2, SameSteps, AttemptReads
  DEF InitStep, FilesOnly, clusterVars, IInv, OwnTypeOK
<1>3. CASE OperatorStep
  <2>1. UNCHANGED clusterVars
    BY <1>3 DEF OperatorStep, FilesOnly
  <2>2. OwnTypeOK'
    BY <2>1 DEF clusterVars, IInv, OwnTypeOK
  <2>3. CASE \E a \in Attempts : Node!Start(a)
    BY <2>1, <2>2, <2>3, SameSteps, StartReads
  <2>4. CASE \E a \in Attempts : Node!Kill(a)
    BY <2>1, <2>2, <2>4, SameSteps, AttemptReads
  <2>5. CASE Node!DeleteEtcKubernetes
    BY <2>1, <2>2, <2>5, SameSteps, WipeReads DEF clusterVars
  <2> QED
    BY <1>3, <2>3, <2>4, <2>5 DEF OperatorStep
<1>4. CASE SupervisorStep \/ Reap \/ Register \/ UNCHANGED vars
  BY <1>4, NothingRead
  DEF SupervisorStep, Reap, Register, vars, nodeVars, clusterVars, IInv, OwnTypeOK
\* The kubelet reads a kubelet.conf that is whole, hence the authority on disk.
<1>5. CASE KubeletLoads
  <2>1. UNCHANGED nodeVars /\ UNCHANGED <<serving, registered>>
    BY <1>5 DEF KubeletLoads
  <2>2. CASE loaded' = loaded
    BY <2>1, <2>2, NothingRead DEF nodeVars, IInv, OwnTypeOK
  <2>3. CASE loaded' # loaded
    <3>1. by[KubeletConf] \in Attempts /\ loaded' = read[KubeletConf]
      BY <1>5, <2>3 DEF KubeletLoads, Whole
    <3>2. loaded' = by[KubeletConf]
      BY <3>1, KubeletConfFacts DEF IInv
    <3> QED
      BY <2>1, <3>1, <3>2, FileFacts
      DEF nodeVars, IInv, OwnTypeOK, Read, LoadedOnDisk, ServingOnDisk,
          ManifestsLate, NoneFuture, NP!OneAuthor, NP!AdminConf
  <2> QED BY <2>2, <2>3
<1>6. CASE KubeletDies
  <2>1. loaded' = Nil /\ UNCHANGED nodeVars /\ UNCHANGED <<serving, registered>>
    BY <1>6 DEF KubeletDies
  <2>2. Nil \notin current
    BY FileFacts, SameFiles DEF IInv, NP!IInv, NP!TypeOK
  <2> QED
    BY <2>1, <2>2, FileFacts
    DEF nodeVars, IInv, OwnTypeOK, Read, LoadedOnDisk, ServingOnDisk, ManifestsLate,
        NoneFuture, NP!OneAuthor, NP!AdminConf
\* The pods run when the manifests and the PKI are of one attempt.
<1>7. CASE PodsFollowManifests
  <2>1. UNCHANGED nodeVars /\ UNCHANGED <<loaded, registered>>
    BY <1>7 DEF PodsFollowManifests
  <2>2. CASE serving' = Nil
    BY <2>1, <2>2, FileFacts, SameFiles
    DEF nodeVars, IInv, OwnTypeOK, Read, LoadedOnDisk, ServingOnDisk,
        ManifestsLate, NoneFuture, NP!OneAuthor, NP!AdminConf, NP!IInv, NP!TypeOK
  <2>3. CASE serving' # Nil
    <3>1. /\ \E a \in Attempts : \A f \in Manifests \cup Node!Pki : by[f] = a
          /\ serving' = CHOOSE a \in Attempts : \A f \in Manifests \cup Node!Pki : by[f] = a
      BY <1>7, <2>3, SameFiles DEF PodsFollowManifests, Node!OneAuthor, Node!OnDisk
    <3>2. serving' \in Attempts /\ \A f \in Manifests \cup NP!Pki : by[f] = serving'
      BY <3>1, SameFiles
    <3>3. NoneFuture'
      BY <2>1, <3>2, FileFacts DEF nodeVars, IInv, NoneFuture
    <3>4. LoadedOnDisk' /\ ServingOnDisk' /\ ManifestsLate'
      BY <2>1, <3>2, FileFacts
      DEF nodeVars, IInv, LoadedOnDisk, ServingOnDisk, ManifestsLate, NP!OneAuthor,
          NP!AdminConf
    <3> QED
      BY <2>1, <3>2, <3>3, <3>4 DEF IInv, OwnTypeOK, Read
  <2> QED BY <2>2, <2>3
<1>8. CASE Reboot
  BY <1>8, SameSteps, WipeReads DEF Reboot, OwnTypeOK
<1> QED
  BY <1>2, <1>3, <1>4, <1>5, <1>6, <1>7, <1>8 DEF Next

\* IInv holds of every reachable state.
THEOREM Invariance == Spec => []IInv
BY InitInv, StepInv, PTL DEF Spec

-----------------------------------------------------------------------------

\* Without a wipe of /etc/kubernetes the kubelet and the API server that run
\* are of the one authority on disk, for any list of files, any number of
\* inits and whatever fails, dies or is late.
THEOREM OneAuthority == Spec => []ClusterIsOne
<1>1. ASSUME IInv, loaded \in current
      PROVE  by[KubeletConf] = loaded /\ (serving \in current => loaded = serving)
  <2>1. by[KubeletConf] = loaded /\ loaded \in Attempts
    BY <1>1, SameFiles DEF IInv, LoadedOnDisk, NP!IInv, NP!TypeOK
  <2>2. NP!OneAuthor(NP!Pki, loaded)
    BY <1>1, <2>1, KubeletConfFacts DEF IInv
  <2> QED
    BY <1>1, <2>1, <2>2, FileFacts DEF IInv, ServingOnDisk, NP!OneAuthor
<1>2. IInv => ClusterIsOne
  BY <1>1 DEF ClusterIsOne
<1> QED
  BY <1>2, Invariance, PTL

\* What runs beside init takes nothing from it: a behaviour of the node is
\* one of init alone, so all that is proved of NodeInit holds here.
THEOREM ImplementsInit == Spec => Node!Spec
<1>1. Init => Node!Init
  BY DEF Init
<1>2. [Next]_vars => [Node!Next]_(Node!vars)
  <2>1. NP!Next <=> Node!Next
    BY SameFiles, SameSteps DEF NP!Next, Node!Next
  <2> QED
    BY <2>1, NodeStep DEF NP!vars, Node!vars
<1> QED
  BY <1>1, <1>2, PTL DEF Spec, Node!Spec
-----------------------------------------------------------------------------
(* The types of koobd's part.                                              *)

SupTypeOK == Sup!TableTypeOK /\ Sup!SupervisorTypeOK

LEMMA InitType == Init => SupTypeOK
BY DEF Init, SupTypeOK, Sup!TableInit, Sup!TableTypeOK, Sup!SupervisorTypeOK,
       Sup!Waiters, Sup!Zombie, Sup!Reasons

\* What the process table allows keeps its type.
LEMMA TableType ==
    ASSUME Sup!TableTypeOK, NEW p \in Procs, NEW w \in Sup!Waiters,
           \/ Sup!Spawn(w, p) \/ Sup!Exit(p) \/ Sup!Kill(p)
           \/ Sup!Collect(w) \/ Sup!CollectNothing(w) \/ Sup!CollectAny(p)
    PROVE  Sup!TableTypeOK'
BY DEF Sup!TableTypeOK, Sup!Spawn, Sup!Exit, Sup!Kill, Sup!Collect,
       Sup!CollectNothing, Sup!CollectAny, Sup!Waiters, Sup!Zombie

LEMMA RunStepType ==
    ASSUME SupTypeOK, Sup!RunStep(Kubelet)
    PROVE  SupTypeOK'
<1> USE DEF SupTypeOK
<1>1. Kubelet \in Sup!Waiters
  BY DEF Sup!Waiters
<1>2. Sup!TableTypeOK'
  <2>1. CASE UNCHANGED Sup!tableVars
    BY <2>1 DEF Sup!tableVars, Sup!TableTypeOK
  <2>2. CASE \E p \in Procs : Sup!Spawn(Kubelet, p) \/ Sup!Kill(p)
    BY <1>1, <2>2, TableType
  <2>3. CASE Sup!Collect(Kubelet)
    <3>1. PICK p \in Procs : p = child[Kubelet]
      BY <2>3 DEF Sup!Collect
    <3> QED
      BY <1>1, <2>3, <3>1, TableType
  <2>4. CASE Sup!CollectNothing(Kubelet)
    BY <1>1, <2>4 DEF Sup!CollectNothing, Sup!TableTypeOK
  <2> QED
    BY <2>1, <2>2, <2>3, <2>4
    DEF Sup!RunStep, Sup!TriggerTick, Sup!SelectDone, Sup!EnterRunOnce, Sup!StartFails,
        Sup!StartChild, Sup!KillOnCancel, Sup!WaitSucceeds, Sup!WaitExitError,
        Sup!WaitNoChild, Sup!BackoffElapses
<1>3. Sup!SupervisorTypeOK'
  BY DEF Sup!SupervisorTypeOK, Sup!RunStep, Sup!TriggerTick, Sup!SelectDone,
         Sup!EnterRunOnce, Sup!StartFails, Sup!StartChild, Sup!KillOnCancel,
         Sup!WaitSucceeds, Sup!WaitExitError, Sup!WaitNoChild, Sup!BackoffElapses,
         Sup!Go, Sup!Return, Sup!Reasons, Sup!supervisorVars
<1> QED BY <1>2, <1>3

LEMMA StepType == SupTypeOK /\ [Next]_vars => SupTypeOK'
<1> SUFFICES ASSUME SupTypeOK, [Next]_vars
             PROVE  SupTypeOK'
  OBVIOUS
<1> USE DEF SupTypeOK
<1>1. ASSUME TriggerFollowsFile, UNCHANGED <<table, owner, child, pc, why, cancelled>>
      PROVE  SupTypeOK'
  BY <1>1 DEF TriggerFollowsFile, Sup!TableTypeOK, Sup!SupervisorTypeOK
<1>2. CASE OperatorStep \/ \E a \in Attempts : InitStep(a)
  BY <1>1, <1>2 DEF OperatorStep, InitStep, FilesOnly
<1>3. CASE SupervisorStep
  BY <1>3, RunStepType DEF SupervisorStep
<1>4. CASE Reap
  <2>1. PICK p \in Procs : Sup!CollectAny(p)
    BY <1>4 DEF Reap
  <2>2. Sup!TableTypeOK'
    BY <2>1, TableType DEF Sup!Waiters
  <2> QED
    BY <1>4, <2>2 DEF Reap, Sup!SupervisorTypeOK
<1>5. CASE KubeletLoads
  BY <1>5 DEF KubeletLoads, Sup!TableTypeOK, Sup!SupervisorTypeOK, Sup!Zombie
<1>6. CASE KubeletDies
  <2>1. PICK p \in Running : Sup!Exit(p)
    BY <1>6 DEF KubeletDies
  <2>2. Sup!TableTypeOK'
    BY <2>1, TableType DEF Running, Sup!Running, Sup!Waiters
  <2> QED
    BY <1>6, <2>2 DEF KubeletDies, Sup!SupervisorTypeOK
<1>7. CASE PodsFollowManifests \/ Register \/ UNCHANGED vars
  BY <1>7 DEF PodsFollowManifests, Register, vars, supVars, Sup!TableTypeOK,
              Sup!SupervisorTypeOK
<1>8. CASE Reboot
  BY <1>8 DEF Reboot, Sup!TableTypeOK, Sup!SupervisorTypeOK, Sup!Waiters, Sup!Zombie,
              Sup!Reasons
<1> QED
  BY <1>2, <1>3, <1>4, <1>5, <1>6, <1>7, <1>8 DEF Next

\* Every variable of init, koobd and the kubelet keeps its type.
THEOREM TypeCorrect == Spec => []TypeOK
<1>1. Spec => []SupTypeOK
  BY InitType, StepType, PTL DEF Spec
<1>2. Node!TypeOK <=> NP!TypeOK
  BY SameFiles DEF Node!TypeOK, NP!TypeOK, Node!Author, NP!Author
<1>3. IInv /\ SupTypeOK => TypeOK
  BY <1>2 DEF IInv, NP!IInv, OwnTypeOK, SupTypeOK, TypeOK
<1> QED
  BY <1>1, <1>3, Invariance, PTL
=============================================================================
