--------------------------- MODULE NodeInitProofs ---------------------------
(***************************************************************************)
(* Theorems about NodeInit for any list of files, any number of attempts   *)
(* and any place of the kubeconfigs in the list.                           *)
(*                                                                         *)
(* What makes admin.conf a sound guard is the order of the writes: it is   *)
(* the first kubeconfig, so no kubeconfig is on disk before it (AdminFirst)*)
(* and a running attempt has written everything before its current step    *)
(* and no kubeconfig after it (Progress).  GuardImpliesPki and the others  *)
(* are not inductive without these two.                                    *)
(***************************************************************************)
EXTENDS NodeInit, TLAPS

\* The first k files are those of attempt a.
Written(a, k) ==
    \A i \in 1..N : i <= k =>
        by[Steps[i]] = a /\ (Steps[i] \in Confs => read[Steps[i]] = a)

\* Only the last attempt runs; attempts after it have not been started.
Serial ==
    /\ \A a \in Attempts : status[a] = "running" => a = latest /\ a \in current
    /\ \A a \in Attempts : a > latest => status[a] = "new" /\ a \notin current

AdminFirst == by[AdminConf] = Nil => \A f \in Confs : by[f] = Nil

Progress ==
    \A a \in Attempts : status[a] = "running" =>
        /\ Written(a, step - 1)
        /\ \A i \in 1..N : i >= step /\ Steps[i] \in Confs => by[Steps[i]] = Nil

\* Every whole kubeconfig is of the attempt that wrote the PKI.
ConfsMatch ==
    by[AdminConf] # Nil => \E a \in Attempts :
        /\ OneAuthor(Pki, a)
        /\ \A f \in Confs : by[f] \in {Nil, Torn} \/ (by[f] = a /\ read[f] = a)

IInv == TypeOK /\ Serial /\ AdminFirst /\ Progress /\ ConfsMatch /\ DoneIsDurable

-----------------------------------------------------------------------------
(* The list of files.                                                      *)

LEMMA ConstFacts ==
    /\ N \in Nat /\ NPki \in Nat /\ NConf \in Nat /\ NConf > 0 /\ NPki + NConf <= N
    /\ MaxAttempts \in Nat
    /\ Nil \notin Attempts /\ Torn \notin Attempts /\ Nil # Torn
BY NodeInitAssumption DEF Layout, N

\* A file's place tells whether it is a certificate or a kubeconfig.
LEMMA StepFacts ==
    ASSUME NEW i \in 1..N
    PROVE  /\ Steps[i] \in Files
           /\ Steps[i] \in Pki <=> i <= NPki
           /\ Steps[i] \in Confs <=> i > NPki /\ i <= NPki + NConf
           /\ \A j \in 1..N : Steps[j] = Steps[i] => j = i
<1>1. \A j \in 1..N : Steps[j] = Steps[i] => j = i
  BY NodeInitAssumption DEF Layout
<1>2. Steps[i] \in Files
  BY DEF Files
<1>3. Steps[i] \in Pki <=> i <= NPki
  <2>1. ASSUME Steps[i] \in Pki
        PROVE  i <= NPki
    <3>1. PICK j \in 1..NPki : Steps[i] = Steps[j]
      BY <2>1 DEF Pki
    <3> QED
      BY <1>1, <3>1, ConstFacts
  <2> QED
    BY <2>1, ConstFacts DEF Pki
<1>4. Steps[i] \in Confs <=> i > NPki /\ i <= NPki + NConf
  <2>1. ASSUME Steps[i] \in Confs
        PROVE  i > NPki /\ i <= NPki + NConf
    <3>1. PICK j \in (NPki + 1)..(NPki + NConf) : Steps[i] = Steps[j]
      BY <2>1 DEF Confs
    <3> QED
      BY <1>1, <3>1, ConstFacts
  <2> QED
    BY <2>1, ConstFacts DEF Confs
<1> QED BY <1>1, <1>2, <1>3, <1>4

LEMMA FileFacts ==
    /\ Pki \subseteq Files /\ Confs \subseteq Files
    /\ Pki \cap Confs = {}
    /\ AdminConf \in Confs /\ KubeletConf \in Confs
    /\ OutsideEtc \cap (Pki \cup Confs) = {}
<1>1. \A f \in Pki : \E i \in 1..N : f = Steps[i]
  BY ConstFacts DEF Pki
<1>2. \A f \in Confs : \E i \in 1..N : f = Steps[i]
  BY ConstFacts DEF Confs
<1>3. AdminConf \in Confs
  BY ConstFacts DEF AdminConf, Confs
<1> QED
  BY <1>1, <1>2, <1>3, StepFacts, ConstFacts, NodeInitAssumption DEF Layout

\* Reading certificates that attempt a wrote gives a.
LEMMA OnDiskOne ==
    ASSUME NEW F, F # {}, NEW a \in Attempts, OneAuthor(F, a)
    PROVE  OnDisk(F) = a
<1>1. PICK f \in F : TRUE
  OBVIOUS
<1>2. \A b \in Attempts : OneAuthor(F, b) => b = a
  BY <1>1 DEF OneAuthor
<1> QED
  BY <1>2 DEF OnDisk

LEMMA OnDiskType ==
    ASSUME NEW F
    PROVE  OnDisk(F) \in Author
BY DEF OnDisk, Author

-----------------------------------------------------------------------------

LEMMA InitInv == Init => IInv
BY ConstFacts, FileFacts
DEF Init, IInv, TypeOK, Author, Serial, AdminFirst, Progress, ConfsMatch,
    DoneIsDurable, Post

\* No attempt that is still current is done while admin.conf is missing.
LEMMA NoneDone ==
    ASSUME IInv, by[AdminConf] = Nil
    PROVE  \A a \in Attempts : ~(status[a] = "done" /\ a \in current)
BY ConstFacts, FileFacts DEF IInv, DoneIsDurable, OneAuthor

LEMMA StartInv ==
    ASSUME IInv, NEW a \in Attempts, Start(a)
    PROVE  IInv'
<1> USE ConstFacts, FileFacts DEF IInv
<1>1. TypeOK' /\ Serial'
  BY DEF Start, Idle, TypeOK, Serial, Attempts, Post
<1>2. UNCHANGED <<by, read>> /\ step' = 1
  BY DEF Start
<1>3. Progress'
  <2>1. ASSUME NEW b \in Attempts, status'[b] = "running"
        PROVE  by[AdminConf] = Nil
    BY <2>1 DEF Start, Idle, TypeOK
  <2> QED
    BY <1>2, <2>1 DEF Progress, Written, AdminFirst
<1>4. DoneIsDurable'
  <2>1. \A b \in Attempts : status'[b] = "done" /\ b \in current'
            => status[b] = "done" /\ b \in current
    BY DEF Start, TypeOK
  <2> QED
    BY <1>2, <2>1 DEF DoneIsDurable, OneAuthor
<1>5. AdminFirst' /\ ConfsMatch'
  BY <1>2 DEF AdminFirst, ConfsMatch, OneAuthor, AdminConf
<1> QED BY <1>1, <1>3, <1>4, <1>5

LEMMA WriteFileInv ==
    ASSUME IInv, NEW a \in Attempts, WriteFile(a)
    PROVE  IInv'
<1> USE ConstFacts, FileFacts
<1> DEFINE f == Steps[step]
<1>0. /\ TypeOK /\ status[a] = "running" /\ step \in 1..N /\ f \in Files
      /\ UNCHANGED <<status, warned, latest, current>> /\ step' = step + 1
      /\ by' = [by EXCEPT ![f] = a]
      /\ read' = [g \in Confs |-> IF g = f THEN OnDisk(Inputs(f)) ELSE read[g]]
  BY StepFacts DEF IInv, TypeOK, WriteFile, Writing
<1>1. TypeOK'
  BY <1>0, OnDiskType DEF TypeOK, Author, Post
<1>2. Serial'
  BY <1>0 DEF IInv, Serial
<1>3. f \in Confs => OnDisk(Inputs(f)) = a
  <2> SUFFICES ASSUME f \in Confs
               PROVE  OnDisk(Inputs(f)) = a
    OBVIOUS
  <2>1. step > NPki
    BY <1>0, StepFacts
  <2>2. OneAuthor(Pki, a)
    BY <1>0, <2>1 DEF IInv, Progress, Written, OneAuthor, Pki
  <2>3. Inputs(f) # {} /\ OneAuthor(Inputs(f), a)
    BY <2>2, NodeInitAssumption DEF Layout, OneAuthor
  <2> QED
    BY <2>3, OnDiskOne
<1>4. \A i \in 1..N : i <= step =>
        by'[Steps[i]] = a /\ (Steps[i] \in Confs => read'[Steps[i]] = a)
  <2> SUFFICES ASSUME NEW i \in 1..N, i <= step
               PROVE  by'[Steps[i]] = a /\ (Steps[i] \in Confs => read'[Steps[i]] = a)
    OBVIOUS
  <2>1. CASE i = step
    BY <1>0, <1>3, <2>1 DEF TypeOK
  <2>2. CASE i < step
    <3>1. Steps[i] # f /\ Steps[i] \in Files
      BY <1>0, <2>2, StepFacts
    <3>2. by[Steps[i]] = a /\ (Steps[i] \in Confs => read[Steps[i]] = a)
      BY <1>0, <2>2 DEF IInv, Progress, Written
    <3> QED
      BY <1>0, <3>1, <3>2 DEF TypeOK
  <2> QED
    BY <1>0, <2>1, <2>2
<1>5. \A i \in 1..N : i >= step' /\ Steps[i] \in Confs => by'[Steps[i]] = Nil
  <2> SUFFICES ASSUME NEW i \in 1..N, i > step, Steps[i] \in Confs
               PROVE  by'[Steps[i]] = Nil
    BY <1>0
  <2>1. Steps[i] # f /\ Steps[i] \in Files
    BY <1>0, StepFacts
  <2> QED
    BY <1>0, <2>1 DEF IInv, Progress, TypeOK
<1>6. Progress'
  <2>1. \A b \in Attempts : status'[b] = "running" => b = a
    BY <1>0 DEF IInv, Serial
  <2>2. step' - 1 = step
    BY <1>0
  <2>3. Written(a, step - 1)'
    BY <1>4, <2>2 DEF Written
  <2> QED
    BY <1>5, <2>1, <2>3 DEF Progress
\* The place of admin.conf decides what the write may disturb.
<1>7. CASE step <= NPki
  <2>1. f \in Pki /\ f \notin Confs
    BY <1>0, <1>7, StepFacts
  <2>2. AdminConf = Steps[NPki + 1] /\ NPki + 1 \in 1..N
    BY DEF AdminConf
  <2>3. by[AdminConf] = Nil
    BY <1>0, <1>7, <2>2 DEF IInv, Progress
  <2>4. \A g \in Confs : by'[g] = by[g]
    BY <1>0, <2>1 DEF TypeOK
  <2>5. AdminFirst' /\ ConfsMatch'
    BY <2>3, <2>4 DEF IInv, AdminFirst, ConfsMatch
  <2>6. DoneIsDurable'
    BY <1>0, <2>3, NoneDone DEF DoneIsDurable
  <2> QED
    BY <1>1, <1>2, <1>6, <2>5, <2>6 DEF IInv
<1>8. CASE step > NPki
  <2>1. OneAuthor(Pki, a)
    BY <1>0, <1>8 DEF IInv, Progress, Written, OneAuthor, Pki
  <2>2. f \notin Pki
    BY <1>0, <1>8, StepFacts
  <2>3. OneAuthor(Pki, a)'
    BY <1>0, <2>1, <2>2 DEF OneAuthor, TypeOK
  <2>4. by'[AdminConf] = a
    <3>1. AdminConf = Steps[NPki + 1] /\ NPki + 1 \in 1..N /\ NPki + 1 <= step
      BY <1>0, <1>8 DEF AdminConf
    <3> QED
      BY <1>0, <1>4, <3>1
  <2>5. \A g \in Confs : by'[g] \in {Nil, Torn} \/ (by'[g] = a /\ read'[g] = a)
    <3> SUFFICES ASSUME NEW g \in Confs
                 PROVE  by'[g] \in {Nil, Torn} \/ (by'[g] = a /\ read'[g] = a)
      OBVIOUS
    <3>1. PICK i \in 1..N : g = Steps[i]
      BY DEF Confs
    <3>2. CASE i <= step
      BY <1>0, <1>4, <3>1, <3>2
    <3>3. CASE i > step
      BY <1>0, <1>5, <3>1, <3>3
    <3> QED BY <1>0, <3>2, <3>3
  <2>6. AdminFirst' /\ ConfsMatch'
    BY <2>3, <2>4, <2>5 DEF AdminFirst, ConfsMatch
  <2>7. DoneIsDurable'
    <3> SUFFICES ASSUME NEW b \in Attempts, status[b] = "done", b \in current
                 PROVE  FALSE
      BY <1>0 DEF DoneIsDurable
    <3>1. by[Steps[step]] = b /\ OneAuthor(Files, b)
      BY <1>0 DEF IInv, DoneIsDurable, OneAuthor
    <3>2. NPki + 1 \in 1..N /\ AdminConf = Steps[NPki + 1] /\ AdminConf \in Files
      BY DEF AdminConf
    <3>3. CASE step <= NPki + 1
      BY <1>0, <3>1, <3>2, <3>3, <1>8 DEF IInv, Progress
    <3>4. CASE step > NPki + 1
      <4>1. by[AdminConf] = a
        BY <1>0, <3>2, <3>4 DEF IInv, Progress, Written
      <4>2. by[AdminConf] = b
        BY <3>1, <3>2 DEF OneAuthor
      <4> QED
        BY <1>0, <4>1, <4>2
    <3> QED BY <1>0, <3>3, <3>4
  <2> QED
    BY <1>1, <1>2, <1>6, <2>6, <2>7 DEF IInv
<1> QED BY <1>0, <1>7, <1>8

\* An attempt that ends, its last file untouched or torn.
LEMMA StopWritingInv ==
    ASSUME IInv, NEW a \in Attempts, NEW how \in {"failed", "killed"}, StopWriting(a, how)
    PROVE  IInv'
<1> USE ConstFacts, FileFacts
<1> DEFINE f == Steps[step]
<1>0. /\ TypeOK /\ status[a] = "running" /\ step \in 1..N /\ f \in Files
      /\ UNCHANGED <<read, step, warned, latest, current>>
      /\ status' = [status EXCEPT ![a] = how]
      /\ by' = by \/ by' = [by EXCEPT ![f] = Torn]
  BY StepFacts DEF IInv, TypeOK, StopWriting, Writing
<1>1. TypeOK' /\ Serial' /\ Progress'
  BY <1>0 DEF IInv, TypeOK, Author, Serial, Progress
<1>2. ASSUME NEW b \in Attempts, status'[b] = "done", b \in current'
      PROVE  FALSE
  <2>1. status[b] = "done" /\ b \in current /\ b # a
    BY <1>0, <1>2 DEF TypeOK
  <2>2. NPki + 1 \in 1..N /\ AdminConf = Steps[NPki + 1] /\ AdminConf \in Files
    BY DEF AdminConf
  <2>3. by[AdminConf] = b
    BY <2>1, <2>2 DEF IInv, DoneIsDurable, OneAuthor
  <2>4. by[AdminConf] \in {a, Nil}
    BY <1>0, <2>2 DEF IInv, Progress, Written
  <2> QED
    BY <2>1, <2>3, <2>4
<1>3. DoneIsDurable'
  BY <1>2 DEF DoneIsDurable
<1>4. CASE step <= NPki
  <2>1. f \notin Confs
    BY <1>0, <1>4, StepFacts
  <2>2. AdminConf = Steps[NPki + 1] /\ NPki + 1 \in 1..N
    BY DEF AdminConf
  <2>3. by[AdminConf] = Nil
    BY <1>0, <1>4, <2>2 DEF IInv, Progress
  <2>4. \A g \in Confs : by'[g] = by[g]
    BY <1>0, <2>1 DEF TypeOK
  <2>5. AdminFirst' /\ ConfsMatch'
    BY <2>3, <2>4 DEF IInv, AdminFirst, ConfsMatch
  <2> QED
    BY <1>1, <1>3, <2>5 DEF IInv
<1>5. CASE step > NPki
  <2>1. OneAuthor(Pki, a) /\ f \notin Pki
    BY <1>0, <1>5, StepFacts DEF IInv, Progress, Written, OneAuthor, Pki
  <2>2. OneAuthor(Pki, a)'
    BY <1>0, <2>1 DEF OneAuthor, TypeOK
  <2>3. \A g \in Confs : by[g] = Nil \/ (by[g] = a /\ read[g] = a)
    <3> SUFFICES ASSUME NEW g \in Confs
                 PROVE  by[g] = Nil \/ (by[g] = a /\ read[g] = a)
      OBVIOUS
    <3>1. PICK i \in 1..N : g = Steps[i]
      BY DEF Confs
    <3>2. CASE i < step
      BY <1>0, <3>1, <3>2 DEF IInv, Progress, Written
    <3>3. CASE i >= step
      BY <1>0, <3>1, <3>3 DEF IInv, Progress
    <3> QED BY <1>0, <3>2, <3>3
  <2>4. \A g \in Confs : by'[g] \in {Nil, Torn} \/ (by'[g] = a /\ read'[g] = a)
    BY <1>0, <2>3 DEF TypeOK
  <2>5. ConfsMatch'
    BY <2>2, <2>4 DEF ConfsMatch
  <2>6. AdminFirst'
    <3>1. CASE by' = by
      BY <3>1 DEF IInv, AdminFirst, AdminConf
    <3>2. CASE by' = [by EXCEPT ![f] = Torn]
      <4>1. CASE f = AdminConf
        BY <1>0, <3>2, <4>1 DEF AdminFirst, TypeOK
      <4>2. CASE f # AdminConf
        <5>1. NPki + 1 \in 1..N /\ AdminConf = Steps[NPki + 1] /\ NPki + 1 < step
          BY <1>0, <1>5, <4>2 DEF AdminConf
        <5>2. by[AdminConf] = a
          BY <1>0, <5>1 DEF IInv, Progress, Written
        <5> QED
          BY <1>0, <3>2, <4>2, <5>2 DEF AdminFirst, TypeOK
      <4> QED BY <4>1, <4>2
    <3> QED BY <1>0, <3>1, <3>2
  <2> QED
    BY <1>1, <1>3, <2>5, <2>6 DEF IInv
<1> QED BY <1>0, <1>4, <1>5

\* Post-bootstrap steps, the end of the run and its interruption there write
\* no file of the node.
LEMMA PostInv ==
    ASSUME IInv, NEW a \in Attempts,
           \/ Configure(a)
           \/ Finish(a)
           \/ Configuring(a) /\ status' = [status EXCEPT ![a] = "killed"]
              /\ UNCHANGED <<by, read, step, warned, latest, current>>
    PROVE  IInv'
<1> USE ConstFacts, FileFacts
<1>0. /\ TypeOK /\ status[a] = "running" /\ step > N /\ step \in Nat
      /\ UNCHANGED <<by, read, latest, current>>
  BY DEF IInv, TypeOK, Configure, Finish, Configuring, Post
<1>1. TypeOK'
  BY <1>0 DEF TypeOK, Configure, Finish, Configuring, Post
<1>2. Serial'
  BY <1>0 DEF IInv, TypeOK, Serial, Configure, Finish, Configuring
<1>3. \A i \in 1..N : by[Steps[i]] = a /\ (Steps[i] \in Confs => read[Steps[i]] = a)
  BY <1>0 DEF IInv, Progress, Written
<1>4. step' \in Nat /\ step' > N
  BY <1>0 DEF Configure, Finish
<1>5. Progress'
  <2>1. \A b \in Attempts : status'[b] = "running" => b = a
    BY <1>0 DEF IInv, TypeOK, Serial, Configure, Finish
  <2>2. Written(a, step - 1)'
    BY <1>0, <1>3 DEF Written
  <2>3. \A i \in 1..N : ~(i >= step')
    BY <1>4
  <2> QED
    BY <2>1, <2>2, <2>3 DEF Progress
<1>6. DoneIsDurable'
  <2>1. \A g \in Files : by[g] = a
    BY <1>3 DEF Files
  <2>2. \A g \in Confs : read[g] = a
    BY <1>3 DEF Confs
  <2>3. \A b \in Attempts : status'[b] = "done" => b = a \/ status[b] = "done"
    BY <1>0 DEF TypeOK, Configure, Finish
  <2> QED
    BY <1>0, <2>1, <2>2, <2>3 DEF IInv, DoneIsDurable, OneAuthor
<1>7. AdminFirst' /\ ConfsMatch'
  BY <1>0 DEF IInv, AdminFirst, ConfsMatch, OneAuthor, AdminConf
<1> QED
  BY <1>1, <1>2, <1>5, <1>6, <1>7 DEF IInv

\* The operator's wipe and a reboot leave no kubeconfig.
LEMMA WipeInv ==
    ASSUME IInv, DeleteEtcKubernetes \/ Reboot
    PROVE  IInv'
<1> USE ConstFacts, FileFacts
<1>1. TypeOK'
  BY DEF IInv, TypeOK, Author, DeleteEtcKubernetes, Reboot
<1>2. \A a \in Attempts : status'[a] # "running"
  BY DEF IInv, TypeOK, DeleteEtcKubernetes, Idle, Reboot
<1>3. \A f \in Confs : by'[f] = Nil
  BY DEF IInv, TypeOK, DeleteEtcKubernetes, Reboot
<1>4. current' = {} /\ latest' = latest
  BY DEF DeleteEtcKubernetes, Reboot
<1>5. \A a \in Attempts : status[a] = "new" => status'[a] = "new"
  BY DEF IInv, TypeOK, DeleteEtcKubernetes, Reboot
<1> QED
  BY <1>1, <1>2, <1>3, <1>4, <1>5
  DEF IInv, Serial, AdminFirst, Progress, ConfsMatch, DoneIsDurable

LEMMA StutterInv == IInv /\ UNCHANGED vars => IInv'
BY DEF IInv, TypeOK, Serial, AdminFirst, Progress, Written, ConfsMatch,
       DoneIsDurable, OneAuthor, AdminConf, vars

LEMMA StepInv == IInv /\ [Next]_vars => IInv'
<1> SUFFICES ASSUME IInv, [Next]_vars
             PROVE  IInv'
  OBVIOUS
<1>1. ASSUME NEW a \in Attempts, Start(a)
      PROVE  IInv'
  BY <1>1, StartInv
<1>2. ASSUME NEW a \in Attempts, AttemptStep(a)
      PROVE  IInv'
  BY <1>2, WriteFileInv, StopWritingInv, PostInv DEF AttemptStep, WriteFails
<1>3. ASSUME NEW a \in Attempts, Kill(a)
      PROVE  IInv'
  BY <1>3, StopWritingInv, PostInv DEF Kill
<1>4. CASE DeleteEtcKubernetes \/ Reboot
  BY <1>4, WipeInv
<1>5. CASE UNCHANGED vars
  BY <1>5, StutterInv
<1> QED
  BY <1>1, <1>2, <1>3, <1>4, <1>5 DEF Next

\* IInv holds of every reachable state.
THEOREM Invariance == Spec => []IInv
BY InitInv, StepInv, PTL DEF Spec

-----------------------------------------------------------------------------

\* Every variable keeps its type.
THEOREM TypeCorrect == Spec => []TypeOK
<1>1. IInv => TypeOK
  BY DEF IInv
<1> QED
  BY <1>1, Invariance, PTL

\* admin.conf is a sound guard: it never stands beside a torn, missing or
\* mixed PKI, after any sequence of failures, interruptions, wipes, reboots.
THEOREM GuardIsSound == Spec => []GuardImpliesPki
<1>1. IInv => GuardImpliesPki
  BY DEF IInv, ConfsMatch, GuardImpliesPki
<1> QED
  BY <1>1, Invariance, PTL

\* Whenever koobd's trigger file exists, its authority is the one on disk.
THEOREM TriggerIsSound == Spec => []TriggerImpliesPki
<1>1. ASSUME IInv, by[KubeletConf] # Nil
      PROVE  /\ by[AdminConf] # Nil
             /\ by[KubeletConf] # Torn =>
                  OneAuthor(Pki, by[KubeletConf]) /\ read[KubeletConf] = by[KubeletConf]
  <2>1. by[AdminConf] # Nil
    BY <1>1, FileFacts DEF IInv, AdminFirst
  <2>2. PICK a \in Attempts :
            /\ OneAuthor(Pki, a)
            /\ \A f \in Confs : by[f] \in {Nil, Torn} \/ (by[f] = a /\ read[f] = a)
    BY <1>1, <2>1 DEF IInv, ConfsMatch
  <2> QED
    BY <1>1, <2>1, <2>2, FileFacts
<1>2. IInv => TriggerImpliesPki
  BY <1>1 DEF TriggerImpliesPki
<1> QED
  BY <1>2, Invariance, PTL

\* What a completed init wrote stays until it is wiped.
THEOREM DoneStays == Spec => []DoneIsDurable
<1>1. IInv => DoneIsDurable
  BY DEF IInv
<1> QED
  BY <1>1, Invariance, PTL
=============================================================================
