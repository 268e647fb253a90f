----------------------------- MODULE JoinProofs -----------------------------
(***************************************************************************)
(* Theorems about Join for any number of workers, runs and any bootstrap   *)
(* role.  CertMatchesKey needs that no two workers share a hostname, which *)
(* is stated as a hypothesis of the theorems and not as an assumption of   *)
(* the model.                                                              *)
(*                                                                         *)
(* The argument: while a run polls, an object under its name can only be   *)
(* the one it created (PollsOwn), because Create refuses a name in use and *)
(* nobody else creates that name; what it receives is then a certificate   *)
(* of its own key (GotOwn), and once kubelet.conf exists no run gets past  *)
(* the pre-flight check (NoRunAfterConf).                                  *)
(***************************************************************************)
EXTENDS Join, TLAPS

PollsOwn ==
    \A w \in Workers : pc[w] = "poll" /\ csr[NameOf[w]] # None =>
        csr[NameOf[w]].key = MyKey(w)

HasKey == {"cleanup", "create", "poll", "cert", "conf", "config"}

\* A run past discovery has a bundle on disk that begins with the authority
\* it was given the hash of; one past key generation its key; and, once it
\* has a certificate, one of its own key.
GotOwn ==
    \A w \in Workers :
        /\ pc[w] \in {"validate", "key"} => runs[w] < MaxRuns
        /\ pc[w] \in HasKey => runs[w] \in 1..MaxRuns /\ keyFile[w] = runs[w]
        /\ pc[w] \in Active \ {"validate"} => ca[w] \in Served /\ ca[w].first = expected[w]
        /\ pc[w] \in {"cert", "conf", "config"} => got[w] = MyKey(w)
        /\ pc[w] \in {"conf", "config"} => certFile[w] = got[w]

NoRunAfterConf ==
    \A w \in Workers : conf[w] # None => pc[w] \notin Active \ {"config"}

Safe == CertMatchesKey /\ FilesMatchConf /\ ConfImpliesExpectedCA

IInv == TypeOK /\ PollsOwn /\ GotOwn /\ NoRunAfterConf /\ Safe

\* A whole kubelet.conf is a record, never a marker.
LEMMA ConfFacts ==
    /\ None \notin [cert : Keys, key : Keys] /\ Torn \notin [cert : Keys, key : Keys]
    /\ None # Torn /\ None \notin Keys /\ None \notin CAs /\ None \notin Served /\ Torn \notin Served
    /\ None \notin [key : Keys, issued : BOOLEAN]
    /\ NameOf \in [Workers -> Names] /\ MaxRuns \in Nat
BY JoinAssumption DEF ValidNames

LEMMA InitInv == Init => IInv
BY ConfFacts
DEF Init, IInv, TypeOK, PollsOwn, GotOwn, NoRunAfterConf, Safe, CertMatchesKey,
    FilesMatchConf, ConfImpliesExpectedCA, Active, HasKey

\* The steps of the control plane touch no worker.
LEMMA ControlPlaneInv ==
    ASSUME IInv, TokenChanges \/ \E n \in Names : Issue(n) \/ CleanUp(n)
    PROVE  IInv'
<1> USE ConfFacts
<1>0. UNCHANGED <<pc, runs, got, expected, disk>> /\ TypeOK
  BY DEF IInv, TokenChanges, Issue, CleanUp
<1>1. TypeOK' /\ \A m \in Names : csr'[m] # None => csr[m] # None /\ csr'[m].key = csr[m].key
  <2>1. CASE TokenChanges
    BY <1>0, <2>1 DEF TokenChanges, TypeOK, disk
  <2>2. ASSUME NEW n \in Names, Issue(n)
        PROVE  TypeOK' /\ \A m \in Names : csr'[m] # None => csr[m] # None /\ csr'[m].key = csr[m].key
    <3>1. csr[n] \in [key : Keys, issued : BOOLEAN]
      BY <1>0, <2>2 DEF Issue, TypeOK
    <3>2. [csr[n] EXCEPT !.issued = TRUE] \in [key : Keys, issued : BOOLEAN]
      BY <3>1
    <3>3. csr' = [csr EXCEPT ![n] = [csr[n] EXCEPT !.issued = TRUE]]
      BY <2>2 DEF Issue
    <3>4. token' = token
      BY <2>2 DEF Issue
    <3> QED
      BY <1>0, <2>2, <3>1, <3>2, <3>3, <3>4 DEF TypeOK, disk, Issue
  <2>3. ASSUME NEW n \in Names, CleanUp(n)
        PROVE  TypeOK' /\ \A m \in Names : csr'[m] # None => csr[m] # None /\ csr'[m].key = csr[m].key
    BY <1>0, <2>3 DEF CleanUp, TypeOK, disk
  <2> QED
    BY <2>1, <2>2, <2>3
<1>2. PollsOwn'
  BY <1>0, <1>1 DEF IInv, TypeOK, PollsOwn, MyKey
<1> QED
  BY <1>0, <1>1, <1>2
  DEF IInv, GotOwn, NoRunAfterConf, Safe, CertMatchesKey, FilesMatchConf,
      ConfImpliesExpectedCA, MyKey, disk

\* A step that moves one worker and leaves CSR objects alone.
LEMMA PollsOwnKept ==
    ASSUME IInv, NEW w \in Workers, UNCHANGED csr,
           \A v \in Workers : v # w => pc'[v] = pc[v] /\ runs'[v] = runs[v],
           pc'[w] # "poll"
    PROVE  PollsOwn'
BY DEF IInv, PollsOwn, MyKey

LEMMA StepOfWorkerInv ==
    ASSUME UniqueNames, IInv, NEW w \in Workers, Start(w) \/ Step(w) \/ Kill(w) \/ Reboot(w)
    PROVE  IInv'
<1> USE ConfFacts
<1> USE DEF IInv, Safe, TypeOK, Go, Active, HasKey, disk, CutShort
<1>1. CASE Start(w)
  <2>1. PollsOwn'
    BY <1>1, PollsOwnKept DEF Start, StartWith
  <2> QED
    BY <1>1, <2>1 DEF Start, StartWith, GotOwn, NoRunAfterConf, CertMatchesKey, FilesMatchConf,
       ConfImpliesExpectedCA, MyKey
<1>2. CASE ValidateDiscovery(w)
  <2>1. PollsOwn'
    BY <1>2, PollsOwnKept DEF ValidateDiscovery
  <2>2. /\ UNCHANGED <<runs, got, expected, keyFile, certFile, conf, config, csr, token>>
        /\ conf[w] = None
    BY <1>2 DEF ValidateDiscovery, NoRunAfterConf
  \* The bundle saved begins with the authority whose hash was compared.
  <2>3. \/ /\ pc' = [pc EXCEPT ![w] = "error"]
           /\ ca' = ca \/ ca' = [ca EXCEPT ![w] = Torn]
        \/ /\ pc' = [pc EXCEPT ![w] = "key"]
           /\ \E served \in Served :
                served.first = expected[w] /\ ca' = [ca EXCEPT ![w] = served]
    BY <1>2 DEF ValidateDiscovery
  <2>4. TypeOK'
    BY <2>2, <2>3
  <2>5. pc[w] = "validate"
    BY <1>2 DEF ValidateDiscovery
  <2>6. GotOwn' /\ NoRunAfterConf'
    BY <2>2, <2>3, <2>5 DEF GotOwn, NoRunAfterConf, MyKey
  <2>7. CertMatchesKey' /\ FilesMatchConf' /\ ConfImpliesExpectedCA'
    BY <2>2, <2>3 DEF CertMatchesKey, FilesMatchConf, ConfImpliesExpectedCA
  <2> QED
    BY <2>1, <2>4, <2>6, <2>7
<1>3. CASE GenerateKey(w)
  <2>1. PollsOwn'
    BY <1>3, PollsOwnKept DEF GenerateKey
  <2>2. TypeOK'
    <3>1. runs[w] + 1 \in 1..MaxRuns
      BY <1>3 DEF GenerateKey, GotOwn
    <3> QED
      BY <1>3, <3>1 DEF GenerateKey
  <2>3. conf[w] = None
    BY <1>3 DEF GenerateKey, NoRunAfterConf
  <2>4. GotOwn' /\ NoRunAfterConf'
    BY <1>3 DEF GenerateKey, GotOwn, NoRunAfterConf, MyKey
  <2>5. CertMatchesKey' /\ FilesMatchConf' /\ ConfImpliesExpectedCA'
    BY <1>3, <2>3 DEF GenerateKey, CertMatchesKey, FilesMatchConf, ConfImpliesExpectedCA
  <2> QED
    BY <2>1, <2>2, <2>4, <2>5
<1>4. CASE DeleteExisting(w)
  <2>1. \A n \in Names : csr'[n] \in {csr[n], None}
    BY <1>4 DEF DeleteExisting
  <2>2. PollsOwn'
    <3> SUFFICES ASSUME NEW v \in Workers, pc'[v] = "poll", csr'[NameOf[v]] # None
                 PROVE  csr'[NameOf[v]].key = MyKey(v)'
      BY DEF PollsOwn
    <3>1. pc[v] = "poll" /\ runs'[v] = runs[v]
      BY <1>4 DEF DeleteExisting
    <3>2. csr'[NameOf[v]] = csr[NameOf[v]]
      BY <2>1, NameOf[v] \in Names
    <3> QED
      BY <3>1, <3>2 DEF PollsOwn, MyKey
  <2> QED
    BY <1>4, <2>1, <2>2 DEF DeleteExisting, GotOwn, NoRunAfterConf, CertMatchesKey,
       FilesMatchConf, ConfImpliesExpectedCA, MyKey
<1>5. CASE CreateCSR(w)
  <2>1. MyKey(w) \in Keys
    BY <1>5 DEF CreateCSR, GotOwn, MyKey, Keys
  <2>2. TypeOK'
    <3> DEFINE new == [key |-> MyKey(w), issued |-> FALSE]
    <3>1. new \in [key : Keys, issued : BOOLEAN]
      BY <2>1
    <3>2. csr' = csr \/ csr' = [csr EXCEPT ![NameOf[w]] = new]
      BY <1>5 DEF CreateCSR
    <3> HIDE DEF new
    <3>3. csr' \in [Names -> [key : Keys, issued : BOOLEAN] \cup {None}]
      BY <3>1, <3>2
    <3> QED
      BY <1>5, <3>3 DEF CreateCSR
  <2>3. PollsOwn'
    <3> SUFFICES ASSUME NEW v \in Workers, pc'[v] = "poll", csr'[NameOf[v]] # None
                 PROVE  csr'[NameOf[v]].key = MyKey(v)'
      BY DEF PollsOwn
    <3>1. CASE v = w
      BY <1>5, <3>1 DEF CreateCSR, MyKey
    <3>2. CASE v # w
      <4>1. NameOf[v] # NameOf[w] /\ pc[v] = "poll"
        BY <1>5, <3>2 DEF CreateCSR, UniqueNames
      <4>2. csr'[NameOf[v]] = csr[NameOf[v]]
        BY <1>5, <4>1 DEF CreateCSR
      <4> QED
        BY <1>5, <4>1, <4>2 DEF CreateCSR, PollsOwn, MyKey
    <3> QED BY <3>1, <3>2
  <2> QED
    BY <1>5, <2>2, <2>3 DEF CreateCSR, GotOwn, NoRunAfterConf, CertMatchesKey,
       FilesMatchConf, ConfImpliesExpectedCA, MyKey
<1>6. CASE PollSucceeds(w)
  <2>1. PollsOwn'
    BY <1>6, PollsOwnKept DEF PollSucceeds
  <2>2. got' = [got EXCEPT ![w] = MyKey(w)]
    BY <1>6 DEF PollSucceeds, PollsOwn
  <2>3. MyKey(w) \in Keys
    BY <1>6 DEF PollSucceeds, GotOwn, MyKey, Keys
  <2> QED
    BY <1>6, <2>1, <2>2, <2>3 DEF PollSucceeds, GotOwn, NoRunAfterConf, CertMatchesKey,
       FilesMatchConf, ConfImpliesExpectedCA, MyKey
<1>7. CASE PollTimesOut(w)
  <2>1. PollsOwn'
    BY <1>7, PollsOwnKept DEF PollTimesOut
  <2> QED
    BY <1>7, <2>1 DEF PollTimesOut, GotOwn, NoRunAfterConf, CertMatchesKey,
       FilesMatchConf, ConfImpliesExpectedCA, MyKey
<1>8. CASE WriteCert(w)
  <2>1. PollsOwn'
    BY <1>8, PollsOwnKept DEF WriteCert
  <2>2. conf[w] = None /\ got[w] = MyKey(w) /\ MyKey(w) \in Keys
    BY <1>8 DEF WriteCert, GotOwn, NoRunAfterConf, MyKey, Keys
  <2>3. TypeOK'
    BY <1>8, <2>2 DEF WriteCert
  <2>4. GotOwn' /\ NoRunAfterConf'
    BY <1>8, <2>2 DEF WriteCert, GotOwn, NoRunAfterConf, MyKey
  <2>5. CertMatchesKey' /\ FilesMatchConf' /\ ConfImpliesExpectedCA'
    BY <1>8, <2>2 DEF WriteCert, CertMatchesKey, FilesMatchConf, ConfImpliesExpectedCA
  <2> QED
    BY <2>1, <2>3, <2>4, <2>5
<1>9. CASE WriteConf(w)
  <2>1. PollsOwn'
    BY <1>9, PollsOwnKept DEF WriteConf
  <2>2. /\ got[w] = MyKey(w) /\ MyKey(w) = <<w, keyFile[w]>> /\ certFile[w] = got[w]
        /\ ca[w] \in Served /\ ca[w].first = expected[w]
    BY <1>9 DEF WriteConf, GotOwn, MyKey
  <2>3. MyKey(w) \in Keys
    BY <1>9 DEF WriteConf, GotOwn, MyKey, Keys
  <2>4. conf' = [conf EXCEPT ![w] = [cert |-> MyKey(w), key |-> MyKey(w)]]
        \/ conf' = conf \/ conf' = [conf EXCEPT ![w] = Torn]
    BY <1>9, <2>2 DEF WriteConf
  <2>5. TypeOK'
    BY <1>9, <2>3, <2>4 DEF WriteConf
  <2>6. GotOwn' /\ NoRunAfterConf'
    BY <1>9, <2>4 DEF WriteConf, GotOwn, NoRunAfterConf, MyKey
  <2>7. CertMatchesKey'
    BY <1>9, <2>4 DEF WriteConf, CertMatchesKey
  <2>8. FilesMatchConf'
    <3>1. UNCHANGED <<keyFile, certFile>>
      BY <1>9 DEF WriteConf
    <3> SUFFICES ASSUME NEW v \in Workers, conf'[v] \notin {None, Torn}
                 PROVE  conf'[v].key = <<v, keyFile[v]>> /\ conf'[v].cert = certFile[v]
      BY <3>1 DEF FilesMatchConf
    <3>2. CASE conf'[v] = conf[v]
      BY <3>2 DEF FilesMatchConf
    <3>3. CASE conf'[v] # conf[v]
      <4>1. v = w /\ conf'[w] = [cert |-> MyKey(w), key |-> MyKey(w)]
        BY <2>4, <3>3
      <4> QED
        BY <2>2, <4>1
    <3> QED BY <3>2, <3>3
  <2>9. ConfImpliesExpectedCA'
    BY <1>9, <2>2, <2>4 DEF WriteConf, ConfImpliesExpectedCA
  <2> QED
    BY <2>1, <2>5, <2>6, <2>7, <2>8, <2>9
<1>10. CASE WriteConfig(w)
  <2>1. PollsOwn'
    BY <1>10, PollsOwnKept DEF WriteConfig
  <2> QED
    BY <1>10, <2>1 DEF WriteConfig, GotOwn, NoRunAfterConf, CertMatchesKey,
       FilesMatchConf, ConfImpliesExpectedCA, MyKey
<1>11. CASE Kill(w)
  <2>1. PollsOwn'
    BY <1>11, PollsOwnKept DEF Kill
  <2>2. /\ ca' = ca \/ (pc[w] = "validate" /\ ca' = [ca EXCEPT ![w] = Torn])
        /\ keyFile' = keyFile \/ (pc[w] = "key" /\ keyFile' = [keyFile EXCEPT ![w] = Torn])
        /\ certFile' = certFile \/ (pc[w] = "cert" /\ certFile' = [certFile EXCEPT ![w] = Torn])
        /\ conf' = conf \/ (pc[w] = "conf" /\ conf' = [conf EXCEPT ![w] = Torn])
    BY <1>11 DEF Kill
  <2>3. /\ pc' = [pc EXCEPT ![w] = "idle"] /\ got' = [got EXCEPT ![w] = None]
        /\ config' \in {config, config \ {w}}
        /\ pc[w] \in Active /\ UNCHANGED <<runs, expected, csr, token>>
    BY <1>11 DEF Kill
  <2>4. TypeOK'
    BY <2>2, <2>3
  <2>5. GotOwn' /\ NoRunAfterConf'
    BY <2>2, <2>3 DEF GotOwn, NoRunAfterConf, MyKey
  <2>6. CertMatchesKey' /\ FilesMatchConf' /\ ConfImpliesExpectedCA'
    BY <2>2, <2>3 DEF GotOwn, NoRunAfterConf, CertMatchesKey, FilesMatchConf, ConfImpliesExpectedCA
  <2> QED
    BY <2>1, <2>4, <2>5, <2>6
<1>12. CASE Reboot(w)
  <2>1. PollsOwn'
    BY <1>12, PollsOwnKept DEF Reboot
  <2> QED
    BY <1>12, <2>1 DEF Reboot, GotOwn, NoRunAfterConf, CertMatchesKey,
       FilesMatchConf, ConfImpliesExpectedCA, MyKey
<1> HIDE DEF IInv
<1> QED
  BY <1>1, <1>2, <1>3, <1>4, <1>5, <1>6, <1>7, <1>8, <1>9, <1>10, <1>11, <1>12 DEF Step

LEMMA StepInv ==
    ASSUME UniqueNames
    PROVE  IInv /\ [Next]_vars => IInv'
<1>1. ASSUME IInv, UNCHANGED vars
      PROVE  IInv'
  <2>1. UNCHANGED <<pc, runs, got, expected, ca, keyFile, certFile, conf, config, csr, token>>
    BY <1>1 DEF vars, disk
  <2>2. TypeOK' /\ NoRunAfterConf' /\ Safe'
    BY <1>1, <2>1 DEF IInv, TypeOK, NoRunAfterConf, Safe, CertMatchesKey,
       FilesMatchConf, ConfImpliesExpectedCA
  <2>3. PollsOwn' /\ GotOwn'
    BY <1>1, <2>1 DEF IInv, PollsOwn, GotOwn, MyKey
  <2> QED
    BY <2>2, <2>3 DEF IInv
<1>2. ASSUME IInv, NEW w \in Workers, Start(w) \/ Step(w) \/ Kill(w) \/ Reboot(w)
      PROVE  IInv'
  BY <1>2, StepOfWorkerInv
<1>3. ASSUME IInv, TokenChanges \/ \E n \in Names : Issue(n) \/ CleanUp(n)
      PROVE  IInv'
  BY <1>3, ControlPlaneInv
<1> QED
  BY <1>1, <1>2, <1>3 DEF Next

\* IInv holds of every reachable state.
THEOREM Invariance ==
    ASSUME UniqueNames
    PROVE  Spec => []IInv
BY InitInv, StepInv, PTL DEF Spec

\* Every variable keeps its type.
THEOREM TypeCorrect ==
    ASSUME UniqueNames
    PROVE  Spec => []TypeOK
<1>1. IInv => TypeOK
  BY DEF IInv
<1> QED
  BY <1>1, Invariance, PTL

\* A worker never ends up with a certificate of another key than its own.
THEOREM OwnCertificate ==
    ASSUME UniqueNames
    PROVE  Spec => []CertMatchesKey
<1>1. IInv => CertMatchesKey
  BY DEF IInv, Safe
<1> QED
  BY <1>1, Invariance, PTL

\* What kubelet.conf embeds is what the other files of the worker hold.
THEOREM OneIdentityOnDisk ==
    ASSUME UniqueNames
    PROVE  Spec => []FilesMatchConf
<1>1. IInv => FilesMatchConf
  BY DEF IInv, Safe
<1> QED
  BY <1>1, Invariance, PTL

\* The ca.crt of a worker with a kubelet.conf begins with the authority the
\* operator named, for any bundles that servers may have; nothing is said of
\* the authorities after the first, which the code does not look at.
THEOREM ValidatedAuthority ==
    ASSUME UniqueNames
    PROVE  Spec => []ConfImpliesExpectedCA
<1>1. IInv => ConfImpliesExpectedCA
  BY DEF IInv, Safe
<1> QED
  BY <1>1, Invariance, PTL

\* kubelet.conf is written once.
THEOREM WrittenOnce ==
    ASSUME UniqueNames
    PROVE  Spec => ConfWrittenOnce
<1>1. ASSUME IInv, [Next]_vars, NEW w \in Workers, conf[w] # None
      PROVE  conf'[w] \in {conf[w], None}
  <2>1. pc[w] # "conf" /\ conf \in [Workers -> [cert : Keys, key : Keys] \cup {None, Torn}]
    BY <1>1 DEF IInv, NoRunAfterConf, Active, TypeOK
  <2>2. CASE UNCHANGED vars
    BY <2>2 DEF vars, disk
  <2>3. ASSUME NEW v \in Workers, Start(v) \/ Step(v) \/ Kill(v) \/ Reboot(v)
        PROVE  conf'[w] \in {conf[w], None}
    BY <2>1, <2>3 DEF Start, StartWith, Step, Kill, Reboot, ValidateDiscovery, GenerateKey,
       DeleteExisting, CreateCSR, PollSucceeds, PollTimesOut, WriteCert, WriteConf,
       WriteConfig, Go, disk, CutShort
  <2>4. CASE TokenChanges \/ \E n \in Names : Issue(n) \/ CleanUp(n)
    BY <2>4 DEF TokenChanges, Issue, CleanUp, disk
  <2> QED
    BY <1>1, <2>2, <2>3, <2>4 DEF Next
<1>2. IInv /\ [Next]_vars =>
        [\A w \in Workers : conf[w] # None => conf'[w] \in {conf[w], None}]_vars
  BY <1>1
<1> QED
  BY <1>2, Invariance, PTL DEF Spec, ConfWrittenOnce
=============================================================================
