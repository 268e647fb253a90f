-------------------------------- MODULE Join --------------------------------
(***************************************************************************)
(* `koobadm join`: workers that bootstrap their kubelet credentials over   *)
(* the API server, each run with a fresh key, a CSR object named after the *)
(* node, a poll for its certificate and the files written at the end.      *)
(*                                                                         *)
(* Interleaved with it: the controllers that issue a CSR's certificate or  *)
(* clean the CSR up, requests and replies that are lost, a bootstrap token *)
(* that expires or is renewed, runs that are interrupted, and reboots,     *)
(* which lose the worker's files (its root is an overlay on tmpfs).        *)
(*                                                                         *)
(*   pc = "idle"      no run, or one that was interrupted                  *)
(*        "validate"  before validateDiscovery                             *)
(*        "key"       before the key is generated and written              *)
(*        "cleanup"   before the Delete of a CSR of the same name          *)
(*        "create"    before the Create of the CSR                         *)
(*        "poll"      waiting for the certificate                          *)
(*        "cert", "conf", "config"  before kubelet.crt, kubelet.conf and   *)
(*                    config.yaml are written                              *)
(*        "joined", "error", "refused"  how the run ended                  *)
(*                                                                         *)
(* A key is the worker and the number of the run that made it; a           *)
(* certificate is the key it certifies.  An authority is its key, of which *)
(* an operator is given the hash.  A bundle of authorities, as a server    *)
(* has it in cluster-info and as ca.crt holds it, is the one in its first  *)
(* PEM block (first) and those in further blocks (more).  A write that     *)
(* fails or is cut short leaves the file as it was or Torn.                *)
(***************************************************************************)
EXTENDS Naturals

CONSTANTS
    Workers, Names,
    NameOf,            \* the hostname of each worker
    BootstrapperVerbs, \* what a bootstrap token may do to CSR objects
    CAs,               \* authorities whose hash an operator passes
    Served,            \* bundles that a server may have in cluster-info
    Lossy,             \* whether requests and replies may be lost
    MaxRuns,           \* bound: keys a worker makes
    None, Torn

Keys == Workers \X (1..MaxRuns)

\* A hostname for each worker, and markers that are none of the values.
ValidNames ==
    /\ NameOf \in [Workers -> Names]
    /\ MaxRuns \in Nat
    /\ Lossy \in BOOLEAN
    /\ None \notin CAs \cup Served /\ Torn \notin Served
    /\ None \notin Keys /\ Torn \notin Keys /\ Torn \notin Nat /\ None # Torn
    /\ None \notin [key : Keys, issued : BOOLEAN]
    /\ {None, Torn} \cap [cert : Keys, key : Keys] = {}

ASSUME JoinAssumption == ValidNames

\* No two workers share a hostname.  Nothing in the code ensures it: the name
\* is six hex digits of a MAC address or a time stamp (net.go:43-104), and
\* join falls back to one fixed name (join.go:86-93).
UniqueNames == \A v, w \in Workers : NameOf[v] = NameOf[w] => v = w

VARIABLES
    pc,        \* where each worker's run is
    runs,      \* keys each worker has made; the last is the run's own
    got,       \* the certificate the run has received
    expected,  \* the authority whose hash the run was given
    ca,        \* pki/ca.crt of each worker: a bundle
    keyFile,   \* kubelet.key: the number of the key it holds, 0 if none
    certFile,  \* kubelet.crt
    conf,      \* kubelet.conf: the certificate and the key it embeds
    config,    \* workers that have config.yaml, whole
    csr,       \* the CSR object of each name
    token      \* the bootstrap token of the join command

disk == <<ca, keyFile, certFile, conf, config>>
vars == <<pc, runs, got, expected, disk, csr, token>>

Active == {"validate", "key", "cleanup", "create", "poll", "cert", "conf", "config"}

TypeOK ==
    /\ pc \in [Workers -> Active \cup {"idle", "joined", "error", "refused"}]
    /\ runs \in [Workers -> 0..MaxRuns]
    /\ got \in [Workers -> Keys \cup {None}]
    /\ expected \in [Workers -> CAs \cup {None}]
    /\ ca \in [Workers -> Served \cup {None, Torn}]
    /\ keyFile \in [Workers -> (0..MaxRuns) \cup {Torn}]
    /\ certFile \in [Workers -> Keys \cup {None, Torn}]
    /\ conf \in [Workers -> [cert : Keys, key : Keys] \cup {None, Torn}]
    /\ config \subseteq Workers
    /\ csr \in [Names -> [key : Keys, issued : BOOLEAN] \cup {None}]
    /\ token \in {"valid", "expired"}

Init ==
    /\ pc = [w \in Workers |-> "idle"]
    /\ runs = [w \in Workers |-> 0]
    /\ got = [w \in Workers |-> None]
    /\ expected = [w \in Workers |-> None]
    /\ ca = [w \in Workers |-> None]
    /\ keyFile = [w \in Workers |-> 0]
    /\ certFile = [w \in Workers |-> None]
    /\ conf = [w \in Workers |-> None]
    /\ config = {}
    /\ csr = [n \in Names |-> None]
    /\ token = "valid"

-----------------------------------------------------------------------------

Go(w, from, to) == pc[w] = from /\ pc' = [pc EXCEPT ![w] = to]

MyKey(w) == <<w, runs[w]>>

\* The write of a worker's file is cut short: file' is one of these.
CutShort(file, w) == {file, [file EXCEPT ![w] = Torn]}

\* A request of the bootstrap client is answered: the token authenticates it
\* and the role bound to system:bootstrappers allows the verb.
Allowed(verb) == token = "valid" /\ verb \in BootstrapperVerbs

\* Mutant: no check for an earlier join.
StartWith_NoGuard(w, hash) ==
    /\ pc[w] \notin Active /\ runs[w] < MaxRuns
    /\ pc' = [pc EXCEPT ![w] = "validate"]
    /\ expected' = [expected EXCEPT ![w] = hash]
    /\ got' = [got EXCEPT ![w] = None]
    /\ UNCHANGED <<runs, disk, csr, token>>

\* The pre-flight checks of a run that is given the hash of an authority.
\* IsControlPlane is false or an error on a worker, and then the existence
\* of kubelet.conf decides.
StartWith(w, hash) ==
    /\ pc[w] \notin Active /\ runs[w] < MaxRuns
    /\ \/ /\ conf[w] = None
          /\ pc' = [pc EXCEPT ![w] = "validate"]
          /\ expected' = [expected EXCEPT ![w] = hash]
       \/ /\ conf[w] # None
          /\ pc' = [pc EXCEPT ![w] = "refused"]
          /\ UNCHANGED expected
    /\ got' = [got EXCEPT ![w] = None]
    /\ UNCHANGED <<runs, disk, csr, token>>

Start(w) == \E hash \in CAs : StartWith(w, hash)

\* Mutant: a ca.crt that an earlier run saved is taken for the right one.
ValidateDiscovery_KeepSaved(w) ==
    /\ \E served \in Served :
        /\ served.first = expected[w]
        /\ Go(w, "validate", "key")
        /\ ca' = [ca EXCEPT ![w] = IF @ \in Served THEN @ ELSE served]
    /\ UNCHANGED <<runs, got, expected, keyFile, certFile, conf, config, csr, token>>

\* Mutant: the hash may be that of any block.
ValidateDiscovery_AnyBlock(w) ==
    /\ \E served \in Served :
        /\ expected[w] \in {served.first} \cup served.more
        /\ Go(w, "validate", "key")
        /\ ca' = [ca EXCEPT ![w] = served]
    /\ UNCHANGED <<runs, got, expected, keyFile, certFile, conf, config, csr, token>>

\* cluster-info is fetched.  Only the first block of the bundle in it is
\* decoded and hashed (join.go:297-313), and if that is the expected hash the
\* bundle is saved as it came, with any further blocks (join.go:325-329).
\* No server is verified, so the bundle may be any.
ValidateDiscovery(w) ==
    /\ \/ \E served \in Served :
            /\ served.first = expected[w]
            /\ \/ Go(w, "validate", "key") /\ ca' = [ca EXCEPT ![w] = served]
               \/ Go(w, "validate", "error") /\ ca' \in CutShort(ca, w)
       \* no answer, no CA that can be read, or one of another hash
       \/ Go(w, "validate", "error") /\ UNCHANGED ca
    /\ UNCHANGED <<runs, got, expected, keyFile, certFile, conf, config, csr, token>>

\* Every run makes a new key and overwrites kubelet.key.
GenerateKey(w) ==
    /\ \/ /\ Go(w, "key", "cleanup")
          /\ runs' = [runs EXCEPT ![w] = @ + 1]
          /\ keyFile' = [keyFile EXCEPT ![w] = runs[w] + 1]
       \/ Go(w, "key", "error") /\ keyFile' \in CutShort(keyFile, w) /\ UNCHANGED runs
    /\ UNCHANGED <<got, expected, ca, certFile, conf, config, csr, token>>

\* Delete of the CSR of that name; any error is only logged.
DeleteExisting(w) ==
    /\ Go(w, "cleanup", "create")
    /\ \/ Allowed("delete") /\ csr' = [csr EXCEPT ![NameOf[w]] = None]
       \/ (~Allowed("delete") \/ Lossy) /\ UNCHANGED csr
    /\ UNCHANGED <<runs, got, expected, disk, token>>

\* Mutant: AlreadyExists is taken for success, as bootstrap.go does.
CreateCSR_IgnoreExisting(w) ==
    /\ \/ /\ Allowed("create")
          /\ Go(w, "create", "poll")
          /\ csr' = [csr EXCEPT ![NameOf[w]] =
                        IF @ = None THEN [key |-> MyKey(w), issued |-> FALSE] ELSE @]
       \/ Go(w, "create", "error") /\ UNCHANGED csr
    /\ UNCHANGED <<runs, got, expected, disk, token>>

\* Create of the CSR.  An error ends the run: refused, lost, or AlreadyExists;
\* when only the reply is lost the object was created.
CreateCSR(w) ==
    /\ \/ /\ Allowed("create") /\ csr[NameOf[w]] = None
          /\ Go(w, "create", "poll") \/ (Lossy /\ Go(w, "create", "error"))
          /\ csr' = [csr EXCEPT ![NameOf[w]] = [key |-> MyKey(w), issued |-> FALSE]]
       \/ /\ ~Allowed("create") \/ csr[NameOf[w]] # None \/ Lossy
          /\ Go(w, "create", "error")
          /\ UNCHANGED csr
    /\ UNCHANGED <<runs, got, expected, disk, token>>

\* A Get by name returns a certificate.  A Get that fails is repeated.
PollSucceeds(w) ==
    /\ Allowed("get")
    /\ csr[NameOf[w]] # None /\ csr[NameOf[w]].issued
    /\ Go(w, "poll", "cert")
    /\ got' = [got EXCEPT ![w] = csr[NameOf[w]].key]
    /\ UNCHANGED <<runs, expected, disk, csr, token>>

\* Mutant: the length of the certificate is not tested after the poll.
PollTimesOut_Proceeds(w) ==
    /\ Go(w, "poll", "cert")
    /\ UNCHANGED <<runs, got, expected, disk, csr, token>>

\* Mutant: the poll has no limit.
PollTimesOut_Never(w) == FALSE

\* Sixty polls without one.
PollTimesOut(w) ==
    /\ Go(w, "poll", "error")
    /\ UNCHANGED <<runs, got, expected, disk, csr, token>>

WriteCert(w) ==
    /\ \/ Go(w, "cert", "conf") /\ certFile' = [certFile EXCEPT ![w] = got[w]]
       \/ Go(w, "cert", "error") /\ certFile' \in CutShort(certFile, w)
    /\ UNCHANGED <<runs, got, expected, ca, keyFile, conf, config, csr, token>>

\* kubelet.conf embeds the certificate received and the key of this run.
WriteConf(w) ==
    /\ \/ /\ Go(w, "conf", "config")
          /\ conf' = [conf EXCEPT ![w] = [cert |-> got[w], key |-> MyKey(w)]]
       \/ Go(w, "conf", "error") /\ conf' \in CutShort(conf, w)
    /\ UNCHANGED <<runs, got, expected, ca, keyFile, certFile, config, csr, token>>

WriteConfig(w) ==
    /\ \/ Go(w, "config", "joined") /\ config' = config \cup {w}
       \/ Go(w, "config", "error") /\ config' \in {config, config \ {w}}
    /\ UNCHANGED <<runs, got, expected, ca, keyFile, certFile, conf, csr, token>>

Step(w) ==
    \/ ValidateDiscovery(w) \/ GenerateKey(w) \/ DeleteExisting(w) \/ CreateCSR(w)
    \/ PollSucceeds(w) \/ PollTimesOut(w)
    \/ WriteCert(w) \/ WriteConf(w) \/ WriteConfig(w)

\* The run is interrupted, perhaps in the middle of a write.
Kill(w) ==
    /\ pc[w] \in Active
    /\ pc' = [pc EXCEPT ![w] = "idle"]
    /\ ca' \in IF pc[w] = "validate" THEN CutShort(ca, w) ELSE {ca}
    /\ keyFile' \in IF pc[w] = "key" THEN CutShort(keyFile, w) ELSE {keyFile}
    /\ certFile' \in IF pc[w] = "cert" THEN CutShort(certFile, w) ELSE {certFile}
    /\ conf' \in IF pc[w] = "conf" THEN CutShort(conf, w) ELSE {conf}
    /\ config' \in IF pc[w] = "config" THEN {config, config \ {w}} ELSE {config}
    /\ got' = [got EXCEPT ![w] = None]
    /\ UNCHANGED <<runs, expected, csr, token>>

Reboot(w) ==
    /\ pc' = [pc EXCEPT ![w] = "idle"]
    /\ ca' = [ca EXCEPT ![w] = None]
    /\ keyFile' = [keyFile EXCEPT ![w] = 0]
    /\ certFile' = [certFile EXCEPT ![w] = None]
    /\ conf' = [conf EXCEPT ![w] = None]
    /\ config' = config \ {w}
    /\ got' = [got EXCEPT ![w] = None] /\ expected' = [expected EXCEPT ![w] = None]
    /\ UNCHANGED <<runs, csr, token>>

-----------------------------------------------------------------------------
(* The control plane: the CSR approver, signer and cleaner, the token       *)
(* cleaner, and the operator who makes another token.                       *)

Issue(n) ==
    /\ csr[n] # None /\ ~csr[n].issued
    /\ csr' = [csr EXCEPT ![n].issued = TRUE]
    /\ UNCHANGED <<pc, runs, got, expected, disk, token>>

CleanUp(n) ==
    /\ csr[n] # None
    /\ csr' = [csr EXCEPT ![n] = None]
    /\ UNCHANGED <<pc, runs, got, expected, disk, token>>

TokenChanges ==
    /\ token' = IF token = "valid" THEN "expired" ELSE "valid"
    /\ UNCHANGED <<pc, runs, got, expected, disk, csr>>

Next ==
    \/ \E w \in Workers : Start(w) \/ Step(w) \/ Kill(w) \/ Reboot(w)
    \/ \E n \in Names : Issue(n) \/ CleanUp(n)
    \/ TokenChanges

Spec == Init /\ [][Next]_vars

\* A run that is not interrupted goes on: its requests return and its sixty
\* polls come to an end.  Nothing is assumed of the control plane.
Fairness == \A w \in Workers : WF_vars(Step(w))

FairSpec == Spec /\ Fairness

-----------------------------------------------------------------------------

\* A worker's kubelet.conf, whenever it is whole, pairs a certificate with
\* the private key it certifies (join.go:199-222 polls by name and never
\* compares the two), through retries, lost replies, late approvals and CSRs
\* left by earlier runs.
CertMatchesKey ==
    \A w \in Workers : conf[w] \notin {None, Torn} => conf[w].cert = conf[w].key

\* kubelet.key and kubelet.crt on disk are those kubelet.conf embeds: a
\* later run never overwrites the key of a worker that has joined.
FilesMatchConf ==
    \A w \in Workers : conf[w] \notin {None, Torn} =>
        conf[w].key = <<w, keyFile[w]>> /\ conf[w].cert = certFile[w]

\* The ca.crt of a worker that got as far as kubelet.conf begins with the
\* authority whose hash the operator passed to the run that wrote it, and not
\* one of another hash that an earlier or a later run was given, or of an
\* answer to one.  No more than that: the authorities that a server has
\* appended to it are in ca.crt too, and no hash was compared for them.
ConfImpliesExpectedCA ==
    \A w \in Workers : conf[w] # None => ca[w] \in Served /\ ca[w].first = expected[w]

\* kubelet.conf is written once: only a reboot takes it away.
ConfWrittenOnce ==
    [][\A w \in Workers : conf[w] # None => conf'[w] \in {conf[w], None}]_vars

\* Every run of join ends, even if no certificate is ever issued.
JoinEnds == \A w \in Workers : pc[w] \in Active ~> pc[w] \notin Active

-----------------------------------------------------------------------------

\* join.go:170 "Delete existing if any.": when the request is answered, no
\* CSR of that name is left for the Create that follows.
CleanupWorks ==
    [][\A w \in Workers :
        pc[w] = "cleanup" /\ pc'[w] = "create" /\ token = "valid"
            => csr'[NameOf[w]] = None]_vars
=============================================================================
