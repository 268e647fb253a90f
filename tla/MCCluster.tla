----------------------------- MODULE MCCluster -----------------------------
(* Cluster for TLC: of the objects that init creates the role binding and    *)
(* the ConfigMap that a join depends on, and one of CoreDNS.                *)
EXTENDS Cluster

MCRBAC == <<"kubelet-bootstrap", "cluster-info">>
MCCoreDNS == <<"deployment">>
MCNameOf == [w \in Workers |-> w]
NodeBootstrapper == {"create", "get", "list", "watch"}

\* What a guard may still read of a variable that a run uses in some places.
Live(v, places) == [w \in Workers |-> IF jpc[w] \in places THEN v[w] ELSE Nil]

\* Who signed for the keys that a CSR, a run or a kubelet.conf still has: a
\* key that is gone from all three does not come back.
Held(k) ==
    \/ \E n \in Names : csr[n] # Nil /\ csr[n].key = k
    \/ \E w \in Workers : jpc[w] \in {"cert", "conf"} /\ got[w] = k
    \/ \E w \in Workers : Whole(w) /\ conf[w].cert = k

Signed == [k \in J!Keys |-> IF Held(k) THEN issuer[k] ELSE Nil]

\* Of the objects only these matter to a worker, of the Node its mark to
\* token create; it has no other writer here, so its version never conflicts.
Objects == <<CP!Exist(CP!JoinRBAC), obj[ClusterInfo], node # Nil, node # Nil /\ node.marked>>

\* What is left out no later guard reads: two states that differ only in that
\* have the same future and agree on every property.  TypeOK is there for TLC,
\* which must have evaluated every variable before it stores a state.
Observed ==
    <<TypeOK, pc, next, run, files, Objects, tokens, token, serving,
      jpc, runs, Live(got, {"cert", "conf"}), Live(expected, {"validate"}),
      ca, conf, csr, command, Signed, shown, everWiped>>
=============================================================================
