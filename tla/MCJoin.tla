------------------------------- MODULE MCJoin -------------------------------
(* Join for TLC: workers with hostnames of their own.  The verbs are those  *)
(* of the cluster role system:node-bootstrapper, the only role that         *)
(* bootstrap.go:195-212 binds to system:bootstrappers for CSR objects.      *)
EXTENDS Join

CONSTANTS w1, ca1, ca2

MCNameOf == [w \in Workers |-> w]

NodeBootstrapper == {"create", "get", "list", "watch"}

\* A cluster whose operator also lets bootstrap tokens delete CSRs.
WithDelete == NodeBootstrapper \cup {"delete"}

\* A server has ca2 alone, or ca1 with ca2 appended to it.
MCServed == {[first |-> ca1, more |-> {ca2}], [first |-> ca2, more |-> {}]}

\* To bound the states, one operator turns from the hash of one authority to
\* that of another between two runs, and the others keep to ca1.
MCSpec ==
    /\ Init
    /\ [][Next /\ \A w \in Workers \ {w1} : expected'[w] # ca2]_vars
    /\ Fairness
=============================================================================
