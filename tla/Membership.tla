----------------------------- MODULE Membership -----------------------------
(***************************************************************************)
(* What joining promises, with no network, file or process in sight: a     *)
(* worker belongs to at most one authority at a time, only to one that had *)
(* invited it, and changes to another only by leaving first.               *)
(***************************************************************************)
CONSTANTS Workers, Authorities, Nil

VARIABLES
    invited,  \* authorities whose join command was shown
    member    \* the authority each worker belongs to

Init ==
    /\ invited = {}
    /\ member = [w \in Workers |-> Nil]

Invite ==
    /\ \E a \in Authorities \ invited : invited' = invited \cup {a}
    /\ UNCHANGED member

Admit(w) ==
    /\ member[w] = Nil
    /\ \E a \in invited : member' = [member EXCEPT ![w] = a]
    /\ UNCHANGED invited

Leave(w) ==
    /\ member[w] # Nil
    /\ member' = [member EXCEPT ![w] = Nil]
    /\ UNCHANGED invited

Next == Invite \/ \E w \in Workers : Admit(w) \/ Leave(w)

Spec == Init /\ [][Next]_<<invited, member>>
=============================================================================
