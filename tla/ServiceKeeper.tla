---------------------------- MODULE ServiceKeeper ----------------------------
(***************************************************************************)
(* What koobd promises about one managed service, with no process table,   *)
(* reaper or context: it is held until released, it is up or down, a death *)
(* is noticed, and then either it is brought up again or it is given up    *)
(* for good.  A service that died is never up again before the death was   *)
(* noticed, and one given up never comes back.                             *)
(***************************************************************************)
CONSTANT Services

VARIABLE phase

Init == phase = [s \in Services |-> "held"]

Move(s, from, to) ==
    /\ phase[s] \in from
    /\ phase' = [phase EXCEPT ![s] = to]

Release(s) == Move(s, {"held"}, "down")
BringUp(s) == Move(s, {"down"}, "up")
Die(s)     == Move(s, {"up"}, "dead")
Notice(s)  == Move(s, {"dead"}, "down")
GiveUp(s)  == Move(s, {"held", "down", "dead"}, "abandoned")

Next == \E s \in Services :
    Release(s) \/ BringUp(s) \/ Die(s) \/ Notice(s) \/ GiveUp(s)

Spec == Init /\ [][Next]_phase

\* Neither a dead service nor a down one is left as it is.
Settled(s) ==
    \/ phase[s] = "dead" /\ (Notice(s) \/ GiveUp(s))
    \/ phase[s] = "down" /\ (BringUp(s) \/ GiveUp(s))

FairSpec == Spec /\ \A s \in Services : WF_phase(Settled(s))
=============================================================================
