------------------------------- MODULE MCKoobd -------------------------------
(* Koobd for TLC.  The cfg names the services of services.go, containerd    *)
(* that starts at once and kubelet that has a trigger file, and gives Procs *)
(* a few slots; slots are interchangeable in the safety runs.               *)
EXTENDS Koobd, TLC

Symm == Permutations(Procs)
=============================================================================
