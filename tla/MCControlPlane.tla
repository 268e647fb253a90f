--------------------------- MODULE MCControlPlane ---------------------------
(* ControlPlane for TLC, with all the objects of the code.                  *)
EXTENDS ControlPlane, ClusterObjects

MCNJoin == Len(ApplyJoinRBAC)
MCAnonymous == {"discovery-role", "discovery-binding"}
=============================================================================
