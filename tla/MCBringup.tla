------------------------------ MODULE MCBringup ------------------------------
(* Bringup for TLC, with one file for each role in the order of runInit:    *)
(* the PKI, admin.conf, kubelet.conf, the manifests, config.yaml.           *)
EXTENDS Bringup

MCSteps == <<"pki", "admin.conf", "kubelet.conf", "manifests", "config.yaml">>
MCInputs(f) == IF f \in {"admin.conf", "kubelet.conf"} THEN {"pki"} ELSE {}
MCOutsideEtc == {"config.yaml"}
MCManifests == {"manifests"}
=============================================================================
