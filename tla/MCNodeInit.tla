----------------------------- MODULE MCNodeInit -----------------------------
(* NodeInit for TLC, with all the files of the code.                        *)
EXTENDS NodeInit, NodeFiles

MCSteps == InitPKI \o InitKubeConfigs \o InitManifests \o InitKubeletConfig
MCNPki == Len(InitPKI)
MCNConf == Len(InitKubeConfigs)
MCKubeletConf == InitKubeConfigs[2]
MCOutsideEtc == {InitKubeletConfig[1]}
=============================================================================
