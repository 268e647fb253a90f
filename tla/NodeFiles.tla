------------------------------ MODULE NodeFiles ------------------------------
(***************************************************************************)
(* The files that `koobadm init` writes on a control-plane node, in order. *)
(* A file is its name without the extension, and the extension.            *)
(***************************************************************************)
EXTENDS Sequences, SequencesExt

\* writeCertAndKey writes the certificate first.
CertAndKey(name) == <<<<name, "crt">>, <<name, "key">>>>

\* writeKey and writePublicKey of the service-account signing key.
ServiceAccountKey == <<<<"sa", "key">>, <<"sa", "pub">>>>

Pairs == <<"ca", "apiserver", "apiserver-kubelet-client", "admin", "kubelet",
           "controller-manager", "scheduler">>

InitPKI == FlattenSeq([i \in 1..Len(Pairs) |-> CertAndKey(Pairs[i])]) \o ServiceAccountKey

\* User kubernetes-admin, the node, and the two components.
InitKubeConfigs == <<<<"admin", "conf">>, <<"kubelet", "conf">>,
                     <<"controller-manager", "conf">>, <<"scheduler", "conf">>>>

\* writeEmbeddedKubeConfig reads ca.crt and the client's pair back from disk.
Embedded(f) ==
    IF f[2] = "conf" THEN {<<"ca", "crt">>, <<f[1], "crt">>, <<f[1], "key">>} ELSE {}

InitManifests == <<<<"etcd", "yaml">>, <<"kube-apiserver", "yaml">>,
                   <<"kube-controller-manager", "yaml">>, <<"kube-scheduler", "yaml">>>>

\* /var/lib/kubelet/config.yaml, the only one outside /etc/kubernetes.
InitKubeletConfig == <<<<"kubelet", "config.yaml">>>>
=============================================================================
