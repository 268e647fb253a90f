--------------------------- MODULE ClusterObjects ---------------------------
(***************************************************************************)
(* The API objects that `koobadm init` creates, in order: bootstrap.go for *)
(* the join, the manifests of CoreDNS (coredns.yaml.tmpl) for the addon.   *)
(***************************************************************************)
EXTENDS Sequences

ApplyJoinRBAC == <<"kubelet-bootstrap", "node-autoapprove">>

InitDiscovery == <<"kube-public", "cluster-info", "discovery-role", "discovery-binding">>

InitBootstrapRBAC == ApplyJoinRBAC \o InitDiscovery

ApplyCoreDNS == <<"serviceaccount", "configmap", "clusterrole", "clusterrolebinding",
                  "deployment", "service">>
=============================================================================
