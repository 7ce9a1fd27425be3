----------------------------- MODULE Restarters -----------------------------
(***************************************************************************)
(* How a restarter finds what it restarts.  In Kubernetes a node is        *)
(* restarted by deleting its pod (pkg/rolling/restarters/common_k8s.go):   *)
(* the pods with the component's label are listed once, by Filter, into a  *)
(* map from names to pods, and looked up again at each restart.            *)
(*                                                                         *)
(* A pod is a record [name, fqdn, nodeName, icPort]; icPort is None when   *)
(* no ydb container of it declares the interconnect port.                  *)
(***************************************************************************)
EXTENDS Integers, Sequences

CONSTANT None

Names(pod) == {pod.name, pod.fqdn, pod.nodeName}

(* The keys under which a pod is entered: each name, alone and with the    *)
(* interconnect port.                                                      *)
Keys(pod) ==
    {<<name>> : name \in Names(pod)}
    \cup IF pod.icPort = None THEN {}
         ELSE {<<name, pod.icPort>> : name \in Names(pod)}

(* FQDNToPodName: later pods of the list overwrite earlier ones.           *)
EnteredLast(pods, key) ==
    {i \in DOMAIN pods :
        /\ key \in Keys(pods[i])
        /\ \A j \in DOMAIN pods : key \in Keys(pods[j]) => j <= i}

(* Mutant: the port is not looked at. *)
LookupByHost(pods, host, port) == EnteredLast(pods, <<host>>)

(* The entry for host and port; that for the host alone if there is none.  *)
Lookup(pods, host, port) ==
    IF EnteredLast(pods, <<host, port>>) # {}
    THEN EnteredLast(pods, <<host, port>>)
    ELSE EnteredLast(pods, <<host>>)

(* The pods that a restart of the node deletes: one, or none with an error. *)
Deleted(pods, node) ==
    {pods[i].name : i \in Lookup(pods, node.host, node.port)}

-----------------------------------------------------------------------------
(* What runs the node: it answers under one of the pod's names, at the     *)
(* pod's interconnect port.                                                *)
Runs(pod, node) == node.host \in Names(pod) /\ node.port = pod.icPort

(* No two pods share a name and an interconnect port.                      *)
Distinct(pods) ==
    \A i, j \in DOMAIN pods :
        /\ Names(pods[i]) \cap Names(pods[j]) # {}
        /\ pods[i].icPort = pods[j].icPort
        => i = j
=============================================================================
