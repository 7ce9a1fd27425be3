------------------------------ MODULE Filters ------------------------------
(***************************************************************************)
(* Which nodes a restarter selects: the filters of pkg/rolling/restarters  *)
(* with the options they read.  A slice of nodes is a set, a node a record *)
(* [id, host, datacenter, kind, tenant, started, version].                 *)
(*                                                                         *)
(* An argument of --hosts or --exclude-hosts is <<"id", 7>>,               *)
(* <<"range", 1, 3>> or <<"name", h>>; node hosts and pods are of the last *)
(* form.  A version is [raw, number, plain]: the text, the major, minor    *)
(* and patch that ParseMajorMinorPatchFromVersion finds in it (or None),   *)
(* and whether the text is nothing else.                                   *)
(***************************************************************************)
EXTENDS Integers

CONSTANT None

(* A start time that the CMS did not give becomes the epoch.               *)
AsTime(time) == IF time = None THEN 0 ELSE time

Itoa(id) == <<"id", id>>

(* GetNodeIds fails on the first name, and its ids are then not used. *)
Numeric(hosts) == \A a \in hosts : a[1] \in {"id", "range"}
Denoted(a) == IF a[1] = "id" THEN {a[2]} ELSE a[2]..a[3]
GetNodeIds(hosts) == IF Numeric(hosts) THEN UNION {Denoted(a) : a \in hosts}
                     ELSE {}

(* A host that is a number or a range is a valid host name, too. *)
FilterNodeParams(opts) ==
    [selectedNodeIds |-> GetNodeIds(opts.hosts),
     selectedHosts |-> opts.hosts,
     selectedDatacenters |-> opts.datacenters,
     selectedTenants |-> opts.tenantList,
     excludeHosts |-> opts.excludeHosts,
     startedTime |-> opts.started,
     version |-> opts.version,
     maxStaticNodeID |-> opts.maxStaticNodeID]

-----------------------------------------------------------------------------
FilterStorageNodes(nodes, maxStaticNodeId) ==
    {n \in nodes : n.kind = "storage" /\ n.id < maxStaticNodeId}

FilterTenantNodes(nodes) == {n \in nodes : n.kind = "dynamic"}

IsInclusiveFilteringUnspecified(spec) ==
    /\ spec.selectedDatacenters = {}
    /\ spec.selectedHosts = {}
    /\ spec.selectedNodeIds = {}

IncludeByFilterNodeParams(nodes, spec) ==
    {n \in nodes : \/ n.datacenter \in spec.selectedDatacenters
                   \/ n.host \in spec.selectedHosts
                   \/ n.id \in spec.selectedNodeIds}

PopulateByCommonFields(nodes, spec) ==
    IF IsInclusiveFilteringUnspecified(spec) THEN nodes
    ELSE IncludeByFilterNodeParams(nodes, spec)

(* pods[h] is the pod that runs on host h, None if none has the label. *)
PopulateWithK8sRules(nodes, spec, pods) ==
    IF IsInclusiveFilteringUnspecified(spec) THEN nodes
    ELSE {n \in nodes : pods[n.host] \in spec.selectedHosts}

(* Mutant: the direction of the comparison is swapped. *)
StartedTheOtherWay(n, startedTime) ==
    startedTime # None =>
        IF startedTime.direction = "<"
        THEN startedTime.timestamp < AsTime(n.started)
        ELSE AsTime(n.started) < startedTime.timestamp

(* The epoch is not IsZero. *)
SatisfiesStartingTime(n, startedTime) ==
    startedTime # None =>
        IF startedTime.direction = "<"
        THEN AsTime(n.started) < startedTime.timestamp
        ELSE startedTime.timestamp < AsTime(n.started)

Before(a, b) ==
    \E i \in 1..3 : a[i] < b[i] /\ \A j \in 1..(i - 1) : a[j] = b[j]

(* No case for the sign ~=. *)
CompareMajorMinorPatch(sign, nodeVersion, userVersion) ==
    \/ sign = "<" /\ Before(nodeVersion, userVersion)
    \/ sign = ">" /\ Before(userVersion, nodeVersion)
    \/ sign = "!=" /\ nodeVersion # userVersion

CompareRaw(sign, nodeVersion, userVersion) ==
    IF sign = "==" THEN nodeVersion = userVersion
                   ELSE nodeVersion # userVersion

(* parseVersionFlag makes a MajorMinorPatchVersion of a plain version,     *)
(* unless the sign is ==, and a RawVersion of the rest.                    *)
SatisfiesVersion(flag, version) ==
    IF flag.operand.plain /\ flag.sign # "=="
    THEN /\ version.number # None
         /\ CompareMajorMinorPatch(flag.sign, version.number,
                                   flag.operand.number)
    ELSE CompareRaw(flag.sign, version.raw, flag.operand.raw)

ExcludeByCommonFields(nodes, spec) ==
    {n \in nodes :
        /\ Itoa(n.id) \notin spec.excludeHosts
        /\ n.host \notin spec.excludeHosts
        /\ SatisfiesStartingTime(n, spec.startedTime)
        /\ spec.version # None =>
              n.version # None /\ SatisfiesVersion(spec.version, n.version)}

PopulateTenantToNodesMapping(nodes, tenant) ==
    {n.id : n \in {m \in nodes : m.kind = "dynamic" /\ m.tenant = tenant}}

(* Mutant: the list of tenants is not looked at. *)
AnyTenant(nodes, spec, cluster) == nodes

ExcludeByTenantNames(nodes, spec, cluster) ==
    IF spec.selectedTenants = {} THEN nodes
    ELSE {n \in nodes : \E t \in spec.selectedTenants :
                            n.id \in PopulateTenantToNodesMapping(cluster, t)}

-----------------------------------------------------------------------------
(* Filter of the storage and of the tenant restarters.  The restarters for *)
(* ssh and for a payload differ from those for Kubernetes in the names.    *)
Preselect(nodes, spec, k8s, pods) ==
    IF k8s THEN PopulateByCommonFields(nodes, spec)
                    \cup PopulateWithK8sRules(nodes, spec, pods)
           ELSE PopulateByCommonFields(nodes, spec)

FilterStorage(cluster, spec, k8s, pods) ==
    ExcludeByCommonFields(
        Preselect(FilterStorageNodes(cluster, spec.maxStaticNodeID),
                  spec, k8s, pods),
        spec)

FilterTenant(cluster, spec, k8s, pods) ==
    ExcludeByCommonFields(
        ExcludeByTenantNames(
            Preselect(FilterTenantNodes(cluster), spec, k8s, pods),
            spec, cluster),
        spec)

-----------------------------------------------------------------------------
(* The reference for the filters, from the help of the options             *)
(* (pkg/options/targeting.go:58-94) and the changelog, one node at a time. *)

ValidStarted(started) ==
    started # None => /\ started.direction \in {"<", ">"}
                      /\ started.timestamp \in Nat

(* The forms of an argument of --hosts. *)
Denotes(a, n, opts, pods) ==
    \/ a = n.host
    \/ a[1] \in {"id", "range"} /\ n.id \in Denoted(a)
    \/ opts.k8s /\ a = pods[n.host]

(* The help forbids ids among names; the code then looks at the names.     *)
Included(n, opts, pods) ==
    \/ opts.hosts = {} /\ opts.datacenters = {}
    \/ n.datacenter \in opts.datacenters
    \/ n.host \in opts.hosts
    \/ Numeric(opts.hosts) /\ \E a \in opts.hosts : n.id \in Denoted(a)
    \/ opts.k8s /\ pods[n.host] \in opts.hosts

(* --exclude-hosts: "Do not restart these hosts, even if they are          *)
(* explicitly specified in --hosts".  --started and --version refuse to    *)
(* add any node with empty start time or empty version (CHANGELOG.md).     *)
Excluded(n, opts, pods) ==
    \/ \E a \in opts.excludeHosts : Denotes(a, n, opts, pods)
    \/ /\ opts.started # None
       /\ \/ n.started = None
          \/ opts.started.direction = "<" /\ ~(n.started < opts.started.timestamp)
          \/ opts.started.direction = ">" /\ ~(n.started > opts.started.timestamp)
    \/ /\ opts.version # None
       /\ n.version = None \/ ~SatisfiesVersion(opts.version, n.version)

Asked(n, opts, pods) == Included(n, opts, pods) /\ ~Excluded(n, opts, pods)

(* --max-static-node-id: "Nodes with this nodeId or less". *)
AskedStorage(n, opts, pods) ==
    /\ n.kind = "storage" /\ n.id <= opts.maxStaticNodeID
    /\ Asked(n, opts, pods)

AskedTenant(n, opts, pods) ==
    /\ n.kind = "dynamic"
    /\ opts.tenantList = {} \/ n.tenant \in opts.tenantList
    /\ Asked(n, opts, pods)

(* The nodes on which code and reference differ: the storage node at the   *)
(* bound is not selected, a node without start time is for --started <T,   *)
(* and --exclude-hosts knows neither ranges nor pods.  What ~= means the   *)
(* help does not say; in the code it fits no version.                      *)
Disputed(n, opts, pods) ==
    \/ n.kind = "storage" /\ n.id = opts.maxStaticNodeID
    \/ /\ opts.started # None /\ opts.started.direction = "<"
       /\ n.started = None
    \/ \E a \in opts.excludeHosts :
           /\ Denotes(a, n, opts, pods)
           /\ a \notin {n.host, Itoa(n.id)}
    \/ opts.version # None /\ opts.version.sign = "~="
=============================================================================
