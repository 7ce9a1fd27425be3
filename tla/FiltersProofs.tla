---------------------------- MODULE FiltersProofs ----------------------------
(***************************************************************************)
(* Proofs about Filters: the filters of the restarters select what the     *)
(* help of the options asks for, for every list of nodes and all options,  *)
(* but for the nodes of Disputed.                                          *)
(***************************************************************************)
EXTENDS Filters, TLAPS

-----------------------------------------------------------------------------
(* The ids and ranges of --hosts denote the selected node ids. *)
LEMMA SelectedIds ==
    ASSUME NEW hosts, NEW id
    PROVE  id \in GetNodeIds(hosts)
               <=> Numeric(hosts) /\ \E x \in hosts : id \in Denoted(x)
  BY DEF GetNodeIds

(* Selecting by host, data center, id and pod is Included. *)
LEMMA PreselectIsIncluded ==
    ASSUME NEW nodes, NEW o, NEW pods, NEW n
    PROVE  n \in Preselect(nodes, FilterNodeParams(o), o.k8s, pods)
               <=> n \in nodes /\ Included(n, o, pods)
  <1> DEFINE spec == FilterNodeParams(o)
  <1>1. /\ spec.selectedHosts = o.hosts
        /\ spec.selectedDatacenters = o.datacenters
        /\ spec.selectedNodeIds = GetNodeIds(o.hosts)
    BY DEF FilterNodeParams
  <1>2. n.id \in spec.selectedNodeIds
            <=> Numeric(o.hosts) /\ \E x \in o.hosts : n.id \in Denoted(x)
    BY <1>1, SelectedIds
  <1>3. IsInclusiveFilteringUnspecified(spec)
            <=> o.hosts = {} /\ o.datacenters = {}
    <2>1. o.hosts = {} => GetNodeIds(o.hosts) = {}
      BY DEF GetNodeIds
    <2> QED
      BY <1>1, <2>1 DEF IsInclusiveFilteringUnspecified
  <1> HIDE DEF spec
  <1>4. CASE o.hosts = {} /\ o.datacenters = {}
    BY <1>3, <1>4 DEF Preselect, PopulateByCommonFields,
                      PopulateWithK8sRules, Included, spec
  <1>5. CASE ~(o.hosts = {} /\ o.datacenters = {})
    <2>1. PopulateByCommonFields(nodes, spec)
              = IncludeByFilterNodeParams(nodes, spec)
      BY <1>3, <1>5 DEF PopulateByCommonFields
    <2>2. n \in IncludeByFilterNodeParams(nodes, spec)
              <=> /\ n \in nodes
                  /\ \/ n.datacenter \in o.datacenters
                     \/ n.host \in o.hosts
                     \/ n.id \in spec.selectedNodeIds
      BY <1>1 DEF IncludeByFilterNodeParams
    <2>3. n \in PopulateWithK8sRules(nodes, spec, pods)
              <=> n \in nodes /\ pods[n.host] \in o.hosts
      BY <1>1, <1>3, <1>5 DEF PopulateWithK8sRules
    <2>4. CASE o.k8s
      BY <1>2, <1>5, <2>1, <2>2, <2>3, <2>4 DEF Preselect, Included, spec
    <2>5. CASE ~o.k8s
      BY <1>2, <1>5, <2>1, <2>2, <2>5 DEF Preselect, Included, spec
    <2> QED
      BY <2>4, <2>5
  <1> QED
    BY <1>4, <1>5

(* A start time that the CMS gave is compared as the help says; one that   *)
(* it did not give passes for <T only.                                     *)
LEMMA StartingTime ==
    ASSUME NEW o, NEW n, ValidStarted(o.started), o.started # None,
           n.started = None => o.started.direction = ">"
    PROVE  SatisfiesStartingTime(n, o.started)
               <=> /\ n.started # None
                   /\ o.started.direction = "<" => n.started < o.started.timestamp
                   /\ o.started.direction = ">" => n.started > o.started.timestamp
  BY DEF SatisfiesStartingTime, AsTime, ValidStarted

(* What is left out by host, id, start time and version is Excluded. *)
LEMMA CommonFieldsExclude ==
    ASSUME NEW nodes, NEW o, NEW pods, NEW n,
           ValidStarted(o.started), ~Disputed(n, o, pods)
    PROVE  n \in ExcludeByCommonFields(nodes, FilterNodeParams(o))
               <=> n \in nodes /\ ~Excluded(n, o, pods)
  <1> DEFINE spec == FilterNodeParams(o)
  <1>1. /\ spec.excludeHosts = o.excludeHosts
        /\ spec.startedTime = o.started
        /\ spec.version = o.version
    BY DEF FilterNodeParams
  <1> HIDE DEF spec
  <1>2. (\E a \in o.excludeHosts : Denotes(a, n, o, pods))
            <=> Itoa(n.id) \in o.excludeHosts \/ n.host \in o.excludeHosts
    <2>1. Denotes(n.host, n, o, pods) /\ Denotes(Itoa(n.id), n, o, pods)
      BY DEF Denotes, Itoa, Denoted
    <2> QED
      BY <2>1 DEF Disputed
  <1>3. ASSUME o.started # None
        PROVE  SatisfiesStartingTime(n, o.started)
                   <=> ~(\/ n.started = None
                         \/ /\ o.started.direction = "<"
                            /\ ~(n.started < o.started.timestamp)
                         \/ /\ o.started.direction = ">"
                            /\ ~(n.started > o.started.timestamp))
    <2>1. n.started = None => o.started.direction = ">"
      BY <1>3 DEF Disputed, ValidStarted
    <2> QED
      BY <1>3, <2>1, StartingTime
  <1>4. o.started = None => SatisfiesStartingTime(n, o.started)
    BY DEF SatisfiesStartingTime
  <1>5. n \in ExcludeByCommonFields(nodes, spec)
            <=> /\ n \in nodes
                /\ Itoa(n.id) \notin o.excludeHosts /\ n.host \notin o.excludeHosts
                /\ SatisfiesStartingTime(n, o.started)
                /\ o.version # None =>
                      n.version # None /\ SatisfiesVersion(o.version, n.version)
    BY <1>1 DEF ExcludeByCommonFields
  <1> QED
    BY <1>2, <1>3, <1>4, <1>5 DEF Excluded, spec

(* The storage filter selects the storage nodes the help asks for. *)
THEOREM FilterStorageSelects ==
    ASSUME NEW cluster, NEW o, NEW pods, NEW n, ValidStarted(o.started),
           n.id \in Nat, o.maxStaticNodeID \in Nat, ~Disputed(n, o, pods)
    PROVE  n \in FilterStorage(cluster, FilterNodeParams(o), o.k8s, pods)
               <=> n \in cluster /\ AskedStorage(n, o, pods)
  <1> DEFINE spec == FilterNodeParams(o)
             storage == FilterStorageNodes(cluster, spec.maxStaticNodeID)
  <1>1. spec.maxStaticNodeID = o.maxStaticNodeID
    BY DEF FilterNodeParams
  <1>2. n \in storage
            <=> n \in cluster /\ n.kind = "storage" /\ n.id < o.maxStaticNodeID
    BY <1>1 DEF FilterStorageNodes
  <1>3. n \in Preselect(storage, spec, o.k8s, pods)
            <=> n \in storage /\ Included(n, o, pods)
    BY PreselectIsIncluded
  <1>4. FilterStorage(cluster, spec, o.k8s, pods)
            = ExcludeByCommonFields(Preselect(storage, spec, o.k8s, pods), spec)
    BY DEF FilterStorage
  <1>5. n \in FilterStorage(cluster, spec, o.k8s, pods)
            <=> /\ n \in Preselect(storage, spec, o.k8s, pods)
                /\ ~Excluded(n, o, pods)
    BY <1>4, CommonFieldsExclude
  <1>6. n.kind = "storage" =>
            (n.id < o.maxStaticNodeID <=> n.id <= o.maxStaticNodeID)
    BY DEF Disputed
  <1> HIDE DEF spec, storage
  <1> QED
    BY <1>2, <1>3, <1>5, <1>6 DEF AskedStorage, Asked, spec

(* The tenant filter selects the dynamic nodes the help asks for, if no    *)
(* two nodes have the same id: the tenants are looked up by id.            *)
THEOREM FilterTenantSelects ==
    ASSUME NEW cluster, NEW o, NEW pods, NEW n, ValidStarted(o.started),
           ~Disputed(n, o, pods),
           \A x, y \in cluster : x.id = y.id => x = y
    PROVE  n \in FilterTenant(cluster, FilterNodeParams(o), o.k8s, pods)
               <=> n \in cluster /\ AskedTenant(n, o, pods)
  <1> DEFINE spec == FilterNodeParams(o)
             chosen == Preselect(FilterTenantNodes(cluster), spec, o.k8s, pods)
  <1>1. spec.selectedTenants = o.tenantList
    BY DEF FilterNodeParams
  <1>2. n \in chosen
            <=> /\ n \in cluster /\ n.kind = "dynamic"
                /\ Included(n, o, pods)
    BY PreselectIsIncluded DEF FilterTenantNodes
  <1>3. ASSUME n \in chosen
        PROVE  \A t : n.id \in PopulateTenantToNodesMapping(cluster, t)
                          <=> n.tenant = t
    BY <1>2, <1>3 DEF PopulateTenantToNodesMapping
  <1>4. n \in ExcludeByTenantNames(chosen, spec, cluster)
            <=> n \in chosen /\ (o.tenantList = {} \/ n.tenant \in o.tenantList)
    BY <1>1, <1>3 DEF ExcludeByTenantNames
  <1>5. n \in FilterTenant(cluster, spec, o.k8s, pods)
            <=> /\ n \in ExcludeByTenantNames(chosen, spec, cluster)
                /\ ~Excluded(n, o, pods)
    BY CommonFieldsExclude DEF FilterTenant
  <1> QED
    BY <1>2, <1>4, <1>5 DEF AskedTenant, Asked

(* Whatever a filter selects, disputed or not, is one of the listed nodes, *)
(* of the filter's kind, and satisfies --started and --version as the code *)
(* reads them.                                                             *)
LEMMA SelectedNode ==
    ASSUME NEW cluster, NEW o, NEW pods, NEW n
    PROVE  /\ n \in FilterStorage(cluster, FilterNodeParams(o), o.k8s, pods) =>
                 n \in cluster /\ n.kind = "storage"
           /\ n \in FilterTenant(cluster, FilterNodeParams(o), o.k8s, pods) =>
                 n \in cluster /\ n.kind = "dynamic"
           /\ \/ n \in FilterStorage(cluster, FilterNodeParams(o), o.k8s, pods)
              \/ n \in FilterTenant(cluster, FilterNodeParams(o), o.k8s, pods)
              => /\ SatisfiesStartingTime(n, o.started)
                 /\ o.version # None =>
                       n.version # None /\ SatisfiesVersion(o.version, n.version)
  <1> DEFINE spec == FilterNodeParams(o)
  <1>1. spec.startedTime = o.started /\ spec.version = o.version
    BY DEF FilterNodeParams
  <1>2. \A nodes : n \in Preselect(nodes, spec, o.k8s, pods) => n \in nodes
    BY PreselectIsIncluded
  <1> HIDE DEF spec
  <1>3. \A nodes : n \in ExcludeByCommonFields(nodes, spec) =>
            /\ n \in nodes /\ SatisfiesStartingTime(n, o.started)
            /\ o.version # None =>
                  n.version # None /\ SatisfiesVersion(o.version, n.version)
    BY <1>1 DEF ExcludeByCommonFields
  <1>4. n \in FilterStorageNodes(cluster, spec.maxStaticNodeID) =>
            n \in cluster /\ n.kind = "storage"
    BY DEF FilterStorageNodes
  <1>5. n \in FilterTenantNodes(cluster) => n \in cluster /\ n.kind = "dynamic"
    BY DEF FilterTenantNodes
  <1>6. \A nodes : n \in ExcludeByTenantNames(nodes, spec, cluster) => n \in nodes
    BY DEF ExcludeByTenantNames
  <1> QED
    BY <1>2, <1>3, <1>4, <1>5, <1>6 DEF FilterStorage, FilterTenant, spec
=============================================================================
