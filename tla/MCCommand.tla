----------------------------- MODULE MCCommand -----------------------------
(* Instances of Command for TLC: two storage and two dynamic nodes of two   *)
(* tenants on two hosts, in pods of Kubernetes or not.                      *)
EXTENDS Command

CONSTANTS h1, h2, p1, p2, p3, a, b, ta, tb, tc

FourNodes == 1..4

Host(h) == <<"name", h>>

Cluster ==
    <<[host |-> Host(h1), datacenter |-> a, kind |-> "storage",
       tenant |-> None],
      [host |-> Host(h2), datacenter |-> b, kind |-> "storage",
       tenant |-> None],
      [host |-> Host(h1), datacenter |-> a, kind |-> "dynamic",
       tenant |-> ta],
      [host |-> Host(h2), datacenter |-> b, kind |-> "dynamic",
       tenant |-> tb]>>

(* No dynamic pod runs on the second host. *)
SomePods ==
    [kind \in {"storage", "dynamic"} |->
        [h \in {Host(h1), Host(h2)} |->
            IF kind = "storage" THEN Host(IF h = Host(h1) THEN p1 ELSE p2)
            ELSE IF h = Host(h1) THEN Host(p3) ELSE None]]

Version(raw, number, plain) == [raw |-> raw, number |-> number, plain |-> plain]
V1 == Version("24.1.9", <<24, 1, 9>>, TRUE)
V2 == Version("ydb-stable-24-2-1", <<24, 2, 1>>, FALSE)
V3 == Version("24.3.0", <<24, 3, 0>>, TRUE)
Trunk == Version("trunk", None, FALSE)

Mixed == <<V1, V2, V1, Trunk>>
Alike == <<V1, V1, V1, V1>>

Default ==
    [storage |-> FALSE, tenant |-> FALSE, tenantList |-> {}, hosts |-> {},
     excludeHosts |-> {}, datacenters |-> {}, started |-> None,
     version |-> None, maxStaticNodeID |-> 50000, k8s |-> FALSE,
     cleanupOnExit |-> TRUE]

StartedBefore(t) == [direction |-> "<", timestamp |-> t]
StartedAfter(t) == [direction |-> ">", timestamp |-> t]
Compared(sign, v) == [sign |-> sign, operand |-> v]

PhaseOptions ==
    {Default,
     [Default EXCEPT !.storage = TRUE],
     [Default EXCEPT !.tenant = TRUE, !.cleanupOnExit = FALSE],
     [Default EXCEPT !.storage = TRUE, !.tenant = TRUE, !.tenantList = {ta}],
     [Default EXCEPT !.tenant = TRUE, !.tenantList = {tb, tc}],
     [Default EXCEPT !.tenantList = {ta}],
     [Default EXCEPT !.maxStaticNodeID = 2]}

HostOptions ==
    {[Default EXCEPT !.hosts = {<<"range", 2, 3>>}],
     [Default EXCEPT !.hosts = {Itoa(1), <<"range", 3, 4>>},
                     !.excludeHosts = {Itoa(4)}],
     [Default EXCEPT !.hosts = {Itoa(2), Host(h1)}],
     [Default EXCEPT !.hosts = {Host(p1), Host(p3)}, !.k8s = TRUE],
     [Default EXCEPT !.datacenters = {b}, !.excludeHosts = {Host(h1)},
                     !.k8s = TRUE],
     [Default EXCEPT !.datacenters = {a}, !.hosts = {Host(h2)}],
     [Default EXCEPT !.hosts = {<<"range", 1, 3>>},
                     !.excludeHosts = {<<"range", 2, 3>>}],
     [Default EXCEPT !.excludeHosts = {Host(p1), Itoa(4)}, !.k8s = TRUE]}

RestOptions ==
    {[Default EXCEPT !.started = StartedBefore(5)],
     [Default EXCEPT !.started = StartedBefore(5), !.hosts = {Host(h1)}],
     [Default EXCEPT !.started = StartedAfter(5)],
     [Default EXCEPT !.version = Compared("<", V3)],
     [Default EXCEPT !.version = Compared("!=", V3)],
     [Default EXCEPT !.version = Compared("==", V1)],
     [Default EXCEPT !.version = Compared("!=", V2)]}

AllOptions == PhaseOptions \cup HostOptions \cup RestOptions
=============================================================================
