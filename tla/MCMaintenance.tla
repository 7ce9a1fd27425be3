---------------------------- MODULE MCMaintenance ----------------------------
(* Instances of Maintenance for TLC: two storage nodes on one host and a   *)
(* dynamic node on another.                                                *)
EXTENDS Maintenance

CONSTANTS h1, h2, a, b, ta

Host(h) == <<"name", h>>

Node(id, h, port, kind, datacenter) ==
    [id |-> id, host |-> Host(h), port |-> port, kind |-> kind,
     datacenter |-> datacenter, tenant |-> IF kind = "dynamic" THEN ta ELSE None,
     started |-> None, version |-> None]

N1 == Node(1, h1, 19001, "storage", a)
N2 == Node(2, h1, 19002, "storage", a)
N3 == Node(3, h2, 19001, "dynamic", b)

ThreeNodes == {N1, N2, N3}

(* Both pods of the first host are known under the host's name. *)
Pod(name, h, port) ==
    [name |-> Host(name), fqdn |-> Host(name), nodeName |-> Host(h),
     icPort |-> port]

StoragePods == <<Pod("p1", h1, 19001), Pod("p2", h1, 19002)>>

Default ==
    [tenantList |-> {}, hosts |-> {}, excludeHosts |-> {}, datacenters |-> {},
     started |-> None, version |-> None, maxStaticNodeID |-> 50000,
     k8s |-> FALSE]

SomeCreateOptions ==
    {[Default EXCEPT !.hosts = {<<"range", 1, 3>>}, !.excludeHosts = {Itoa(2)}],
     [Default EXCEPT !.hosts = {Host(h1)}]}

SomeCompleteHosts ==
    {{Itoa(1)}, {<<"range", 1, 2>>}, {Host(h1)}, {Host(h1), Itoa(2)}}

SomeTargets == {{N1, N2}}
=============================================================================
