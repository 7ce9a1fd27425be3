--------------------------- MODULE MCRestartBatch ---------------------------
(* Instances of RestartBatch for TLC: a storage node s1 and the nodes of    *)
(* tenants A, B and C.                                                      *)
EXTENDS RestartBatch

CONSTANTS s1, a1, a2, b1, c1, A, B, C

MixedNodes == {s1, a1, a2}
OnePerTenant == {a1, b1, c1}
TenantOf == [n \in Nodes |->
                CASE n \in {a1, a2} -> A
                  [] n = b1 -> B
                  [] n = c1 -> C
                  [] OTHER -> None]
=============================================================================
