------------------------------ MODULE MCRolling ------------------------------
(* Instances of Rolling for TLC: nodes without a tenant, restarted one or   *)
(* two at a time.                                                           *)
EXTENDS Rolling, TLC

CONSTANTS n1, n2, n3, Old

TwoNodes == {n1, n2}
ThreeNodes == {n1, n2, n3}
NoTenant == [n \in Nodes |-> None]
NodeSymmetry == Permutations(Nodes)
=============================================================================
