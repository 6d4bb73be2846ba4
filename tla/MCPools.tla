------------------------------- MODULE MCPools ------------------------------
(* Three handlers, two databases.                                            *)
EXTENDS Pools, TLC

CONSTANTS c1, c2, c3, auth, company, p1, p2, p3, p4

Symmetry == Permutations(Call) \cup Permutations(Pool)
=============================================================================
