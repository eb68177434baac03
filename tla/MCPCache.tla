------------------------------ MODULE MCPCache ------------------------------
(***************************************************************************)
(* Instances of PCache for TLC.                                            *)
(***************************************************************************)
EXTENDS PCache, TLC

CONSTANTS c1, c2, a1, a2, v1, v2, v3, i1, i2, i3, i4

\* v1 fits in one stdio buffer, v2 and v3 take two.
MCSizes == [v \in Codes |-> IF v = v1 THEN 1 ELSE 2]

MCSymmetry == Permutations(Inodes) \cup Permutations(Clients)
=============================================================================
