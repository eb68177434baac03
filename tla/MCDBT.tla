------------------------------- MODULE MCDBT --------------------------------
(***************************************************************************)
(* Instances of DBT for TLC.                                               *)
(***************************************************************************)
EXTENDS DBT, TLC

CONSTANTS t1, t2, c1, c2, c3, v1, v2

\* malloc may return any free object.
MCSymmetry == Permutations(Copies)
=============================================================================
