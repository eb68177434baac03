------------------------------ MODULE MCEasyApi ------------------------------
(***************************************************************************)
(* Instances of EasyApi for TLC.                                           *)
(***************************************************************************)
EXTENDS EasyApi, TLC

CONSTANTS a1, a2, v1, v2, b1, b2, b3, b4, w1, w2

MCSymmetry == Permutations(Buffers)
=============================================================================
