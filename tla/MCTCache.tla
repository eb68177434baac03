------------------------------ MODULE MCTCache ------------------------------
(***************************************************************************)
(* Instances of TCache for TLC.                                            *)
(***************************************************************************)
EXTENDS TCache

CONSTANTS t1, t2, e1, e2, e3, a1, a2, x1, x2

\* a1 and a2 share a bucket when the table has 1 or 2 buckets, not with 3.
MCHash == a1 :> 1 @@ a2 :> 3

\* x86 code lies at addresses of its own.
MCCode == a1 :> x1 @@ a2 :> x2

\* calloc may return any free object: the heap objects are interchangeable.
MCSymmetry == Permutations(Entries)
=============================================================================
