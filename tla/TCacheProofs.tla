---------------------------- MODULE TCacheProofs ----------------------------
(***************************************************************************)
(* Proofs about TCache, for every number of threads, entries and buckets.  *)
(***************************************************************************)
EXTENDS TCache, SetFacts, FiniteSetTheorems, SequenceTheorems, TLAPS

USE TCacheConstants

-----------------------------------------------------------------------------
(***************************************************************************)
(* Facts about the operators the cache is built from.                      *)
(***************************************************************************)
\* The bucket of a hash is a bucket of the table.
LEMMA BucketRange == ASSUME NEW h \in Nat, NEW n \in Nat \ {0}
                     PROVE  h % n \in 0..(n - 1)
  OBVIOUS

\* A resize asks for at least one bucket, because it clamps to MinSize first.
LEMMA NewBucketsPositive ==
  ASSUME NEW n \in Nat
  PROVE  Clamp(n) \in Nat /\ new_buckets(Clamp(n)) \in Nat \ {0}
  BY DEF Clamp, new_buckets

\* RemoveAt takes out the element at a position and closes the gap.
LEMMA RemovedAt ==
  ASSUME NEW S, NEW c \in Seq(S), NEW k \in 1..Len(c), NEW w, w = RemoveAt(c, k)
  PROVE  /\ w \in Seq(S) /\ Len(w) = Len(c) - 1
         /\ \A i \in 1..(Len(c) - 1) : w[i] = IF i < k THEN c[i] ELSE c[i + 1]
  <1> DEFINE A == SubSeq(c, 1, k - 1)
             B == SubSeq(c, k + 1, Len(c))
  <1>4. A \in Seq(S) /\ Len(A) = k - 1 /\ \A i \in 1..(k - 1) : A[i] = c[i]
    BY SubSeqProperties
  <1>5. /\ B \in Seq(S) /\ Len(B) = Len(c) - k
        /\ \A i \in 1..(Len(c) - k) : B[i] = c[k + i]
    BY SubSeqProperties
  <1>6. w = A \o B
    BY DEF RemoveAt
  <1> HIDE DEF A, B
  <1>7. /\ A \o B \in Seq(S) /\ Len(A \o B) = Len(c) - 1
        /\ \A i \in 1..(Len(c) - 1) : (A \o B)[i] = IF i < k THEN c[i] ELSE c[i + 1]
    <2>0. A \in Seq(S) /\ B \in Seq(S)
      BY <1>4, <1>5
    <2>1. /\ A \o B \in Seq(S) /\ Len(A \o B) = Len(A) + Len(B)
          /\ \A i \in 1..(Len(A) + Len(B)) :
               (A \o B)[i] = IF i <= Len(A) THEN A[i] ELSE B[i - Len(A)]
      BY <2>0, ConcatProperties
    <2>2. ASSUME NEW i \in 1..(Len(c) - 1)
          PROVE  (A \o B)[i] = IF i < k THEN c[i] ELSE c[i + 1]
      <3>1. CASE i < k
        BY <2>1, <1>4, <1>5, <3>1
      <3>2. CASE ~ (i < k)
        <4>1. (A \o B)[i] = B[i - (k - 1)] /\ i - (k - 1) \in 1..(Len(c) - k)
          BY <2>1, <1>4, <1>5, <3>2
        <4> QED
          BY <4>1, <1>5, <3>2
      <3> QED
        BY <3>1, <3>2
    <2> QED
      BY <2>1, <2>2, <1>4, <1>5
  <1> QED
    BY <1>6, <1>7

\* Unlinking an entry that hangs at position k moves the later ones down and
\* touches nothing else; unlinking an absent entry changes nothing.
LEMMA UnlinkAt ==
  ASSUME NEW c \in Seq(Entries), NEW k \in 1..Len(c),
         \A i \in 1..Len(c) : c[i] = c[k] => i = k
  PROVE  /\ Unlink(c, c[k]) \in Seq(Entries)
         /\ Len(Unlink(c, c[k])) = Len(c) - 1
         /\ \A i \in 1..(Len(c) - 1) :
              Unlink(c, c[k])[i] = IF i < k THEN c[i] ELSE c[i + 1]
  <1> DEFINE I == {i \in 1..Len(c) : c[i] = c[k]}
  <1>1. I = {k}
    OBVIOUS
  <1>2. Min({k}) = k
    <2>1. {k} \in SUBSET Nat /\ {k} # {}
      OBVIOUS
    <2> QED
      BY <2>1, MinNat
  <1>3. Unlink(c, c[k]) = RemoveAt(c, k)
    BY <1>1, <1>2 DEF Unlink, RemoveFirst, SelectInSeq
  <1>4. PICK w : w = RemoveAt(c, k)
    OBVIOUS
  <1>5. /\ w \in Seq(Entries) /\ Len(w) = Len(c) - 1
        /\ \A i \in 1..(Len(c) - 1) : w[i] = IF i < k THEN c[i] ELSE c[i + 1]
    BY <1>4, RemovedAt, SMTT(30)
  <1> QED
    BY <1>3, <1>4, <1>5

-----------------------------------------------------------------------------
(***************************************************************************)
(* The inductive invariant.  LruList alone is not inductive.  It speaks of *)
(* neighbours only, so it would allow a second, circular list beside the   *)
(* one from lru_head to lru_tail, and evicting the last entry of the real  *)
(* list would then leave NULL ends and entries behind; LruAcyclic excludes *)
(* it.  And the eviction step needs to know that the entry it frees hangs  *)
(* in its own bucket and in no other chain (HashChains).                   *)
(***************************************************************************)
\* Some rank falls along every lru_next pointer (the time of last use does).
Ranked(rank, m) ==
  /\ rank \in [live -> 0..m]
  /\ \A e \in live : lru_next[e] # NULL => rank[lru_next[e]] < rank[e]

LruAcyclic == \E m \in Nat : \E rank \in [live -> 0..m] : Ranked(rank, m)

IInv == TypeOK /\ LockOwner /\ LruList /\ LruAcyclic /\ HashChains /\ EntryCount

\* An empty cache satisfies the invariant.
LEMMA InitIInv == Init => IInv
  <1> SUFFICES ASSUME Init PROVE IInv
    OBVIOUS
  <1>1. hash_table \in Tables(InitBuckets) /\ \A b \in DOMAIN hash_table : hash_table[b] = <<>>
    BY DEF Init, EmptyTable, Tables
  <1>2. TypeOK
    BY <1>1 DEF Init, TypeOK, PC, Locals, NoLocal, Ptr
  <1>3. LockOwner
    BY DEF Init, LockOwner
  <1>4. LruList
    BY DEF Init, LruList
  <1>41. LruAcyclic
    <2>1. Ranked([e \in {} |-> 0], 0)
      BY DEF Init, Ranked
    <2> QED
      BY <2>1 DEF LruAcyclic, Ranked
  <1>5. HashChains
    BY <1>1 DEF Init, HashChains, ChainsOK
  <1>6. EntryCount
    BY FS_EmptySet DEF Init, EntryCount
  <1> QED
    BY <1>2, <1>3, <1>4, <1>41, <1>5, <1>6 DEF IInv

\* A step that leaves the heap, the list, the tables and the sizes alone, and
\* changes neither who is inside a locked loop nor what it works on.
LEMMA QuietStep ==
  ASSUME IInv, NEW t \in Threads,
         UNCHANGED <<live, fields, lruvars, hash_table, sizes, lock, new_table>>,
         lookup_count' \in Nat, miss_count' \in Nat,
         pc' \in [Threads -> PC], local' \in [Threads -> Locals],
         \A u \in Threads \ {t} : pc'[u] = pc[u] /\ local'[u] = local[u],
         pc[t] \notin {"insert", "rehash"}, pc'[t] \notin {"insert", "rehash"}
  PROVE  IInv'
  <1> USE DEF fields, lruvars, sizes
  <1>1. TypeOK'
    BY DEF IInv, TypeOK
  <1>2. LockOwner'
    BY DEF IInv, LockOwner, TypeOK
  <1>3. LruList' /\ LruAcyclic' /\ EntryCount'
    BY DEF IInv, LruList, LruAcyclic, Ranked, EntryCount
  <1>4. HashChains'
    BY DEF IInv, HashChains, ChainsOK, InTable, Bucket
  <1> QED
    BY <1>1, <1>2, <1>3, <1>4 DEF IInv

\* A lookup that misses only counts.
LEMMA LookupMissStep ==
  ASSUME IInv, NEW t \in Threads, NEW a \in Addrs, LookupMiss(t, a)
  PROVE  IInv'
  <1>1. lookup_count' \in Nat /\ miss_count' \in Nat
    BY DEF LookupMiss, IInv, TypeOK
  <1>2. pc' \in [Threads -> PC] /\ local' \in [Threads -> Locals]
    BY DEF LookupMiss, IInv, TypeOK
  <1> QED
    BY <1>1, <1>2, QuietStep DEF LookupMiss, CanLock

\* Registering a jump does not touch the cache.
LEMMA RegisterJumpStep ==
  ASSUME IInv, NEW t \in Threads, NEW a \in Addrs, RegisterJump(t, a)
  PROVE  IInv'
  <1>1. lookup_count' \in Nat /\ miss_count' \in Nat
    BY DEF RegisterJump, stats, IInv, TypeOK
  <1>2. pc' \in [Threads -> PC] /\ local' \in [Threads -> Locals]
    BY DEF RegisterJump, IInv, TypeOK
  <1> QED
    BY <1>1, <1>2, QuietStep DEF RegisterJump

\* The steps that only end an operation.
LEMMA GetCodeStep ==
  ASSUME IInv, NEW t \in Threads, GetCode(t) \/ MissRateDivide(t) \/ AdjustSkip(t)
  PROVE  IInv'
  <1>1. /\ pc[t] \notin {"insert", "rehash"} /\ Goto(t, "idle", NoLocal)
        /\ UNCHANGED <<live, fields, lruvars, hash_table, sizes, stats, lock, new_table>>
    BY DEF GetCode, MissRateDivide, AdjustSkip
  <1>2. pc' \in [Threads -> PC] /\ local' \in [Threads -> Locals]
    BY <1>1 DEF Goto, IInv, TypeOK, PC, Locals, NoLocal, Ptr
  <1>3. lookup_count' \in Nat /\ miss_count' \in Nat
    BY <1>1 DEF stats, IInv, TypeOK
  <1>4. /\ \A u \in Threads \ {t} : pc'[u] = pc[u] /\ local'[u] = local[u]
        /\ pc'[t] = "idle"
    BY <1>1 DEF Goto, IInv, TypeOK
  <1> QED
    BY <1>1, <1>2, <1>3, <1>4, QuietStep

\* adjust_auto decides under the lock and drops it.
LEMMA AdjustDecideStep ==
  ASSUME IInv, NEW t \in Threads,
         NEW rate \in {"high", "mid", "low"}, AdjustDecide(t, rate)
  PROVE  IInv'
  <1>1. Adjusted(rate) \in Nat
    BY DEF Adjusted, IInv, TypeOK
  <1>2. [NoLocal EXCEPT !.size = Adjusted(rate)] \in Locals
    BY <1>1 DEF NoLocal, Locals, Ptr
  <1>3. pc' \in [Threads -> PC] /\ local' \in [Threads -> Locals]
    BY <1>2 DEF AdjustDecide, Goto, IInv, TypeOK, PC
  <1>4. lookup_count' \in Nat /\ miss_count' \in Nat
    BY DEF AdjustDecide, stats, IInv, TypeOK
  <1>5. /\ \A u \in Threads \ {t} : pc'[u] = pc[u] /\ local'[u] = local[u]
        /\ pc[t] = "idle" /\ pc'[t] = "adjust"
    BY DEF AdjustDecide, CanLock, Goto, IInv, TypeOK
  <1> QED
    BY <1>3, <1>4, <1>5, QuietStep DEF AdjustDecide

\* get_miss_rate takes no lock and writes nothing.
LEMMA MissRateCheckStep ==
  ASSUME IInv, NEW t \in Threads, MissRateCheck(t)
  PROVE  IInv'
  <1>1. pc' \in [Threads -> PC] /\ local' \in [Threads -> Locals]
    BY DEF MissRateCheck, Goto, IInv, TypeOK, PC, Locals, NoLocal, Ptr
  <1>2. lookup_count' \in Nat /\ miss_count' \in Nat
    BY DEF MissRateCheck, stats, IInv, TypeOK
  <1>3. /\ \A u \in Threads \ {t} : pc'[u] = pc[u] /\ local'[u] = local[u]
        /\ pc[t] = "idle" /\ pc'[t] = "rate"
    BY DEF MissRateCheck, Goto, IInv, TypeOK
  <1> QED
    BY <1>1, <1>2, <1>3, QuietStep DEF MissRateCheck

\* insert_ex takes the lock.
LEMMA InsertBeginStep ==
  ASSUME IInv, NEW t \in Threads, NEW a \in Addrs, NEW sz \in Sizes,
         InsertBegin(t, a, sz)
  PROVE  IInv'
  <1> USE DEF fields, lruvars, sizes, stats
  <1> DEFINE loc == [NoLocal EXCEPT !.addr = a, !.size = sz]
  <1>1. loc \in Locals /\ loc.addr = a
    BY DEF NoLocal, Locals, Ptr
  <1>2. /\ lock = NULL /\ lock' = t /\ pc[t] = "idle"
        /\ pc' = [pc EXCEPT ![t] = "insert"] /\ local' = [local EXCEPT ![t] = loc]
        /\ UNCHANGED <<live, fields, lruvars, hash_table, sizes, stats, new_table>>
    BY DEF InsertBegin, CanLock, Goto
  <1> HIDE DEF loc
  <1>3. TypeOK'
    BY <1>1, <1>2 DEF IInv, TypeOK, PC
  <1>4. LockOwner'
    BY <1>2 DEF IInv, LockOwner, TypeOK
  <1>5. LruList' /\ LruAcyclic' /\ EntryCount'
    BY <1>2 DEF IInv, LruList, LruAcyclic, Ranked, EntryCount
  <1>6. \A u \in Threads : pc'[u] # "rehash"
    BY <1>2 DEF IInv, LockOwner, TypeOK
  <1>7. HashChains'
    BY <1>2, <1>6 DEF IInv, HashChains, ChainsOK, InTable, Bucket
  <1> QED
    BY <1>3, <1>4, <1>5, <1>7 DEF IInv

\* insert_ex gives the lock back when calloc fails.
LEMMA InsertFailStep ==
  ASSUME IInv, NEW t \in Threads, InsertFail(t)
  PROVE  IInv'
  <1> USE DEF fields, lruvars, sizes, stats
  <1>1. /\ lock = t /\ lock' = NULL /\ pc[t] = "insert"
        /\ pc' = [pc EXCEPT ![t] = "idle"] /\ local' = [local EXCEPT ![t] = NoLocal]
        /\ UNCHANGED <<live, fields, lruvars, hash_table, sizes, stats, new_table>>
    BY DEF InsertFail, Goto, IInv, LockOwner
  <1>2. NoLocal \in Locals
    BY DEF NoLocal, Locals, Ptr
  <1>3. TypeOK'
    BY <1>1, <1>2 DEF IInv, TypeOK, PC
  <1>4. LockOwner'
    BY <1>1 DEF IInv, LockOwner, TypeOK
  <1>5. LruList' /\ LruAcyclic' /\ EntryCount'
    BY <1>1 DEF IInv, LruList, LruAcyclic, Ranked, EntryCount
  <1>6. \A u \in Threads : pc'[u] # "rehash"
    BY <1>1 DEF IInv, LockOwner, TypeOK
  <1>7. HashChains'
    BY <1>1, <1>6 DEF IInv, HashChains, ChainsOK, InTable, Bucket
  <1> QED
    BY <1>3, <1>4, <1>5, <1>7 DEF IInv

\* resize takes the lock and starts an empty table.
LEMMA ResizeBeginStep ==
  ASSUME IInv, NEW t \in Threads, pc[t] \in {"idle", "adjust"},
         NEW n \in Nat, ResizeBegin(t, n)
  PROVE  IInv'
  <1> USE DEF fields, lruvars, sizes, stats
  <1> DEFINE c == Clamp(n)
             loc == [NoLocal EXCEPT !.size = c]
  <1>1. c \in Nat /\ new_buckets(c) \in Nat \ {0}
    BY NewBucketsPositive
  <1>2. /\ lock = NULL /\ lock' = t
        /\ pc' = [pc EXCEPT ![t] = "rehash"] /\ local' = [local EXCEPT ![t] = loc]
        /\ new_table' = EmptyTable(new_buckets(c))
        /\ UNCHANGED <<live, fields, lruvars, hash_table, sizes, stats>>
    BY DEF ResizeBegin, Goto
  <1> HIDE DEF c
  <1>3. loc \in Locals /\ loc.size = c
    BY <1>1 DEF NoLocal, Locals, Ptr
  <1>4. new_table' \in Tables(new_buckets(c)) /\ \A b \in DOMAIN new_table' : new_table'[b] = <<>>
    BY <1>1, <1>2 DEF EmptyTable, Tables
  <1> HIDE DEF loc
  <1>5. TypeOK'
    BY <1>2, <1>3 DEF IInv, TypeOK, PC
  <1>6. LockOwner'
    BY <1>1, <1>2, <1>3, <1>4 DEF IInv, LockOwner, TypeOK
  <1>7. LruList' /\ LruAcyclic' /\ EntryCount'
    BY <1>2 DEF IInv, LruList, LruAcyclic, Ranked, EntryCount
  <1>8. new_table = NoTable
    BY <1>2 DEF IInv, LockOwner, TypeOK
  <1>9. \A e : ~ InTable(new_table, e) /\ ~ InTable(new_table', e)
    BY <1>4, <1>8 DEF InTable, NoTable
  <1>10. ChainsOK(hash_table, bucket_count)'
    BY <1>2 DEF IInv, HashChains, ChainsOK, Bucket
  <1>11. \A u \in Threads : pc'[u] = "rehash" => ChainsOK(new_table, new_buckets(local[u].size))'
    BY <1>4 DEF ChainsOK
  <1>12. \A e \in live' : InTable(hash_table', e) <=> ~ InTable(new_table', e)
    BY <1>2, <1>9 DEF IInv, HashChains
  <1>13. HashChains'
    BY <1>10, <1>11, <1>12 DEF HashChains, InTable
  <1> QED
    BY <1>5, <1>6, <1>7, <1>13 DEF IInv

\* clear leaves an empty cache.
LEMMA ClearStep ==
  ASSUME IInv, NEW t \in Threads, Clear(t)
  PROVE  IInv'
  <1> USE DEF fields, lruvars, sizes, stats
  <1>1. /\ hash_table' \in Tables(bucket_count)
        /\ \A b \in DOMAIN hash_table' : hash_table'[b] = <<>>
    BY DEF Clear, EmptyTable, Tables, IInv, TypeOK
  <1>2. TypeOK'
    BY <1>1 DEF Clear, IInv, TypeOK
  <1>3. LockOwner'
    BY DEF Clear, IInv, LockOwner
  <1>4. LruList' /\ EntryCount'
    BY FS_EmptySet DEF Clear, LruList, EntryCount
  <1>41. LruAcyclic'
    <2>1. Ranked([e \in {} |-> 0], 0)'
      BY DEF Clear, Ranked
    <2> QED
      BY <2>1 DEF LruAcyclic, Ranked
  <1>5. \A u \in Threads : pc'[u] # "rehash"
    BY DEF Clear, CanLock, IInv, LockOwner, TypeOK
  <1>6. HashChains'
    BY <1>1, <1>5 DEF Clear, HashChains, ChainsOK
  <1> QED
    BY <1>2, <1>3, <1>4, <1>41, <1>6 DEF IInv

\* Moving an entry to the front keeps the list well formed.
LEMMA MoveToFrontKeepsList ==
  ASSUME TypeOK, LruList, NEW e \in live, MoveToFront(e), live' = live
  PROVE  /\ LruList'
         /\ lru_prev' \in [live -> live \cup {NULL}] /\ lru_next' \in [live -> live \cup {NULL}]
         /\ lru_head' \in live \cup {NULL} /\ lru_tail' \in live \cup {NULL}
  <1>1. CASE e = lru_head
    BY <1>1 DEF MoveToFront, lruvars, LruList, TypeOK
  <1>2. CASE e # lru_head
    <2> DEFINE p == lru_prev[e]
               n == lru_next[e]
               h == lru_head
    <2>1. /\ p \in live /\ n \in live \cup {NULL} /\ h \in live
          /\ n # h /\ lru_next[p] = e /\ lru_prev[h] = NULL
          /\ n # NULL => lru_prev[n] = e
          /\ n = NULL <=> e = lru_tail
          /\ \A x \in live : lru_next[x] = e => x = p
          /\ \A x \in live : lru_prev[x] = e => x = n
      BY <1>2 DEF LruList, TypeOK
    <2>2. /\ \A x \in live : lru_next'[x] = IF x = e THEN h ELSE IF x = p THEN n ELSE lru_next[x]
          /\ \A x \in live : lru_prev'[x] = IF x = h THEN e ELSE IF x = e THEN NULL
                                            ELSE IF x = n THEN p ELSE lru_prev[x]
          /\ DOMAIN lru_next' = live /\ DOMAIN lru_prev' = live
          /\ lru_head' = e /\ lru_tail' = IF lru_tail = e THEN p ELSE lru_tail
      BY <1>2, <2>1 DEF MoveToFront, Store, TailAfterTouch, TypeOK
    <2>3. lru_next' = [x \in live |-> lru_next'[x]] /\ lru_prev' = [x \in live |-> lru_prev'[x]]
      BY <1>2 DEF MoveToFront, Store, TypeOK
    <2> HIDE DEF p, n, h
    <2>4. /\ \A x \in live : lru_next'[x] \in live \cup {NULL} /\ lru_prev'[x] \in live \cup {NULL}
          /\ lru_tail' \in live \cup {NULL}
      BY <2>1, <2>2 DEF TypeOK
    <2>5. lru_head' # NULL /\ lru_tail' # NULL
      BY <2>1, <2>2 DEF LruList, TypeOK
    <2>6. ASSUME NEW x \in live
          PROVE  /\ lru_prev'[x] = NULL <=> x = lru_head'
                 /\ lru_next'[x] = NULL <=> x = lru_tail'
                 /\ lru_prev'[x] # NULL => lru_next'[lru_prev'[x]] = x
                 /\ lru_next'[x] # NULL => lru_prev'[lru_next'[x]] = x
      BY <1>2, <2>1, <2>2 DEF LruList, TypeOK, h, p, n
    <2> QED
      BY <2>2, <2>3, <2>4, <2>5, <2>6 DEF LruList
  <1> QED
    BY <1>1, <1>2

\* A lookup hit gives the entry the highest rank, so no cycle appears.
LEMMA MoveToFrontKeepsAcyclic ==
  ASSUME TypeOK, LruList, LruAcyclic, NEW e \in live, MoveToFront(e), live' = live
  PROVE  LruAcyclic'
  <1>1. CASE e = lru_head
    BY <1>1 DEF MoveToFront, lruvars, LruAcyclic, Ranked
  <1>2. CASE e # lru_head
    <2>1. PICK m \in Nat : \E rank \in [live -> 0..m] : Ranked(rank, m)
      BY DEF LruAcyclic
    <2>2. PICK rank \in [live -> 0..m] : Ranked(rank, m)
      BY <2>1
    <2> DEFINE r == [x \in live |-> IF x = e THEN m + 1 ELSE rank[x]]
    <2>3. r \in [live -> 0..(m + 1)]
      BY <2>1, <2>2
    <2>4. /\ lru_prev[e] \in live /\ lru_next[e] \in live \cup {NULL} /\ lru_head \in live
          /\ lru_next[lru_prev[e]] = e
          /\ \A x \in live : lru_next[x] = e => x = lru_prev[e]
      BY <1>2 DEF LruList, TypeOK
    <2>5. \A x \in live : lru_next'[x] = IF x = e THEN lru_head
                                        ELSE IF x = lru_prev[e] THEN lru_next[e] ELSE lru_next[x]
      BY <1>2, <2>4 DEF MoveToFront, Store, TypeOK
    <2>6. ASSUME NEW x \in live, lru_next'[x] # NULL
          PROVE  r[lru_next'[x]] < r[x]
      <3>1. CASE x = e
        BY <1>2, <2>1, <2>2, <2>4, <2>5, <3>1
      <3>2. CASE x # e /\ x = lru_prev[e]
        <4>1. lru_next'[x] = lru_next[e] /\ lru_next[e] \in live
          BY <2>4, <2>5, <2>6, <3>2
        <4>2. rank[lru_next[e]] < rank[e] /\ rank[e] < rank[x]
          BY <2>2, <2>4, <2>6, <3>2, <4>1 DEF Ranked, TypeOK
        <4>3. lru_next[e] # e /\ rank[lru_next[e]] \in Nat /\ rank[e] \in Nat /\ rank[x] \in Nat
          BY <2>2, <4>1, <4>2
        <4> QED
          BY <3>2, <4>1, <4>2, <4>3
      <3>3. CASE x # e /\ x # lru_prev[e]
        <4>1. lru_next'[x] = lru_next[x] /\ lru_next[x] \in live /\ lru_next[x] # e
          BY <2>4, <2>5, <2>6, <3>3 DEF TypeOK
        <4> QED
          BY <2>2, <2>6, <3>3, <4>1 DEF Ranked
      <3> QED
        BY <3>1, <3>2, <3>3
    <2>7. Ranked(r, m + 1)'
      BY <2>3, <2>6 DEF Ranked
    <2> QED
      BY <2>1, <2>3, <2>7 DEF LruAcyclic
  <1> QED
    BY <1>1, <1>2

\* A lookup that hits moves the entry to the front.
LEMMA LookupHitStep ==
  ASSUME IInv, NEW t \in Threads, NEW a \in Addrs, LookupHit(t, a)
  PROVE  IInv'
  <1> USE DEF fields, lruvars, sizes, stats
  <1> DEFINE b == tcache_hash_buckets(tcache_hash(a), bucket_count)
             i == Min(Hits(a))
             e == Chain(a)[i]
             loc == [NoLocal EXCEPT !.addr = a, !.ptr = e]
  <1>1. b \in DOMAIN hash_table /\ Chain(a) \in Seq(Entries)
    BY BucketRange DEF Chain, tcache_hash_buckets, tcache_hash, IInv, TypeOK, Tables
  <1>2. i \in Hits(a)
    <2>1. Hits(a) \in SUBSET Nat /\ Hits(a) # {}
      BY <1>1 DEF Hits, LookupHit
    <2> QED
      BY <2>1, MinNat
  <1>3. i \in 1..Len(Chain(a))
    BY <1>2 DEF Hits
  <1>4. e \in live
    BY <1>1, <1>3 DEF Chain, IInv, HashChains, ChainsOK
  <1>5. /\ MoveToFront(e) /\ live' = live /\ exec_count' = Store(exec_count, e, Bump(exec_count[e]))
        /\ lock = NULL /\ pc[t] = "idle" /\ lookup_count' = lookup_count + 1
        /\ pc' = [pc EXCEPT ![t] = "held"] /\ local' = [local EXCEPT ![t] = loc]
        /\ UNCHANGED <<live, arm_addr, x86_size, hash_table, sizes, miss_count, lock, new_table>>
    BY DEF LookupHit, Goto, CanLock
  <1> HIDE DEF e, b, i
  <1>6. loc \in Locals
    BY <1>4 DEF NoLocal, Locals, Ptr, IInv, TypeOK
  <1> HIDE DEF loc
  <1>7. /\ LruList'
        /\ lru_prev' \in [live -> live \cup {NULL}] /\ lru_next' \in [live -> live \cup {NULL}]
        /\ lru_head' \in live \cup {NULL} /\ lru_tail' \in live \cup {NULL}
    BY <1>4, <1>5, MoveToFrontKeepsList DEF IInv
  <1>71. LruAcyclic'
    BY <1>4, <1>5, MoveToFrontKeepsAcyclic DEF IInv
  <1>8. exec_count' \in [live -> 1..HotThreshold]
    BY <1>4, <1>5 DEF Store, Bump, IInv, TypeOK
  <1>9. TypeOK'
    BY <1>5, <1>6, <1>7, <1>8 DEF IInv, TypeOK, PC
  <1>10. LockOwner'
    BY <1>5 DEF IInv, LockOwner, TypeOK
  <1>11. EntryCount'
    BY <1>5 DEF IInv, EntryCount
  <1>12. \A u \in Threads : pc'[u] # "rehash"
    BY <1>5 DEF IInv, LockOwner, TypeOK
  <1>13. HashChains'
    <2>1. UNCHANGED <<live, arm_addr, hash_table, bucket_count, new_table>>
      BY <1>5
    <2> QED
      BY <2>1, <1>12, SMTT(20) DEF IInv, HashChains, ChainsOK, InTable, Bucket
  <1> QED
    BY <1>7, <1>71, <1>9, <1>10, <1>11, <1>13 DEF IInv

\* The thread inside a locked loop is the only one: no table is being rebuilt.
LEMMA InsertAlone ==
  ASSUME IInv, NEW t \in Threads, pc[t] = "insert"
  PROVE  /\ lock = t /\ new_table = NoTable
         /\ \A u \in Threads : pc[u] # "rehash"
         /\ \A e : ~ InTable(new_table, e)
         /\ local[t].addr \in Addrs /\ local[t].size \in Nat
  <1>1. lock = t /\ \A u \in Threads : pc[u] # "rehash"
    BY DEF IInv, LockOwner
  <1>2. new_table = NoTable
    BY <1>1 DEF IInv, LockOwner
  <1>3. local[t].addr \in Addrs /\ local[t].size \in Nat
    BY DEF IInv, TypeOK, Locals
  <1> QED
    BY <1>1, <1>2, <1>3 DEF InTable, NoTable

\* The only entry without neighbours is the only entry.
LEMMA OneEntry ==
  ASSUME TypeOK, LruList, LruAcyclic, NEW e \in live,
         lru_prev[e] = NULL, lru_next[e] = NULL
  PROVE  live = {e}
  <1>1. SUFFICES ASSUME live # {e} PROVE FALSE
    OBVIOUS
  <1>2. PICK m \in Nat : \E rank \in [live -> 0..m] : Ranked(rank, m)
    BY DEF LruAcyclic
  <1>3. PICK rank \in [live -> 0..m] : Ranked(rank, m)
    BY <1>2
  <1> DEFINE S == {rank[x] : x \in live \ {e}}
  <1>4. S \in SUBSET Nat /\ S # {}
    BY <1>1, <1>2, <1>3
  <1>5. Min(S) \in S /\ \A y \in S : Min(S) <= y
    BY <1>4, MinNat
  <1>6. PICK x \in live \ {e} : rank[x] = Min(S)
    BY <1>5
  <1>7. lru_next[x] \in live \ {e} /\ lru_next[x] # NULL
    BY <1>6 DEF LruList, TypeOK
  <1>8. rank[lru_next[x]] < rank[x] /\ rank[lru_next[x]] \in S
    BY <1>3, <1>6, <1>7 DEF Ranked
  <1>9. rank[x] <= rank[lru_next[x]] /\ rank[x] \in Nat /\ rank[lru_next[x]] \in Nat
    BY <1>3, <1>4, <1>5, <1>6, <1>8
  <1> QED
    BY <1>8, <1>9

\* Evicting the tail keeps the list well formed.
LEMMA EvictKeepsList ==
  ASSUME TypeOK, LruList, LruAcyclic, NEW e \in live, e = lru_tail,
         live' = live \ {e},
         lru_next' = Free(Store(lru_next, lru_prev[e], NULL), e),
         lru_prev' = Free(lru_prev, e),
         lru_tail' = lru_prev[e], lru_head' = HeadAfterEvict(e)
  PROVE  /\ LruList' /\ LruAcyclic'
         /\ lru_prev' \in [live' -> live' \cup {NULL}] /\ lru_next' \in [live' -> live' \cup {NULL}]
         /\ lru_head' \in live' \cup {NULL} /\ lru_tail' \in live' \cup {NULL}
  <1> DEFINE p == lru_prev[e]
  <1>1. /\ lru_next[e] = NULL
        /\ p \in live \cup {NULL} /\ p # e
        /\ p # NULL => lru_next[p] = e
        /\ p = NULL <=> e = lru_head
        /\ \A x \in live : lru_next[x] = e => x = p
        /\ \A x \in live : lru_prev[x] # e
    BY DEF LruList, TypeOK
  <1>2. /\ \A x \in live' : lru_next'[x] = IF x = p THEN NULL ELSE lru_next[x]
        /\ \A x \in live' : lru_prev'[x] = lru_prev[x]
        /\ DOMAIN lru_next' = live' /\ DOMAIN lru_prev' = live'
        /\ lru_next' = [x \in live' |-> lru_next'[x]]
        /\ lru_prev' = [x \in live' |-> lru_prev'[x]]
    BY DEF Free, Store, TypeOK
  <1>3. lru_tail' = p /\ lru_head' = IF p = NULL THEN NULL ELSE lru_head
    BY DEF HeadAfterEvict
  <1> HIDE DEF p
  <1>4. \A x \in live' : lru_next'[x] \in live' \cup {NULL} /\ lru_prev'[x] \in live' \cup {NULL}
    BY <1>1, <1>2 DEF TypeOK
  <1>5. lru_head' \in live' \cup {NULL} /\ lru_tail' \in live' \cup {NULL}
    <2>1. CASE p = NULL
      BY <1>3, <2>1
    <2>2. CASE p # NULL
      BY <1>1, <1>3, <2>2 DEF TypeOK
    <2> QED
      BY <2>1, <2>2
  <1>6. (lru_head' = NULL <=> live' = {}) /\ (lru_tail' = NULL <=> live' = {})
    <2>1. CASE p # NULL
      BY <1>1, <1>3, <2>1 DEF TypeOK, LruList
    <2>2. CASE p = NULL
      <3>1. live = {e}
        BY <1>1, <2>2, OneEntry DEF p
      <3> QED
        BY <1>3, <2>2, <3>1
    <2> QED
      BY <2>1, <2>2
  <1>7. ASSUME NEW x \in live'
        PROVE  /\ lru_prev'[x] = NULL <=> x = lru_head'
               /\ lru_next'[x] = NULL <=> x = lru_tail'
               /\ lru_prev'[x] # NULL => lru_next'[lru_prev'[x]] = x
               /\ lru_next'[x] # NULL => lru_prev'[lru_next'[x]] = x
    <2>1. CASE p = NULL
      <3>1. live = {e}
        BY <1>1, <2>1, OneEntry DEF p
      <3> QED
        BY <3>1
    <2>2. CASE p # NULL
      BY <1>1, <1>2, <1>3, <2>2 DEF LruList, TypeOK
    <2> QED
      BY <2>1, <2>2
  <1>8. LruAcyclic'
    <2>1. PICK m \in Nat : \E rank \in [live -> 0..m] : Ranked(rank, m)
      BY DEF LruAcyclic
    <2>2. PICK rank \in [live -> 0..m] : Ranked(rank, m)
      BY <2>1
    <2> DEFINE r == [x \in live \ {e} |-> rank[x]]
    <2>3. r \in [live' -> 0..m]
      BY <2>2
    <2>4. \A x \in live' : lru_next'[x] # NULL => r[lru_next'[x]] < r[x]
      BY <1>2, <1>4, <2>2 DEF Ranked
    <2>5. \E q \in [live' -> 0..m] : \A x \in live' : lru_next'[x] # NULL => q[lru_next'[x]] < q[x]
      BY <2>3, <2>4
    <2> QED
      BY <2>1, <2>5 DEF LruAcyclic, Ranked
  <1> QED
    BY <1>2, <1>4, <1>5, <1>6, <1>7, <1>8 DEF LruList

\* One round of the eviction loop.
LEMMA EvictStep ==
  ASSUME IInv, NEW t \in Threads, Evict(t)
  PROVE  IInv'
  <1> USE DEF fields, lruvars, sizes, stats
  <1> DEFINE e == lru_tail
             b == Bucket(e, bucket_count)
             c == hash_table[b]
             p == lru_prev[e]
  <1>1. pc[t] = "insert" /\ e \in live /\ lru_next[e] = NULL
    BY DEF Evict, MustEvict, IInv, TypeOK, LruList
  <1>2. /\ lock = t /\ new_table = NoTable /\ \A u \in Threads : pc[u] # "rehash"
        /\ \A x : ~ InTable(new_table, x)
    BY <1>1, InsertAlone
  <1>3. /\ lru_next' = Free(Store(lru_next, p, NULL), e) /\ lru_prev' = Free(lru_prev, e)
        /\ lru_tail' = p /\ lru_head' = IF p = NULL THEN NULL ELSE lru_head
        /\ hash_table' = [hash_table EXCEPT ![b] = Unlink(c, e)]
        /\ used_size' = SizeAfterEvict(e) /\ entry_count' = entry_count - 1
        /\ live' = live \ {e}
        /\ arm_addr' = Free(arm_addr, e) /\ x86_size' = Free(x86_size, e)
        /\ exec_count' = Free(exec_count, e)
        /\ UNCHANGED <<total_size, bucket_count, stats, lock, new_table, pc, local>>
    BY DEF Evict, HeadAfterEvict
  <1>4. b \in DOMAIN hash_table /\ c \in Seq(Entries)
    BY <1>1, BucketRange DEF Bucket, tcache_hash_buckets, tcache_hash, IInv, TypeOK, Tables
  <1>5. \E i \in 1..Len(c) : c[i] = e
    <2>1. PICK d \in DOMAIN hash_table : \E i \in 1..Len(hash_table[d]) : hash_table[d][i] = e
      BY <1>1, <1>2 DEF IInv, HashChains, InTable
    <2>2. PICK i \in 1..Len(hash_table[d]) : hash_table[d][i] = e
      BY <2>1
    <2>3. Bucket(e, bucket_count) = d
      BY <2>1, <2>2 DEF IInv, HashChains, ChainsOK
    <2> QED
      BY <2>2, <2>3
  <1>51. PICK k \in 1..Len(c) : c[k] = e
    BY <1>5
  <1>6. \A i \in 1..Len(c) : c[i] = c[k] => i = k
    BY <1>4 DEF IInv, HashChains, ChainsOK
  <1> HIDE DEF b, c, p
  <1>7. /\ Unlink(c, e) \in Seq(Entries) /\ Len(Unlink(c, e)) = Len(c) - 1
        /\ \A i \in 1..(Len(c) - 1) : Unlink(c, e)[i] = IF i < k THEN c[i] ELSE c[i + 1]
    BY <1>4, <1>51, <1>6, UnlinkAt
  <1> HIDE DEF e
  <1>8. /\ lru_prev' \in [live' -> live' \cup {NULL}] /\ lru_next' \in [live' -> live' \cup {NULL}]
        /\ lru_head' \in live' \cup {NULL} /\ lru_tail' \in live' \cup {NULL}
        /\ LruList' /\ LruAcyclic'
    BY <1>1, <1>3, EvictKeepsList DEF IInv, HeadAfterEvict, p, e
  <1>9. TypeOK'
    <2>1. hash_table' \in Tables(bucket_count)
      BY <1>3, <1>4, <1>7 DEF IInv, TypeOK, Tables
    <2>2. /\ arm_addr' \in [live' -> Addrs] /\ x86_size' \in [live' -> Nat]
          /\ exec_count' \in [live' -> 1..HotThreshold] /\ live' \subseteq Entries
      BY <1>1, <1>3 DEF Free, IInv, TypeOK, e
    <2>21. used_size' \in Int /\ entry_count' \in Int
      <3>1. x86_size[e] \in Nat
        BY <1>1 DEF IInv, TypeOK
      <3> QED
        BY <1>3, <3>1 DEF SizeAfterEvict, IInv, TypeOK
    <2>3. /\ bucket_count' \in Nat \ {0} /\ total_size' \in Nat
          /\ lookup_count' \in Nat /\ miss_count' \in Nat /\ lock' \in Threads \cup {NULL}
          /\ pc' \in [Threads -> PC] /\ local' \in [Threads -> Locals]
          /\ \A u \in Threads : pc'[u] = "insert" => local'[u].addr \in Addrs
      BY <1>3 DEF IInv, TypeOK
    <2>4. hash_table' \in Tables(bucket_count)'
      BY <1>3, <2>1 DEF Tables
    <2> QED
      BY <1>8, <2>2, <2>21, <2>3, <2>4 DEF TypeOK
  <1>10. LockOwner'
    BY <1>3 DEF IInv, LockOwner
  <1>11. EntryCount'
    BY <1>1, <1>3, FS_RemoveElement, FS_Subset DEF IInv, EntryCount, TypeOK
  <1>12. HashChains'
    <2>1. /\ DOMAIN hash_table' = DOMAIN hash_table /\ hash_table'[b] = Unlink(c, e)
          /\ \A d \in DOMAIN hash_table : d # b => hash_table'[d] = hash_table[d]
      BY <1>3, <1>4 DEF IInv, TypeOK, Tables
    <2>2. \A x \in live \ {e} : arm_addr'[x] = arm_addr[x]
      BY <1>3 DEF Free, IInv, TypeOK
    <2>3. ASSUME NEW d \in DOMAIN hash_table', NEW i \in 1..Len(hash_table'[d])
          PROVE  /\ hash_table'[d][i] \in live \ {e}
                 /\ Bucket(hash_table'[d][i], bucket_count) = d
                 /\ \A j \in 1..Len(hash_table'[d]) : hash_table'[d][i] = hash_table'[d][j] => i = j
      <3>1. CASE d = b
        <4> DEFINE f(j) == IF j < k THEN j ELSE j + 1
        <4>1. \A j \in 1..Len(hash_table'[d]) :
                f(j) \in 1..Len(c) /\ f(j) # k /\ hash_table'[d][j] = c[f(j)]
          BY <1>4, <1>51, <1>7, <2>1, <3>1
        <4>2. \A j \in 1..Len(c) :
                /\ c[j] \in live /\ Bucket(c[j], bucket_count) = b
                /\ \A l \in 1..Len(c) : c[j] = c[l] => j = l
          BY <1>4 DEF IInv, HashChains, ChainsOK, c
        <4>3. hash_table'[d][i] \in live \ {e} /\ Bucket(hash_table'[d][i], bucket_count) = d
          BY <1>51, <3>1, <4>1, <4>2
        <4>4. ASSUME NEW j \in 1..Len(hash_table'[d]), hash_table'[d][i] = hash_table'[d][j]
              PROVE  i = j
          <5>1. f(i) = f(j)
            BY <4>1, <4>2, <4>4
          <5>2. i \in Nat /\ j \in Nat
            BY <1>4, <1>7, <2>1, <3>1
          <5> QED
            BY <5>1, <5>2
        <4> QED
          BY <4>3, <4>4
      <3>2. CASE d # b
        BY <1>4, <1>51, <2>1, <3>2 DEF IInv, HashChains, ChainsOK, c
      <3> QED
        BY <3>1, <3>2
    <2>4. ChainsOK(hash_table, bucket_count)'
      BY <1>3, <2>2, <2>3 DEF ChainsOK, Bucket
    <2>5. ASSUME NEW x \in live \ {e} PROVE InTable(hash_table', x)
      <3>0. PICK d \in DOMAIN hash_table : \E i \in 1..Len(hash_table[d]) : hash_table[d][i] = x
        BY <1>2 DEF IInv, HashChains, InTable
      <3>1. PICK i \in 1..Len(hash_table[d]) : hash_table[d][i] = x
        BY <3>0
      <3>2. CASE d # b
        BY <2>1, <3>1, <3>2 DEF InTable
      <3>3. CASE d = b
        <4>1. i # k /\ i \in 1..Len(c) /\ c[i] = x
          BY <1>51, <3>1, <3>3 DEF c
        <4>2. CASE i < k
          <5>1. i \in 1..(Len(c) - 1) /\ Unlink(c, e)[i] = x
            BY <1>4, <1>7, <4>1, <4>2
          <5> QED
            BY <1>4, <1>7, <2>1, <5>1 DEF InTable
        <4>3. CASE i > k
          <5>1. i - 1 \in 1..(Len(c) - 1) /\ Unlink(c, e)[i - 1] = x
            BY <1>4, <1>7, <4>1, <4>3
          <5> QED
            BY <1>4, <1>7, <2>1, <5>1 DEF InTable
        <4> QED
          BY <4>1, <4>2, <4>3
      <3> QED
        BY <3>2, <3>3
    <2>6. \A x \in live' : InTable(hash_table', x) <=> ~ InTable(new_table', x)
      BY <1>2, <1>3, <2>5
    <2> QED
      BY <1>2, <1>3, <2>4, <2>6 DEF HashChains, InTable
  <1> QED
    BY <1>8, <1>9, <1>10, <1>11, <1>12 DEF IInv

\* Pushing an entry in front of a chain.
LEMMA PushFront ==
  ASSUME NEW e \in Entries, NEW c \in Seq(Entries)
  PROVE  /\ <<e>> \o c \in Seq(Entries) /\ Len(<<e>> \o c) = Len(c) + 1
         /\ \A i \in 1..(Len(c) + 1) : (<<e>> \o c)[i] = IF i = 1 THEN e ELSE c[i - 1]
  OBVIOUS

\* Every entry in a chain of table T belongs to L, hangs in the bucket K says,
\* and hangs there once.
Chained(T, L, K) ==
  \A b \in DOMAIN T : \A i \in 1..Len(T[b]) :
    /\ T[b][i] \in L /\ K[T[b][i]] = b
    /\ \A j \in 1..Len(T[b]) : T[b][i] = T[b][j] => i = j

\* U is table T, of n buckets, with the absent entry e pushed in front of its
\* chain b; U is T without the first entry of its chain b.
Pushed(n, T, L, K, e, b, U) ==
  /\ n \in Nat /\ T \in Tables(n) /\ L \in SUBSET Entries /\ e \in Entries
  /\ b \in 0..(n - 1) /\ Chained(T, L, K) /\ K[e] = b /\ ~ InTable(T, e)
  /\ U = [T EXCEPT ![b] = <<e>> \o T[b]]

Popped(n, T, L, K, b, U) ==
  /\ n \in Nat /\ T \in Tables(n) /\ L \in SUBSET Entries
  /\ b \in 0..(n - 1) /\ T[b] # <<>> /\ Chained(T, L, K)
  /\ U = [T EXCEPT ![b] = Tail(T[b])]

\* Pushing an absent entry in front of its chain adds it to the table, and
\* nothing else changes.
LEMMA PushTable ==
  ASSUME NEW n, NEW T, NEW L, NEW K, NEW e, NEW b, NEW U, Pushed(n, T, L, K, e, b, U)
  PROVE  /\ U \in Tables(n)
         /\ Chained(U, L \cup {e}, K)
         /\ \A x \in Entries : InTable(U, x) <=> x = e \/ InTable(T, x)
  <1> DEFINE c == T[b]
             p == <<e>> \o c
  <1> USE DEF Pushed
  <1>1. /\ c \in Seq(Entries) /\ p \in Seq(Entries) /\ Len(p) = Len(c) + 1 /\ Len(c) \in Nat
        /\ \A i \in 1..(Len(c) + 1) : p[i] = IF i = 1 THEN e ELSE c[i - 1]
    BY PushFront DEF Tables
  <1>2. /\ U \in Tables(n) /\ DOMAIN U = DOMAIN T /\ U[b] = p
        /\ \A d \in DOMAIN T : d # b => U[d] = T[d]
        /\ b \in DOMAIN T
    BY <1>1 DEF Tables
  <1>21. \A j \in 1..Len(c) : /\ c[j] \in L /\ K[c[j]] = b /\ c[j] # e
                              /\ \A l \in 1..Len(c) : c[j] = c[l] => j = l
    BY <1>2, SMTT(20) DEF Chained, InTable
  <1> HIDE DEF c, p
  <1>3. ASSUME NEW d \in DOMAIN U, NEW i \in 1..Len(U[d])
        PROVE  /\ U[d][i] \in L \cup {e} /\ K[U[d][i]] = d
               /\ \A j \in 1..Len(U[d]) : U[d][i] = U[d][j] => i = j
    <2>1. CASE d # b
      BY <1>2, <2>1 DEF Chained
    <2>2. CASE d = b
      <3>1. \A j \in 1..Len(p) : \/ (j = 1 /\ p[j] = e)
                                 \/ (j - 1 \in 1..Len(c) /\ p[j] = c[j - 1])
        BY <1>1
      <3>11. i \in 1..Len(p) /\ U[d] = p
        BY <1>2, <2>2
      <3>2. p[i] \in L \cup {e} /\ K[p[i]] = b
        <4>1. CASE i = 1 /\ p[i] = e
          BY <4>1, Zenon
        <4>2. CASE i - 1 \in 1..Len(c) /\ p[i] = c[i - 1]
          BY <1>21, <4>2
        <4> QED
          BY <3>1, <3>11, <4>1, <4>2
      <3>3. ASSUME NEW j \in 1..Len(p), p[i] = p[j] PROVE i = j
        <4>1. i \in Int /\ j \in Int
          BY <1>1, <3>11
        <4>2. CASE i = 1
          <5>1. p[j] = e
            BY <1>1, <3>3, <4>2
          <5>2. ~ (j - 1 \in 1..Len(c) /\ p[j] = c[j - 1])
            BY <1>21, <5>1
          <5> QED
            BY <3>1, <4>2, <5>2
        <4>3. CASE i # 1
          <5>1. i - 1 \in 1..Len(c) /\ p[i] = c[i - 1]
            BY <3>1, <3>11, <4>3
          <5>2. p[i] # e
            BY <1>21, <5>1
          <5>3. j - 1 \in 1..Len(c) /\ p[j] = c[j - 1]
            BY <3>1, <3>3, <5>2
          <5>4. i - 1 = j - 1
            BY <1>21, <3>3, <5>1, <5>3
          <5> QED
            BY <4>1, <5>4
        <4> QED
          BY <4>2, <4>3
      <3> QED
        BY <2>2, <3>11, <3>2, <3>3
    <2> QED
      BY <2>1, <2>2
  <1>4. ASSUME NEW x \in Entries, InTable(U, x) PROVE x = e \/ InTable(T, x)
    <2>1. PICK d \in DOMAIN U : \E i \in 1..Len(U[d]) : U[d][i] = x
      BY <1>4 DEF InTable
    <2>2. PICK i \in 1..Len(U[d]) : U[d][i] = x
      BY <2>1
    <2>3. CASE d # b
      BY <1>2, <2>2, <2>3 DEF InTable
    <2>4. CASE d = b
      <3>0. i \in 1..Len(p) /\ p[i] = x
        BY <1>2, <2>2, <2>4
      <3>1. (i = 1 /\ x = e) \/ (i - 1 \in 1..Len(c) /\ c[i - 1] = x)
        BY <1>1, <3>0
      <3> QED
        BY <1>2, <3>1 DEF InTable, c
    <2> QED
      BY <2>3, <2>4
  <1>5. InTable(U, e)
    <2>1. 1 \in 1..Len(U[b]) /\ U[b][1] = e
      BY <1>1, <1>2
    <2> QED
      BY <1>2, <2>1 DEF InTable
  <1>6. ASSUME NEW x \in Entries, InTable(T, x) PROVE InTable(U, x)
    <2>1. PICK d \in DOMAIN T : \E i \in 1..Len(T[d]) : T[d][i] = x
      BY <1>6 DEF InTable
    <2>2. PICK i \in 1..Len(T[d]) : T[d][i] = x
      BY <2>1
    <2>3. CASE d # b
      BY <1>2, <2>2, <2>3 DEF InTable
    <2>4. CASE d = b
      <3>0. i \in 1..Len(c) /\ c[i] = x
        BY <2>2, <2>4 DEF c
      <3>01. i + 1 \in 1..Len(p) /\ p[i + 1] = x
        BY <1>1, <3>0
      <3>1. i + 1 \in 1..Len(U[b]) /\ U[b][i + 1] = x
        BY <1>2, <3>01
      <3> QED
        BY <1>2, <3>1 DEF InTable
    <2> QED
      BY <2>3, <2>4
  <1>7. Chained(U, L \cup {e}, K)
    BY <1>3 DEF Chained
  <1> QED
    BY <1>2, <1>4, <1>5, <1>6, <1>7

\* Taking the first entry off a chain removes it from the table, and nothing
\* else changes.
LEMMA PopTable ==
  ASSUME NEW n, NEW T, NEW L, NEW K, NEW b, NEW U, Popped(n, T, L, K, b, U)
  PROVE  /\ U \in Tables(n) /\ Head(T[b]) \in L /\ Head(T[b]) \in Entries
         /\ K[Head(T[b])] = b /\ InTable(T, Head(T[b]))
         /\ Chained(U, L, K)
         /\ \A x \in Entries : InTable(U, x) <=> x # Head(T[b]) /\ InTable(T, x)
  <1> DEFINE c == T[b]
             q == Tail(c)
             e == Head(c)
  <1> USE DEF Popped
  <1>1. /\ c \in Seq(Entries) /\ q \in Seq(Entries) /\ Len(c) = Len(q) + 1 /\ Len(q) \in Nat
        /\ e = c[1] /\ \A i \in 1..Len(q) : q[i] = c[i + 1]
    BY DEF Tables
  <1>2. /\ U \in Tables(n) /\ DOMAIN U = DOMAIN T /\ U[b] = q
        /\ \A d \in DOMAIN T : d # b => U[d] = T[d]
        /\ b \in DOMAIN T
    BY <1>1 DEF Tables
  <1>21. \A j \in 1..Len(c) : /\ c[j] \in L /\ K[c[j]] = b
                              /\ \A l \in 1..Len(c) : c[j] = c[l] => j = l
    BY <1>2 DEF Chained
  <1>22. 1 \in 1..Len(c) /\ \A i \in 1..Len(q) : i + 1 \in 1..Len(c)
    BY <1>1
  <1>23. e \in L /\ K[e] = b /\ InTable(T, e)
    BY <1>1, <1>2, <1>21, <1>22 DEF InTable
  <1>24. \A i \in 1..Len(q) : q[i] # e
    <2> SUFFICES ASSUME NEW i \in 1..Len(q), q[i] = e PROVE FALSE
      OBVIOUS
    <2>1. c[i + 1] = c[1]
      BY <1>1
    <2>2. i + 1 = 1
      BY <1>21, <1>22, <2>1
    <2> QED
      BY <1>1, <2>2
  <1> HIDE DEF c, q, e
  <1>3. ASSUME NEW d \in DOMAIN U, NEW i \in 1..Len(U[d])
        PROVE  /\ U[d][i] \in L /\ K[U[d][i]] = d
               /\ \A j \in 1..Len(U[d]) : U[d][i] = U[d][j] => i = j
    <2>1. CASE d # b
      BY <1>2, <2>1 DEF Chained
    <2>2. CASE d = b
      <3>1. i \in 1..Len(q) /\ \A j \in 1..Len(U[d]) : j \in 1..Len(q)
        BY <1>2, <2>2
      <3>2. q[i] \in L /\ K[q[i]] = b
        BY <1>1, <1>21, <1>22, <3>1
      <3>3. ASSUME NEW j \in 1..Len(q), q[i] = q[j] PROVE i = j
        <4>1. i + 1 = j + 1
          BY <1>1, <1>21, <1>22, <3>1, <3>3
        <4> QED
          BY <1>1, <3>1, <4>1
      <3> QED
        BY <1>2, <2>2, <3>1, <3>2, <3>3
    <2> QED
      BY <2>1, <2>2
  <1>4. ASSUME NEW x \in Entries, InTable(U, x) PROVE x # e /\ InTable(T, x)
    <2>1. PICK d \in DOMAIN U : \E i \in 1..Len(U[d]) : U[d][i] = x
      BY <1>4 DEF InTable
    <2>2. PICK i \in 1..Len(U[d]) : U[d][i] = x
      BY <2>1
    <2>3. CASE d # b
      <3>1. T[d][i] = x /\ i \in 1..Len(T[d]) /\ d \in DOMAIN T
        BY <1>2, <2>2, <2>3
      <3>2. K[x] = d
        BY <3>1 DEF Chained
      <3> QED
        BY <1>23, <2>3, <3>1, <3>2 DEF InTable
    <2>4. CASE d = b
      <3>1. i \in 1..Len(q) /\ q[i] = x
        BY <1>2, <2>2, <2>4
      <3>2. i + 1 \in 1..Len(c) /\ c[i + 1] = x
        BY <1>1, <1>22, <3>1
      <3> QED
        BY <1>2, <1>24, <3>1, <3>2 DEF InTable, c
    <2> QED
      BY <2>3, <2>4
  <1>5. ASSUME NEW x \in Entries, x # e, InTable(T, x) PROVE InTable(U, x)
    <2>1. PICK d \in DOMAIN T : \E i \in 1..Len(T[d]) : T[d][i] = x
      BY <1>5 DEF InTable
    <2>2. PICK i \in 1..Len(T[d]) : T[d][i] = x
      BY <2>1
    <2>3. CASE d # b
      BY <1>2, <2>2, <2>3 DEF InTable
    <2>4. CASE d = b
      <3>1. i # 1 /\ i \in 1..Len(c) /\ c[i] = x
        BY <1>1, <1>5, <2>2, <2>4 DEF c
      <3>2. i - 1 \in 1..Len(q) /\ (i - 1) + 1 = i
        BY <1>1, <3>1
      <3>3. q[i - 1] = x
        BY <1>1, <3>1, <3>2
      <3> QED
        BY <1>2, <3>2, <3>3 DEF InTable
    <2> QED
      BY <2>3, <2>4
  <1> QED
    BY <1>1, <1>2, <1>23, <1>3, <1>4, <1>5 DEF Chained, c, e

\* Pushing a new entry keeps the list well formed.
LEMMA PushKeepsList ==
  ASSUME TypeOK, LruList, LruAcyclic, NEW e \in Entries \ live,
         live' = live \cup {e},
         lru_next' = Alloc(lru_next, e, lru_head),
         lru_prev' = Alloc(Store(lru_prev, lru_head, e), e, NULL),
         lru_head' = e, lru_tail' = IF lru_tail = NULL THEN e ELSE lru_tail
  PROVE  /\ LruList' /\ LruAcyclic'
         /\ lru_prev' \in [live' -> live' \cup {NULL}] /\ lru_next' \in [live' -> live' \cup {NULL}]
         /\ lru_head' \in live' \cup {NULL} /\ lru_tail' \in live' \cup {NULL}
  <1>1. /\ \A x \in live' : lru_next'[x] = IF x = e THEN lru_head ELSE lru_next[x]
        /\ \A x \in live' : lru_prev'[x] = IF x = e THEN NULL
                                          ELSE IF x = lru_head THEN e ELSE lru_prev[x]
        /\ lru_next' = [x \in live' |-> lru_next'[x]]
        /\ lru_prev' = [x \in live' |-> lru_prev'[x]]
    BY DEF Alloc, Store, TypeOK
  <1>2. \A x \in live' : lru_next'[x] \in live' \cup {NULL} /\ lru_prev'[x] \in live' \cup {NULL}
    BY <1>1 DEF TypeOK
  <1>3. lru_head' \in live' \cup {NULL} /\ lru_tail' \in live' \cup {NULL}
    BY DEF TypeOK
  <1>4. lru_head' # NULL /\ lru_tail' # NULL
    BY DEF TypeOK
  <1>5. ASSUME NEW x \in live'
        PROVE  /\ lru_prev'[x] = NULL <=> x = lru_head'
               /\ lru_next'[x] = NULL <=> x = lru_tail'
               /\ lru_prev'[x] # NULL => lru_next'[lru_prev'[x]] = x
               /\ lru_next'[x] # NULL => lru_prev'[lru_next'[x]] = x
    <2>1. CASE live = {}
      BY <1>1, <2>1 DEF LruList, TypeOK
    <2>2. CASE live # {}
      <3>1. lru_head \in live /\ lru_tail \in live
        BY <2>2 DEF LruList, TypeOK
      <3> QED
        BY <1>1, <3>1 DEF LruList, TypeOK
    <2> QED
      BY <2>1, <2>2
  <1>6. LruAcyclic'
    <2>1. PICK m \in Nat : \E rank \in [live -> 0..m] : Ranked(rank, m)
      BY DEF LruAcyclic
    <2>2. PICK rank \in [live -> 0..m] : Ranked(rank, m)
      BY <2>1
    <2> DEFINE r == [x \in live \cup {e} |-> IF x = e THEN m + 1 ELSE rank[x]]
    <2>3. r \in [live' -> 0..(m + 1)]
      BY <2>1, <2>2
    <2>4. \A x \in live' : lru_next'[x] # NULL => r[lru_next'[x]] < r[x]
      BY <1>1, <2>1, <2>2 DEF Ranked, TypeOK
    <2>5. \E q \in [live' -> 0..(m + 1)] :
             \A x \in live' : lru_next'[x] # NULL => q[lru_next'[x]] < q[x]
      BY <2>3, <2>4
    <2>6. m + 1 \in Nat
      BY <2>1
    <2> QED
      BY <2>5, <2>6 DEF LruAcyclic, Ranked
  <1> QED
    BY <1>1, <1>2, <1>3, <1>4, <1>5, <1>6 DEF LruList

\* insert_ex links the new entry.
LEMMA InsertFinishStep ==
  ASSUME IInv, NEW t \in Threads, InsertFinish(t)
  PROVE  IInv'
  <1> USE DEF fields, lruvars, sizes, stats
  <1> DEFINE a == local[t].addr
             z == local[t].size
             b == tcache_hash_buckets(tcache_hash(a), bucket_count)
             c == hash_table[b]
  <1>1. /\ pc[t] = "insert" /\ lock' = NULL
        /\ pc' = [pc EXCEPT ![t] = "idle"] /\ local' = [local EXCEPT ![t] = NoLocal]
        /\ used_size' = used_size + z /\ entry_count' = entry_count + 1
        /\ UNCHANGED <<total_size, bucket_count, stats, new_table>>
    BY DEF InsertFinish, Goto
  <1>2. /\ lock = t /\ new_table = NoTable /\ \A u \in Threads : pc[u] # "rehash"
        /\ \A x : ~ InTable(new_table, x)
        /\ a \in Addrs /\ z \in Nat
    BY <1>1, InsertAlone
  <1>3. PICK e \in Entries \ live :
          /\ live' = live \cup {e}
          /\ arm_addr' = Alloc(arm_addr, e, a) /\ x86_size' = Alloc(x86_size, e, z)
          /\ exec_count' = Alloc(exec_count, e, 1)
          /\ hash_table' = [hash_table EXCEPT ![b] = <<e>> \o c]
          /\ lru_next' = Alloc(lru_next, e, lru_head)
          /\ lru_prev' = Alloc(Store(lru_prev, lru_head, e), e, NULL)
          /\ lru_head' = e
          /\ lru_tail' = IF lru_tail = NULL THEN e ELSE lru_tail
    BY DEF InsertFinish
  <1>4. b \in DOMAIN hash_table /\ c \in Seq(Entries)
    BY <1>2, BucketRange DEF tcache_hash_buckets, tcache_hash, IInv, TypeOK, Tables
  <1> HIDE DEF a, z, c
  <1>5. /\ <<e>> \o c \in Seq(Entries) /\ Len(<<e>> \o c) = Len(c) + 1
        /\ \A i \in 1..(Len(c) + 1) : (<<e>> \o c)[i] = IF i = 1 THEN e ELSE c[i - 1]
    BY <1>4, PushFront
  <1>6. /\ LruList' /\ LruAcyclic'
        /\ lru_prev' \in [live' -> live' \cup {NULL}] /\ lru_next' \in [live' -> live' \cup {NULL}]
        /\ lru_head' \in live' \cup {NULL} /\ lru_tail' \in live' \cup {NULL}
    BY <1>3, PushKeepsList DEF IInv
  <1>7. \A x \in live' : arm_addr'[x] = IF x = e THEN a ELSE arm_addr[x]
    BY <1>3 DEF Alloc, IInv, TypeOK
  <1>8. TypeOK'
    <2>1. hash_table' \in Tables(bucket_count)'
      BY <1>1, <1>3, <1>4, <1>5 DEF IInv, TypeOK, Tables
    <2>2. /\ arm_addr' \in [live' -> Addrs] /\ x86_size' \in [live' -> Nat]
          /\ exec_count' \in [live' -> 1..HotThreshold] /\ live' \subseteq Entries
      BY <1>2, <1>3 DEF Alloc, IInv, TypeOK
    <2>3. used_size' \in Int /\ entry_count' \in Int
      BY <1>1, <1>2 DEF IInv, TypeOK
    <2>4. /\ bucket_count' \in Nat \ {0} /\ total_size' \in Nat
          /\ lookup_count' \in Nat /\ miss_count' \in Nat /\ lock' \in Threads \cup {NULL}
          /\ pc' \in [Threads -> PC] /\ local' \in [Threads -> Locals]
          /\ \A u \in Threads : pc'[u] = "insert" => local'[u].addr \in Addrs
      BY <1>1 DEF IInv, TypeOK, PC, Locals, NoLocal, Ptr
    <2> QED
      BY <1>6, <2>1, <2>2, <2>3, <2>4 DEF TypeOK
  <1>9. LockOwner'
    BY <1>1, <1>2 DEF IInv, LockOwner, TypeOK
  <1>10. EntryCount'
    BY <1>1, <1>3, FS_AddElement, FS_Subset DEF IInv, EntryCount, TypeOK
  <1>11. HashChains'
    <2> DEFINE K == [x \in live' |-> Bucket(x, bucket_count)']
    <2>1. Chained(hash_table, live, K) /\ K[e] = b
      BY <1>1, <1>3, <1>7 DEF IInv, HashChains, ChainsOK, Chained, Bucket
    <2>2. ~ InTable(hash_table, e)
      BY <1>3 DEF IInv, HashChains, ChainsOK, InTable
    <2>3. hash_table' = [hash_table EXCEPT ![b] = <<e>> \o hash_table[b]]
      BY <1>3 DEF c
    <2>4. b \in 0..(bucket_count - 1) /\ hash_table \in Tables(bucket_count)
      BY <1>4 DEF IInv, TypeOK, Tables
    <2> HIDE DEF K, b
    <2>5. /\ Chained(hash_table', live', K)
          /\ \A x \in Entries : InTable(hash_table', x) <=> x = e \/ InTable(hash_table, x)
      <3>1. live \in SUBSET Entries /\ bucket_count \in Nat /\ e \in Entries
        BY DEF IInv, TypeOK
      <3>2. Pushed(bucket_count, hash_table, live, K, e, b, hash_table')
        BY <2>1, <2>2, <2>3, <2>4, <3>1 DEF Pushed
      <3>3. /\ Chained(hash_table', live \cup {e}, K)
            /\ \A x \in Entries : InTable(hash_table', x) <=> x = e \/ InTable(hash_table, x)
        BY <3>2, PushTable
      <3> QED
        BY <1>3, <3>3
    <2>6. ChainsOK(hash_table, bucket_count)'
      BY <2>5 DEF Chained, ChainsOK, K
    <2>7. \A x \in live' : InTable(hash_table', x) <=> ~ InTable(new_table', x)
      BY <1>1, <1>2, <1>3, <2>5 DEF IInv, HashChains, TypeOK
    <2>8. \A u \in Threads : pc'[u] # "rehash"
      BY <1>1, <1>2 DEF IInv, TypeOK
    <2> QED
      BY <2>6, <2>7, <2>8 DEF HashChains, InTable
  <1> QED
    BY <1>6, <1>8, <1>9, <1>10, <1>11 DEF IInv

\* Only one thread is inside resize, and the list is not its business.
LEMMA RehashAlone ==
  ASSUME IInv, NEW t \in Threads, pc[t] = "rehash"
  PROVE  /\ lock = t /\ \A u \in Threads : pc[u] = "rehash" => u = t
         /\ local[t].size \in Nat /\ new_buckets(local[t].size) \in Nat \ {0}
         /\ new_table \in Tables(new_buckets(local[t].size))
  BY DEF IInv, LockOwner, TypeOK, Locals, new_buckets

\* Moving one entry between the tables of a resize.
LEMMA RehashEntryStep ==
  ASSUME IInv, NEW t \in Threads, RehashEntry(t)
  PROVE  IInv'
  <1> USE DEF fields, lruvars, sizes, stats
  <1> DEFINE n == new_buckets(local[t].size)
             b == Min(Remaining)
             e == Head(hash_table[b])
             nb == RehashBucket(e, local[t].size)
             K == [x \in live |-> Bucket(x, bucket_count)]
             N == [x \in live |-> Bucket(x, n)]
  <1>1. /\ pc[t] = "rehash" /\ Remaining # {}
        /\ hash_table' = [hash_table EXCEPT ![b] = Tail(hash_table[b])]
        /\ new_table' = [new_table EXCEPT ![nb] = <<e>> \o new_table[nb]]
        /\ UNCHANGED <<live, fields, lruvars, sizes, stats, lock, pc, local>>
    BY DEF RehashEntry
  <1>2. /\ lock = t /\ \A u \in Threads : pc[u] = "rehash" => u = t
        /\ n \in Nat \ {0} /\ new_table \in Tables(n)
    BY <1>1, RehashAlone
  <1>3. b \in 0..(bucket_count - 1) /\ hash_table[b] # <<>>
    <2>1. Remaining \in SUBSET Nat
      BY DEF Remaining
    <2>2. Min(Remaining) \in Remaining
      BY <1>1, <2>1, MinNat
    <2> QED
      BY <2>2 DEF Remaining
  <1>4. Chained(hash_table, live, K) /\ Chained(new_table, live, N)
    BY <1>1 DEF IInv, HashChains, ChainsOK, Chained
  <1>5. \A x \in live : InTable(hash_table, x) <=> ~ InTable(new_table, x)
    BY DEF IInv, HashChains
  <1>6. /\ bucket_count \in Nat /\ hash_table \in Tables(bucket_count)
        /\ live \in SUBSET Entries
    BY DEF IInv, TypeOK
  <1>61. nb = Bucket(e, n) /\ \A x \in live : N[x] = Bucket(x, n)
    BY DEF RehashBucket
  <1>62. \A x \in live : Bucket(x, n) \in 0..(n - 1)
    BY <1>2, BucketRange DEF Bucket, tcache_hash_buckets, tcache_hash, IInv, TypeOK
  <1> HIDE DEF n, b, e, nb, K, N
  <1>7. Popped(bucket_count, hash_table, live, K, b, hash_table')
    BY <1>1, <1>3, <1>4, <1>6 DEF Popped
  <1>8. /\ hash_table' \in Tables(bucket_count) /\ e \in live /\ e \in Entries
        /\ InTable(hash_table, e) /\ Chained(hash_table', live, K)
        /\ \A x \in Entries : InTable(hash_table', x) <=> x # e /\ InTable(hash_table, x)
    BY <1>7, PopTable DEF e
  <1>9. Pushed(n, new_table, live, N, e, nb, new_table')
    <2>1. ~ InTable(new_table, e) /\ N[e] = nb /\ nb \in 0..(n - 1)
      BY <1>5, <1>61, <1>62, <1>8
    <2> QED
      BY <1>1, <1>2, <1>4, <1>6, <1>8, <2>1 DEF Pushed
  <1>10. /\ new_table' \in Tables(n) /\ Chained(new_table', live \cup {e}, N)
         /\ \A x \in Entries : InTable(new_table', x) <=> x = e \/ InTable(new_table, x)
    BY <1>9, PushTable
  <1>11. live \cup {e} = live
    BY <1>8
  <1>12. TypeOK'
    BY <1>1, <1>8 DEF IInv, TypeOK
  <1>13. LockOwner'
    <2>1. new_table' \in Tables(new_buckets(local[t].size))
      BY <1>10 DEF n
    <2> QED
      BY <1>1, <1>2, <2>1 DEF IInv, LockOwner, n
  <1>14. LruList' /\ LruAcyclic' /\ EntryCount'
    BY <1>1 DEF IInv, LruList, LruAcyclic, Ranked, EntryCount
  <1>15. HashChains'
    <2>1. ChainsOK(hash_table, bucket_count)'
      <3>1. /\ live' = live /\ arm_addr' = arm_addr /\ bucket_count' = bucket_count
            /\ Chained(hash_table', live, K)
        BY <1>1, <1>8
      <3> QED
        BY <3>1 DEF ChainsOK, Chained, K, Bucket
    <2>2. ChainsOK(new_table, new_buckets(local[t].size))'
      <3>1. /\ live' = live /\ arm_addr' = arm_addr /\ local' = local
            /\ Chained(new_table', live, N)
        BY <1>1, <1>10, <1>11
      <3> QED
        BY <3>1 DEF ChainsOK, Chained, N, n, Bucket
    <2>3. \A x \in live : InTable(hash_table', x) <=> ~ InTable(new_table', x)
      BY <1>5, <1>6, <1>8, <1>10
    <2>4. \A u \in Threads : pc'[u] = "rehash" => u = t
      BY <1>1, <1>2
    <2>5. \A x \in live' : InTable(hash_table, x)' <=> ~ InTable(new_table, x)'
      BY <1>1, <2>3 DEF InTable
    <2> QED
      BY <2>1, <2>2, <2>4, <2>5 DEF HashChains, InTable
  <1> QED
    BY <1>12, <1>13, <1>14, <1>15 DEF IInv

\* Publishing the new table, once the old one is empty.
LEMMA RehashDoneStep ==
  ASSUME IInv, NEW t \in Threads, RehashDone(t)
  PROVE  IInv'
  <1> USE DEF fields, lruvars, sizes, stats
  <1>1. /\ pc[t] = "rehash" /\ Remaining = {} /\ lock' = NULL
        /\ hash_table' = new_table /\ new_table' = NoTable
        /\ total_size' = local[t].size /\ bucket_count' = new_buckets(local[t].size)
        /\ pc' = [pc EXCEPT ![t] = "idle"] /\ local' = [local EXCEPT ![t] = NoLocal]
        /\ UNCHANGED <<live, fields, lruvars, used_size, entry_count, stats>>
    BY DEF RehashDone, Goto
  <1>2. /\ lock = t /\ \A u \in Threads : pc[u] = "rehash" => u = t
        /\ local[t].size \in Nat /\ new_buckets(local[t].size) \in Nat \ {0}
        /\ new_table \in Tables(new_buckets(local[t].size))
    BY <1>1, RehashAlone
  <1>3. \A x \in live : ~ InTable(hash_table, x)
    <2>1. DOMAIN hash_table = 0..(bucket_count - 1)
      BY DEF IInv, TypeOK, Tables
    <2>2. \A b \in DOMAIN hash_table : hash_table[b] = <<>>
      BY <1>1, <2>1 DEF Remaining
    <2> QED
      BY <2>2 DEF InTable
  <1>4. \A x : ~ InTable(NoTable, x)
    BY DEF InTable, NoTable
  <1>5. TypeOK'
    <2>1. NoLocal \in Locals
      BY DEF NoLocal, Locals, Ptr
    <2> QED
      BY <1>1, <1>2, <2>1 DEF IInv, TypeOK, PC
  <1>6. \A u \in Threads : pc'[u] # "rehash"
    BY <1>1, <1>2 DEF IInv, TypeOK
  <1>7. LockOwner'
    BY <1>1, <1>2, <1>6 DEF IInv, LockOwner, TypeOK
  <1>8. LruList' /\ LruAcyclic' /\ EntryCount'
    BY <1>1 DEF IInv, LruList, LruAcyclic, Ranked, EntryCount
  <1>9. HashChains'
    <2>1. ChainsOK(new_table, new_buckets(local[t].size))
      BY <1>1 DEF IInv, HashChains
    <2>2. ChainsOK(hash_table, bucket_count)'
      BY <1>1, <2>1 DEF ChainsOK, Bucket
    <2>3. \A x \in live' : InTable(hash_table, x)' <=> ~ InTable(new_table, x)'
      BY <1>1, <1>3, <1>4 DEF IInv, HashChains
    <2> QED
      BY <1>6, <2>2, <2>3 DEF HashChains
  <1> QED
    BY <1>5, <1>7, <1>8, <1>9 DEF IInv

-----------------------------------------------------------------------------
(***************************************************************************)
(* The theorems.                                                           *)
(***************************************************************************)

\* Every step preserves the invariant.
LEMMA NextIInv ==
  ASSUME IInv, [Next]_vars
  PROVE  IInv'
  <1>1. CASE UNCHANGED vars
    <2>1. UNCHANGED <<live, arm_addr, x86_size, exec_count, lru_prev, lru_next,
                      lru_head, lru_tail, hash_table, total_size, used_size,
                      entry_count, bucket_count, lookup_count, miss_count, lock,
                      new_table, pc, local>>
      BY <1>1 DEF vars, fields, lruvars, sizes, stats
    <2>2. TypeOK' /\ LockOwner'
      BY <2>1 DEF IInv, TypeOK, LockOwner
    <2>3. LruList' /\ LruAcyclic' /\ EntryCount'
      BY <2>1 DEF IInv, LruList, LruAcyclic, Ranked, EntryCount
    <2>4. HashChains'
      BY <2>1 DEF IInv, HashChains, ChainsOK, InTable, Bucket
    <2> QED
      BY <2>2, <2>3, <2>4 DEF IInv
  <1>2. CASE Next
    <2> PICK t \in Threads : Start(t) \/ Continue(t)
      BY <1>2 DEF Next
    <2>1. ASSUME NEW a \in Addrs, LookupHit(t, a) PROVE IInv'
      BY <2>1, LookupHitStep
    <2>2. ASSUME NEW a \in Addrs, LookupMiss(t, a) PROVE IInv'
      BY <2>2, LookupMissStep
    <2>21. ASSUME NEW a \in Addrs, RegisterJump(t, a) PROVE IInv'
      BY <2>21, RegisterJumpStep
    <2>3. ASSUME NEW a \in Addrs, NEW z \in Sizes, InsertBegin(t, a, z) PROVE IInv'
      BY <2>3, InsertBeginStep
    <2>4. CASE Clear(t)
      BY <2>4, ClearStep
    <2>5. ASSUME NEW n \in ResizeTo, Resize(t, n) PROVE IInv'
      <3>1. n \in Nat
        OBVIOUS
      <3> QED
        BY <2>5, <3>1, ResizeBeginStep DEF Resize
    <2>6. ASSUME NEW rate \in {"high", "mid", "low"}, AdjustDecide(t, rate) PROVE IInv'
      BY <2>6, AdjustDecideStep
    <2>7. CASE MissRateCheck(t)
      BY <2>7, MissRateCheckStep
    <2>8. CASE GetCode(t) \/ MissRateDivide(t) \/ AdjustSkip(t)
      BY <2>8, GetCodeStep
    <2>9. CASE Evict(t)
      BY <2>9, EvictStep
    <2>10. CASE InsertFinish(t)
      BY <2>10, InsertFinishStep
    <2>11. CASE InsertFail(t)
      BY <2>11, InsertFailStep
    <2>12. CASE RehashEntry(t)
      BY <2>12, RehashEntryStep
    <2>13. CASE RehashDone(t)
      BY <2>13, RehashDoneStep
    <2>14. CASE AdjustResize(t)
      <3>1. local[t].size \in Nat
        BY DEF IInv, TypeOK, Locals
      <3> QED
        BY <2>14, <3>1, ResizeBeginStep DEF AdjustResize
    <2>15. CASE Start(t)
      BY <2>1, <2>2, <2>21, <2>3, <2>4, <2>5, <2>6, <2>7, <2>15, Zenon DEF Start
    <2>16. CASE Continue(t)
      BY <2>8, <2>9, <2>10, <2>11, <2>12, <2>13, <2>14, <2>16 DEF Continue
    <2> QED
      BY <2>15, <2>16
  <1> QED
    BY <1>1, <1>2

\* The invariant holds in every reachable state.
LEMMA Inductive == Spec => []IInv
  <1>1. Init => IInv
    BY InitIInv
  <1>2. IInv /\ [Next]_vars => IInv'
    BY NextIInv
  <1> QED
    BY <1>1, <1>2, PTL DEF Spec

\* However the threads interleave, every pointer of the cache leads to a live
\* entry, every splice of lookup and insert_ex keeps the doubly linked list well
\* formed, every cached block hangs once in the chain that a lookup of its
\* address scans, through eviction and resize, and cache->lock is held exactly
\* while a thread is inside the loop of insert_ex or of resize.
THEOREM StructureKept == Spec => []Structure
  <1>1. IInv => Structure
    BY DEF IInv, Structure
  <1> QED
    BY <1>1, Inductive, PTL

\* insert_ex returns with the cache within its capacity, or holding nothing but
\* the block just inserted.
THEOREM CapacityRestored == Spec => CapacityAfterInsert
  <1>1. IInv /\ Next => WithinCapacity
    <2> SUFFICES ASSUME IInv, Next, NEW t \in Threads, pc[t] = "insert", pc'[t] = "idle"
                 PROVE  \/ used_size' <= total_size'
                        \/ live' = {} \/ \E e \in Entries : live' = {e}
      BY DEF WithinCapacity
    <2> PICK u \in Threads : Start(u) \/ Continue(u)
      BY DEF Next
    <2>1. u = t /\ (InsertFinish(t) \/ InsertFail(t))
      <3>1. lock = t /\ pc[t] \notin {"idle", "held", "rate", "rehash", "adjust"}
        BY DEF IInv, LockOwner
      <3>2. ~ Start(u)
        <4>1. lock # NULL
          BY <3>1
        <4>2. ~ CanLock(u) /\ \A n \in ResizeTo : ~ Resize(u, n)
          BY <4>1 DEF CanLock, Resize, ResizeBegin
        <4>3. ~ MissRateCheck(u)
          <5> SUFFICES ASSUME MissRateCheck(u) PROVE FALSE
            OBVIOUS
          <5>1. pc' = [pc EXCEPT ![u] = "rate"]
            BY DEF MissRateCheck, Goto
          <5> QED
            BY <5>1 DEF IInv, TypeOK
        <4>4. \A a \in Addrs : ~ RegisterJump(u, a)
          BY DEF RegisterJump
        <4> QED
          BY <4>2, <4>3, <4>4 DEF Start, LookupHit, LookupMiss, InsertBegin, Clear, AdjustDecide
      <3>3. u = t
        <4> SUFFICES ASSUME u # t PROVE FALSE
          OBVIOUS
        <4>1. pc[u] \notin {"insert", "rehash"}
          BY <3>1 DEF IInv, LockOwner
        <4>2. \/ GetCode(u) \/ MissRateDivide(u) \/ AdjustSkip(u)
          BY <3>1, <3>2, <4>1 DEF Continue, Evict, InsertFinish, InsertFail, RehashEntry,
             RehashDone, AdjustResize, ResizeBegin
        <4>3. pc' = [pc EXCEPT ![u] = "idle"]
          BY <4>2 DEF GetCode, MissRateDivide, AdjustSkip, Goto
        <4> QED
          BY <4>3 DEF IInv, TypeOK
      <3>4. ~ Evict(t)
        BY DEF Evict
      <3> QED
        BY <3>1, <3>2, <3>3, <3>4 DEF Continue, GetCode, MissRateDivide, RehashEntry,
           RehashDone, AdjustSkip, AdjustResize
    <2>2. /\ used_size \in Int /\ total_size \in Nat /\ local[t].size \in Nat
          /\ (lru_tail = NULL <=> live = {})
      BY DEF IInv, TypeOK, LruList, Locals
    <2>3. CASE InsertFinish(t)
      <3>1. /\ ~ MustEvict(local[t].size) /\ used_size' = used_size + local[t].size
            /\ total_size' = total_size
            /\ \E e \in Entries \ live : live' = live \cup {e}
        BY <2>3 DEF InsertFinish
      <3> QED
        BY <2>2, <3>1 DEF MustEvict
    <2>4. CASE InsertFail(t)
      <3>1. /\ ~ MustEvict(local[t].size) /\ used_size' = used_size
            /\ total_size' = total_size /\ live' = live
        BY <2>4 DEF InsertFail, sizes
      <3> QED
        BY <2>2, <3>1 DEF MustEvict
    <2> QED
      BY <2>1, <2>3, <2>4
  <1>2. IInv /\ [Next]_vars => [WithinCapacity]_vars
    BY <1>1
  <1> QED
    BY <1>2, Inductive, PTL DEF Spec, CapacityAfterInsert

-----------------------------------------------------------------------------
(***************************************************************************)
(* The bytes in use.  Only three steps touch what is summed: Evict takes   *)
(* one entry out of the sum, InsertFinish puts one in, Clear empties it.   *)
(***************************************************************************)
\* An eviction subtracts the size its entry was inserted with.
LEMMA EvictUsed ==
  ASSUME IInv, UsedSize, NEW t \in Threads, Evict(t) PROVE UsedSize'
  <1>1. PICK e : e = lru_tail
    OBVIOUS
  <1>2. e \in live /\ IsFiniteSet(live) /\ x86_size \in [live -> Nat]
    BY <1>1, FS_Subset DEF IInv, TypeOK, Evict, MustEvict
  <1>3. /\ live' = live \ {e} /\ x86_size' = Free(x86_size, e)
        /\ used_size' = used_size - x86_size[e]
    BY <1>1 DEF Evict, SizeAfterEvict
  <1>4. \A x \in live \ {e} : x86_size[x] = x86_size'[x] /\ x86_size[x] \in Int
    BY <1>2, <1>3 DEF Free
  <1>5. PICK l : l = live \ {e}
    OBVIOUS
  <1>6. IsFiniteSet(l)
    BY <1>2, <1>5, FS_RemoveElement
  <1>7. SumFunctionOnSet(x86_size, l) = SumFunctionOnSet(x86_size', l)
    BY <1>4, <1>5, <1>6, SumSame
  <1>8. SumFunctionOnSet(x86_size, l) = SumFunctionOnSet(x86_size, live) - x86_size[e]
    BY <1>2, <1>5, SumRemove
  <1> QED
    BY <1>3, <1>5, <1>7, <1>8 DEF UsedSize

\* An insertion adds the size of the new entry.
LEMMA InsertUsed ==
  ASSUME IInv, UsedSize, NEW t \in Threads, InsertFinish(t) PROVE UsedSize'
  <1>1. PICK s : s = local[t].size
    OBVIOUS
  <1>2. s \in Nat /\ IsFiniteSet(live) /\ x86_size \in [live -> Nat]
    BY <1>1, FS_Subset DEF IInv, TypeOK, Locals
  <1>3. PICK e \in Entries \ live : live' = live \cup {e} /\ x86_size' = Alloc(x86_size, e, s)
    BY <1>1 DEF InsertFinish
  <1>4. used_size' = used_size + s
    BY <1>1 DEF InsertFinish
  <1>5. /\ \A x \in live : x86_size[x] = x86_size'[x] /\ x86_size[x] \in Int
        /\ x86_size'[e] = s
    BY <1>2, <1>3 DEF Alloc
  <1>6. \A x \in live \cup {e} : x86_size'[x] \in Int
    BY <1>2, <1>5
  <1>7. /\ SumFunctionOnSet(x86_size, live) = SumFunctionOnSet(x86_size', live)
        /\ SumFunctionOnSet(x86_size, live) \in Int
    BY <1>2, <1>5, SumSame
  <1>8. SumFunctionOnSet(x86_size', live \cup {e}) = s + SumFunctionOnSet(x86_size', live)
    BY <1>2, <1>3, <1>5, <1>6, SumAdd
  <1> QED
    BY <1>2, <1>3, <1>4, <1>7, <1>8 DEF UsedSize

\* used_size is the sum of the sizes of the cached blocks and entry_count their
\* number, in every state of every interleaving: through evictions of insert_ex
\* whose calloc then fails, clears and resizes.
THEOREM AccountingKept == Spec => []Accounting
  <1>1. Init => UsedSize
    BY SumEmpty DEF Init, UsedSize
  <1>2. IInv /\ UsedSize /\ [Next]_vars => UsedSize'
    <2> SUFFICES ASSUME IInv, UsedSize, [Next]_vars PROVE UsedSize'
      OBVIOUS
    <2>1. ASSUME UNCHANGED <<live, x86_size, used_size>> PROVE UsedSize'
      BY <2>1 DEF UsedSize
    <2>2. CASE UNCHANGED vars
      BY <2>1, <2>2 DEF vars, fields, sizes
    <2>3. CASE Next
      <3> PICK t \in Threads : Start(t) \/ Continue(t)
        BY <2>3 DEF Next
      <3>1. CASE Start(t) /\ ~ Clear(t)
        <4>1. UNCHANGED <<live, x86_size, used_size>>
          BY <3>1 DEF Start, LookupHit, LookupMiss, RegisterJump, InsertBegin, Resize,
             ResizeBegin, AdjustDecide, MissRateCheck, fields, sizes
        <4> QED
          BY <2>1, <4>1
      <3>2. CASE Clear(t)
        BY <3>2, SumEmpty DEF Clear, UsedSize
      <3>3. CASE Evict(t)
        BY <3>3, EvictUsed
      <3>4. CASE InsertFinish(t)
        BY <3>4, InsertUsed
      <3>5. CASE Continue(t) /\ ~ Evict(t) /\ ~ InsertFinish(t)
        <4>1. UNCHANGED <<live, x86_size, used_size>>
          BY <3>5 DEF Continue, GetCode, MissRateDivide, InsertFail, RehashEntry,
             RehashDone, AdjustSkip, AdjustResize, ResizeBegin, fields, sizes
        <4> QED
          BY <2>1, <4>1
      <3> QED
        BY <3>1, <3>2, <3>3, <3>4, <3>5
    <2> QED
      BY <2>2, <2>3
  <1>3. IInv /\ UsedSize => Accounting
    BY DEF IInv, Accounting
  <1> QED
    BY <1>1, <1>2, <1>3, Inductive, PTL DEF Spec

-----------------------------------------------------------------------------
(***************************************************************************)
(* The refinement of LruOrder.  The abstract order is the list walked from *)
(* lru_head, NodeAt, which is a recursive function.  In every state some   *)
(* sequence enumerates the entries along lru_next (Ordered); it solves the *)
(* recursion, and only one function does, so it is NodeAt.  Each step is   *)
(* simulated by giving the sequence after it from the one before it.       *)
(***************************************************************************)
\* f solves the recursion of NodeAt in a list with entries L, head h and links n.
IsWalk(L, h, n, f) ==
  f = [i \in 1..Cardinality(L) |->
         IF i = 1 THEN h ELSE IF f[i - 1] \in L THEN n[f[i - 1]] ELSE NULL]

WalkOf(L, h, n) == CHOOSE f : IsWalk(L, h, n, f)

\* s is the whole list, in order.
Ordered(s, L, h, n) ==
  /\ s \in Seq(L) /\ Len(s) = Cardinality(L)
  /\ \A i, j \in 1..Len(s) : s[i] = s[j] => i = j
  /\ \A e \in L : \E i \in 1..Len(s) : s[i] = e
  /\ Len(s) > 0 => s[1] = h
  /\ \A i \in 1..(Len(s) - 1) : n[s[i]] = s[i + 1]

\* Only a thread that was handed an entry keeps a pointer.
Pointers == \A t \in Threads : pc[t] # "held" => local[t].ptr = NULL

OrderInv == Pointers /\ \E s : Ordered(s, live, lru_head, lru_next)

\* The sequence in order is what the walk finds.
LEMMA WalkIsOrder ==
  ASSUME NEW L, NEW h, NEW n, NEW s, Ordered(s, L, h, n) PROVE WalkOf(L, h, n) = s
  <1>1. PICK m : m = Len(s)
    OBVIOUS
  <1>2. s \in Seq(L) /\ m \in Nat /\ Cardinality(L) = m /\ DOMAIN s = 1..m
    BY <1>1 DEF Ordered
  <1>3. ASSUME NEW i \in 1..m
        PROVE  s[i] = IF i = 1 THEN h ELSE IF s[i - 1] \in L THEN n[s[i - 1]] ELSE NULL
    <2>1. CASE i = 1
      BY <1>1, <1>2, <2>1 DEF Ordered
    <2>2. CASE i # 1
      <3>1. i - 1 \in 1..(m - 1) /\ (i - 1) + 1 = i
        BY <1>2, <2>2
      <3>2. s[i - 1] \in L
        BY <1>2, <3>1
      <3>3. n[s[i - 1]] = s[(i - 1) + 1]
        BY <1>1, <3>1 DEF Ordered
      <3> QED
        BY <2>2, <3>1, <3>2, <3>3
    <2> QED
      BY <2>1, <2>2
  <1>4. s = [i \in 1..m |-> s[i]]
    BY <1>2
  <1>5. IsWalk(L, h, n, s)
    BY <1>2, <1>3, <1>4 DEF IsWalk
  <1>6. PICK w : w = WalkOf(L, h, n)
    OBVIOUS
  <1>7. IsWalk(L, h, n, w)
    BY <1>5, <1>6 DEF WalkOf
  <1>8. /\ w = [i \in 1..m |-> w[i]]
        /\ \A i \in 1..m : w[i] = IF i = 1 THEN h ELSE IF w[i - 1] \in L THEN n[w[i - 1]] ELSE NULL
    BY <1>2, <1>7 DEF IsWalk
  <1> DEFINE N == {k \in Nat : k + 1 \in 1..m => w[k + 1] = s[k + 1]}
  <1>9. 0 \in N
    <2>1. ASSUME 1 \in 1..m PROVE w[1] = s[1]
      <3>1. w[1] = h /\ s[1] = h
        BY <1>3, <1>8, <2>1
      <3> QED
        BY <3>1
    <2> QED
      BY <2>1
  <1>10. ASSUME NEW k \in N PROVE k + 1 \in N
    <2>1. k \in Nat /\ (k + 1 \in 1..m => w[k + 1] = s[k + 1])
      OBVIOUS
    <2>2. ASSUME (k + 1) + 1 \in 1..m PROVE w[(k + 1) + 1] = s[(k + 1) + 1]
      <3>1. PICK i : i = (k + 1) + 1
        OBVIOUS
      <3>2. i \in 1..m /\ i # 1 /\ i - 1 = k + 1 /\ k + 1 \in 1..m
        BY <1>2, <2>1, <2>2, <3>1
      <3>3. w[i - 1] = s[i - 1]
        BY <2>1, <3>2
      <3>4. w[i] = IF w[i - 1] \in L THEN n[w[i - 1]] ELSE NULL
        BY <1>8, <3>2
      <3>5. s[i] = IF s[i - 1] \in L THEN n[s[i - 1]] ELSE NULL
        BY <1>3, <3>2
      <3> QED
        BY <3>1, <3>3, <3>4, <3>5
    <2> QED
      BY <2>1, <2>2
  <1>11. N = Nat
    <2> HIDE DEF N
    <2>1. N \in SUBSET Nat
      BY DEF N
    <2> QED
      BY <1>9, <1>10, <2>1, NatSteps
  <1>12. ASSUME NEW i \in 1..m PROVE w[i] = s[i]
    <2> HIDE DEF N
    <2>1. i - 1 \in Nat /\ (i - 1) + 1 = i
      BY <1>2
    <2>2. i - 1 \in N
      BY <1>11, <2>1
    <2>3. (i - 1) + 1 \in 1..m => w[(i - 1) + 1] = s[(i - 1) + 1]
      BY <2>2 DEF N
    <2> QED
      BY <2>1, <2>3
  <1> QED
    BY <1>4, <1>6, <1>8, <1>12

\* The abstract order before and after a step.
LEMMA OrderBefore ==
  ASSUME NEW s, Ordered(s, live, lru_head, lru_next) PROVE NodeAt = s
  <1>1. NodeAt = WalkOf(live, lru_head, lru_next)
    BY DEF NodeAt, WalkOf, IsWalk
  <1> QED
    BY <1>1, WalkIsOrder

LEMMA OrderAfter ==
  ASSUME NEW s, Ordered(s, live', lru_head', lru_next') PROVE NodeAt' = s
  <1>1. NodeAt' = WalkOf(live', lru_head', lru_next')
    BY DEF NodeAt, WalkOf, IsWalk
  <1> QED
    BY <1>1, WalkIsOrder

-----------------------------------------------------------------------------
\* An element put in front of a sequence.
LEMMA InFront ==
  ASSUME NEW S, NEW e \in S, NEW c \in Seq(S), NEW q, q = <<e>> \o c
  PROVE  /\ q \in Seq(S) /\ Len(q) = Len(c) + 1
         /\ \A i \in 1..(Len(c) + 1) : q[i] = IF i = 1 THEN e ELSE c[i - 1]
  OBVIOUS

\* A lookup that hits brings its entry to the front of the sequence.
LEMMA UseOrder ==
  ASSUME NEW L, NEW h, NEW n, NEW s, Ordered(s, L, h, n), NULL \notin L, NEW k \in 2..Len(s),
         NEW p, NEW m, p = s[k - 1], m \in [L -> L \cup {NULL}],
         \A x \in L : m[x] = IF x = s[k] THEN h ELSE IF x = p THEN n[s[k]] ELSE n[x]
  PROVE  Ordered(<<s[k]>> \o RemoveAt(s, k), L, s[k], m)
  <1>1. PICK e, q, z : e = s[k] /\ q = <<s[k]>> \o RemoveAt(s, k) /\ z = Len(s)
    OBVIOUS
  <1>2. s \in Seq(L) /\ z \in Nat /\ z = Cardinality(L) /\ k \in 2..z /\ e \in L /\ s[1] = h /\ p \in L
    BY <1>1 DEF Ordered
  <1>3. /\ q \in Seq(L) /\ Len(q) = z /\ q[1] = e
        /\ \A j \in 2..k : q[j] = s[j - 1]
        /\ \A j \in (k + 1)..z : q[j] = s[j]
    <2>5. PICK C : C = RemoveAt(s, k)
      OBVIOUS
    <2>6. /\ C \in Seq(L) /\ Len(C) = z - 1
          /\ \A j \in 1..(z - 1) : C[j] = IF j < k THEN s[j] ELSE s[j + 1]
      <3>1. k \in 1..Len(s)
        BY <1>1, <1>2
      <3>2. s \in Seq(L)
        BY <1>2
      <3>3. /\ C \in Seq(L) /\ Len(C) = Len(s) - 1
            /\ \A j \in 1..(Len(s) - 1) : C[j] = IF j < k THEN s[j] ELSE s[j + 1]
        BY <2>5, <3>1, <3>2, RemovedAt
      <3> QED
        BY <1>1, <3>3
    <2>7. /\ q \in Seq(L) /\ Len(q) = z /\ q[1] = e /\ \A j \in 2..z : q[j] = C[j - 1]
      <3>1. q = <<e>> \o C /\ (z - 1) + 1 = z
        BY <1>1, <1>2, <2>5
      <3>2. /\ q \in Seq(L) /\ Len(q) = Len(C) + 1
            /\ \A j \in 1..(Len(C) + 1) : q[j] = IF j = 1 THEN e ELSE C[j - 1]
        BY <1>2, <2>6, <3>1, InFront
      <3> QED
        BY <1>2, <2>6, <3>1, <3>2
    <2>8. ASSUME NEW j \in 2..k PROVE q[j] = s[j - 1]
      <3>1. q[j] = C[j - 1] /\ j - 1 \in 1..(z - 1) /\ j - 1 < k
        BY <1>2, <2>7
      <3> QED
        BY <2>6, <3>1
    <2>9. ASSUME NEW j \in (k + 1)..z PROVE q[j] = s[j]
      <3>1. q[j] = C[j - 1] /\ j - 1 \in 1..(z - 1) /\ ~ (j - 1 < k) /\ (j - 1) + 1 = j
        BY <1>2, <2>7
      <3>2. C[j - 1] = s[(j - 1) + 1]
        BY <2>6, <3>1
      <3> QED
        BY <3>1, <3>2
    <2> QED
      BY <2>7, <2>8, <2>9
  <1>4. /\ \A i, j \in 1..z : s[i] = s[j] => i = j
        /\ \A x \in L : \E i \in 1..z : s[i] = x
        /\ \A i \in 1..(z - 1) : n[s[i]] = s[i + 1]
    BY <1>1 DEF Ordered
  <1>41. ASSUME NEW i \in 1..z PROVE s[i] \in L
    <2>1. i \in 1..Len(s) /\ s \in Seq(L)
      BY <1>1, <1>2
    <2> QED
      BY <2>1, ElementOfSeq
  \* q permutes the positions of s.
  <1> DEFINE from(j) == IF j = 1 THEN k ELSE IF j <= k THEN j - 1 ELSE j
  <1>5. ASSUME NEW j \in 1..z PROVE from(j) \in 1..z /\ q[j] = s[from(j)]
    BY <1>1, <1>2, <1>3
  <1>6. ASSUME NEW i \in 1..z, NEW j \in 1..z, q[i] = q[j] PROVE i = j
    <2>1. from(i) = from(j)
      BY <1>4, <1>5, <1>6
    <2> QED
      BY <1>2, <2>1
  <1>7. ASSUME NEW x \in L PROVE \E j \in 1..z : q[j] = x
    <2>1. PICK i \in 1..z : s[i] = x
      BY <1>4
    <2>2. CASE i = k
      BY <1>1, <1>2, <1>3, <2>1, <2>2
    <2>3. CASE i < k
      <3>1. i + 1 \in 2..k /\ i + 1 \in 1..z /\ (i + 1) - 1 = i
        BY <1>2, <2>3
      <3>2. q[i + 1] = s[(i + 1) - 1]
        BY <1>3, <3>1
      <3> QED
        BY <2>1, <3>1, <3>2
    <2>4. CASE i > k
      BY <1>2, <1>3, <2>1, <2>4
    <2> QED
      BY <1>2, <2>2, <2>3, <2>4
  <1>8. ASSUME NEW j \in 1..(z - 1) PROVE m[q[j]] = q[j + 1]
    <2>1. CASE j = 1
      <3>1. 2 \in 2..k /\ 2 - 1 = 1 /\ j + 1 = 2
        BY <1>2, <2>1
      <3>2. q[1] = e /\ q[2] = s[2 - 1]
        BY <1>3, <3>1
      <3>3. q[j] = e /\ q[j + 1] = h
        BY <1>2, <2>1, <3>1, <3>2
      <3>4. m[e] = h
        BY <1>1, <1>2
      <3> QED
        BY <3>3, <3>4
    <2>2. CASE j # 1 /\ j < k
      <3>1. PICK i : i = j - 1
        OBVIOUS
      <3>2. i \in 1..(z - 1) /\ i \in 1..z /\ i # k /\ i # k - 1 /\ k \in 1..z /\ k - 1 \in 1..z /\ j = i + 1
        BY <1>2, <2>2, <3>1
      <3>3. q[j] = s[i] /\ q[j + 1] = s[j]
        <4>1. j \in 2..k /\ j + 1 \in 2..k /\ (j + 1) - 1 = j
          BY <1>2, <2>2
        <4>2. q[j] = s[j - 1]
          BY <1>3, <4>1
        <4>3. q[j + 1] = s[(j + 1) - 1]
          BY <1>3, <4>1
        <4> QED
          BY <3>1, <4>1, <4>2, <4>3
      <3>4. s[i] # e /\ s[i] # p /\ s[i] \in L
        BY <1>1, <1>4, <1>41, <3>2
      <3>5. m[s[i]] = n[s[i]]
        BY <1>1, <3>4
      <3>6. n[s[i]] = s[i + 1]
        BY <1>4, <3>2
      <3> QED
        BY <3>2, <3>3, <3>5, <3>6
    <2>3. CASE j = k
      <3>0. k \in 2..k /\ k + 1 \in (k + 1)..z /\ k \in 1..(z - 1) /\ k \in 1..z /\ k - 1 \in 1..z
        BY <1>2, <2>3
      <3>1. q[k] = p /\ q[k + 1] = s[k + 1] /\ k \in 1..(z - 1) /\ k \in 1..z /\ k - 1 \in 1..z
        BY <1>3, <3>0
      <3>2. p # e
        BY <1>1, <1>2, <1>4, <3>1
      <3>3. m[p] = n[e]
        BY <1>1, <1>2, <3>2
      <3>4. n[e] = s[k + 1]
        BY <1>1, <1>4, <3>1
      <3> QED
        BY <2>3, <3>1, <3>3, <3>4
    <2>4. CASE j > k
      <3>0. /\ j \in (k + 1)..z /\ j + 1 \in (k + 1)..z /\ j \in 1..z /\ j # k /\ j # k - 1
            /\ k \in 1..z /\ k - 1 \in 1..z
        BY <1>2, <2>4
      <3>1. q[j] = s[j] /\ q[j + 1] = s[j + 1]
        BY <1>3, <3>0
      <3>2. s[j] # e /\ s[j] # p /\ s[j] \in L
        BY <1>1, <1>4, <1>41, <3>0
      <3>3. m[s[j]] = n[s[j]]
        BY <1>1, <3>2
      <3>4. n[s[j]] = s[j + 1]
        BY <1>4
      <3> QED
        BY <3>1, <3>3, <3>4
    <2> QED
      BY <1>2, <2>1, <2>2, <2>3, <2>4
  <1> QED
    BY <1>1, <1>2, <1>3, <1>6, <1>7, <1>8 DEF Ordered

\* A new entry in front.
LEMMA EnterOrder ==
  ASSUME NEW L, NEW h, NEW n, NEW s, Ordered(s, L, h, n), IsFiniteSet(L), NEW e, e \notin L,
         NEW m, m[e] = h, \A x \in L : m[x] = n[x]
  PROVE  Ordered(<<e>> \o s, L \cup {e}, e, m)
  <1>1. PICK q, z, K : q = <<e>> \o s /\ z = Len(s) /\ K = L \cup {e}
    OBVIOUS
  <1>2. s \in Seq(L) /\ z \in Nat /\ z = Cardinality(L) /\ (z > 0 => s[1] = h)
    BY <1>1 DEF Ordered
  <1>3. Cardinality(K) = z + 1
    BY <1>1, <1>2, FS_AddElement
  <1>4. s \in Seq(K) /\ e \in K
    BY <1>1, <1>2
  <1>5. q \in Seq(K) /\ Len(q) = z + 1 /\ q[1] = e /\ \A j \in 2..(z + 1) : q[j] = s[j - 1]
    <2>1. /\ q \in Seq(K) /\ Len(q) = Len(s) + 1
          /\ \A j \in 1..(Len(s) + 1) : q[j] = IF j = 1 THEN e ELSE s[j - 1]
      BY <1>1, <1>4, InFront
    <2> QED
      BY <1>1, <1>2, <2>1
  <1>6. /\ \A i, j \in 1..z : s[i] = s[j] => i = j
        /\ \A x \in L : \E i \in 1..z : s[i] = x
        /\ \A i \in 1..(z - 1) : n[s[i]] = s[i + 1]
        /\ \A i \in 1..z : s[i] \in L
    BY <1>1, <1>2 DEF Ordered
  <1>7. ASSUME NEW i \in 1..(z + 1), NEW j \in 1..(z + 1), q[i] = q[j] PROVE i = j
    <2>1. ASSUME NEW x \in 2..(z + 1) PROVE x - 1 \in 1..z /\ q[x] = s[x - 1] /\ q[x] # e
      BY <1>2, <1>5, <1>6
    <2>2. CASE i = 1
      BY <1>2, <1>5, <1>7, <2>1, <2>2
    <2>3. CASE j = 1
      BY <1>2, <1>5, <1>7, <2>1, <2>3
    <2>4. CASE i # 1 /\ j # 1
      <3>1. i \in 2..(z + 1) /\ j \in 2..(z + 1)
        BY <1>2, <2>4
      <3>2. i - 1 \in 1..z /\ j - 1 \in 1..z /\ s[i - 1] = s[j - 1]
        BY <1>7, <2>1, <3>1
      <3>3. i - 1 = j - 1
        BY <1>6, <3>2
      <3> QED
        BY <3>3
    <2> QED
      BY <2>2, <2>3, <2>4
  <1>8. ASSUME NEW x \in K PROVE \E j \in 1..(z + 1) : q[j] = x
    <2>1. CASE x = e
      BY <1>2, <1>5, <2>1
    <2>2. CASE x \in L
      <3>1. PICK i \in 1..z : s[i] = x
        BY <1>6, <2>2
      <3>2. i + 1 \in 2..(z + 1) /\ (i + 1) - 1 = i /\ i + 1 \in 1..(z + 1)
        BY <1>2
      <3>3. q[i + 1] = s[(i + 1) - 1]
        BY <1>5, <3>2
      <3> QED
        BY <3>1, <3>2, <3>3
    <2> QED
      BY <1>1, <2>1, <2>2
  <1>9. ASSUME NEW j \in 1..((z + 1) - 1) PROVE m[q[j]] = q[j + 1]
    <2>1. CASE j = 1
      <3>1. q[1] = e /\ q[2] = s[1] /\ s[1] = h
        BY <1>2, <1>5, <2>1
      <3> QED
        BY <2>1, <3>1
    <2>2. CASE j # 1
      <3>1. PICK i : i = j - 1
        OBVIOUS
      <3>2. i \in 1..(z - 1) /\ i \in 1..z /\ i + 1 = j /\ j \in 2..(z + 1) /\ j + 1 \in 2..(z + 1) /\ (j + 1) - 1 = j
        BY <1>2, <2>2, <3>1
      <3>3. q[j] = s[i] /\ q[j + 1] = s[j] /\ s[i] \in L
        BY <1>5, <1>6, <3>1, <3>2
      <3>4. n[s[i]] = s[i + 1]
        BY <1>6, <3>2
      <3> QED
        BY <3>2, <3>3, <3>4
    <2> QED
      BY <2>1, <2>2
  <1> QED
    BY <1>1, <1>3, <1>5, <1>7, <1>8, <1>9 DEF Ordered

\* The last entry taken away.
LEMMA EvictOrder ==
  ASSUME NEW L, NEW h, NEW n, NEW s, Ordered(s, L, h, n), IsFiniteSet(L), Len(s) > 0,
         NEW g, Len(s) > 1 => g = h,
         NEW m, \A i \in 1..(Len(s) - 2) : m[s[i]] = n[s[i]]
  PROVE  Ordered(Front(s), L \ {s[Len(s)]}, g, m)
  <1>1. PICK q, z, e, K : q = Front(s) /\ z = Len(s) /\ e = s[z] /\ K = L \ {e}
    OBVIOUS
  <1>2. s \in Seq(L) /\ z \in Nat /\ z >= 1 /\ z = Cardinality(L) /\ s[1] = h /\ e \in L
    <2>1. s \in Seq(L) /\ z = Cardinality(L) /\ s[1] = h
      BY <1>1 DEF Ordered
    <2>2. Len(s) \in Nat
      BY <2>1, LenProperties
    <2>3. Len(s) \in 1..Len(s)
      BY <2>2
    <2>4. s[Len(s)] \in L
      BY <2>1, <2>3, ElementOfSeq
    <2> QED
      BY <1>1, <2>1, <2>2, <2>4
  <1>3. Cardinality(K) = z - 1
    <2>1. e \in L
      BY <1>2
    <2>2. Cardinality(L \ {e}) = Cardinality(L) - 1
      BY <2>1, FS_RemoveElement
    <2> QED
      BY <1>1, <1>2, <2>2
  <1>4. /\ \A i, j \in 1..z : s[i] = s[j] => i = j
        /\ \A x \in L : \E i \in 1..z : s[i] = x
        /\ \A i \in 1..(z - 1) : n[s[i]] = s[i + 1]
        /\ \A i \in 1..z : s[i] \in L
    BY <1>1, <1>2 DEF Ordered
  <1>5. q \in Seq(L) /\ Len(q) = z - 1 /\ \A i \in 1..(z - 1) : q[i] = s[i]
    <2>1. PICK w : w = z - 1
      OBVIOUS
    <2>2. q = SubSeq(s, 1, w) /\ 1 \in Int /\ w \in Int
      BY <1>1, <1>2, <2>1 DEF Front
    <2>3. \A i \in 1..w : s[i] \in L
      BY <1>2, <1>4, <2>1
    <2>4. /\ q \in Seq(L) /\ Len(q) = IF 1 <= w THEN w - 1 + 1 ELSE 0
          /\ \A i \in 1..(w - 1 + 1) : q[i] = s[1 + i - 1]
      BY <2>2, <2>3, SubSeqProperties
    <2> QED
      BY <1>2, <2>1, <2>4
  <1>6. ASSUME NEW i \in 1..(z - 1) PROVE q[i] \in K
    <2>1. i \in 1..z /\ z \in 1..z /\ i # z
      BY <1>2
    <2> QED
      BY <1>1, <1>4, <1>5, <2>1
  <1>7. q \in Seq(K)
    BY <1>2, <1>5, <1>6
  <1>8. ASSUME NEW x \in K PROVE \E i \in 1..(z - 1) : q[i] = x
    <2>1. PICK i \in 1..z : s[i] = x
      BY <1>1, <1>4
    <2>2. i # z /\ i \in 1..(z - 1)
      BY <1>1, <1>2, <2>1
    <2> QED
      BY <1>5, <2>1, <2>2
  <1>9. ASSUME NEW i \in 1..(z - 1), NEW j \in 1..(z - 1), q[i] = q[j] PROVE i = j
    <2>1. i \in 1..z /\ j \in 1..z /\ s[i] = s[j]
      BY <1>2, <1>5, <1>9
    <2> QED
      BY <1>4, <2>1
  <1>10. ASSUME NEW i \in 1..((z - 1) - 1) PROVE m[q[i]] = q[i + 1]
    <2>1. i \in 1..(z - 1) /\ i + 1 \in 1..(z - 1) /\ i \in 1..(z - 2)
      BY <1>2
    <2>2. q[i] = s[i] /\ q[i + 1] = s[i + 1] /\ n[s[i]] = s[i + 1] /\ m[s[i]] = n[s[i]]
      BY <1>1, <1>4, <1>5, <2>1
    <2> QED
      BY <2>2
  <1>11. Len(q) > 0 => q[1] = g
    BY <1>1, <1>2, <1>5
  <1> QED
    BY <1>1, <1>3, <1>5, <1>7, <1>8, <1>9, <1>10, <1>11 DEF Ordered
-----------------------------------------------------------------------------
\* A step of the cache, seen through the mapping, is a step of LruOrder or none.
Simulated == [Lru!OrderNext]_<<NodeAt, [t \in Threads |-> local[t].ptr]>>

\* Steps that touch neither the list nor, except to drop it, a pointer handed out.
Quiet(t) ==
  /\ UNCHANGED <<live, lru_head, lru_next>>
  /\ UNCHANGED <<pc, local>> \/ \E l, loc : Goto(t, l, loc) /\ loc.ptr = NULL

LEMMA QuietSimulated ==
  ASSUME TypeOK, OrderInv, NEW t \in Threads, Quiet(t)
  PROVE  OrderInv' /\ Simulated
  <1>1. PICK s : Ordered(s, live, lru_head, lru_next)
    BY DEF OrderInv
  <1>2. NodeAt = s
    BY <1>1, OrderBefore
  <1>3. Ordered(s, live', lru_head', lru_next')
    BY <1>1 DEF Quiet
  <1>4. NodeAt' = s
    BY <1>3, OrderAfter
  <1>5. CASE UNCHANGED <<pc, local>>
    <2>1. Pointers'
      BY <1>5 DEF OrderInv, Pointers
    <2> QED
      BY <1>2, <1>3, <1>4, <1>5, <2>1 DEF OrderInv, Simulated
  <1>6. CASE \E l, loc : Goto(t, l, loc) /\ loc.ptr = NULL
    <2>1. PICK l, loc : Goto(t, l, loc) /\ loc.ptr = NULL
      BY <1>6
    <2>2. \A u \in Threads : /\ local'[u] = IF u = t THEN loc ELSE local[u]
                             /\ pc'[u] = IF u = t THEN l ELSE pc[u]
      BY <2>1 DEF Goto, TypeOK
    <2>3. Pointers'
      BY <2>1, <2>2 DEF OrderInv, Pointers
    <2>4. [u \in Threads |-> local'[u].ptr] = [[u \in Threads |-> local[u].ptr] EXCEPT ![t] = NULL]
      BY <2>1, <2>2
    <2>5. Lru!OrderNext
      BY <1>2, <1>4, <2>4 DEF Lru!OrderNext, Lru!Release
    <2> QED
      BY <1>3, <2>3, <2>5 DEF OrderInv, Simulated
  <1> QED
    BY <1>5, <1>6 DEF Quiet

LEMMA ClearSimulated ==
  ASSUME OrderInv, NEW t \in Threads, Clear(t)
  PROVE  OrderInv' /\ Simulated
  <1>1. live' = {} /\ UNCHANGED <<pc, local>>
    BY DEF Clear
  <1>2. Ordered(<<>>, live', lru_head', lru_next')
    BY <1>1, FS_EmptySet DEF Ordered
  <1>3. NodeAt' = <<>>
    BY <1>2, OrderAfter
  <1>4. Lru!OrderNext
    BY <1>1, <1>3 DEF Lru!OrderNext, Lru!DropAll
  <1>5. Pointers'
    BY <1>1 DEF OrderInv, Pointers
  <1> QED
    BY <1>2, <1>4, <1>5 DEF OrderInv, Simulated

\* The links after a lookup that hits an entry behind the first.
LEMMA TouchLinks ==
  ASSUME TypeOK, LruList, NEW e \in live, MoveToFront(e), e # lru_head, live' = live
  PROVE  /\ lru_head' = e /\ lru_next' \in [live -> live \cup {NULL}]
         /\ \A x \in live : lru_next'[x] = IF x = e THEN lru_head
                                           ELSE IF x = lru_prev[e] THEN lru_next[e] ELSE lru_next[x]
  <1>1. lru_head' = e /\ lru_next' \in [live -> live \cup {NULL}]
    BY MoveToFrontKeepsList DEF MoveToFront
  <1>2. \A x \in live : lru_next'[x] = IF x = e THEN lru_head
                                       ELSE IF x = lru_prev[e] THEN lru_next[e] ELSE lru_next[x]
    BY DEF MoveToFront, Store, TypeOK
  <1> QED
    BY <1>1, <1>2

\* The entry behind position k - 1 is the one at position k.
LEMMA BeforeInOrder ==
  ASSUME TypeOK, LruList, NEW s, Ordered(s, live, lru_head, lru_next), NEW k \in 1..Len(s)
  PROVE  /\ s[k] \in live
         /\ k = 1 <=> s[k] = lru_head
         /\ k # 1 => lru_prev[s[k]] = s[k - 1]
         /\ k = Len(s) <=> s[k] = lru_tail
  <1>1. s \in Seq(live) /\ Len(s) \in Nat
    BY LenProperties DEF Ordered
  <1>2. ASSUME NEW j \in 1..Len(s) PROVE s[j] \in live /\ s[j] # NULL
    BY <1>1, ElementOfSeq DEF TypeOK
  <1>3. 1 \in 1..Len(s) /\ Len(s) > 0
    BY <1>1
  <1>4. s[1] = lru_head
    BY <1>3 DEF Ordered
  <1>5. k = 1 <=> s[k] = lru_head
    BY <1>3, <1>4 DEF Ordered
  <1>6. ASSUME k # 1 PROVE lru_prev[s[k]] = s[k - 1]
    <2>1. k - 1 \in 1..(Len(s) - 1) /\ (k - 1) + 1 = k /\ k - 1 \in 1..Len(s)
      BY <1>1, <1>6
    <2>2. lru_next[s[k - 1]] = s[(k - 1) + 1]
      BY <2>1 DEF Ordered
    <2>3. s[k - 1] \in live /\ lru_next[s[k - 1]] # NULL
      BY <1>2, <2>1, <2>2
    <2>4. lru_prev[lru_next[s[k - 1]]] = s[k - 1]
      BY <2>3 DEF LruList
    <2> QED
      BY <2>1, <2>2, <2>4
  <1>7. ASSUME NEW j \in 1..Len(s), s[j] = lru_tail PROVE j = Len(s)
    <2>1. SUFFICES ASSUME j # Len(s) PROVE FALSE
      OBVIOUS
    <2>2. j \in 1..(Len(s) - 1) /\ j + 1 \in 1..Len(s)
      BY <1>1, <2>1
    <2>3. lru_next[s[j]] = s[j + 1]
      BY <2>2 DEF Ordered
    <2>4. lru_next[s[j]] = NULL
      BY <1>2, <1>7 DEF LruList
    <2> QED
      BY <1>2, <2>2, <2>3, <2>4
  <1>8. lru_tail \in live
    <2>1. s[k] \in live
      BY <1>2
    <2> QED
      BY <2>1 DEF LruList, TypeOK
  <1>9. PICK j \in 1..Len(s) : s[j] = lru_tail
    BY <1>8 DEF Ordered
  <1>10. s[Len(s)] = lru_tail
    BY <1>7, <1>9
  <1>11. k = Len(s) <=> s[k] = lru_tail
    BY <1>7, <1>10
  <1> QED
    BY <1>2, <1>5, <1>6, <1>11

\* A lookup that hits uses the entry it returns.
LEMMA LookupSimulated ==
  ASSUME IInv, OrderInv, NEW t \in Threads, NEW a \in Addrs, LookupHit(t, a)
  PROVE  OrderInv' /\ Simulated
  <1>1. PICK s : Ordered(s, live, lru_head, lru_next)
    BY DEF OrderInv
  <1>2. NodeAt = s
    BY <1>1, OrderBefore
  <1>3. PICK e, b, c, i : /\ b = tcache_hash_buckets(tcache_hash(a), bucket_count)
                          /\ c = Chain(a) /\ i = Min(Hits(a)) /\ e = c[i]
    OBVIOUS
  <1>4. b \in DOMAIN hash_table /\ c \in Seq(Entries) /\ c = hash_table[b]
    BY <1>3, BucketRange DEF Chain, tcache_hash_buckets, tcache_hash, IInv, TypeOK, Tables
  <1>5. i \in 1..Len(c)
    <2>1. Hits(a) \in SUBSET Nat /\ Hits(a) # {}
      BY <1>3, <1>4 DEF Hits, LookupHit
    <2>2. i \in Hits(a)
      BY <1>3, <2>1, MinNat
    <2> QED
      BY <1>3, <2>2 DEF Hits
  <1>6. e \in live
    BY <1>3, <1>4, <1>5 DEF IInv, HashChains, ChainsOK
  <1>7. PICK loc : loc = [NoLocal EXCEPT !.addr = a, !.ptr = e]
    OBVIOUS
  <1>8. /\ MoveToFront(e) /\ live' = live /\ pc[t] = "idle"
        /\ pc' = [pc EXCEPT ![t] = "held"] /\ local' = [local EXCEPT ![t] = loc]
    BY <1>3, <1>7 DEF LookupHit, Goto, CanLock
  <1>9. loc.ptr = e
    BY <1>7 DEF NoLocal
  <1>10. /\ \A u \in Threads : /\ local'[u] = IF u = t THEN loc ELSE local[u]
                               /\ pc'[u] = IF u = t THEN "held" ELSE pc[u]
         /\ [u \in Threads |-> local'[u].ptr] = [[u \in Threads |-> local[u].ptr] EXCEPT ![t] = e]
    BY <1>8, <1>9 DEF IInv, TypeOK
  <1>11. Pointers' /\ local[t].ptr = NULL
    BY <1>8, <1>10 DEF OrderInv, Pointers
  <1>12. PICK k \in 1..Len(s) : s[k] = e
    BY <1>1, <1>6 DEF Ordered
  <1>13. s \in Seq(live) /\ Len(s) \in Nat /\ DOMAIN s = 1..Len(s)
    BY <1>1, LenProperties DEF Ordered
  <1>14. /\ k = 1 <=> e = lru_head
         /\ k # 1 => lru_prev[e] = s[k - 1]
    BY <1>1, <1>12, BeforeInOrder DEF IInv
  <1>15. PICK q : q = <<s[k]>> \o RemoveAt(s, k)
    OBVIOUS
  <1>16. Ordered(q, live', lru_head', lru_next')
    <2>1. CASE k = 1
      <3>1. UNCHANGED <<live, lru_head, lru_next>>
        BY <1>8, <1>14, <2>1 DEF MoveToFront, lruvars
      <3>2. q = s
        <4>1. PICK w : w = RemoveAt(s, k)
          OBVIOUS
        <4>2. /\ w \in Seq(live) /\ Len(w) = Len(s) - 1
              /\ \A j \in 1..(Len(s) - 1) : w[j] = IF j < k THEN s[j] ELSE s[j + 1]
          <5>1. s \in Seq(live)
            BY <1>13
          <5> QED
            BY <4>1, <5>1, RemovedAt, SMTT(30)
        <4>3. s[k] \in live /\ q = <<s[k]>> \o w
          BY <1>6, <1>12, <1>15, <4>1
        <4>4. /\ q \in Seq(live) /\ Len(q) = Len(w) + 1
              /\ \A j \in 1..(Len(w) + 1) : q[j] = IF j = 1 THEN s[k] ELSE w[j - 1]
          BY <4>2, <4>3, InFront
        <4>5. Len(q) = Len(s)
          BY <1>13, <4>2, <4>4
        <4>6. ASSUME NEW j \in 1..Len(s) PROVE q[j] = s[j]
          <5>1. CASE j = 1
            BY <1>13, <2>1, <4>2, <4>4, <5>1
          <5>2. CASE j # 1
            <6>1. j \in 1..(Len(w) + 1) /\ j - 1 \in 1..(Len(s) - 1) /\ (j - 1) + 1 = j /\ ~ (j - 1 < k)
              BY <1>13, <2>1, <4>2, <5>2
            <6>2. q[j] = w[j - 1]
              BY <4>4, <5>2, <6>1
            <6>3. w[j - 1] = s[(j - 1) + 1]
              BY <4>2, <6>1
            <6> QED
              BY <6>1, <6>2, <6>3
          <5> QED
            BY <5>1, <5>2
        <4> QED
          BY <1>13, <4>4, <4>5, <4>6
      <3> QED
        BY <1>1, <3>1, <3>2
    <2>2. CASE k # 1
      <3>1. k \in 2..Len(s)
        BY <1>13, <2>2
      <3>2. e # lru_head /\ lru_prev[e] = s[k - 1]
        BY <1>14, <2>2
      <3>3. /\ lru_head' = e /\ lru_next' \in [live -> live \cup {NULL}]
            /\ \A x \in live : lru_next'[x] = IF x = e THEN lru_head
                                              ELSE IF x = lru_prev[e] THEN lru_next[e] ELSE lru_next[x]
        BY <1>6, <1>8, <3>2, TouchLinks DEF IInv
      <3>4. PICK p : p = s[k - 1]
        OBVIOUS
      <3>5. \A x \in live : lru_next'[x] = IF x = s[k] THEN lru_head
                                           ELSE IF x = p THEN lru_next[s[k]] ELSE lru_next[x]
        BY <1>12, <3>2, <3>3, <3>4
      <3>6. NULL \notin live
        BY DEF IInv, TypeOK
      <3>7. PICK n : n = lru_next'
        OBVIOUS
      <3>8. n \in [live -> live \cup {NULL}]
        BY <3>3, <3>7
      <3>9. \A x \in live : n[x] = IF x = s[k] THEN lru_head
                                   ELSE IF x = p THEN lru_next[s[k]] ELSE lru_next[x]
        BY <3>5, <3>7
      <3>10. Ordered(<<s[k]>> \o RemoveAt(s, k), live, s[k], n)
        BY <1>1, <3>1, <3>4, <3>6, <3>8, <3>9, UseOrder
      <3> QED
        BY <1>8, <1>12, <1>15, <3>3, <3>7, <3>10
    <2> QED
      BY <2>1, <2>2
  <1>17. NodeAt' = q
    BY <1>16, OrderAfter
  <1>18. Lru!OrderNext
    <2>1. k \in DOMAIN NodeAt /\ NodeAt[k] = e /\ NodeAt' = <<NodeAt[k]>> \o RemoveAt(NodeAt, k)
      BY <1>2, <1>12, <1>13, <1>15, <1>17
    <2> QED
      BY <1>10, <1>11, <2>1 DEF Lru!OrderNext, Lru!Use, Lru!RemoveAt, RemoveAt
  <1> QED
    BY <1>11, <1>16, <1>18 DEF OrderInv, Simulated

\* The eviction loop takes the least recently used entry.
LEMMA EvictSimulated ==
  ASSUME IInv, OrderInv, NEW t \in Threads, Evict(t)
  PROVE  OrderInv' /\ Simulated
  <1>1. PICK s : Ordered(s, live, lru_head, lru_next)
    BY DEF OrderInv
  <1>2. NodeAt = s
    BY <1>1, OrderBefore
  <1>3. PICK e : e = lru_tail
    OBVIOUS
  <1>4. e \in live /\ IsFiniteSet(live)
    <2>1. e \in live /\ live \subseteq Entries
      BY <1>3 DEF Evict, MustEvict, IInv, TypeOK
    <2> QED
      BY <2>1, FS_Subset
  <1>5. /\ live' = live \ {e} /\ UNCHANGED <<pc, local>>
        /\ lru_next' = Free(Store(lru_next, lru_prev[e], NULL), e)
        /\ lru_head' = IF lru_prev[e] = NULL THEN NULL ELSE lru_head
    BY <1>3 DEF Evict, HeadAfterEvict
  <1>6. PICK k \in 1..Len(s) : s[k] = e
    BY <1>1, <1>4 DEF Ordered
  <1>7. s \in Seq(live) /\ Len(s) \in Nat /\ DOMAIN s = 1..Len(s)
    BY <1>1, LenProperties DEF Ordered
  <1>8. k = Len(s) /\ Len(s) > 0 /\ (k # 1 => lru_prev[e] = s[k - 1])
    <2>1. (k # 1 => lru_prev[s[k]] = s[k - 1]) /\ (k = Len(s) <=> s[k] = lru_tail)
      BY <1>1, BeforeInOrder DEF IInv
    <2> QED
      BY <1>3, <1>6, <1>7, <2>1
  <1>9. Len(s) > 1 => lru_head' = lru_head
    <2>1. ASSUME Len(s) > 1 PROVE lru_head' = lru_head
      <3>1. k - 1 \in 1..Len(s) /\ k # 1
        BY <1>7, <1>8, <2>1
      <3>2. s[k - 1] \in live
        BY <1>7, <3>1, ElementOfSeq
      <3>3. lru_prev[e] # NULL
        BY <1>8, <3>1, <3>2 DEF IInv, TypeOK
      <3> QED
        BY <1>5, <3>3
    <2> QED
      BY <2>1
  <1>10. ASSUME NEW j \in 1..(Len(s) - 2) PROVE lru_next'[s[j]] = lru_next[s[j]]
    <2>1. j \in 1..Len(s) /\ j # k /\ j # k - 1 /\ k - 1 \in 1..Len(s) /\ k # 1
      BY <1>7, <1>8
    <2>2. s[j] \in live
      BY <1>7, <2>1, ElementOfSeq
    <2>3. s[j] # e
      BY <1>1, <1>6, <2>1 DEF Ordered
    <2>4. s[j] # s[k - 1]
      BY <1>1, <2>1 DEF Ordered
    <2>5. s[j] # lru_prev[e]
      BY <1>8, <2>1, <2>4
    <2> QED
      BY <1>5, <2>2, <2>3, <2>5 DEF Free, Store, IInv, TypeOK
  <1>11. PICK g, n : g = lru_head' /\ n = lru_next'
    OBVIOUS
  <1>12. (Len(s) > 1 => g = lru_head) /\ \A j \in 1..(Len(s) - 2) : n[s[j]] = lru_next[s[j]]
    BY <1>9, <1>10, <1>11
  <1>13. Ordered(Front(s), live \ {s[Len(s)]}, g, n)
    BY <1>1, <1>4, <1>8, <1>12, EvictOrder
  <1>14. Ordered(Front(s), live', lru_head', lru_next')
    BY <1>5, <1>6, <1>8, <1>11, <1>13
  <1>15. NodeAt' = Front(s)
    BY <1>14, OrderAfter
  <1>16. NodeAt # <<>>
    BY <1>2, <1>8
  <1>17. Lru!OrderNext
    BY <1>2, <1>5, <1>15, <1>16 DEF Lru!OrderNext, Lru!EvictOldest, Lru!Front, Front
  <1>18. Pointers'
    BY <1>5 DEF OrderInv, Pointers
  <1> QED
    BY <1>14, <1>17, <1>18 DEF OrderInv, Simulated

\* A new entry is the most recently used one.
LEMMA InsertSimulated ==
  ASSUME IInv, OrderInv, NEW t \in Threads, InsertFinish(t)
  PROVE  OrderInv' /\ Simulated
  <1>1. PICK s : Ordered(s, live, lru_head, lru_next)
    BY DEF OrderInv
  <1>2. NodeAt = s
    BY <1>1, OrderBefore
  <1>3. IsFiniteSet(live)
    <2>1. live \subseteq Entries
      BY DEF IInv, TypeOK
    <2> QED
      BY <2>1, FS_Subset
  <1>4. PICK e \in Entries \ live : /\ live' = live \cup {e} /\ lru_head' = e
                                    /\ lru_next' = Alloc(lru_next, e, lru_head)
    BY DEF InsertFinish
  <1>5. /\ pc[t] = "insert" /\ pc' = [pc EXCEPT ![t] = "idle"]
        /\ local' = [local EXCEPT ![t] = NoLocal]
    BY DEF InsertFinish, Goto
  <1>6. local[t].ptr = NULL /\ NoLocal.ptr = NULL
    BY <1>5 DEF OrderInv, Pointers, NoLocal
  <1>7. /\ \A u \in Threads : /\ local'[u] = IF u = t THEN NoLocal ELSE local[u]
                              /\ pc'[u] = IF u = t THEN "idle" ELSE pc[u]
    BY <1>5 DEF IInv, TypeOK
  <1>8. Pointers'
    BY <1>6, <1>7 DEF OrderInv, Pointers
  <1>9. [u \in Threads |-> local'[u].ptr] = [u \in Threads |-> local[u].ptr]
    BY <1>6, <1>7
  <1>10. PICK n : n = lru_next'
    OBVIOUS
  <1>11. n[e] = lru_head /\ \A x \in live : n[x] = lru_next[x]
    BY <1>4, <1>10 DEF Alloc, IInv, TypeOK
  <1>12. Ordered(<<e>> \o s, live \cup {e}, e, n)
    BY <1>1, <1>3, <1>4, <1>11, EnterOrder
  <1>13. Ordered(<<e>> \o s, live', lru_head', lru_next')
    BY <1>4, <1>10, <1>12
  <1>14. NodeAt' = <<e>> \o s
    BY <1>13, OrderAfter
  <1>15. \A i \in DOMAIN NodeAt : NodeAt[i] # e
    <2>1. s \in Seq(live) /\ DOMAIN s = 1..Len(s)
      BY <1>1, LenProperties DEF Ordered
    <2>2. ASSUME NEW i \in 1..Len(s) PROVE s[i] # e
      BY <1>4, <2>1, ElementOfSeq
    <2> QED
      BY <1>2, <2>1, <2>2
  <1>16. Lru!OrderNext
    BY <1>2, <1>4, <1>9, <1>14, <1>15 DEF Lru!OrderNext, Lru!Enter, Ptr
  <1> QED
    BY <1>8, <1>13, <1>16 DEF OrderInv, Simulated

\* Every other step is quiet.
LEMMA OthersQuiet ==
  ASSUME NEW t \in Threads, Start(t) \/ Continue(t)
  PROVE  \/ Quiet(t) \/ Clear(t) \/ Evict(t) \/ InsertFinish(t)
         \/ \E a \in Addrs : LookupHit(t, a)
  <1> USE DEF lruvars
  <1>0. /\ NoLocal.ptr = NULL /\ \A n : [NoLocal EXCEPT !.size = n].ptr = NULL
        /\ \A a, n : [NoLocal EXCEPT !.addr = a, !.size = n].ptr = NULL
    BY DEF NoLocal
  <1>1. ASSUME NEW n, ResizeBegin(t, n) PROVE Quiet(t)
    <2>1. PICK loc : loc = [NoLocal EXCEPT !.size = Clamp(n)]
      OBVIOUS
    <2>2. Goto(t, "rehash", loc) /\ loc.ptr = NULL /\ UNCHANGED <<live, lru_head, lru_next>>
      BY <1>0, <1>1, <2>1 DEF ResizeBegin
    <2> QED
      BY <2>2 DEF Quiet
  <1>2. ASSUME GetCode(t) \/ MissRateDivide(t) \/ InsertFail(t) \/ RehashDone(t) \/ AdjustSkip(t)
        PROVE  Quiet(t)
    BY <1>0, <1>2 DEF GetCode, MissRateDivide, InsertFail, RehashDone, AdjustSkip, Quiet
  <1>3. ASSUME RehashEntry(t) PROVE Quiet(t)
    BY <1>3 DEF RehashEntry, Quiet
  <1>4. ASSUME NEW a, LookupMiss(t, a) \/ RegisterJump(t, a) PROVE Quiet(t)
    BY <1>4 DEF LookupMiss, RegisterJump, Quiet
  <1>5. ASSUME NEW a, NEW s, InsertBegin(t, a, s) PROVE Quiet(t)
    <2>1. PICK loc : loc = [NoLocal EXCEPT !.addr = a, !.size = s]
      OBVIOUS
    <2>2. Goto(t, "insert", loc) /\ loc.ptr = NULL /\ UNCHANGED <<live, lru_head, lru_next>>
      BY <1>0, <1>5, <2>1 DEF InsertBegin
    <2> QED
      BY <2>2 DEF Quiet
  <1>6. ASSUME NEW rate, AdjustDecide(t, rate) PROVE Quiet(t)
    <2>1. PICK loc : loc = [NoLocal EXCEPT !.size = Adjusted(rate)]
      OBVIOUS
    <2>2. Goto(t, "adjust", loc) /\ loc.ptr = NULL /\ UNCHANGED <<live, lru_head, lru_next>>
      BY <1>0, <1>6, <2>1 DEF AdjustDecide
    <2> QED
      BY <2>2 DEF Quiet
  <1>7. ASSUME MissRateCheck(t) PROVE Quiet(t)
    <2>1. PICK loc : loc = [NoLocal EXCEPT !.size = lookup_count]
      OBVIOUS
    <2>2. Goto(t, "rate", loc) /\ loc.ptr = NULL /\ UNCHANGED <<live, lru_head, lru_next>>
      BY <1>0, <1>7, <2>1 DEF MissRateCheck
    <2> QED
      BY <2>2 DEF Quiet
  <1>8. CASE Start(t)
    BY <1>1, <1>4, <1>5, <1>6, <1>7, <1>8 DEF Start, Resize
  <1>9. CASE Continue(t)
    BY <1>1, <1>2, <1>3, <1>9 DEF Continue, AdjustResize
  <1> QED
    BY <1>8, <1>9

\* The linked list, spliced pointer by pointer in lookup, in the eviction loop
\* and in insert_ex, implements LruOrder: seen through the walk from lru_head,
\* every step moves the entry a lookup returns to the front, puts a new entry
\* in front, takes the last one away, empties the order or leaves it alone.
THEOREM LruImplemented == Spec => ImplementsLru
  <1>1. Init => OrderInv /\ Lru!OrderInit
    <2> SUFFICES ASSUME Init PROVE OrderInv /\ Lru!OrderInit
      OBVIOUS
    <2>1. live = {} /\ local = [t \in Threads |-> NoLocal] /\ NoLocal.ptr = NULL
      BY DEF Init, NoLocal
    <2>2. Ordered(<<>>, live, lru_head, lru_next)
      BY <2>1, FS_EmptySet DEF Ordered
    <2>3. NodeAt = <<>>
      BY <2>2, OrderBefore
    <2>4. [t \in Threads |-> local[t].ptr] = [t \in Threads |-> NULL]
      BY <2>1
    <2>5. Pointers
      BY <2>1 DEF Pointers
    <2> QED
      BY <2>2, <2>3, <2>4, <2>5 DEF OrderInv, Lru!OrderInit
  <1>2. IInv /\ OrderInv /\ [Next]_vars => OrderInv' /\ Simulated
    <2> SUFFICES ASSUME IInv, OrderInv, [Next]_vars PROVE OrderInv' /\ Simulated
      OBVIOUS
    <2>1. ASSUME NEW t \in Threads, Quiet(t) PROVE OrderInv' /\ Simulated
      BY <2>1, QuietSimulated DEF IInv
    <2>2. CASE UNCHANGED vars
      <3>1. UNCHANGED <<live, lru_head, lru_next, pc, local>>
        BY <2>2 DEF vars, lruvars
      <3>2. OrderInv'
        BY <3>1 DEF OrderInv, Pointers, Ordered
      <3>3. NodeAt' = NodeAt
        BY <3>1 DEF NodeAt
      <3> QED
        BY <3>1, <3>2, <3>3 DEF Simulated
    <2>3. CASE Next
      <3>1. PICK t \in Threads : Start(t) \/ Continue(t)
        BY <2>3 DEF Next
      <3> QED
        BY <2>1, <3>1, OthersQuiet, ClearSimulated, EvictSimulated, InsertSimulated, LookupSimulated
    <2> QED
      BY <2>2, <2>3
  <1> QED
    BY <1>1, <1>2, Inductive, PTL DEF Spec, ImplementsLru, Lru!OrderSpec, Simulated
=============================================================================
