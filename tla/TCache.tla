------------------------------- MODULE TCache -------------------------------
(***************************************************************************)
(* The translation cache (modules/arm2x86_tcache.c): a hash table of       *)
(* translated blocks whose entries are also threaded on a doubly linked    *)
(* LRU list, with the bytes in use accounted against a capacity.           *)
(*                                                                         *)
(* Heap objects (struct tcache_entry) are the members of Entries; the      *)
(* fields of the allocated ones are functions on `live`, so a field of a   *)
(* freed object has no value.  The LRU pointers are modelled one by one;   *)
(* the singly linked bucket chains are sequences.  An operation that holds *)
(* cache->lock throughout is one step, except that each round of the       *)
(* eviction loop of insert_ex and of the rehash loop of resize is a step   *)
(* of its own, taken while the thread owns `lock`.  What a caller does     *)
(* after the unlock (reading the entry it was given, get_miss_rate's       *)
(* second read, adjust_auto's second read) is a later step.                *)
(*                                                                         *)
(* Code bytes are not modelled: code the cache owns is freed in the same   *)
(* critical section as its entry, so it lives exactly as long.  No code    *)
(* sets TCACHE_FLAG_LOCKED, so the eviction loop never breaks on it.       *)
(***************************************************************************)
EXTENDS Integers, FiniteSets, Sequences, SequencesExt

CONSTANTS
  Threads,       \* threads sharing one arm2x86_translation_cache_t
  Entries,       \* heap objects calloc can return
  Addrs,         \* ARM addresses of blocks
  Sizes,         \* x86 sizes of translated blocks
  HashOf,        \* tcache_hash, as a function of the address
  CodeOf,        \* address of the x86 code a block is translated to
  InitSize,      \* capacity and number of buckets given to tcache_create
  InitBuckets,
  ResizeTo,      \* sizes the callers pass to arm2x86_tcache_resize
  MinSize,       \* TCACHE_MIN_SIZE, TCACHE_MAX_SIZE
  MaxSize,
  PtrSize,       \* sizeof(tcache_entry_t*)
  HotThreshold,  \* TCACHE_HOT_THRESHOLD
  MaxLookups,    \* bound on lookup_count
  NULL

ASSUME TCacheConstants ==
  /\ Entries # {} /\ IsFiniteSet(Entries) /\ NULL \notin Entries
  /\ NULL \notin Addrs /\ NULL \notin Threads
  /\ Sizes \subseteq Nat /\ ResizeTo \subseteq Nat
  /\ HashOf \in [Addrs -> Nat]
  /\ InitSize \in Nat \ {0} /\ InitBuckets \in Nat \ {0}
  /\ PtrSize \in Nat \ {0} /\ MinSize \in Nat /\ MaxSize \in Nat
  /\ PtrSize <= MinSize /\ MinSize <= MaxSize
  /\ HotThreshold \in Nat \ {0} /\ MaxLookups \in Nat

ASSUME CodeAddresses == DOMAIN CodeOf = Addrs

VARIABLES
  live,          \* the entries allocated and not freed
  arm_addr, x86_size, exec_count, lru_prev, lru_next,   \* their fields
  hash_table,    \* bucket -> chain, first entry first
  lru_head, lru_tail,
  total_size, used_size, entry_count, bucket_count,
  lookup_count, miss_count,
  g_jump_targets,\* the addresses direct jumps are registered for
  lock,          \* the thread that owns cache->lock, or NULL
  new_table,     \* resize's table under construction (lock owner's local)
  pc, local      \* where each thread is, and its local variables

fields  == <<arm_addr, x86_size, exec_count>>
lruvars == <<lru_prev, lru_next, lru_head, lru_tail>>
sizes   == <<total_size, used_size, entry_count, bucket_count>>
stats   == <<lookup_count, miss_count>>
vars == <<live, fields, lruvars, hash_table, sizes, stats, g_jump_targets, lock,
          new_table, pc, local>>

Ptr == Entries \cup {NULL}

PC == {"idle", "held", "insert", "rehash", "adjust", "rate"}

\* What a thread keeps between two steps: the address it works on, a size,
\* and the entry a lookup returned.
Locals  == [addr : Addrs \cup {NULL}, size : Nat, ptr : Ptr]
NoLocal == [addr |-> NULL, size |-> 0, ptr |-> NULL]

Tables(n) == [0..(n - 1) -> Seq(Entries)]

NoTable == [b \in {} |-> <<>>]

EmptyTable(n) == [b \in 0..(n - 1) |-> <<>>]

-----------------------------------------------------------------------------
(***************************************************************************)
(* Reading and writing through pointers.  Store is `if (p) p->f = v`.      *)
(***************************************************************************)
Store(f, p, v)  == [x \in DOMAIN f |-> IF x = p THEN v ELSE f[x]]

Alloc(f, e, v)  == [x \in DOMAIN f \cup {e} |-> IF x = e THEN v ELSE f[x]]

Free(f, e)      == [x \in DOMAIN f \ {e} |-> f[x]]

tcache_hash(a) == HashOf[a]

tcache_hash_buckets(h, n) == h % n

\* The bucket an entry hangs in when the table has n buckets (entry->hash is
\* tcache_hash of the entry's address, set when the entry is made).
Bucket(e, n) == tcache_hash_buckets(tcache_hash(arm_addr[e]), n)

new_buckets(n) == n \div PtrSize

Clamp(n) == IF n < MinSize THEN MinSize ELSE IF n > MaxSize THEN MaxSize ELSE n

-----------------------------------------------------------------------------
Init ==
  /\ live = {}
  /\ arm_addr = [e \in {} |-> NULL] /\ x86_size = [e \in {} |-> 0]
  /\ exec_count = [e \in {} |-> 0]
  /\ lru_prev = [e \in {} |-> NULL] /\ lru_next = [e \in {} |-> NULL]
  /\ lru_head = NULL /\ lru_tail = NULL
  /\ hash_table = EmptyTable(InitBuckets)
  /\ total_size = InitSize /\ used_size = 0 /\ entry_count = 0
  /\ bucket_count = InitBuckets
  /\ lookup_count = 0 /\ miss_count = 0 /\ g_jump_targets = {}
  /\ lock = NULL /\ new_table = NoTable
  /\ pc = [t \in Threads |-> "idle"] /\ local = [t \in Threads |-> NoLocal]

\* t is between two operations and cache->lock is free for a whole one.
CanLock(t) == pc[t] = "idle" /\ lock = NULL

Goto(t, l, loc) == /\ pc' = [pc EXCEPT ![t] = l]
                   /\ local' = [local EXCEPT ![t] = loc]

-----------------------------------------------------------------------------
(***************************************************************************)
(* arm2x86_tcache_lookup: scan the chain of a's bucket; a hit counts the   *)
(* use and moves the entry to the LRU head, a miss is only counted.        *)
(***************************************************************************)
Chain(a) == hash_table[tcache_hash_buckets(tcache_hash(a), bucket_count)]

\* The positions in a's chain that hold a; the scan stops at the first.
Hits(a) == {i \in 1..Len(Chain(a)) : arm_addr[Chain(a)[i]] = a}

TailAfterTouch(e) == IF lru_tail = e THEN lru_prev[e] ELSE lru_tail

NotMoved(e) == UNCHANGED lruvars

\* Unlink e and push it in front, unless it is in front already.
MoveToFront(e) ==
  IF e = lru_head
  THEN UNCHANGED lruvars
  ELSE /\ lru_next' = Store(Store(lru_next, lru_prev[e], lru_next[e]), e, lru_head)
       /\ lru_prev' = Store(Store(Store(lru_prev, lru_next[e], lru_prev[e]), e, NULL),
                            lru_head, e)
       /\ lru_tail' = TailAfterTouch(e)
       /\ lru_head' = e

\* exec_count, saturated where the HOT flag becomes sticky.
Bump(n) == IF n < HotThreshold THEN n + 1 ELSE n

LookupHit(t, a) ==
  /\ CanLock(t) /\ lookup_count < MaxLookups
  /\ Hits(a) # {}
  /\ LET e == Chain(a)[Min(Hits(a))] IN
       /\ exec_count' = Store(exec_count, e, Bump(exec_count[e]))
       /\ MoveToFront(e)
       /\ Goto(t, "held", [NoLocal EXCEPT !.addr = a, !.ptr = e])
  /\ lookup_count' = lookup_count + 1
  /\ UNCHANGED <<live, arm_addr, x86_size, hash_table, sizes, miss_count,
                 g_jump_targets, lock, new_table>>

LookupMiss(t, a) ==
  /\ CanLock(t) /\ lookup_count < MaxLookups
  /\ Hits(a) = {}
  /\ lookup_count' = lookup_count + 1
  /\ miss_count' = miss_count + 1
  /\ UNCHANGED <<live, fields, lruvars, hash_table, sizes, g_jump_targets, lock,
                 new_table, pc, local>>

\* The caller reads the entry it was given, without the lock
\* (arm2x86_tcache_get_code / get_size / is_hot).
GetCode(t) ==
  /\ pc[t] = "held"
  /\ Goto(t, "idle", NoLocal)
  /\ UNCHANGED <<live, fields, lruvars, hash_table, sizes, stats, g_jump_targets,
                 lock, new_table>>

\* The translator of block a emits a direct jump into the code it is writing
\* and registers it (tcache_register_jump_target, under a mutex of its own).
RegisterJump(t, a) ==
  /\ pc[t] = "idle"
  /\ g_jump_targets' = g_jump_targets \cup {CodeOf[a]}
  /\ UNCHANGED <<live, fields, lruvars, hash_table, sizes, stats, lock, new_table,
                 pc, local>>

-----------------------------------------------------------------------------
(***************************************************************************)
(* arm2x86_tcache_insert_ex: evict from the LRU tail until the block fits  *)
(* or nothing is left, then link a new entry, or give up when calloc does. *)
(***************************************************************************)
InsertBegin(t, a, s) ==
  /\ CanLock(t)
  /\ lock' = t
  /\ Goto(t, "insert", [NoLocal EXCEPT !.addr = a, !.size = s])
  /\ UNCHANGED <<live, fields, lruvars, hash_table, sizes, stats, g_jump_targets,
                 new_table>>

MustEvictLate(s) == used_size > total_size /\ lru_tail # NULL

MustEvict(s) == used_size + s > total_size /\ lru_tail # NULL

NotUnlinked(chain, e) == chain

\* Take e out of its chain; a chain that does not hold e stays as it is.
Unlink(chain, e) == RemoveFirst(chain, e)

HeadAfterEvict(e) == IF lru_prev[e] = NULL THEN NULL ELSE lru_head

\* The jumps left registered once those to address a are patched.
tcache_patch_evicted_block(a) == g_jump_targets \ {a}

SizeKept(e) == used_size

SizeAfterEvict(e) == used_size - x86_size[e]

Evict(t) ==
  LET e == lru_tail
      b == Bucket(e, bucket_count)
  IN /\ pc[t] = "insert" /\ MustEvict(local[t].size)
     /\ lru_next' = Free(Store(lru_next, lru_prev[e], NULL), e)
     /\ lru_prev' = Free(lru_prev, e)
     /\ lru_tail' = lru_prev[e]
     /\ lru_head' = HeadAfterEvict(e)
     /\ hash_table' = [hash_table EXCEPT ![b] = Unlink(hash_table[b], e)]
     /\ used_size' = SizeAfterEvict(e)
     /\ entry_count' = entry_count - 1
     /\ live' = live \ {e}
     /\ arm_addr' = Free(arm_addr, e) /\ x86_size' = Free(x86_size, e)
     /\ exec_count' = Free(exec_count, e)
     /\ g_jump_targets' = tcache_patch_evicted_block(arm_addr[e])
     /\ UNCHANGED <<total_size, bucket_count, stats, lock, new_table, pc, local>>

InsertFinish(t) ==
  LET a == local[t].addr
      s == local[t].size
      b == tcache_hash_buckets(tcache_hash(a), bucket_count)
  IN /\ pc[t] = "insert" /\ ~MustEvict(s)
     /\ \E e \in Entries \ live :
          /\ live' = live \cup {e}
          /\ arm_addr' = Alloc(arm_addr, e, a) /\ x86_size' = Alloc(x86_size, e, s)
          /\ exec_count' = Alloc(exec_count, e, 1)
          /\ hash_table' = [hash_table EXCEPT ![b] = <<e>> \o @]
          /\ lru_next' = Alloc(lru_next, e, lru_head)
          /\ lru_prev' = Alloc(Store(lru_prev, lru_head, e), e, NULL)
          /\ lru_head' = e
          /\ lru_tail' = IF lru_tail = NULL THEN e ELSE lru_tail
     /\ used_size' = used_size + s
     /\ entry_count' = entry_count + 1
     /\ lock' = NULL
     /\ Goto(t, "idle", NoLocal)
     /\ UNCHANGED <<total_size, bucket_count, stats, g_jump_targets, new_table>>

InsertFailKeepsLock(t) ==
  /\ pc[t] = "insert" /\ ~MustEvict(local[t].size)
  /\ Goto(t, "idle", NoLocal)
  /\ UNCHANGED <<live, fields, lruvars, hash_table, sizes, stats, g_jump_targets,
                 lock, new_table>>

\* calloc returned NULL: what was evicted stays evicted.
InsertFail(t) ==
  /\ pc[t] = "insert" /\ ~MustEvict(local[t].size)
  /\ lock' = NULL
  /\ Goto(t, "idle", NoLocal)
  /\ UNCHANGED <<live, fields, lruvars, hash_table, sizes, stats, g_jump_targets,
                 new_table>>

-----------------------------------------------------------------------------
(***************************************************************************)
(* arm2x86_tcache_clear                                                    *)
(***************************************************************************)
Clear(t) ==
  /\ CanLock(t)
  /\ live' = {}
  /\ arm_addr' = [e \in {} |-> NULL] /\ x86_size' = [e \in {} |-> 0]
  /\ exec_count' = [e \in {} |-> 0]
  /\ lru_prev' = [e \in {} |-> NULL] /\ lru_next' = [e \in {} |-> NULL]
  /\ lru_head' = NULL /\ lru_tail' = NULL
  /\ hash_table' = EmptyTable(bucket_count)
  /\ used_size' = 0 /\ entry_count' = 0
  /\ lookup_count' = 0 /\ miss_count' = 0
  /\ UNCHANGED <<total_size, bucket_count, g_jump_targets, lock, new_table, pc,
                 local>>

-----------------------------------------------------------------------------
(***************************************************************************)
(* arm2x86_tcache_resize: clamp, then move every entry into a new table,   *)
(* bucket by bucket, pushing each at the front of its new chain.  A resize *)
(* to the current size, or one whose calloc fails, changes nothing.        *)
(***************************************************************************)
ResizeBegin(t, n) ==
  /\ lock = NULL /\ Clamp(n) # total_size
  /\ lock' = t
  /\ new_table' = EmptyTable(new_buckets(Clamp(n)))
  /\ Goto(t, "rehash", [NoLocal EXCEPT !.size = Clamp(n)])
  /\ UNCHANGED <<live, fields, lruvars, hash_table, sizes, stats, g_jump_targets>>

Resize(t, n) == pc[t] = "idle" /\ ResizeBegin(t, n)

\* The buckets of the old table that still hold entries.
Remaining == {b \in 0..(bucket_count - 1) : hash_table[b] # <<>>}

RehashBucketOld(e, n) == Bucket(e, bucket_count)

RehashBucket(e, n) == Bucket(e, new_buckets(n))

RehashEntry(t) ==
  /\ pc[t] = "rehash" /\ Remaining # {}
  /\ LET b == Min(Remaining)
         e == Head(hash_table[b])
         nb == RehashBucket(e, local[t].size)
     IN /\ hash_table' = [hash_table EXCEPT ![b] = Tail(@)]
        /\ new_table' = [new_table EXCEPT ![nb] = <<e>> \o @]
  /\ UNCHANGED <<live, fields, lruvars, sizes, stats, g_jump_targets, lock, pc,
                 local>>

RehashDone(t) ==
  /\ pc[t] = "rehash" /\ Remaining = {}
  /\ hash_table' = new_table /\ new_table' = NoTable
  /\ total_size' = local[t].size
  /\ bucket_count' = new_buckets(local[t].size)
  /\ lock' = NULL
  /\ Goto(t, "idle", NoLocal)
  /\ UNCHANGED <<live, fields, lruvars, used_size, entry_count, stats,
                 g_jump_targets>>

-----------------------------------------------------------------------------
(***************************************************************************)
(* arm2x86_tcache_adjust_auto: decide under the lock, drop it, compare the *)
(* decision with the capacity read again without the lock, resize.  Of the *)
(* caller's miss rate only the side of the two thresholds matters.         *)
(***************************************************************************)
Adjusted(rate) ==
  CASE rate = "high" /\ 10 * used_size >= 9 * total_size -> (3 * total_size) \div 2
    [] rate = "low"  /\ 10 * used_size <  3 * total_size -> (3 * total_size) \div 4
    [] OTHER -> total_size

AdjustDecide(t, rate) ==
  /\ CanLock(t)
  /\ Goto(t, "adjust", [NoLocal EXCEPT !.size = Adjusted(rate)])
  /\ UNCHANGED <<live, fields, lruvars, hash_table, sizes, stats, g_jump_targets,
                 lock, new_table>>

AdjustSkip(t) ==
  /\ pc[t] = "adjust"
  /\ \/ local[t].size = total_size
     \/ lock = NULL /\ Clamp(local[t].size) = total_size
  /\ Goto(t, "idle", NoLocal)
  /\ UNCHANGED <<live, fields, lruvars, hash_table, sizes, stats, g_jump_targets,
                 lock, new_table>>

AdjustResize(t) ==
  /\ pc[t] = "adjust" /\ local[t].size # total_size
  /\ ResizeBegin(t, local[t].size)

-----------------------------------------------------------------------------
(***************************************************************************)
(* arm2x86_tcache_get_miss_rate, without the lock: read lookup_count (once *)
(* for the test and the division, as every build of the project compiles   *)
(* it, with -O2), then miss_count.                                         *)
(***************************************************************************)
MissRateCheck(t) ==
  /\ pc[t] = "idle" /\ lookup_count # 0
  /\ Goto(t, "rate", [NoLocal EXCEPT !.size = lookup_count])
  /\ UNCHANGED <<live, fields, lruvars, hash_table, sizes, stats, g_jump_targets,
                 lock, new_table>>

MissRateDivide(t) ==
  /\ pc[t] = "rate"
  /\ Goto(t, "idle", NoLocal)
  /\ UNCHANGED <<live, fields, lruvars, hash_table, sizes, stats, g_jump_targets,
                 lock, new_table>>

-----------------------------------------------------------------------------
\* The steps that finish an operation a thread has begun.
Continue(t) == \/ GetCode(t) \/ MissRateDivide(t)
               \/ Evict(t) \/ InsertFinish(t) \/ InsertFail(t)
               \/ RehashEntry(t) \/ RehashDone(t)
               \/ AdjustSkip(t) \/ AdjustResize(t)

Start(t) == \/ \E a \in Addrs : \/ LookupHit(t, a)
                                \/ LookupMiss(t, a)
                                \/ RegisterJump(t, a)
                                \/ \E s \in Sizes : InsertBegin(t, a, s)
            \/ Clear(t)
            \/ \E n \in ResizeTo : Resize(t, n)
            \/ \E rate \in {"high", "mid", "low"} : AdjustDecide(t, rate)
            \/ MissRateCheck(t)

Next == \E t \in Threads : Start(t) \/ Continue(t)

Spec == Init /\ [][Next]_vars
\* A thread that holds the lock, or a pointer, does go on: the scheduler runs
\* it and no step of Continue waits for anything but the lock.
FairSpec == Spec /\ \A t \in Threads : WF_vars(Continue(t))

-----------------------------------------------------------------------------
(***************************************************************************)
(* Properties.                                                             *)
(***************************************************************************)
\* Type invariant: entries, tables, counters and thread states stay within
\* their C types; a pointer stored in the cache never points to a freed entry.
TypeOK ==
  /\ live \subseteq Entries
  /\ arm_addr \in [live -> Addrs] /\ x86_size \in [live -> Nat]
  /\ exec_count \in [live -> 1..HotThreshold]
  /\ lru_prev \in [live -> live \cup {NULL}] /\ lru_next \in [live -> live \cup {NULL}]
  /\ lru_head \in live \cup {NULL} /\ lru_tail \in live \cup {NULL}
  /\ bucket_count \in Nat \ {0} /\ hash_table \in Tables(bucket_count)
  /\ total_size \in Nat /\ used_size \in Int /\ entry_count \in Int
  /\ lookup_count \in Nat /\ miss_count \in Nat
  /\ lock \in Threads \cup {NULL}
  /\ pc \in [Threads -> PC] /\ local \in [Threads -> Locals]
  /\ \A t \in Threads : pc[t] = "insert" => local[t].addr \in Addrs

\* Locking: exactly the thread inside insert_ex's or resize's loop owns
\* cache->lock, and only a resize has a table under construction, of the size
\* it is about to publish.
LockOwner ==
  /\ \A t \in Threads : pc[t] \in {"insert", "rehash"} <=> lock = t
  /\ \A t \in Threads : pc[t] = "rehash" =>
       /\ new_buckets(local[t].size) > 0
       /\ new_table \in Tables(new_buckets(local[t].size))
  /\ (\A t \in Threads : pc[t] # "rehash") => new_table = NoTable

\* The doubly linked list stays well formed through every splice of lookup,
\* insert_ex's eviction and its insertion: next and prev are each other's
\* inverse, only the head has no predecessor, only the tail no successor, and
\* head and tail are NULL exactly when the cache is empty.
LruList ==
  /\ lru_head = NULL <=> live = {}
  /\ lru_tail = NULL <=> live = {}
  /\ \A e \in live :
       /\ lru_prev[e] = NULL <=> e = lru_head
       /\ lru_next[e] = NULL <=> e = lru_tail
       /\ lru_prev[e] # NULL => lru_next[lru_prev[e]] = e
       /\ lru_next[e] # NULL => lru_prev[lru_next[e]] = e

\* A table whose chains hold allocated entries only, each in the chain its
\* hash selects among the table's n buckets, and none twice.
ChainsOK(table, n) ==
  \A b \in DOMAIN table : \A i \in 1..Len(table[b]) :
    /\ table[b][i] \in live
    /\ Bucket(table[b][i], n) = b
    /\ \A j \in 1..Len(table[b]) : table[b][i] = table[b][j] => i = j

InTable(table, e) == \E b \in DOMAIN table : \E i \in 1..Len(table[b]) : table[b][i] = e

\* The hash table and the LRU list hold the same entries: every allocated
\* entry hangs once in the chain a lookup of its address scans (or, while
\* resize moves the entries, in exactly one of the two tables), and no chain
\* keeps an entry that eviction freed.
HashChains ==
  /\ ChainsOK(hash_table, bucket_count)
  /\ \A t \in Threads : pc[t] = "rehash" =>
       ChainsOK(new_table, new_buckets(local[t].size))
  /\ \A e \in live : InTable(hash_table, e) <=> ~ InTable(new_table, e)

(* Between any two steps of any threads, the LRU list and the hash table   *)
(* are well formed and hold the same live entries, and the lock belongs to *)
(* the thread inside a loop.                                               *)
Structure == TypeOK /\ LockOwner /\ LruList /\ HashChains

\* entry_count is the number of cached blocks.
EntryCount == entry_count = Cardinality(live)

\* used_size is the sum of the sizes of the cached blocks.
UsedSize == used_size = SumFunctionOnSet(x86_size, live)

\* used_size is the sum of the sizes of the cached blocks, and entry_count their
\* number: what eviction subtracts is what insertion added.
Accounting == UsedSize /\ EntryCount

\* insert_ex leaves the cache within its capacity, whatever a shrinking resize
\* did before, unless the new block alone is in it (a block larger than the
\* whole cache is cached all the same).
WithinCapacity ==
  \A t \in Threads : pc[t] = "insert" /\ pc'[t] = "idle" =>
    \/ used_size' <= total_size'
    \/ live' = {} \/ \E e \in Entries : live' = {e}

\* Every return of insert_ex satisfies WithinCapacity.
CapacityAfterInsert == [][WithinCapacity]_vars

\* The entry a lookup handed out is still the allocated entry of the address
\* asked for when the caller reads its code (get_code takes no lock).
HeldEntryValid ==
  \A t \in Threads : pc[t] = "held" =>
    local[t].ptr \in live /\ arm_addr[local[t].ptr] = local[t].addr

\* The miss rate get_miss_rate returns is a rate: when it reads miss_count and
\* divides, there are at most as many misses as the lookups it read before.
MissRateAtMostOne == \A t \in Threads : pc[t] = "rate" => miss_count <= local[t].size

\* When a block is evicted, no jump into its code stays registered unpatched.
EvictedJumpsPatched ==
  [][\A t \in Threads : pc[t] = "insert" =>
       \A e \in live \ live' : CodeOf[arm_addr[e]] \notin g_jump_targets']_vars

\* The list walked from lru_head along lru_next, as the eviction loop relies
\* on it: the entries in order of use.
NodeAt[i \in 1..Cardinality(live)] ==
  IF i = 1 THEN lru_head
  ELSE IF NodeAt[i - 1] \in live THEN lru_next[NodeAt[i - 1]] ELSE NULL

Lru == INSTANCE LruOrder WITH
         Blocks <- Ptr, Clients <- Threads, None <- NULL,
         order <- NodeAt, held <- [t \in Threads |-> local[t].ptr]

\* The pointer manipulation implements an LRU order: every step of the cache is
\* a lookup that hands out a block and makes it the most recently used, an entry
\* of a new block, the eviction of the least recently used one, a clear, or
\* leaves the order alone.
ImplementsLru == Lru!OrderSpec

\* A thread that takes cache->lock gives it back: the eviction loop and the
\* rehash loop end.
LockReleased == \A t \in Threads : (lock = t) ~> (lock # t)
=============================================================================
