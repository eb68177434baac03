-------------------------------- MODULE DBT ---------------------------------
(***************************************************************************)
(* The dynamic binary translation runtime (modules/arm2x86_dbt.c): a table *)
(* of translated blocks with least-frequently-used replacement, the code   *)
(* cache their x86 code is laid out in, and the detection of guest code    *)
(* that changed since it was translated.                                   *)
(*                                                                         *)
(* g_dbt_mutex protects the table only.  Each critical section is one      *)
(* step; everything dbt_translate_block does outside it (reading the slot  *)
(* a lookup returned, reserving code memory, copying the guest code,       *)
(* translating, advancing g_dbt_cache_used) is a step of its own, and the  *)
(* read and the write of `g_dbt_cache_used += ...` are two, because two    *)
(* threads may race on it.                                                 *)
(*                                                                         *)
(* Guest code is a version number per block address, x86 code the version  *)
(* it was translated from, in code memory counted in 16-byte units (the    *)
(* rounding of the advance).  Translation writes its whole block in one    *)
(* step: finer interleavings of two writers only mix their blocks more.    *)
(***************************************************************************)
EXTENDS Integers, FiniteSets, FiniteSetsExt

CONSTANTS
  Threads,     \* threads calling into the runtime
  Pcs,         \* guest addresses of blocks
  Versions,    \* contents the guest code of a block can have
  Copies,      \* heap objects malloc can return for original_copy
  BlockSizes,  \* sizes translated blocks can have
  CacheSize,   \* DBT_CACHE_SIZE, the number of slots
  CodeSize,    \* DBT_CODE_CACHE_SIZE
  Reserve,     \* the 4096 bytes that must be free before a translation
  PcModulus,   \* 2^32: dbt_invalidate_block takes a uint32_t
  MaxHits,     \* bound on hit_count
  MaxUsed,     \* bound on the value a racing advance writes back after a flush
  NULL

\* The converters write without a limit; that a block of 64 instructions fits
\* in the reserved 4096 bytes is assumed, as the code does.
ASSUME DBTConstants ==
  /\ Pcs \subseteq Nat \ {0} /\ NULL \notin Threads /\ NULL \notin Copies
  /\ Versions # {}
  /\ CacheSize \in Nat \ {0} /\ CodeSize \in Nat /\ Reserve \in Nat
  /\ BlockSizes \subseteq 1..Reserve
  /\ PcModulus \in Nat \ {0} /\ MaxHits \in Nat /\ MaxUsed \in Nat

VARIABLES
  g_dbt_cache,       \* slot -> DBTBlockInternal
  g_dbt_count,
  g_dbt_cache_used,
  mapped,            \* g_dbt_code_cache is not NULL
  mem,               \* what each unit of code memory holds
  code,              \* the guest code now at each block address
  heap,              \* allocated copies of guest code, with their contents
  lock,              \* the thread that owns g_dbt_mutex, or NULL
  pc, local          \* where each thread is, and its local variables

table == <<g_dbt_cache, g_dbt_count>>
vars  == <<table, g_dbt_cache_used, mapped, mem, code, heap, lock, pc, local>>

Slots == 0..(CacheSize - 1)

Units == 0..(CodeSize - 1)

\* A NULL x86_entry; other entries are offsets into the code cache.
NoEntry == -1

EmptySlot == [arm_pc |-> 0, x86_entry |-> NoEntry, original_code |-> NULL, hit_count |-> 0]

NoLocal == [arm_pc |-> 0, slot |-> 0, entry |-> NoEntry, size |-> 0, copy |-> NULL,
            used |-> 0]

\* Unit i of an n-unit translation of version v of the block at p.
Cell(p, v, i, n) == [arm_pc |-> p, ver |-> v, idx |-> i, len |-> n]

\* mmap hands out zeroed memory.
Blank == [arm_pc |-> 0, ver |-> NULL, idx |-> 0, len |-> 0]

Goto(t, l, loc) == /\ pc' = [pc EXCEPT ![t] = l]
                   /\ local' = [local EXCEPT ![t] = loc]

Return(t) == Goto(t, "idle", NoLocal)

\* free() accepts NULL.
Freed(h, c) == [x \in DOMAIN h \ {c} |-> h[x]]

-----------------------------------------------------------------------------
\* dbt_init, at library load.
Init ==
  /\ g_dbt_cache = [i \in Slots |-> EmptySlot]
  /\ g_dbt_count = 0 /\ g_dbt_cache_used = 0
  /\ mapped = TRUE /\ mem = [u \in Units |-> Blank]
  /\ code \in [Pcs -> Versions]
  /\ heap = [c \in {} |-> NULL]
  /\ lock = NULL
  /\ pc = [t \in Threads |-> "idle"] /\ local = [t \in Threads |-> NoLocal]

-----------------------------------------------------------------------------
(***************************************************************************)
(* dbt_lookup, called first by dbt_translate_block.                        *)
(***************************************************************************)

\* The slots that hold a block for address p; every scan stops at the first.
Matches(p) == {i \in 0..(g_dbt_count - 1) : g_dbt_cache[i].arm_pc = p}

SmcIgnored(i) == FALSE

\* The guest code at the block's address is no longer what was translated.
dbt_check_smc(i) ==
  /\ g_dbt_cache[i].original_code # NULL /\ g_dbt_cache[i].x86_entry # NoEntry
  /\ heap[g_dbt_cache[i].original_code] # code[g_dbt_cache[i].arm_pc]

LookupMissKeepsLock(t, p) ==
  /\ pc[t] = "idle" /\ lock = NULL
  /\ Matches(p) = {}
  /\ lock' = t
  /\ Goto(t, "reserve", [NoLocal EXCEPT !.arm_pc = p])
  /\ UNCHANGED <<table, g_dbt_cache_used, mapped, mem, code, heap>>

LookupMiss(t, p) ==
  /\ pc[t] = "idle" /\ lock = NULL
  /\ Matches(p) = {}
  /\ Goto(t, "reserve", [NoLocal EXCEPT !.arm_pc = p])
  /\ UNCHANGED <<table, g_dbt_cache_used, mapped, mem, code, heap, lock>>

LookupHit(t, p) ==
  /\ pc[t] = "idle" /\ lock = NULL
  /\ Matches(p) # {}
  /\ LET i == Min(Matches(p)) IN
       /\ ~ dbt_check_smc(i)
       /\ g_dbt_cache[i].hit_count < MaxHits
       /\ g_dbt_cache' = [g_dbt_cache EXCEPT ![i].hit_count = @ + 1]
       /\ Goto(t, "hit", [NoLocal EXCEPT !.arm_pc = p, !.slot = i])
  /\ UNCHANGED <<g_dbt_count, g_dbt_cache_used, mapped, mem, code, heap, lock>>

\* The block is stale: dbt_lookup calls dbt_invalidate_block, which locks the
\* (default, not recursive) mutex the caller already owns and never returns.
LookupSmc(t, p) ==
  /\ pc[t] = "idle" /\ lock = NULL
  /\ Matches(p) # {}
  /\ dbt_check_smc(Min(Matches(p)))
  /\ lock' = t
  /\ Goto(t, "relock", [NoLocal EXCEPT !.arm_pc = p])
  /\ UNCHANGED <<table, g_dbt_cache_used, mapped, mem, code, heap>>

\* dbt_translate_block reads the entry through the slot pointer, unlocked.
HitRead(t) ==
  LET entry == g_dbt_cache[local[t].slot].x86_entry
  IN /\ pc[t] = "hit"
     /\ IF entry = NoEntry THEN Return(t)
        ELSE Goto(t, "exec", [local[t] EXCEPT !.entry = entry])
     /\ UNCHANGED <<table, g_dbt_cache_used, mapped, mem, code, heap, lock>>

-----------------------------------------------------------------------------
(***************************************************************************)
(* The rest of dbt_translate_block: translate the block and enter it.      *)
(***************************************************************************)
HasRoomLate == mapped /\ g_dbt_cache_used < CodeSize

HasRoom == mapped /\ g_dbt_cache_used + Reserve <= CodeSize

\* Reserve code memory at g_dbt_cache_used and copy the guest code.  The space
\* check and the address share one load of g_dbt_cache_used: nothing between
\* them keeps the compiler, always run with -O2, from merging the two.
CopyCode(t) ==
  /\ pc[t] = "reserve" /\ HasRoom
  /\ \E c \in Copies \ DOMAIN heap :
       /\ heap' = [x \in DOMAIN heap \cup {c} |->
                     IF x = c THEN code[local[t].arm_pc] ELSE heap[x]]
       /\ Goto(t, "convert", [local[t] EXCEPT !.entry = g_dbt_cache_used, !.copy = c])
  /\ UNCHANGED <<table, g_dbt_cache_used, mapped, mem, code, lock>>

\* No room left, or malloc returned NULL.
ReserveFail(t) ==
  /\ pc[t] = "reserve"
  /\ Return(t)
  /\ UNCHANGED <<table, g_dbt_cache_used, mapped, mem, code, heap, lock>>

\* What code memory holds once a block of n units for p is written at offset o.
Written(o, n, p) ==
  [u \in Units |-> IF u \in o..(o + n - 1) THEN Cell(p, code[p], u - o, n) ELSE mem[u]]

Convert(t) ==
  /\ pc[t] = "convert"
  /\ \E n \in BlockSizes :
       /\ mem' = Written(local[t].entry, n, local[t].arm_pc)
       /\ Goto(t, "insert", [local[t] EXCEPT !.size = n])
  /\ UNCHANGED <<table, g_dbt_cache_used, mapped, code, heap, lock>>

\* The converter found no memory for the register home.
ConvertFail(t) ==
  /\ pc[t] = "convert"
  /\ heap' = Freed(heap, local[t].copy)
  /\ Return(t)
  /\ UNCHANGED <<table, g_dbt_cache_used, mapped, mem, code, lock>>

\* The slot dbt_insert fills: the next one, or the first of those used least
\* when the table is full.
Coldest == {i \in Slots : \A j \in Slots : g_dbt_cache[i].hit_count <= g_dbt_cache[j].hit_count}

Victim == IF g_dbt_count >= CacheSize THEN Min(Coldest) ELSE g_dbt_count

\* The replaced block's copy of the guest code is freed; an unused slot's
\* original_code is not looked at.
VictimCopyFreed(h) ==
  IF g_dbt_count >= CacheSize THEN Freed(h, g_dbt_cache[Victim].original_code) ELSE h

CountAfterInsert == IF g_dbt_count >= CacheSize THEN g_dbt_count ELSE g_dbt_count + 1

dbt_insert(t) ==
  /\ pc[t] = "insert" /\ lock = NULL
  /\ heap' = VictimCopyFreed(heap)
  /\ g_dbt_cache' = [g_dbt_cache EXCEPT ![Victim] =
                       [arm_pc |-> local[t].arm_pc, x86_entry |-> local[t].entry,
                        original_code |-> local[t].copy, hit_count |-> 0]]
  /\ g_dbt_count' = CountAfterInsert
  /\ Goto(t, "advance", [local[t] EXCEPT !.copy = NULL])
  /\ UNCHANGED <<g_dbt_cache_used, mapped, mem, code, lock>>

\* g_dbt_cache_used += size, not atomic: the read, then the write.
AdvanceRead(t) ==
  /\ pc[t] = "advance"
  /\ Goto(t, "store", [local[t] EXCEPT !.used = g_dbt_cache_used])
  /\ UNCHANGED <<table, g_dbt_cache_used, mapped, mem, code, heap, lock>>

NotAdvanced(t) == local[t].used

Advanced(t) == local[t].used + local[t].size

AdvanceWrite(t) ==
  /\ pc[t] = "store"
  /\ g_dbt_cache_used' = Advanced(t)
  /\ Goto(t, "exec", [local[t] EXCEPT !.used = 0, !.size = 0])
  /\ UNCHANGED <<table, mapped, mem, code, heap, lock>>

-----------------------------------------------------------------------------
(***************************************************************************)
(* dbt_execute calls the translated block; what the guest code does in     *)
(* this model is to overwrite guest code, its own or another block's.      *)
(***************************************************************************)
GuestWrite(t, p, v) ==
  /\ pc[t] = "exec" /\ code[p] # v
  /\ code' = [code EXCEPT ![p] = v]
  /\ UNCHANGED <<table, g_dbt_cache_used, mapped, mem, heap, lock, pc, local>>

ExecuteReturn(t) ==
  /\ pc[t] = "exec"
  /\ Return(t)
  /\ UNCHANGED <<table, g_dbt_cache_used, mapped, mem, code, heap, lock>>

-----------------------------------------------------------------------------
(***************************************************************************)
(* dbt_invalidate_block, dbt_flush_cache, and the library's destructor and *)
(* a later dbt_init, which run when no thread is inside the runtime.       *)
(***************************************************************************)
\* The slots dbt_invalidate_block finds for address p, cut to 32 bits.
Invalidated(p) == Matches(p % PcModulus)

ClearEntry(slot) ==
  [slot EXCEPT !.arm_pc = 0, !.x86_entry = NoEntry, !.original_code = NULL]

dbt_invalidate_block(t, p) ==
  /\ pc[t] = "idle" /\ lock = NULL
  /\ Invalidated(p) # {}
  /\ LET i == Min(Invalidated(p)) IN
       /\ heap' = Freed(heap, g_dbt_cache[i].original_code)
       /\ g_dbt_cache' = [g_dbt_cache EXCEPT ![i] = ClearEntry(@)]
  /\ UNCHANGED <<g_dbt_count, g_dbt_cache_used, mapped, mem, code, lock, pc, local>>

dbt_flush_cache(t) ==
  LET used == 0..(g_dbt_count - 1)
  IN /\ pc[t] = "idle" /\ lock = NULL
     /\ \A u \in Threads : local[u].used <= MaxUsed
     /\ heap' = [c \in DOMAIN heap \ {g_dbt_cache[i].original_code : i \in used} |-> heap[c]]
     /\ g_dbt_cache' = [i \in Slots |-> IF i \in used THEN EmptySlot ELSE g_dbt_cache[i]]
     /\ g_dbt_count' = 0 /\ g_dbt_cache_used' = 0
     /\ UNCHANGED <<mapped, mem, code, lock, pc, local>>

Quiet == lock = NULL /\ \A t \in Threads : pc[t] = "idle"

dbt_destroy ==
  /\ Quiet /\ mapped
  /\ mapped' = FALSE /\ mem' = [u \in Units |-> Blank]
  /\ g_dbt_count' = 0
  /\ UNCHANGED <<g_dbt_cache, g_dbt_cache_used, code, heap, lock, pc, local>>

\* A second load: the copies the destroyed table still held are leaked.
dbt_init ==
  /\ Quiet /\ ~ mapped
  /\ mapped' = TRUE
  /\ g_dbt_cache_used' = 0 /\ g_dbt_count' = 0
  /\ g_dbt_cache' = [i \in Slots |-> EmptySlot]
  /\ UNCHANGED <<mem, code, heap, lock, pc, local>>

-----------------------------------------------------------------------------
\* The steps that bring a call of dbt_execute to its end.
Continue(t) == \/ HitRead(t)
               \/ CopyCode(t) \/ ReserveFail(t) \/ Convert(t) \/ ConvertFail(t)
               \/ dbt_insert(t) \/ AdvanceRead(t) \/ AdvanceWrite(t)
               \/ ExecuteReturn(t)

Call(t) == \/ \E p \in Pcs : \/ LookupMiss(t, p) \/ LookupHit(t, p) \/ LookupSmc(t, p)
                             \/ dbt_invalidate_block(t, p)
           \/ dbt_flush_cache(t)

Guest(t) == \E p \in Pcs, v \in Versions : GuestWrite(t, p, v)

Next == \/ \E t \in Threads : Call(t) \/ Continue(t) \/ Guest(t)
        \/ dbt_destroy \/ dbt_init

Spec == Init /\ [][Next]_vars

\* A thread inside dbt_execute is scheduled, and the guest code it runs comes
\* to an end; between two steps the mutex is free, unless a thread blocked on
\* itself keeps it.
FairSpec == Spec /\ \A t \in Threads : WF_vars(Continue(t))

-----------------------------------------------------------------------------
(***************************************************************************)
(* Properties.                                                             *)
(***************************************************************************)
PC == {"idle", "hit", "reserve", "convert", "insert", "advance", "store", "exec", "relock"}

\* Type invariant: slots, offsets, copies and thread states stay in their ranges.
TypeOK ==
  /\ g_dbt_cache \in [Slots -> [arm_pc : Pcs \cup {0}, x86_entry : Nat \cup {NoEntry},
                                original_code : Copies \cup {NULL}, hit_count : Nat]]
  /\ g_dbt_count \in 0..CacheSize /\ g_dbt_cache_used \in Nat
  /\ mapped \in BOOLEAN /\ code \in [Pcs -> Versions]
  /\ DOMAIN heap \subseteq Copies /\ heap = [c \in DOMAIN heap |-> heap[c]]
  /\ lock \in Threads \cup {NULL}
  /\ pc \in [Threads -> PC]
  /\ local \in [Threads -> [arm_pc : Pcs \cup {0}, slot : Slots, entry : Nat \cup {NoEntry},
                            size : Nat, copy : Copies \cup {NULL}, used : Nat]]

\* Every copy of guest code has one owner, whatever the threads do: the copy of
\* a slot below g_dbt_count is allocated and is neither another slot's nor one
\* a translating thread still has to insert or free.  So no copy is freed twice
\* and dbt_check_smc never reads a freed one.
CopyOwned ==
  /\ \A i \in 0..(g_dbt_count - 1) :
       LET c == g_dbt_cache[i].original_code IN
       c # NULL =>
         /\ c \in DOMAIN heap
         /\ \A j \in 0..(g_dbt_count - 1) : g_dbt_cache[j].original_code = c => i = j
         /\ \A t \in Threads : local[t].copy # c
  /\ \A t \in Threads :
       local[t].copy # NULL =>
         /\ local[t].copy \in DOMAIN heap
         /\ \A u \in Threads : local[u].copy = local[t].copy => u = t

\* Every block is written inside the code cache, even when racing threads lose
\* an update of g_dbt_cache_used or a flush resets it: the offset a thread writes
\* at is the one it checked, and a whole Reserve was free there.
WritesInBounds ==
  \A t \in Threads : pc[t] = "convert" =>
    local[t].entry >= 0 /\ local[t].entry + Reserve <= CodeSize

(* No copy of guest code is used after its release or released twice, and  *)
(* no block is written outside the code memory, whatever the threads       *)
(* interleave (dbt_translate_block).                                       *)
MemorySafe == TypeOK /\ CopyOwned /\ WritesInBounds

\* A whole translation of version v of the block at p starts at offset o.
Holds(o, p, v) ==
  /\ o \in Units /\ mem[o].arm_pc = p /\ mem[o].ver = v /\ mem[o].idx = 0
  /\ \A i \in 0..(mem[o].len - 1) : o + i \in Units /\ mem[o + i] = Cell(p, v, i, mem[o].len)

\* The code memory of every block in the table still holds the translation it
\* was given, of the guest code its copy records: no later block, no flush and
\* no replacement overwrites it.
BlocksIntact ==
  \A i \in 0..(g_dbt_count - 1) :
    g_dbt_cache[i].arm_pc # 0 =>
      Holds(g_dbt_cache[i].x86_entry, g_dbt_cache[i].arm_pc, heap[g_dbt_cache[i].original_code])

\* The code a thread is about to call is a translation of the block it asked
\* for, made from the guest code that is there when it is called.
StartsOwnCode ==
  [][\A t \in Threads : pc[t] # "exec" /\ pc'[t] = "exec" =>
       Holds(local[t].entry, local[t].arm_pc, code[local[t].arm_pc])']_vars

\* An address is in the table once, so the first match that lookup and
\* invalidation stop at is the only one.
NoDuplicates ==
  \A i, j \in 0..(g_dbt_count - 1) :
    g_dbt_cache[i].arm_pc # 0 /\ g_dbt_cache[i].arm_pc = g_dbt_cache[j].arm_pc => i = j

(* The slots of the DBT cache lead to whole blocks of their own, one per   *)
(* address (dbt_insert).                                                   *)
BlocksRight == BlocksIntact /\ NoDuplicates

\* A thread found the guest code of its block changed and asked, inside
\* dbt_lookup, for the mutex it owns (dbt.c:84).
SelfBlocked == \E t \in Threads : pc[t] = "relock"

\* A call of dbt_execute returns unless a stale block is met, by any thread: no
\* other step, a failing one included, leaves the mutex owned or a thread at a
\* step it cannot take.  A stale block met once stops the thread that met it
\* and, at their next insertion, all others.
ExecuteReturns ==
  \A t \in Threads : (pc[t] # "idle") ~> (pc[t] = "idle" \/ SelfBlocked)

\* What a guest that modifies its code is owed, and does not get.
ExecuteAlwaysReturns == \A t \in Threads : (pc[t] # "idle") ~> (pc[t] = "idle")
=============================================================================
