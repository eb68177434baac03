----------------------------- MODULE CodeCache -----------------------------
(***************************************************************************)
(* The context's code cache and arm2x86_convert (arm2x86.c).  A buffer of  *)
(* arm2x86_convert is mapped with its estimated size (two pages here) and  *)
(* described by the size of the code in it (one page).  Lookup returns a   *)
(* pointer to a slot after it has released the mutex.                      *)
(***************************************************************************)
EXTENDS Naturals, Sequences, FiniteSets

CONSTANTS
  CcThread,     \* threads
  CcAddr,       \* ARM addresses
  CcBuffer,     \* executable buffers mmap can give
  CcSlots,      \* MAX_CACHED_BLOCKS
  CcNone,       \* no buffer, no slot, no region
  MaxHit        \* bound: hit_count

ASSUME CcAssumption == CcSlots \in Nat \ {0}

VARIABLES
  ccSlots,      \* g_code_cache[0 .. g_cache_count - 1]: [addr, code, hits]
  ccRegion,     \* g_code_cache_mem: "mapped" or CcNone
  ccMapped,     \* mapped pages <<buffer, 1 .. 2>>
  ccHand,       \* buffer and address a thread has converted and not yet inserted
  ccGot,        \* slot and address of a thread's last lookup
  ccLost        \* regions that were mapped and forgotten
ccVars == <<ccSlots, ccRegion, ccMapped, ccHand, ccGot, ccLost>>

NoHand == [addr |-> CcNone, code |-> CcNone]
NoGot == [slot |-> 0, addr |-> CcNone]
EstPages == 1 .. 2
OutPages == 1 .. 1
Pages(b, n) == {<<b, p>> : p \in n}
FreeBuffers == {b \in CcBuffer : Pages(b, EstPages) \cap ccMapped = {}}

CcInit ==
  /\ ccSlots = <<>> /\ ccRegion = CcNone /\ ccMapped = {} /\ ccLost = 0
  /\ ccHand = [t \in CcThread |-> NoHand] /\ ccGot = [t \in CcThread |-> NoGot]

(* arm2x86_cache_init, from arm2x86_init of any context: a region that is  *)
(* already mapped is forgotten, the buffers of the entries too.            *)
cache_init ==
  /\ \E r \in {"mapped", CcNone} : ccRegion' = r
  /\ ccLost' = IF ccRegion = "mapped" THEN 1 ELSE ccLost
  /\ ccSlots' = <<>>
  /\ UNCHANGED <<ccMapped, ccHand, ccGot>>
cache_destroy ==
  /\ ccRegion' = CcNone /\ ccSlots' = <<>>
  /\ UNCHANGED <<ccMapped, ccHand, ccGot, ccLost>>

(* arm2x86_convert.  A failed mmap, translation or mprotect leaves nothing *)
(* mapped, so a failed call changes nothing.                               *)
convert(t, a) ==
  /\ ccHand[t] = NoHand
  /\ \E b \in FreeBuffers :
       /\ ccMapped' = ccMapped \cup Pages(b, EstPages)
       /\ ccHand' = [ccHand EXCEPT ![t] = [addr |-> a, code |-> b]]
  /\ UNCHANGED <<ccSlots, ccRegion, ccGot, ccLost>>

(* arm2x86_cache_lookup: the first entry with the address. *)
Matches(i, a) == ccSlots[i].addr = a
Hits(a) == {i \in DOMAIN ccSlots : Matches(i, a) /\ \A j \in 1 .. i - 1 : ~Matches(j, a)}
cache_lookup(t, a) ==
  /\ \E i \in Hits(a) :
       /\ ccSlots[i].hits < MaxHit
       /\ ccSlots' = [ccSlots EXCEPT ![i].hits = @ + 1]
       /\ ccGot' = [ccGot EXCEPT ![t] = [slot |-> i, addr |-> a]]
  /\ UNCHANGED <<ccRegion, ccMapped, ccHand, ccLost>>

(* The first slot with the fewest hits. *)
Least == {i \in DOMAIN ccSlots :
            /\ \A j \in DOMAIN ccSlots : ccSlots[i].hits <= ccSlots[j].hits
            /\ \A j \in 1 .. i - 1 : ccSlots[j].hits > ccSlots[i].hits}
(* arm2x86_cache_insert: a full cache gives up its least used entry, whose *)
(* code is unmapped for the size of the code.                              *)
UnmappedNew(i, code) == Pages(code, OutPages)
Unmapped(i, code) == Pages(ccSlots[i].code, OutPages)
cache_insert(t) ==
  /\ ccHand[t] # NoHand
  /\ LET e == [addr |-> ccHand[t].addr, code |-> ccHand[t].code, hits |-> 0]
     IN  \/ /\ Len(ccSlots) >= CcSlots
            /\ \E i \in Least :
                 /\ ccMapped' = ccMapped \ Unmapped(i, e.code)
                 /\ ccSlots' = [ccSlots EXCEPT ![i] = e]
         \/ /\ Len(ccSlots) < CcSlots
            /\ ccSlots' = Append(ccSlots, e) /\ UNCHANGED ccMapped
  /\ ccHand' = [ccHand EXCEPT ![t] = NoHand]
  /\ UNCHANGED <<ccRegion, ccGot, ccLost>>

CcNext ==
  \/ cache_init \/ cache_destroy
  \/ \E t \in CcThread :
       \/ cache_insert(t)
       \/ \E a \in CcAddr : convert(t, a) \/ cache_lookup(t, a)
CcSpec == CcInit /\ [][CcNext]_ccVars
-----------------------------------------------------------------------------
(* The code of every entry is mapped and belongs to one entry, whatever was *)
(* evicted, forgotten and mapped again before, by any thread.  So a slot a  *)
(* lookup returned leads to mapped code even after another thread's         *)
(* insertion took it (arm2x86_cache_insert), if not to that of the address. *)
EntriesMapped ==
  /\ \A i \in DOMAIN ccSlots : Pages(ccSlots[i].code, OutPages) \subseteq ccMapped
  /\ \A i, j \in DOMAIN ccSlots : ccSlots[i].code = ccSlots[j].code => i = j

(* The slot a lookup returned, used after the unlock, still describes the   *)
(* address it was asked for.  Not so: an insertion may take the slot        *)
(* (arm2x86.c:342).                                                         *)
GotStill ==
  \A t \in CcThread : ccGot[t] # NoGot /\ ccGot[t].slot <= Len(ccSlots)
    => ccSlots[ccGot[t].slot].addr = ccGot[t].addr

(* Every mapped page belongs to an entry or a converted buffer.  Not so:   *)
(* eviction unmaps the size of the code only, and init and destroy forget  *)
(* the entries' buffers.                                                   *)
PagesOwned ==
  \A p \in ccMapped :
    \/ \E i \in DOMAIN ccSlots : ccSlots[i].code = p[1]
    \/ \E t \in CcThread : ccHand[t].code = p[1]
=============================================================================
