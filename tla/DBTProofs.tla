------------------------------ MODULE DBTProofs -----------------------------
(***************************************************************************)
(* Proofs about DBT, for any number of threads, slots and blocks, with     *)
(* every race the code allows.                                             *)
(***************************************************************************)
EXTENDS DBT, SetFacts, TLAPS

USE DBTConstants

-----------------------------------------------------------------------------
(***************************************************************************)
(* The inductive invariant.  Who owns a copy of guest code depends on      *)
(* where the translating thread is, so CopyOwned is strengthened with      *)
(* CopyPhase.                                                              *)
(***************************************************************************)
\* A thread has a copy of its own exactly from malloc to dbt_insert or free.
CopyPhase ==
  \A t \in Threads : (pc[t] \in {"convert", "insert"}) <=> (local[t].copy # NULL)

IInv == TypeOK /\ CopyOwned /\ CopyPhase /\ WritesInBounds

SlotType == [arm_pc : Pcs \cup {0}, x86_entry : Nat \cup {NoEntry},
             original_code : Copies \cup {NULL}, hit_count : Nat]

LocalType == [arm_pc : Pcs \cup {0}, slot : Slots, entry : Nat \cup {NoEntry},
              size : Nat, copy : Copies \cup {NULL}, used : Nat]

\* The values threads and slots start from, and return to, have the types above.
LEMMA StartTypes == EmptySlot \in SlotType /\ NoLocal \in LocalType /\ NoLocal.copy = NULL
  BY DEF EmptySlot, SlotType, NoLocal, LocalType, NoEntry, Slots

\* Init satisfies the invariant.
LEMMA InitIInv == Init => IInv
  <1> SUFFICES ASSUME Init PROVE IInv
    OBVIOUS
  <1>1. TypeOK
    BY StartTypes DEF Init, TypeOK, PC, SlotType, LocalType
  <1>2. CopyOwned /\ CopyPhase /\ WritesInBounds
    BY StartTypes DEF Init, CopyOwned, CopyPhase, WritesInBounds
  <1> QED
    BY <1>1, <1>2 DEF IInv

\* A thread that moves on without touching slots or copies, and without
\* entering or leaving the phase in which it owns one.
LEMMA QuietStep ==
  ASSUME IInv, NEW t \in Threads, NEW l \in PC, NEW loc \in LocalType,
         Goto(t, l, loc), UNCHANGED <<g_dbt_count, mapped, code, heap>>,
         g_dbt_cache' \in [Slots -> SlotType],
         \A i \in Slots : g_dbt_cache'[i].original_code = g_dbt_cache[i].original_code,
         g_dbt_cache_used' \in Nat, lock' \in Threads \cup {NULL},
         loc.copy = local[t].copy,
         l \in {"convert", "insert"} <=> pc[t] \in {"convert", "insert"},
         l = "convert" => loc.entry >= 0 /\ loc.entry + Reserve <= CodeSize
  PROVE  IInv'
  <1>1. pc' = [pc EXCEPT ![t] = l] /\ local' = [local EXCEPT ![t] = loc]
    BY DEF Goto
  <1>2. TypeOK'
    BY <1>1 DEF IInv, TypeOK, SlotType, LocalType
  <1>3. \A u \in Threads : local'[u].copy = local[u].copy
    BY <1>1 DEF IInv, TypeOK
  <1>4. CopyOwned'
    <2>1. \A i \in 0..(g_dbt_count - 1) : i \in Slots
      BY DEF IInv, TypeOK, Slots
    <2> QED
      BY <1>3, <2>1 DEF IInv, CopyOwned
  <1>5. CopyPhase' /\ WritesInBounds'
    BY <1>1 DEF IInv, CopyPhase, WritesInBounds, TypeOK
  <1> QED
    BY <1>2, <1>4, <1>5 DEF IInv

\* The lookups that change no slot, and the steps of dbt_translate_block and
\* dbt_execute between the copy's phases.
LEMMA QuietSteps ==
  ASSUME IInv, NEW t \in Threads,
         \/ \E p \in Pcs : LookupMiss(t, p) \/ LookupSmc(t, p)
         \/ HitRead(t) \/ ReserveFail(t) \/ AdvanceRead(t) \/ AdvanceWrite(t)
         \/ ExecuteReturn(t) \/ Convert(t)
  PROVE  IInv'
  <1> USE DEF table
  <1>0. /\ local[t] \in LocalType /\ g_dbt_cache \in [Slots -> SlotType]
        /\ g_dbt_cache_used \in Nat /\ lock \in Threads \cup {NULL}
        /\ (pc[t] \in {"convert", "insert"}) <=> (local[t].copy # NULL)
    BY DEF IInv, TypeOK, LocalType, SlotType, CopyPhase
  <1>1. ASSUME NEW p \in Pcs, LookupMiss(t, p) \/ LookupSmc(t, p) PROVE IInv'
    <2> DEFINE loc == [NoLocal EXCEPT !.arm_pc = p]
    <2>1. loc \in LocalType /\ loc.copy = NULL
      BY DEF NoLocal, LocalType, NoEntry, Slots
    <2>2. PICK l \in {"reserve", "relock"} : Goto(t, l, loc)
      BY <1>1 DEF LookupMiss, LookupSmc
    <2>3. /\ pc[t] = "idle" /\ lock' \in Threads \cup {NULL}
          /\ UNCHANGED <<g_dbt_cache, g_dbt_count, g_dbt_cache_used, mapped, code, heap>>
      BY <1>0, <1>1 DEF LookupMiss, LookupSmc
    <2> HIDE DEF loc
    <2> QED
      BY <1>0, <2>1, <2>2, <2>3, QuietStep DEF PC
  <1>2. CASE HitRead(t)
    <2> DEFINE entry == g_dbt_cache[local[t].slot].x86_entry
               loc == [local[t] EXCEPT !.entry = entry]
    <2>1. local[t].slot \in Slots /\ entry \in Nat \cup {NoEntry}
      BY <1>0 DEF LocalType, SlotType
    <2>2. loc \in LocalType /\ loc.copy = local[t].copy
      BY <1>0, <2>1 DEF LocalType
    <2>3. /\ pc[t] = "hit"
          /\ (Goto(t, "idle", NoLocal) \/ Goto(t, "exec", loc))
          /\ UNCHANGED <<g_dbt_cache, g_dbt_count, g_dbt_cache_used, mapped, code, heap, lock>>
      BY <1>2 DEF HitRead, Return
    <2> HIDE DEF loc
    <2>4. CASE Goto(t, "idle", NoLocal)
      BY <1>0, <2>3, <2>4, StartTypes, QuietStep DEF PC
    <2>5. CASE Goto(t, "exec", loc)
      BY <1>0, <2>2, <2>3, <2>5, QuietStep DEF PC
    <2> QED
      BY <2>3, <2>4, <2>5
  <1>3. CASE ReserveFail(t) \/ ExecuteReturn(t)
    <2>1. /\ pc[t] \in {"reserve", "exec"} /\ Goto(t, "idle", NoLocal)
          /\ UNCHANGED <<g_dbt_cache, g_dbt_count, g_dbt_cache_used, mapped, code, heap, lock>>
      BY <1>3 DEF ReserveFail, ExecuteReturn, Return
    <2> QED
      BY <1>0, <2>1, StartTypes, QuietStep DEF PC
  <1>4. CASE AdvanceRead(t)
    <2> DEFINE loc == [local[t] EXCEPT !.used = g_dbt_cache_used]
    <2>1. loc \in LocalType /\ loc.copy = local[t].copy
      BY <1>0 DEF LocalType
    <2>2. /\ pc[t] = "advance" /\ Goto(t, "store", loc)
          /\ UNCHANGED <<g_dbt_cache, g_dbt_count, g_dbt_cache_used, mapped, code, heap, lock>>
      BY <1>4 DEF AdvanceRead
    <2> HIDE DEF loc
    <2> QED
      BY <1>0, <2>1, <2>2, QuietStep DEF PC
  <1>5. CASE AdvanceWrite(t)
    <2> DEFINE loc == [local[t] EXCEPT !.used = 0, !.size = 0]
    <2>0. local[t].used \in Nat /\ local[t].size \in Nat
      BY <1>0 DEF LocalType
    <2>1. loc \in LocalType /\ loc.copy = local[t].copy
      BY <1>0 DEF LocalType
    <2>11. Advanced(t) \in Nat
      BY <2>0 DEF Advanced
    <2>2. /\ pc[t] = "store" /\ Goto(t, "exec", loc) /\ g_dbt_cache_used' = Advanced(t)
          /\ UNCHANGED <<g_dbt_cache, g_dbt_count, mapped, code, heap, lock>>
      BY <1>5 DEF AdvanceWrite
    <2> HIDE DEF loc
    <2> QED
      BY <1>0, <2>1, <2>11, <2>2, QuietStep DEF PC
  <1>6. CASE Convert(t)
    <2>1. PICK n \in BlockSizes : Goto(t, "insert", [local[t] EXCEPT !.size = n])
      BY <1>6 DEF Convert
    <2> DEFINE loc == [local[t] EXCEPT !.size = n]
    <2>2. loc \in LocalType /\ loc.copy = local[t].copy
      BY <1>0 DEF LocalType
    <2>3. /\ pc[t] = "convert" /\ Goto(t, "insert", loc)
          /\ UNCHANGED <<g_dbt_cache, g_dbt_count, g_dbt_cache_used, mapped, code, heap, lock>>
      BY <1>6, <2>1 DEF Convert
    <2> HIDE DEF loc
    <2> QED
      BY <1>0, <2>2, <2>3, QuietStep DEF PC
  <1> QED
    BY <1>1, <1>2, <1>3, <1>4, <1>5, <1>6

\* The first match of a scan is a slot below g_dbt_count.
LEMMA FirstMatch ==
  ASSUME IInv, NEW p \in Nat, Matches(p) # {}
  PROVE  /\ Min(Matches(p)) \in 0..(g_dbt_count - 1) /\ Min(Matches(p)) \in Slots
         /\ g_dbt_cache[Min(Matches(p))].arm_pc = p
  <1>1. Matches(p) \in SUBSET Nat
    BY DEF Matches
  <1>2. Min(Matches(p)) \in Matches(p)
    BY <1>1, MinNat
  <1> QED
    BY <1>2 DEF Matches, IInv, TypeOK, Slots

\* A lookup that hits counts the use in the slot.
LEMMA LookupHitStep ==
  ASSUME IInv, NEW t \in Threads, NEW p \in Pcs, LookupHit(t, p)
  PROVE  IInv'
  <1> DEFINE i == Min(Matches(p))
             loc == [NoLocal EXCEPT !.arm_pc = p, !.slot = i]
  <1>1. i \in Slots
    BY FirstMatch DEF LookupHit
  <1>2. loc \in LocalType /\ loc.copy = NULL
    BY <1>1 DEF NoLocal, LocalType, NoEntry
  <1>3. /\ pc[t] = "idle" /\ Goto(t, "hit", loc)
        /\ g_dbt_cache' = [g_dbt_cache EXCEPT ![i].hit_count = g_dbt_cache[i].hit_count + 1]
        /\ UNCHANGED <<g_dbt_count, g_dbt_cache_used, mapped, code, heap, lock>>
    BY DEF LookupHit
  <1> HIDE DEF loc, i
  <1>4. /\ g_dbt_cache \in [Slots -> SlotType] /\ local[t].copy = NULL
        /\ g_dbt_cache_used \in Nat /\ lock \in Threads \cup {NULL}
    BY <1>3 DEF IInv, TypeOK, SlotType, CopyPhase
  <1>5. /\ g_dbt_cache' \in [Slots -> SlotType]
        /\ \A j \in Slots : g_dbt_cache'[j].original_code = g_dbt_cache[j].original_code
    BY <1>1, <1>3, <1>4 DEF SlotType
  <1> QED
    BY <1>2, <1>3, <1>4, <1>5, QuietStep DEF PC

\* malloc returns a copy nobody owns.
LEMMA CopyCodeStep ==
  ASSUME IInv, NEW t \in Threads, CopyCode(t)
  PROVE  IInv'
  <1> USE DEF table
  <1>1. PICK c \in Copies \ DOMAIN heap :
          /\ heap' = [x \in DOMAIN heap \cup {c} |->
                        IF x = c THEN code[local[t].arm_pc] ELSE heap[x]]
          /\ Goto(t, "convert", [local[t] EXCEPT !.entry = g_dbt_cache_used, !.copy = c])
    BY DEF CopyCode
  <1> DEFINE loc == [local[t] EXCEPT !.entry = g_dbt_cache_used, !.copy = c]
  <1>2. /\ pc[t] = "reserve" /\ HasRoom
        /\ UNCHANGED <<g_dbt_cache, g_dbt_count, g_dbt_cache_used, mapped, code, lock>>
    BY DEF CopyCode
  <1>3. local[t] \in LocalType /\ g_dbt_cache_used \in Nat
    BY DEF IInv, TypeOK, LocalType
  <1>4. loc \in LocalType /\ loc.copy = c /\ loc.entry = g_dbt_cache_used
    BY <1>3 DEF LocalType
  <1>5. pc' = [pc EXCEPT ![t] = "convert"] /\ local' = [local EXCEPT ![t] = loc]
    BY <1>1 DEF Goto
  <1> HIDE DEF loc
  <1>6. DOMAIN heap' = DOMAIN heap \cup {c} /\ heap' = [x \in DOMAIN heap' |-> heap'[x]]
    BY <1>1
  <1>7. TypeOK'
    BY <1>2, <1>4, <1>5, <1>6 DEF IInv, TypeOK, PC, LocalType
  <1>8. \A u \in Threads : local'[u].copy = IF u = t THEN c ELSE local[u].copy
    BY <1>4, <1>5 DEF IInv, TypeOK
  <1>9. c # NULL /\ c \notin DOMAIN heap
    OBVIOUS
  <1>10. CopyOwned'
    <2>1. \A i \in 0..(g_dbt_count - 1) : g_dbt_cache[i].original_code # c
      BY <1>9 DEF IInv, CopyOwned
    <2>2. \A u \in Threads : local[u].copy # c
      BY <1>9 DEF IInv, CopyOwned
    <2> QED
      BY <1>2, <1>6, <1>8, <1>9, <2>1, <2>2 DEF IInv, CopyOwned
  <1>11. CopyPhase'
    BY <1>5, <1>8, <1>9 DEF IInv, CopyPhase, TypeOK
  <1>12. WritesInBounds'
    BY <1>2, <1>3, <1>4, <1>5 DEF IInv, WritesInBounds, HasRoom, TypeOK
  <1> QED
    BY <1>7, <1>10, <1>11, <1>12 DEF IInv

\* A failed translation frees the copy the thread owns and forgets it.
LEMMA ConvertFailStep ==
  ASSUME IInv, NEW t \in Threads, ConvertFail(t)
  PROVE  IInv'
  <1> USE DEF table
  <1> DEFINE c == local[t].copy
  <1>1. /\ pc[t] = "convert" /\ heap' = Freed(heap, c)
        /\ pc' = [pc EXCEPT ![t] = "idle"] /\ local' = [local EXCEPT ![t] = NoLocal]
        /\ UNCHANGED <<g_dbt_cache, g_dbt_count, g_dbt_cache_used, mapped, code, lock>>
    BY DEF ConvertFail, Return, Goto
  <1>2. c # NULL
    BY <1>1 DEF IInv, CopyPhase
  <1>3. DOMAIN heap' = DOMAIN heap \ {c} /\ heap' = [x \in DOMAIN heap' |-> heap'[x]]
    BY <1>1 DEF Freed
  <1>4. TypeOK'
    BY <1>1, <1>3, StartTypes DEF IInv, TypeOK, PC, LocalType
  <1>5. \A u \in Threads : local'[u].copy = IF u = t THEN NULL ELSE local[u].copy
    BY <1>1, StartTypes DEF IInv, TypeOK
  <1>6. CopyOwned'
    BY <1>1, <1>2, <1>3, <1>5 DEF IInv, CopyOwned
  <1>7. CopyPhase' /\ WritesInBounds'
    BY <1>1, <1>5 DEF IInv, CopyPhase, WritesInBounds, TypeOK
  <1> QED
    BY <1>4, <1>6, <1>7 DEF IInv

\* Some slot has been hit least, so dbt_insert has a slot to fill.
LEMMA VictimSlot ==
  ASSUME IInv
  PROVE  Victim \in Slots /\ (g_dbt_count < CacheSize => Victim = g_dbt_count)
  <1>1. CASE g_dbt_count >= CacheSize
    <2> DEFINE H == {g_dbt_cache[i].hit_count : i \in Slots}
    <2>0. 0 \in Slots /\ \A i \in Slots : g_dbt_cache[i].hit_count \in Nat
      BY DEF IInv, TypeOK, Slots
    <2>1. H \in SUBSET Nat /\ H # {}
      BY <2>0
    <2>2. Min(H) \in H /\ \A y \in H : Min(H) <= y
      BY <2>1, MinNat
    <2>21. PICK i \in Slots : Min(H) = g_dbt_cache[i].hit_count
      BY <2>2
    <2>22. \A j \in Slots : g_dbt_cache[j].hit_count \in H
      OBVIOUS
    <2> HIDE DEF H
    <2>23. \A j \in Slots : g_dbt_cache[i].hit_count <= g_dbt_cache[j].hit_count
      BY <2>2, <2>21, <2>22
    <2>3. Coldest # {}
      BY <2>23 DEF Coldest
    <2>4. Coldest \in SUBSET Nat
      BY DEF Coldest, Slots
    <2>5. Min(Coldest) \in Coldest
      BY <2>3, <2>4, MinNat
    <2> QED
      BY <1>1, <2>5 DEF Victim, Coldest, IInv, TypeOK
  <1>2. CASE ~ (g_dbt_count >= CacheSize)
    BY <1>2 DEF Victim, IInv, TypeOK, Slots
  <1> QED
    BY <1>1, <1>2

\* dbt_insert moves the thread's copy into the slot and frees the one it replaces.
LEMMA InsertStep ==
  ASSUME IInv, NEW t \in Threads, dbt_insert(t)
  PROVE  IInv'
  <1> DEFINE c == local[t].copy
             v == Victim
             o == g_dbt_cache[v].original_code
             full == g_dbt_count >= CacheSize
             new == [arm_pc |-> local[t].arm_pc, x86_entry |-> local[t].entry,
                     original_code |-> c, hit_count |-> 0]
             loc == [local[t] EXCEPT !.copy = NULL]
  <1>1. /\ pc[t] = "insert" /\ heap' = (IF full THEN Freed(heap, o) ELSE heap)
        /\ g_dbt_cache' = [g_dbt_cache EXCEPT ![v] = new]
        /\ g_dbt_count' = (IF full THEN g_dbt_count ELSE g_dbt_count + 1)
        /\ pc' = [pc EXCEPT ![t] = "advance"] /\ local' = [local EXCEPT ![t] = loc]
        /\ UNCHANGED <<g_dbt_cache_used, mapped, mem, code, lock>>
    BY DEF dbt_insert, Goto, VictimCopyFreed, CountAfterInsert
  <1>2. v \in Slots /\ (~ full => v = g_dbt_count)
    BY VictimSlot DEF IInv, TypeOK
  <1>3. local[t] \in LocalType /\ c # NULL /\ c \in Copies /\ c \in DOMAIN heap
    BY <1>1 DEF IInv, TypeOK, LocalType, CopyPhase, CopyOwned
  <1>4. loc \in LocalType /\ loc.copy = NULL
    BY <1>3 DEF LocalType
  <1>5. new \in SlotType /\ new.original_code = c
    BY <1>3 DEF LocalType, SlotType
  <1>6. g_dbt_count \in 0..CacheSize /\ g_dbt_count' \in 0..CacheSize
    BY <1>1 DEF IInv, TypeOK
  <1> HIDE DEF c, v, o, new, loc
  <1>7. \A i \in Slots : g_dbt_cache'[i] = IF i = v THEN new ELSE g_dbt_cache[i]
    BY <1>1 DEF IInv, TypeOK
  <1>8. \A u \in Threads : local'[u].copy = IF u = t THEN NULL ELSE local[u].copy
    BY <1>1, <1>4 DEF IInv, TypeOK
  <1>9. \A i \in 0..(g_dbt_count' - 1) : i \in Slots /\ (i # v => i \in 0..(g_dbt_count - 1))
    BY <1>1, <1>2, <1>6 DEF Slots
  <1>10. full => v \in 0..(g_dbt_count - 1)
    BY <1>2, <1>6 DEF Slots
  <1>11. /\ heap' = [x \in DOMAIN heap' |-> heap'[x]] /\ DOMAIN heap' \subseteq DOMAIN heap
         /\ \A x \in DOMAIN heap : x \notin DOMAIN heap' => full /\ x = o
    BY <1>1 DEF Freed, IInv, TypeOK
  <1>12. TypeOK'
    <2>1. g_dbt_cache' \in [Slots -> SlotType]
      BY <1>1, <1>5 DEF IInv, TypeOK, SlotType
    <2> QED
      BY <1>1, <1>4, <1>6, <1>11, <2>1 DEF IInv, TypeOK, PC, LocalType, SlotType
  <1>13. ASSUME full, o # NULL
         PROVE  /\ o # c /\ \A u \in Threads : local[u].copy # o
                /\ \A i \in 0..(g_dbt_count - 1) : g_dbt_cache[i].original_code = o => i = v
    BY <1>10, <1>13 DEF IInv, CopyOwned, o, c
  <1>14. \A i \in 0..(g_dbt_count - 1) : g_dbt_cache[i].original_code # c
    BY <1>3 DEF IInv, CopyOwned, c
  <1>15. \A u \in Threads : u # t => local[u].copy # c
    BY <1>3 DEF IInv, CopyOwned, c
  <1>16. c \in DOMAIN heap'
    BY <1>3, <1>10, <1>11, <1>14 DEF o
  <1>17. ASSUME NEW i \in 0..(g_dbt_count' - 1), g_dbt_cache'[i].original_code # NULL
         PROVE  /\ g_dbt_cache'[i].original_code \in DOMAIN heap'
                /\ \A j \in 0..(g_dbt_count' - 1) :
                     g_dbt_cache'[j].original_code = g_dbt_cache'[i].original_code => i = j
                /\ \A u \in Threads : local'[u].copy # g_dbt_cache'[i].original_code
    <2>1. CASE i = v
      BY <1>3, <1>5, <1>7, <1>8, <1>9, <1>14, <1>15, <1>16, <2>1
    <2>2. CASE i # v
      <3> DEFINE x == g_dbt_cache[i].original_code
      <3>1. i \in 0..(g_dbt_count - 1) /\ g_dbt_cache'[i].original_code = x /\ x # NULL
        BY <1>7, <1>9, <1>17, <2>2
      <3>2. /\ x \in DOMAIN heap /\ x # c
            /\ \A j \in 0..(g_dbt_count - 1) : g_dbt_cache[j].original_code = x => i = j
            /\ \A u \in Threads : local[u].copy # x
        BY <1>14, <3>1 DEF IInv, CopyOwned
      <3>3. full => x # o
        BY <1>10, <2>2, <3>2 DEF o
      <3> HIDE DEF x
      <3>4. x \in DOMAIN heap'
        BY <1>11, <3>2, <3>3
      <3>5. \A j \in 0..(g_dbt_count' - 1) : g_dbt_cache'[j].original_code = x => i = j
        BY <1>5, <1>7, <1>9, <3>2
      <3>6. \A u \in Threads : local'[u].copy # x
        BY <1>8, <3>1, <3>2
      <3> QED
        BY <3>1, <3>4, <3>5, <3>6
    <2> QED
      BY <2>1, <2>2
  <1>18. ASSUME NEW u \in Threads, local'[u].copy # NULL
         PROVE  /\ local'[u].copy \in DOMAIN heap'
                /\ \A w \in Threads : local'[w].copy = local'[u].copy => w = u
    <2>1. u # t /\ local'[u].copy = local[u].copy
      BY <1>8, <1>18
    <2>2. local[u].copy \in DOMAIN heap /\ \A w \in Threads : local[w].copy = local[u].copy => w = u
      BY <1>18, <2>1 DEF IInv, CopyOwned
    <2>3. full => local[u].copy # o
      BY <1>13, <1>18, <2>1
    <2> QED
      BY <1>8, <1>11, <1>18, <2>1, <2>2, <2>3
  <1>19. CopyOwned'
    BY <1>17, <1>18 DEF CopyOwned
  <1>20. CopyPhase' /\ WritesInBounds'
    BY <1>1, <1>8 DEF IInv, CopyPhase, WritesInBounds, TypeOK
  <1> QED
    BY <1>12, <1>19, <1>20 DEF IInv

\* Invalidation frees the copy of the slot it clears.
LEMMA InvalidateStep ==
  ASSUME IInv, NEW t \in Threads, NEW p \in Pcs, dbt_invalidate_block(t, p)
  PROVE  IInv'
  <1> DEFINE i == Min(Invalidated(p))
             o == g_dbt_cache[i].original_code
  <1>1. /\ heap' = Freed(heap, o)
        /\ g_dbt_cache' = [g_dbt_cache EXCEPT ![i] = ClearEntry(g_dbt_cache[i])]
        /\ UNCHANGED <<g_dbt_count, g_dbt_cache_used, mapped, mem, code, lock, pc, local>>
    BY DEF dbt_invalidate_block
  <1>2. i \in 0..(g_dbt_count - 1) /\ i \in Slots
    <2>1. p % PcModulus \in Nat
      OBVIOUS
    <2> QED
      BY <2>1, FirstMatch DEF dbt_invalidate_block, Invalidated
  <1> HIDE DEF i, o
  <1>3. g_dbt_cache[i] \in SlotType
    BY <1>2 DEF IInv, TypeOK, SlotType
  <1>4. ClearEntry(g_dbt_cache[i]) \in SlotType /\ ClearEntry(g_dbt_cache[i]).original_code = NULL
    BY <1>3 DEF ClearEntry, SlotType
  <1>5. /\ g_dbt_cache' \in [Slots -> SlotType]
        /\ \A j \in Slots : g_dbt_cache'[j].original_code =
                            IF j = i THEN NULL ELSE g_dbt_cache[j].original_code
    BY <1>1, <1>2, <1>4 DEF IInv, TypeOK, SlotType
  <1>6. DOMAIN heap' = DOMAIN heap \ {o} /\ heap' = [x \in DOMAIN heap' |-> heap'[x]]
    BY <1>1 DEF Freed
  <1>7. TypeOK'
    BY <1>1, <1>5, <1>6 DEF IInv, TypeOK, SlotType
  <1>8. \A j \in 0..(g_dbt_count - 1) : j \in Slots
    BY DEF IInv, TypeOK, Slots
  <1>9. CopyOwned'
    BY <1>1, <1>2, <1>5, <1>6, <1>8 DEF IInv, CopyOwned, o
  <1>10. CopyPhase' /\ WritesInBounds'
    BY <1>1 DEF IInv, CopyPhase, WritesInBounds
  <1> QED
    BY <1>7, <1>9, <1>10 DEF IInv

\* A flush frees the copies of all slots below g_dbt_count, and of no others.
LEMMA FlushStep ==
  ASSUME IInv, NEW t \in Threads, dbt_flush_cache(t)
  PROVE  IInv'
  <1> DEFINE used == 0..(g_dbt_count - 1)
             F == {g_dbt_cache[i].original_code : i \in used}
  <1>1. /\ heap' = [c \in DOMAIN heap \ F |-> heap[c]]
        /\ g_dbt_cache' = [i \in Slots |-> IF i \in used THEN EmptySlot ELSE g_dbt_cache[i]]
        /\ g_dbt_count' = 0 /\ g_dbt_cache_used' = 0
        /\ UNCHANGED <<mapped, mem, code, lock, pc, local>>
    BY DEF dbt_flush_cache
  <1>2. \A u \in Threads : local[u].copy # NULL => local[u].copy \notin F
    BY DEF IInv, CopyOwned
  <1>3. g_dbt_cache' \in [Slots -> SlotType]
    BY <1>1, StartTypes DEF IInv, TypeOK, SlotType
  <1> HIDE DEF F, used
  <1>4. DOMAIN heap' = DOMAIN heap \ F /\ heap' = [x \in DOMAIN heap' |-> heap'[x]]
    BY <1>1
  <1>5. TypeOK'
    BY <1>1, <1>3, <1>4 DEF IInv, TypeOK, SlotType
  <1>6. CopyOwned'
    BY <1>1, <1>2, <1>4 DEF IInv, CopyOwned
  <1>7. CopyPhase' /\ WritesInBounds'
    BY <1>1 DEF IInv, CopyPhase, WritesInBounds
  <1> QED
    BY <1>5, <1>6, <1>7 DEF IInv

\* Guest writes, the destructor, a second dbt_init, and stuttering.
LEMMA OtherSteps ==
  ASSUME IInv,
         \/ \E t \in Threads : Guest(t)
         \/ dbt_destroy \/ dbt_init \/ UNCHANGED vars
  PROVE  IInv'
  <1> USE DEF table
  <1>1. CASE \E t \in Threads : Guest(t)
    <2>1. PICK p \in Pcs, v \in Versions :
            /\ code' = [code EXCEPT ![p] = v]
            /\ UNCHANGED <<g_dbt_cache, g_dbt_count, g_dbt_cache_used, mapped, heap, lock, pc, local>>
      BY <1>1 DEF Guest, GuestWrite
    <2>2. code' \in [Pcs -> Versions]
      BY <2>1 DEF IInv, TypeOK
    <2> QED
      BY <2>1, <2>2 DEF IInv, TypeOK, CopyOwned, CopyPhase, WritesInBounds
  <1>2. CASE dbt_destroy
    <2>0. mapped' \in BOOLEAN
      BY <1>2, Zenon DEF dbt_destroy
    <2>1. /\ g_dbt_count' = 0
          /\ UNCHANGED <<g_dbt_cache, g_dbt_cache_used, code, heap, lock, pc, local>>
      BY <1>2 DEF dbt_destroy
    <2>11. g_dbt_count' \in 0..CacheSize
      BY <2>1
    <2>2. TypeOK'
      BY <2>0, <2>1, <2>11 DEF IInv, TypeOK
    <2>21. CopyPhase' /\ WritesInBounds'
      BY <2>1 DEF IInv, CopyPhase, WritesInBounds
    <2>3. CopyOwned'
      BY <2>1 DEF IInv, CopyOwned
    <2> QED
      BY <2>2, <2>21, <2>3 DEF IInv
  <1>3. CASE dbt_init
    <2>1. g_dbt_cache' \in [Slots -> SlotType]
      BY <1>3, StartTypes DEF dbt_init
    <2> QED
      BY <1>3, <2>1 DEF dbt_init, IInv, TypeOK, SlotType, CopyOwned, CopyPhase, WritesInBounds
  <1>4. CASE UNCHANGED vars
    <2>1. UNCHANGED <<g_dbt_cache, g_dbt_count, g_dbt_cache_used, mapped, code, heap, lock, pc, local>>
      BY <1>4 DEF vars
    <2>2. TypeOK' /\ CopyPhase' /\ WritesInBounds'
      BY <2>1 DEF IInv, TypeOK, CopyPhase, WritesInBounds
    <2>3. CopyOwned'
      BY <2>1 DEF IInv, CopyOwned
    <2> QED
      BY <2>2, <2>3 DEF IInv
  <1> QED
    BY <1>1, <1>2, <1>3, <1>4

-----------------------------------------------------------------------------
(***************************************************************************)
(* The theorems.                                                           *)
(***************************************************************************)
\* The invariant holds in every reachable state.
LEMMA Inductive == Spec => []IInv
  <1>1. IInv /\ [Next]_vars => IInv'
    <2> SUFFICES ASSUME IInv, [Next]_vars PROVE IInv'
      OBVIOUS
    <2>1. CASE dbt_destroy \/ dbt_init \/ UNCHANGED vars
      BY <2>1, OtherSteps
    <2>2. ASSUME NEW t \in Threads, Guest(t) PROVE IInv'
      BY <2>2, OtherSteps
    <2>3. ASSUME NEW t \in Threads, Call(t) PROVE IInv'
      <3>1. ASSUME NEW p \in Pcs,
                   \/ LookupMiss(t, p) \/ LookupHit(t, p) \/ LookupSmc(t, p)
                   \/ dbt_invalidate_block(t, p)
            PROVE  IInv'
        BY <3>1, QuietSteps, LookupHitStep, InvalidateStep
      <3> QED
        BY <2>3, <3>1, FlushStep DEF Call
    <2>4. ASSUME NEW t \in Threads, Continue(t) PROVE IInv'
      BY <2>4, QuietSteps, CopyCodeStep, ConvertFailStep, InsertStep DEF Continue
    <2> QED
      BY <2>1, <2>2, <2>3, <2>4 DEF Next
  <1> QED
    BY <1>1, InitIInv, PTL DEF Spec

\* However the threads race, no copy of guest code is freed twice, by eviction
\* in dbt_insert, by invalidation, by a flush or by a failed translation,
\* dbt_check_smc compares with a copy that is still allocated, and every
\* translation writes inside the code cache, although g_dbt_cache_used is updated
\* without a lock.
THEOREM MemoryKept == Spec => []MemorySafe
  <1>1. IInv => MemorySafe
    BY DEF IInv, MemorySafe
  <1> QED
    BY <1>1, Inductive, PTL

-----------------------------------------------------------------------------
(***************************************************************************)
(* One thread.  What code memory holds is only right when nothing races on *)
(* g_dbt_cache_used (see the README), so these theorems are about a        *)
(* program with a single thread t.                                         *)
(*                                                                         *)
(* Every block lies below a ceiling, and the next block is written at the  *)
(* ceiling: that is why no translation overwrites an older one.  Between   *)
(* dbt_insert and the advance the ceiling is above g_dbt_cache_used.       *)
(***************************************************************************)
Ceiling(t) ==
  IF pc[t] \in {"advance", "store"} THEN g_dbt_cache_used + local[t].size ELSE g_dbt_cache_used

\* Slot i has a whole translation of what its copy records, below top.
BlockAt(i, top) ==
  LET b == g_dbt_cache[i]
  IN  /\ b.original_code # NULL
      /\ Holds(b.x86_entry, b.arm_pc, heap[b.original_code])
      /\ mem[b.x86_entry].len \in Nat \ {0} /\ b.x86_entry + mem[b.x86_entry].len <= top

BlocksBelow(top) == \A i \in 0..(g_dbt_count - 1) : g_dbt_cache[i].arm_pc # 0 => BlockAt(i, top)

\* What the thread has found out about the block it asked for.
Found(t) ==
  LET l == local[t]
  IN  /\ pc[t] \notin {"idle", "exec", "relock"} => l.arm_pc \in Pcs
      /\ pc[t] \in {"reserve", "convert", "insert"} => Matches(l.arm_pc) = {}
      /\ pc[t] \in {"convert", "insert"} => heap[l.copy] = code[l.arm_pc]
      /\ pc[t] \in {"convert", "insert", "advance", "store"} => l.entry = g_dbt_cache_used
      /\ pc[t] \in {"insert", "advance", "store"} =>
           /\ Holds(l.entry, l.arm_pc, code[l.arm_pc])
           /\ mem[l.entry].len = l.size /\ l.size \in Nat \ {0}
      /\ pc[t] = "store" => l.used = g_dbt_cache_used
      /\ pc[t] = "hit" =>
           /\ l.slot \in 0..(g_dbt_count - 1) /\ g_dbt_cache[l.slot].arm_pc = l.arm_pc
           /\ heap[g_dbt_cache[l.slot].original_code] = code[l.arm_pc]

OneInv(t) == BlocksBelow(Ceiling(t)) /\ NoDuplicates /\ Found(t)

\* The types the steps below need.
LEMMA OneTypes ==
  ASSUME IInv, NEW t, Threads = {t}
  PROVE  /\ pc[t] \in PC /\ local[t] \in LocalType /\ g_dbt_cache \in [Slots -> SlotType]
         /\ DOMAIN pc = {t} /\ DOMAIN local = {t}
         /\ g_dbt_cache_used \in Nat /\ g_dbt_count \in Nat /\ g_dbt_count <= CacheSize
         /\ 0..(g_dbt_count - 1) \subseteq Slots /\ Ceiling(t) \in Nat
         /\ g_dbt_cache_used <= Ceiling(t)
  <1>1. /\ pc[t] \in PC /\ local[t] \in LocalType /\ g_dbt_cache \in [Slots -> SlotType]
        /\ DOMAIN pc = {t} /\ DOMAIN local = {t}
        /\ g_dbt_cache_used \in Nat /\ g_dbt_count \in Nat /\ g_dbt_count <= CacheSize
    BY DEF IInv, TypeOK, LocalType, SlotType
  <1>2. local[t].size \in Nat
    BY <1>1 DEF LocalType
  <1> QED
    BY <1>1, <1>2 DEF Slots, Ceiling

\* A step that leaves code memory, the blocks of the slots and their copies alone.
LEMMA SameBlocks ==
  ASSUME IInv, NEW t, Threads = {t}, OneInv(t), Ceiling(t)' \in Nat, Ceiling(t) <= Ceiling(t)',
         mem' = mem, g_dbt_count' = g_dbt_count,
         \A i \in 0..(g_dbt_count - 1) :
           /\ g_dbt_cache'[i].arm_pc = g_dbt_cache[i].arm_pc
           /\ g_dbt_cache'[i].x86_entry = g_dbt_cache[i].x86_entry
           /\ g_dbt_cache'[i].original_code = g_dbt_cache[i].original_code
           /\ g_dbt_cache[i].original_code # NULL =>
                heap'[g_dbt_cache[i].original_code] = heap[g_dbt_cache[i].original_code]
  PROVE  BlocksBelow(Ceiling(t))' /\ NoDuplicates' /\ \A p : Matches(p)' = Matches(p)
  <1>0. PICK top \in Nat : top = Ceiling(t)
    BY OneTypes
  <1>00. PICK top2 \in Nat : top2 = Ceiling(t)' /\ top <= top2
    BY <1>0
  <1>1. NoDuplicates' /\ \A p : Matches(p)' = Matches(p)
    BY DEF OneInv, NoDuplicates, Matches
  <1>2. ASSUME NEW i \in 0..(g_dbt_count - 1), g_dbt_cache[i].arm_pc # 0 PROVE BlockAt(i, top2)'
    <2>1. BlockAt(i, top)
      BY <1>0, <1>2 DEF OneInv, BlocksBelow
    <2>2. PICK o : o = g_dbt_cache[i].x86_entry
      OBVIOUS
    <2>3. PICK v : v = heap[g_dbt_cache[i].original_code]
      OBVIOUS
    <2>4. PICK q : q = g_dbt_cache[i].arm_pc
      OBVIOUS
    <2>5. Holds(o, q, v) /\ o \in Nat /\ mem[o].len \in Nat \ {0} /\ o + mem[o].len <= top2
      BY <1>0, <1>00, <2>1, <2>2, <2>3, <2>4 DEF BlockAt, Holds, Units
    <2>6. Holds(o, q, v)'
      BY <2>5 DEF Holds
    <2> QED
      BY <2>1, <2>2, <2>3, <2>4, <2>5, <2>6 DEF BlockAt, Holds
  <1> QED
    BY <1>00, <1>1, <1>2 DEF BlocksBelow, BlockAt

\* Nothing is claimed of a thread that translates nothing.
LEMMA FoundNothing == ASSUME NEW t, pc'[t] \in {"idle", "exec", "relock"} PROVE Found(t)'
  BY DEF Found

\* The ceiling after a step of the thread.
LEMMA NextCeiling ==
  ASSUME NEW t, g_dbt_cache_used' \in Nat, pc'[t] \notin {"advance", "store"}
  PROVE  Ceiling(t)' = g_dbt_cache_used'
  BY DEF Ceiling

\* The steps before dbt_insert that touch neither slots, code memory nor copies,
\* and the return from a block.
LEMMA OneQuiet ==
  ASSUME IInv, NEW t, Threads = {t}, OneInv(t),
         \/ \E p \in Pcs : LookupMiss(t, p) \/ LookupSmc(t, p)
         \/ ReserveFail(t) \/ ExecuteReturn(t) \/ Guest(t)
  PROVE  OneInv(t)'
  <1>1. /\ mem' = mem /\ g_dbt_cache' = g_dbt_cache /\ g_dbt_count' = g_dbt_count /\ heap' = heap
        /\ g_dbt_cache_used' = g_dbt_cache_used /\ pc[t] \in {"idle", "reserve", "exec"}
    BY DEF LookupMiss, LookupSmc, ReserveFail, ExecuteReturn, Guest, GuestWrite, table
  <1>2. pc'[t] \in {"idle", "exec", "relock", "reserve"}
    BY OneTypes DEF LookupMiss, LookupSmc, ReserveFail, ExecuteReturn, Guest, GuestWrite, Goto, Return
  <1>3. Ceiling(t)' \in Nat /\ Ceiling(t) <= Ceiling(t)'
    BY <1>1, <1>2, NextCeiling, OneTypes DEF Ceiling
  <1>4. BlocksBelow(Ceiling(t))' /\ NoDuplicates' /\ \A p : Matches(p)' = Matches(p)
    BY <1>1, <1>3, SameBlocks
  <1>5. Found(t)'
    <2>1. CASE pc'[t] # "reserve"
      BY <1>2, <2>1, FoundNothing
    <2>2. CASE pc'[t] = "reserve"
      <3>0. ~ReserveFail(t) /\ ~ExecuteReturn(t) /\ ~Guest(t) /\ \A p \in Pcs : ~LookupSmc(t, p)
        <4>1. \A w : pc' = [pc EXCEPT ![t] = w] => pc'[t] = w
          BY OneTypes
        <4>2. ~ReserveFail(t) /\ ~ExecuteReturn(t) /\ \A p \in Pcs : ~LookupSmc(t, p)
          BY <2>2, <4>1 DEF LookupSmc, ReserveFail, ExecuteReturn, Goto, Return
        <4>3. ~Guest(t)
          BY <2>2 DEF Guest, GuestWrite
        <4> QED
          BY <4>2, <4>3
      <3>1. PICK p \in Pcs : LookupMiss(t, p)
        BY <3>0
      <3>2. local'[t] = [NoLocal EXCEPT !.arm_pc = p] /\ Matches(p) = {}
        BY <3>1, OneTypes DEF LookupMiss, Goto
      <3>3. local'[t].arm_pc = p
        BY <3>2 DEF NoLocal
      <3>4. Matches(local[t].arm_pc)' = {}
        BY <1>1, <3>2, <3>3 DEF Matches
      <3> QED
        BY <2>2, <3>3, <3>4 DEF Found
    <2> QED
      BY <2>1, <2>2
  <1> QED
    BY <1>4, <1>5 DEF OneInv

\* A lookup that hits has compared the copy with the guest code.
LEMMA OneHit ==
  ASSUME IInv, NEW t, Threads = {t}, OneInv(t), NEW p \in Pcs, LookupHit(t, p)
  PROVE  OneInv(t)'
  <1> PICK i : i = Min(Matches(p))
    OBVIOUS
  <1>1. i \in 0..(g_dbt_count - 1) /\ i \in Slots /\ g_dbt_cache[i].arm_pc = p
    BY FirstMatch DEF LookupHit
  <1>2. /\ ~ dbt_check_smc(i) /\ pc[t] = "idle"
        /\ g_dbt_cache' = [g_dbt_cache EXCEPT ![i].hit_count = @ + 1]
        /\ pc'[t] = "hit" /\ local'[t] = [NoLocal EXCEPT !.arm_pc = p, !.slot = i]
        /\ mem' = mem /\ g_dbt_count' = g_dbt_count /\ heap' = heap /\ code' = code
        /\ g_dbt_cache_used' = g_dbt_cache_used
    BY OneTypes DEF LookupHit, Goto
  <1>3. \A j \in Slots : /\ g_dbt_cache'[j].arm_pc = g_dbt_cache[j].arm_pc
                         /\ g_dbt_cache'[j].x86_entry = g_dbt_cache[j].x86_entry
                         /\ g_dbt_cache'[j].original_code = g_dbt_cache[j].original_code
    BY <1>1, <1>2, OneTypes DEF SlotType
  <1>4. Ceiling(t)' \in Nat /\ Ceiling(t) <= Ceiling(t)'
    BY <1>2, NextCeiling, OneTypes DEF Ceiling
  <1>5. BlocksBelow(Ceiling(t))' /\ NoDuplicates'
    BY <1>2, <1>3, <1>4, SameBlocks, OneTypes
  <1>6. local'[t].arm_pc = p /\ local'[t].slot = i
    BY <1>2 DEF NoLocal
  <1>7. heap[g_dbt_cache[i].original_code] = code[p]
    <2>1. BlockAt(i, Ceiling(t))
      BY <1>1 DEF OneInv, BlocksBelow
    <2>2. g_dbt_cache[i].original_code # NULL /\ g_dbt_cache[i].x86_entry # NoEntry
      BY <2>1 DEF BlockAt, Holds, Units, NoEntry
    <2> QED
      BY <1>1, <1>2, <2>2 DEF dbt_check_smc
  <1>8. Found(t)'
    BY <1>1, <1>2, <1>3, <1>6, <1>7 DEF Found
  <1> QED
    BY <1>5, <1>8 DEF OneInv

\* The entry read through the slot is that of the block asked for.
LEMMA OneHitRead ==
  ASSUME IInv, NEW t, Threads = {t}, OneInv(t), HitRead(t)
  PROVE  /\ OneInv(t)'
         /\ pc'[t] = "exec" => Holds(local[t].entry, local[t].arm_pc, code[local[t].arm_pc])'
  <1> PICK l : l = local[t]
    OBVIOUS
  <1>1. /\ mem' = mem /\ g_dbt_cache' = g_dbt_cache /\ g_dbt_count' = g_dbt_count /\ heap' = heap
        /\ g_dbt_cache_used' = g_dbt_cache_used /\ pc[t] = "hit" /\ code' = code
        /\ pc'[t] \in {"idle", "exec"}
        /\ pc'[t] = "exec" => local'[t] = [l EXCEPT !.entry = g_dbt_cache[l.slot].x86_entry]
    BY OneTypes DEF HitRead, Return, Goto, table
  <1>2. Ceiling(t)' \in Nat /\ Ceiling(t) <= Ceiling(t)'
    BY <1>1, NextCeiling, OneTypes DEF Ceiling
  <1>3. BlocksBelow(Ceiling(t))' /\ NoDuplicates'
    BY <1>1, <1>2, SameBlocks
  <1>4. Found(t)'
    BY <1>1, FoundNothing
  <1>5. ASSUME pc'[t] = "exec" PROVE Holds(local[t].entry, local[t].arm_pc, code[local[t].arm_pc])'
    <2>1. /\ l.slot \in 0..(g_dbt_count - 1) /\ g_dbt_cache[l.slot].arm_pc = l.arm_pc
          /\ heap[g_dbt_cache[l.slot].original_code] = code[l.arm_pc] /\ l.arm_pc \in Pcs
      BY <1>1 DEF OneInv, Found
    <2>2. BlockAt(l.slot, Ceiling(t))
      BY <2>1 DEF OneInv, BlocksBelow
    <2>3. PICK o : o = g_dbt_cache[l.slot].x86_entry
      OBVIOUS
    <2>4. Holds(o, l.arm_pc, code[l.arm_pc])
      BY <2>1, <2>2, <2>3 DEF BlockAt
    <2>5. local'[t].entry = o /\ local'[t].arm_pc = l.arm_pc
      BY <1>1, <1>5, <2>3, OneTypes DEF LocalType
    <2> QED
      BY <1>1, <2>4, <2>5 DEF Holds
  <1> QED
    BY <1>3, <1>4, <1>5 DEF OneInv

\* The copy is of the guest code that will be translated.
LEMMA OneCopy ==
  ASSUME IInv, NEW t, Threads = {t}, OneInv(t), CopyCode(t)
  PROVE  OneInv(t)'
  <1> PICK l : l = local[t]
    OBVIOUS
  <1>1. PICK c \in Copies \ DOMAIN heap :
          /\ heap' = [x \in DOMAIN heap \cup {c} |-> IF x = c THEN code[l.arm_pc] ELSE heap[x]]
          /\ pc'[t] = "convert"
          /\ local'[t] = [l EXCEPT !.entry = g_dbt_cache_used, !.copy = c]
    <2>1. PICK c \in Copies \ DOMAIN heap :
            /\ heap' = [x \in DOMAIN heap \cup {c} |->
                          IF x = c THEN code[local[t].arm_pc] ELSE heap[x]]
            /\ pc' = [pc EXCEPT ![t] = "convert"]
            /\ local' = [local EXCEPT ![t] = [local[t] EXCEPT !.entry = g_dbt_cache_used, !.copy = c]]
      BY DEF CopyCode, Goto
    <2>2. /\ pc'[t] = "convert"
          /\ local'[t] = [local[t] EXCEPT !.entry = g_dbt_cache_used, !.copy = c]
      BY <2>1, OneTypes
    <2> QED
      BY <2>1, <2>2
  <1>2. /\ mem' = mem /\ g_dbt_cache' = g_dbt_cache /\ g_dbt_count' = g_dbt_count
        /\ g_dbt_cache_used' = g_dbt_cache_used /\ pc[t] = "reserve" /\ code' = code
    BY DEF CopyCode, table
  <1>3. \A i \in 0..(g_dbt_count - 1) : g_dbt_cache[i].original_code # NULL =>
          heap'[g_dbt_cache[i].original_code] = heap[g_dbt_cache[i].original_code]
    BY <1>1 DEF IInv, CopyOwned
  <1>4. Ceiling(t)' \in Nat /\ Ceiling(t) <= Ceiling(t)'
    BY <1>1, <1>2, NextCeiling, OneTypes DEF Ceiling
  <1>5. BlocksBelow(Ceiling(t))' /\ NoDuplicates' /\ \A p : Matches(p)' = Matches(p)
    BY <1>2, <1>3, <1>4, SameBlocks
  <1>6. local'[t].arm_pc = l.arm_pc /\ local'[t].entry = g_dbt_cache_used /\ local'[t].copy = c
    BY <1>1, OneTypes DEF LocalType
  <1>7. l.arm_pc \in Pcs /\ Matches(l.arm_pc) = {}
    BY <1>2 DEF OneInv, Found
  <1>8. Matches(local[t].arm_pc)' = {}
    BY <1>2, <1>6, <1>7 DEF Matches
  <1>9. Found(t)'
    BY <1>1, <1>2, <1>6, <1>7, <1>8 DEF Found
  <1> QED
    BY <1>5, <1>9 DEF OneInv

\* The new block is written at the ceiling, above every block of the table.
LEMMA OneConvert ==
  ASSUME IInv, NEW t, Threads = {t}, OneInv(t), Convert(t)
  PROVE  OneInv(t)'
  <1> PICK l : l = local[t]
    OBVIOUS
  <1> PICK u \in Nat : u = g_dbt_cache_used
    BY OneTypes
  <1>1. PICK n \in BlockSizes : /\ mem' = Written(l.entry, n, l.arm_pc)
                                /\ pc' = [pc EXCEPT ![t] = "insert"]
                                /\ local' = [local EXCEPT ![t] = [l EXCEPT !.size = n]]
    BY DEF Convert, Goto
  <1>2. /\ g_dbt_cache' = g_dbt_cache /\ g_dbt_count' = g_dbt_count /\ heap' = heap
        /\ g_dbt_cache_used' = u /\ pc[t] = "convert" /\ code' = code
    BY DEF Convert, table
  <1>3. /\ l.entry = u /\ l.arm_pc \in Pcs /\ Matches(l.arm_pc) = {} /\ heap[l.copy] = code[l.arm_pc]
    BY <1>2 DEF OneInv, Found
  <1>4. n \in Nat \ {0} /\ u + n <= CodeSize
    <2>1. n \in 1..Reserve /\ Reserve \in Nat /\ CodeSize \in Nat
      BY DBTConstants
    <2>2. u + Reserve <= CodeSize
      BY <1>2, <1>3 DEF IInv, WritesInBounds
    <2> QED
      BY <2>1, <2>2
  <1>5. pc'[t] = "insert" /\ local'[t] = [l EXCEPT !.size = n]
    BY <1>1, OneTypes
  <1>6. /\ local'[t].arm_pc = l.arm_pc /\ local'[t].entry = u /\ local'[t].copy = l.copy
        /\ local'[t].size = n
    BY <1>3, <1>5, OneTypes DEF LocalType
  <1>7. /\ \A x \in Units : x < u => mem'[x] = mem[x]
        /\ \A x \in Units : x \in u..(u + n - 1) => mem'[x] = Cell(l.arm_pc, code[l.arm_pc], x - u, n)
    BY <1>1, <1>3, <1>4 DEF Written, Units
  <1>8. /\ Holds(u, l.arm_pc, code[l.arm_pc])' /\ mem'[u].len = n
    <2>1. u \in Units /\ \A i \in 0..(n - 1) : u + i \in Units /\ u + i \in u..(u + n - 1) /\ u + i - u = i
      BY <1>4, DBTConstants DEF Units
    <2>2. \A i \in 0..(n - 1) : mem'[u + i] = Cell(l.arm_pc, code[l.arm_pc], i, n)
      <3> SUFFICES ASSUME NEW i \in 0..(n - 1) PROVE mem'[u + i] = Cell(l.arm_pc, code[l.arm_pc], i, n)
        OBVIOUS
      <3>1. u + i \in Units /\ u + i \in u..(u + n - 1) /\ u + i - u = i
        BY <2>1
      <3>2. mem'[u + i] = Cell(l.arm_pc, code[l.arm_pc], u + i - u, n)
        BY <1>7, <3>1
      <3> QED
        BY <3>1, <3>2
    <2>3. mem'[u] = Cell(l.arm_pc, code[l.arm_pc], 0, n)
      <3>1. u + 0 = u /\ 0 \in 0..(n - 1)
        BY <1>4
      <3> QED
        BY <2>2, <3>1
    <2>4. /\ mem'[u].arm_pc = l.arm_pc /\ mem'[u].ver = code[l.arm_pc] /\ mem'[u].idx = 0 /\ mem'[u].len = n
      BY <2>3 DEF Cell
    <2> QED
      BY <1>2, <2>1, <2>2, <2>4 DEF Holds
  <1>9. BlocksBelow(Ceiling(t))'
    <2>1. Ceiling(t) = u /\ Ceiling(t)' = u
      BY <1>2, <1>5 DEF Ceiling
    <2>2. ASSUME NEW i \in 0..(g_dbt_count - 1), g_dbt_cache[i].arm_pc # 0 PROVE BlockAt(i, u)'
      <3>1. PICK o : o = g_dbt_cache[i].x86_entry
        OBVIOUS
      <3>2. PICK q : q = g_dbt_cache[i].arm_pc
        OBVIOUS
      <3>3. PICK v : v = heap[g_dbt_cache[i].original_code]
        OBVIOUS
      <3>4. PICK k : k = mem[o].len
        OBVIOUS
      <3>5. /\ g_dbt_cache[i].original_code # NULL /\ Holds(o, q, v) /\ k \in Nat \ {0} /\ o + k <= u
        BY <2>1, <2>2, <3>1, <3>2, <3>3, <3>4 DEF OneInv, BlocksBelow, BlockAt
      <3>6. o \in Units /\ o \in Nat
        BY <3>5 DEF Holds, Units
      <3>7. \A j \in 0..(k - 1) : o + j \in Units /\ mem'[o + j] = mem[o + j]
        BY <1>7, <3>4, <3>5, <3>6 DEF Holds
      <3>8. mem'[o] = mem[o]
        BY <1>7, <3>5, <3>6
      <3>9. Holds(o, q, v)'
        BY <3>4, <3>5, <3>6, <3>7, <3>8 DEF Holds
      <3> QED
        BY <1>2, <3>1, <3>2, <3>3, <3>4, <3>5, <3>8, <3>9 DEF BlockAt, Holds
    <2> QED
      BY <1>2, <2>1, <2>2 DEF BlocksBelow, BlockAt
  <1>10. NoDuplicates' /\ Matches(local[t].arm_pc)' = {}
    BY <1>2, <1>3, <1>6 DEF OneInv, NoDuplicates, Matches
  <1>11. Found(t)'
    <2>1. Holds(local[t].entry, local[t].arm_pc, code[local[t].arm_pc])'
      BY <1>2, <1>6, <1>8 DEF Holds
    <2> QED
      BY <1>2, <1>3, <1>4, <1>5, <1>6, <1>8, <1>10, <2>1 DEF Found
  <1> QED
    BY <1>9, <1>10, <1>11 DEF OneInv

\* A failed translation frees the thread's own copy.
LEMMA OneConvertFail ==
  ASSUME IInv, NEW t, Threads = {t}, OneInv(t), ConvertFail(t)
  PROVE  OneInv(t)'
  <1>1. /\ mem' = mem /\ g_dbt_cache' = g_dbt_cache /\ g_dbt_count' = g_dbt_count
        /\ g_dbt_cache_used' = g_dbt_cache_used /\ pc[t] = "convert" /\ pc'[t] = "idle"
        /\ heap' = Freed(heap, local[t].copy)
    BY OneTypes DEF ConvertFail, Return, Goto, table
  <1>2. \A i \in 0..(g_dbt_count - 1) : g_dbt_cache[i].original_code # NULL =>
          heap'[g_dbt_cache[i].original_code] = heap[g_dbt_cache[i].original_code]
    BY <1>1 DEF IInv, CopyOwned, Freed
  <1>3. Ceiling(t)' \in Nat /\ Ceiling(t) <= Ceiling(t)'
    BY <1>1, NextCeiling, OneTypes DEF Ceiling
  <1>4. BlocksBelow(Ceiling(t))' /\ NoDuplicates'
    BY <1>1, <1>2, <1>3, SameBlocks
  <1> QED
    BY <1>1, <1>4, FoundNothing DEF OneInv

\* dbt_insert: the address was in no slot, the replaced copy is nobody else's,
\* and the ceiling rises by the size of the new block.
LEMMA OneInsert ==
  ASSUME IInv, NEW t, Threads = {t}, OneInv(t), dbt_insert(t)
  PROVE  OneInv(t)'
  <1> PICK l : l = local[t]
    OBVIOUS
  <1> PICK u \in Nat : u = g_dbt_cache_used
    BY OneTypes
  <1> PICK v \in Slots : v = Victim
    BY VictimSlot
  <1> PICK n \in Nat : n = g_dbt_count
    BY OneTypes
  <1> DEFINE b == [arm_pc |-> l.arm_pc, x86_entry |-> l.entry, original_code |-> l.copy, hit_count |-> 0]
  <1>1. /\ pc[t] = "insert" /\ heap' = VictimCopyFreed(heap) /\ g_dbt_cache' = [g_dbt_cache EXCEPT ![v] = b]
        /\ g_dbt_count' = CountAfterInsert /\ mem' = mem /\ code' = code /\ g_dbt_cache_used' = u
        /\ pc' = [pc EXCEPT ![t] = "advance"]
        /\ local' = [local EXCEPT ![t] = [l EXCEPT !.copy = NULL]]
    BY DEF dbt_insert, Goto
  <1>2. /\ l.arm_pc \in Pcs /\ Matches(l.arm_pc) = {} /\ heap[l.copy] = code[l.arm_pc] /\ l.entry = u
        /\ Holds(u, l.arm_pc, code[l.arm_pc]) /\ mem[u].len = l.size /\ l.size \in Nat \ {0}
    BY <1>1 DEF OneInv, Found
  <1>3. pc'[t] = "advance" /\ local'[t] = [l EXCEPT !.copy = NULL]
    BY <1>1, OneTypes
  <1>4. local'[t].arm_pc = l.arm_pc /\ local'[t].entry = u /\ local'[t].size = l.size
    BY <1>2, <1>3, OneTypes DEF LocalType
  <1>5. b.arm_pc = l.arm_pc /\ b.x86_entry = u /\ b.original_code = l.copy
    BY <1>2
  <1> HIDE DEF b
  <1>6. g_dbt_cache'[v] = b /\ \A i \in Slots : i # v => g_dbt_cache'[i] = g_dbt_cache[i]
    BY <1>1, OneTypes
  <1>7. l.copy # NULL
    BY <1>1 DEF IInv, CopyPhase
  <1>8. \A i \in 0..(g_dbt_count' - 1) : i \in Slots /\ (i # v => i \in 0..(n - 1))
    <2>1. n <= CacheSize /\ g_dbt_count' = IF n >= CacheSize THEN n ELSE n + 1
      BY <1>1, OneTypes DEF CountAfterInsert
    <2>2. n < CacheSize => v = n
      BY VictimSlot
    <2> QED
      BY <2>1, <2>2, DBTConstants DEF Slots
  <1>9. \A i \in 0..(n - 1) : i # v /\ g_dbt_cache[i].original_code # NULL =>
          heap'[g_dbt_cache[i].original_code] = heap[g_dbt_cache[i].original_code]
    <2> SUFFICES ASSUME NEW i \in 0..(n - 1), i # v, g_dbt_cache[i].original_code # NULL
                 PROVE  heap'[g_dbt_cache[i].original_code] = heap[g_dbt_cache[i].original_code]
      OBVIOUS
    <2>1. g_dbt_cache[i].original_code \in DOMAIN heap
      BY DEF IInv, CopyOwned
    <2>2. CASE n >= CacheSize
      <3>1. heap' = Freed(heap, g_dbt_cache[v].original_code)
        BY <1>1, <2>2 DEF VictimCopyFreed
      <3>2. v \in 0..(n - 1)
        BY <2>2, OneTypes DEF Slots
      <3>3. g_dbt_cache[v].original_code # g_dbt_cache[i].original_code
        BY <3>2 DEF IInv, CopyOwned
      <3> QED
        BY <2>1, <3>1, <3>3 DEF Freed
    <2>3. CASE ~(n >= CacheSize)
      BY <1>1, <2>3 DEF VictimCopyFreed
    <2> QED
      BY <2>2, <2>3
  <1>10. heap'[l.copy] = heap[l.copy]
    <2>1. l.copy \in DOMAIN heap
      BY <1>7 DEF IInv, CopyOwned
    <2>2. CASE n >= CacheSize
      <3>1. heap' = Freed(heap, g_dbt_cache[v].original_code)
        BY <1>1, <2>2 DEF VictimCopyFreed
      <3>2. v \in 0..(n - 1)
        BY <2>2, OneTypes DEF Slots
      <3>3. g_dbt_cache[v].original_code # l.copy
        BY <1>7, <3>2 DEF IInv, CopyOwned
      <3> QED
        BY <2>1, <3>1, <3>3 DEF Freed
    <2>3. CASE ~(n >= CacheSize)
      BY <1>1, <2>3 DEF VictimCopyFreed
    <2> QED
      BY <2>2, <2>3
  <1>11. Ceiling(t) = u /\ Ceiling(t)' = u + l.size
    BY <1>1, <1>3, <1>4 DEF Ceiling
  <1>12. BlocksBelow(Ceiling(t))'
    <2>1. ASSUME NEW i \in 0..(g_dbt_count' - 1), g_dbt_cache'[i].arm_pc # 0 PROVE BlockAt(i, u + l.size)'
      <3>1. CASE i = v
        <4>1. Holds(u, l.arm_pc, code[l.arm_pc])'
          BY <1>1, <1>2 DEF Holds
        <4> QED
          BY <1>1, <1>2, <1>5, <1>6, <1>7, <1>10, <3>1, <4>1 DEF BlockAt, Holds
      <3>2. CASE i # v
        <4>1. i \in 0..(n - 1) /\ g_dbt_cache'[i] = g_dbt_cache[i]
          BY <1>6, <1>8, <3>2
        <4>2. PICK o : o = g_dbt_cache[i].x86_entry
          OBVIOUS
        <4>3. PICK q : q = g_dbt_cache[i].arm_pc
          OBVIOUS
        <4>4. PICK w : w = heap[g_dbt_cache[i].original_code]
          OBVIOUS
        <4>5. /\ g_dbt_cache[i].original_code # NULL /\ Holds(o, q, w) /\ o \in Nat
              /\ mem[o].len \in Nat \ {0} /\ o + mem[o].len <= u
          BY <1>11, <2>1, <4>1, <4>2, <4>3, <4>4 DEF OneInv, BlocksBelow, BlockAt, Holds, Units
        <4>6. o + mem[o].len <= u + l.size
          BY <1>2, <4>5
        <4>7. Holds(o, q, w)'
          BY <1>1, <4>5 DEF Holds
        <4>8. heap'[g_dbt_cache[i].original_code] = w
          BY <1>9, <3>2, <4>1, <4>4, <4>5
        <4> QED
          BY <1>1, <4>1, <4>2, <4>3, <4>5, <4>6, <4>7, <4>8 DEF BlockAt, Holds
      <3> QED
        BY <3>1, <3>2
    <2> QED
      BY <1>11, <2>1 DEF BlocksBelow, BlockAt
  <1>13. NoDuplicates'
    <2>1. \A i \in 0..(n - 1) : g_dbt_cache[i].arm_pc # l.arm_pc
      BY <1>2 DEF Matches
    <2>2. \A i \in 0..(g_dbt_count' - 1) : i # v =>
            i \in 0..(n - 1) /\ g_dbt_cache'[i].arm_pc = g_dbt_cache[i].arm_pc
      BY <1>6, <1>8
    <2> QED
      BY <1>5, <1>6, <2>1, <2>2 DEF OneInv, NoDuplicates
  <1>14. Found(t)'
    <2>1. Holds(local[t].entry, local[t].arm_pc, code[local[t].arm_pc])'
      BY <1>1, <1>2, <1>4 DEF Holds
    <2> QED
      BY <1>1, <1>2, <1>3, <1>4, <2>1 DEF Found
  <1> QED
    BY <1>12, <1>13, <1>14 DEF OneInv

\* g_dbt_cache_used += size, read and written back: it catches up with the ceiling.
LEMMA OneAdvance ==
  ASSUME IInv, NEW t, Threads = {t}, OneInv(t), AdvanceRead(t) \/ AdvanceWrite(t)
  PROVE  /\ OneInv(t)'
         /\ pc'[t] = "exec" => Holds(local[t].entry, local[t].arm_pc, code[local[t].arm_pc])'
  <1> PICK l : l = local[t]
    OBVIOUS
  <1> PICK u \in Nat : u = g_dbt_cache_used
    BY OneTypes
  <1>1. /\ mem' = mem /\ g_dbt_cache' = g_dbt_cache /\ g_dbt_count' = g_dbt_count /\ heap' = heap
        /\ code' = code /\ pc[t] \in {"advance", "store"}
    BY DEF AdvanceRead, AdvanceWrite, table
  <1>2. /\ l.arm_pc \in Pcs /\ l.entry = u /\ Holds(u, l.arm_pc, code[l.arm_pc])
        /\ mem[u].len = l.size /\ l.size \in Nat \ {0} /\ (pc[t] = "store" => l.used = u)
    BY <1>1 DEF OneInv, Found
  <1>3. CASE AdvanceRead(t)
    <2>1. /\ g_dbt_cache_used' = u /\ pc'[t] = "store" /\ local'[t] = [l EXCEPT !.used = u]
      BY <1>3, OneTypes DEF AdvanceRead, Goto
    <2>2. /\ local'[t].arm_pc = l.arm_pc /\ local'[t].entry = u /\ local'[t].size = l.size
          /\ local'[t].used = u
      BY <1>2, <2>1, OneTypes DEF LocalType
    <2>3. Ceiling(t)' \in Nat /\ Ceiling(t) <= Ceiling(t)'
      BY <1>1, <1>2, <2>1, <2>2 DEF Ceiling
    <2>4. BlocksBelow(Ceiling(t))' /\ NoDuplicates'
      BY <1>1, <2>3, SameBlocks
    <2>5. Holds(local[t].entry, local[t].arm_pc, code[local[t].arm_pc])'
      BY <1>1, <1>2, <2>2 DEF Holds
    <2>6. Found(t)'
      BY <1>1, <1>2, <2>1, <2>2, <2>5 DEF Found
    <2> QED
      BY <2>1, <2>4, <2>6 DEF OneInv
  <1>4. CASE AdvanceWrite(t)
    <2>1. /\ pc[t] = "store" /\ g_dbt_cache_used' = Advanced(t) /\ pc'[t] = "exec"
          /\ local'[t] = [l EXCEPT !.used = 0, !.size = 0]
      BY <1>4, OneTypes DEF AdvanceWrite, Goto
    <2>2. g_dbt_cache_used' = u + l.size
      BY <1>2, <2>1 DEF Advanced
    <2>3. local'[t].arm_pc = l.arm_pc /\ local'[t].entry = u
      BY <1>2, <2>1, OneTypes DEF LocalType
    <2>4. Ceiling(t)' \in Nat /\ Ceiling(t) <= Ceiling(t)'
      BY <1>2, <2>1, <2>2 DEF Ceiling
    <2>5. BlocksBelow(Ceiling(t))' /\ NoDuplicates'
      BY <1>1, <2>4, SameBlocks
    <2>6. Holds(local[t].entry, local[t].arm_pc, code[local[t].arm_pc])'
      BY <1>1, <1>2, <2>3 DEF Holds
    <2> QED
      BY <2>1, <2>5, <2>6, FoundNothing DEF OneInv
  <1> QED
    BY <1>3, <1>4

\* dbt_invalidate_block: the copy that is freed is the slot's own.
LEMMA OneInvalidate ==
  ASSUME IInv, NEW t, Threads = {t}, OneInv(t), NEW p \in Pcs, dbt_invalidate_block(t, p)
  PROVE  OneInv(t)'
  <1> PICK k : k = Min(Invalidated(p))
    OBVIOUS
  <1>1. k \in 0..(g_dbt_count - 1) /\ k \in Slots
    <2>1. p % PcModulus \in Nat
      BY DBTConstants
    <2> QED
      BY <2>1, FirstMatch DEF dbt_invalidate_block, Invalidated
  <1>2. /\ pc[t] = "idle" /\ pc' = pc /\ local' = local /\ mem' = mem /\ g_dbt_count' = g_dbt_count
        /\ g_dbt_cache_used' = g_dbt_cache_used /\ heap' = Freed(heap, g_dbt_cache[k].original_code)
        /\ g_dbt_cache' = [g_dbt_cache EXCEPT ![k] = ClearEntry(g_dbt_cache[k])]
    BY DEF dbt_invalidate_block
  <1>3. g_dbt_cache'[k].arm_pc = 0 /\ \A i \in Slots : i # k => g_dbt_cache'[i] = g_dbt_cache[i]
    <2>1. PICK T : T = SlotType
      OBVIOUS
    <2>2. g_dbt_cache \in [Slots -> T]
      BY <2>1, OneTypes
    <2>3. g_dbt_cache'[k] = ClearEntry(g_dbt_cache[k])
          /\ \A i \in Slots : i # k => g_dbt_cache'[i] = g_dbt_cache[i]
      BY <1>1, <1>2, <2>2
    <2>4. g_dbt_cache[k] \in SlotType
      BY <1>1, <2>1, <2>2
    <2>5. ClearEntry(g_dbt_cache[k]).arm_pc = 0
      BY <2>4 DEF ClearEntry, SlotType
    <2> QED
      BY <2>3, <2>5
  <1>4. PICK u \in Nat : u = Ceiling(t) /\ u = Ceiling(t)'
    BY <1>2, OneTypes DEF Ceiling
  <1>5. ASSUME NEW i \in 0..(g_dbt_count - 1), g_dbt_cache'[i].arm_pc # 0 PROVE BlockAt(i, u)'
    <2>1. i # k /\ i \in Slots
      BY <1>3, <1>5, OneTypes
    <2>2. PICK o : o = g_dbt_cache[i].x86_entry
      OBVIOUS
    <2>3. PICK q : q = g_dbt_cache[i].arm_pc
      OBVIOUS
    <2>4. PICK w : w = heap[g_dbt_cache[i].original_code]
      OBVIOUS
    <2>5. /\ g_dbt_cache[i].original_code # NULL /\ Holds(o, q, w)
          /\ mem[o].len \in Nat \ {0} /\ o + mem[o].len <= u
      BY <1>3, <1>4, <1>5, <2>1, <2>2, <2>3, <2>4 DEF OneInv, BlocksBelow, BlockAt
    <2>6. heap'[g_dbt_cache[i].original_code] = w
      BY <1>1, <1>2, <2>1, <2>4, <2>5 DEF IInv, CopyOwned, Freed
    <2>7. Holds(o, q, w)'
      BY <1>2, <2>5 DEF Holds
    <2> QED
      BY <1>2, <1>3, <2>1, <2>2, <2>3, <2>5, <2>6, <2>7 DEF BlockAt, Holds
  <1>6. BlocksBelow(Ceiling(t))'
    BY <1>2, <1>4, <1>5 DEF BlocksBelow, BlockAt
  <1>7. NoDuplicates'
    BY <1>2, <1>3, OneTypes DEF OneInv, NoDuplicates
  <1> QED
    BY <1>2, <1>6, <1>7, FoundNothing DEF OneInv

\* Flushing, destroying and initialising leave no block.
LEMMA OneEmpty ==
  ASSUME NEW t, Threads = {t}, g_dbt_count' = 0, pc'[t] = "idle"
  PROVE  OneInv(t)'
  BY FoundNothing DEF OneInv, BlocksBelow, NoDuplicates

\* Every step of the one thread.
LEMMA OneStep ==
  ASSUME IInv, NEW t, Threads = {t}, OneInv(t), [Next]_vars
  PROVE  /\ OneInv(t)'
         /\ pc[t] # "exec" /\ pc'[t] = "exec" =>
              Holds(local[t].entry, local[t].arm_pc, code[local[t].arm_pc])'
  <1>1. CASE UNCHANGED vars
    <2>1. /\ mem' = mem /\ g_dbt_cache' = g_dbt_cache /\ g_dbt_count' = g_dbt_count /\ heap' = heap
          /\ g_dbt_cache_used' = g_dbt_cache_used /\ code' = code /\ pc' = pc /\ local' = local
      BY <1>1 DEF vars, table
    <2>2. Ceiling(t)' \in Nat /\ Ceiling(t) <= Ceiling(t)'
      BY <2>1, OneTypes DEF Ceiling
    <2>3. BlocksBelow(Ceiling(t))' /\ NoDuplicates'
      BY <2>1, <2>2, SameBlocks
    <2>4. Found(t)'
      BY <2>1 DEF OneInv, Found, Matches, Holds
    <2> QED
      BY <2>1, <2>3, <2>4 DEF OneInv
  <1>2. CASE dbt_destroy \/ dbt_init
    <2>1. g_dbt_count' = 0 /\ pc'[t] = "idle"
      BY <1>2 DEF dbt_destroy, dbt_init, Quiet
    <2> QED
      BY <2>1, OneEmpty
  <1>3. CASE Call(t)
    <2>1. CASE dbt_flush_cache(t)
      <3>1. g_dbt_count' = 0 /\ pc'[t] = "idle"
        BY <2>1 DEF dbt_flush_cache
      <3> QED
        BY <3>1, OneEmpty
    <2>2. ASSUME NEW p \in Pcs, LookupMiss(t, p) \/ LookupHit(t, p) \/ LookupSmc(t, p) \/ dbt_invalidate_block(t, p)
          PROVE  OneInv(t)' /\ pc'[t] # "exec"
      <3>1. OneInv(t)'
        BY <2>2, OneQuiet, OneHit, OneInvalidate
      <3>2. \A w : pc' = [pc EXCEPT ![t] = w] => pc'[t] = w
        BY OneTypes
      <3>3. pc'[t] # "exec"
        BY <2>2, <3>2 DEF LookupMiss, LookupHit, LookupSmc, dbt_invalidate_block, Goto
      <3> QED
        BY <3>1, <3>3
    <2> QED
      BY <1>3, <2>1, <2>2 DEF Call
  <1>4. CASE Continue(t)
    <2>1. CASE HitRead(t) \/ AdvanceRead(t) \/ AdvanceWrite(t)
      BY <2>1, OneHitRead, OneAdvance
    <2>2. CASE CopyCode(t) \/ ReserveFail(t) \/ Convert(t) \/ ConvertFail(t) \/ dbt_insert(t) \/ ExecuteReturn(t)
      <3>1. OneInv(t)'
        BY <2>2, OneCopy, OneQuiet, OneConvert, OneConvertFail, OneInsert
      <3>2. \A w : pc' = [pc EXCEPT ![t] = w] => pc'[t] = w
        BY OneTypes
      <3>3. pc'[t] # "exec"
        BY <2>2, <3>2 DEF CopyCode, ReserveFail, Convert, ConvertFail, dbt_insert, ExecuteReturn, Goto, Return
      <3> QED
        BY <3>1, <3>3
    <2> QED
      BY <1>4, <2>1, <2>2 DEF Continue
  <1>5. CASE Guest(t)
    BY <1>5, OneQuiet DEF Guest, GuestWrite
  <1> QED
    BY <1>1, <1>2, <1>3, <1>4, <1>5 DEF Next

\* The start of a program with one thread.
LEMMA OneStart == ASSUME NEW t, Threads = {t}, Init PROVE OneInv(t)
  BY DEF Init, OneInv, BlocksBelow, NoDuplicates, Found

\* In a program with one thread, for every table, code cache and guest: however
\* blocks are inserted, replaced, invalidated and flushed, every slot leads to a
\* whole translation of the guest code its copy records, and no address has two
\* slots (dbt_insert, dbt_translate_block).
THEOREM BlocksKept == ASSUME NEW one, Threads = {one} PROVE Spec => []BlocksRight
  <1>1. Init => OneInv(one)
    BY OneStart
  <1>2. IInv /\ OneInv(one) /\ [Next]_vars => OneInv(one)'
    BY OneStep
  <1>3. OneInv(one) => BlocksRight
    BY DEF OneInv, BlocksBelow, BlockAt, BlocksRight, BlocksIntact
  <1> QED
    BY <1>1, <1>2, <1>3, Inductive, PTL DEF Spec

\* In a program with one thread, dbt_execute enters only translations of the
\* block it was asked for, of the guest code that is there when it is entered,
\* although the guest rewrites its code between calls (dbt_check_smc,
\* dbt_translate_block).
THEOREM OwnCodeStarts == ASSUME NEW one, Threads = {one} PROVE Spec => StartsOwnCode
  <1>1. Init => OneInv(one)
    BY OneStart
  <1>2. IInv /\ OneInv(one) /\ [Next]_vars => OneInv(one)'
    BY OneStep
  <1>3. IInv /\ OneInv(one) /\ [Next]_vars =>
          [\A t \in Threads : pc[t] # "exec" /\ pc'[t] = "exec" =>
             Holds(local[t].entry, local[t].arm_pc, code[local[t].arm_pc])']_vars
    BY OneStep
  <1> QED
    BY <1>1, <1>2, <1>3, Inductive, PTL DEF Spec, StartsOwnCode
=============================================================================
