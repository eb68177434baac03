------------------------------ MODULE HotBlock ------------------------------
(***************************************************************************)
(* The hot-block manager (modules/arm2x86_hotblock.c): blocks counted by   *)
(* ARM address, the least recently used one replaced when the table is     *)
(* full, a block that crosses the threshold optimised in four passes.      *)
(* Here the passes either change the code or find nothing (or no memory);  *)
(* what they do to code is in HotPasses.                                   *)
(***************************************************************************)
EXTENDS Naturals, Sequences, FiniteSets

CONSTANTS
  HotPc,        \* ARM block addresses
  HotMax,       \* HOT_BLOCK_MAX
  Threshold,    \* HOT_BLOCK_THRESHOLD
  Aggressive,   \* HOT_BLOCK_AGGRESSIVE; hit counts are not counted past it
  Buffer,       \* addresses malloc gives to optimised code
  MaxClock      \* bound: the clock does not run past it

ASSUME HotAssumption ==
  /\ HotMax \in Nat \ {0} /\ Threshold \in Nat /\ Aggressive \in Nat /\ MaxClock \in Nat
  /\ 0 \notin Buffer

VARIABLES
  hot,          \* hbm->blocks[0 .. count-1]
  clock,        \* gettimeofday; two hits may see the same time
  buffers,      \* optimised code that is allocated
  phaseLeak     \* pass buffers nobody can free any more exist

hotVars == <<hot, clock, buffers, phaseLeak>>

NoCode == 0

HotIx == DOMAIN hot
HotAt(pc) == {i \in HotIx : hot[i].arm_pc = pc}
OldestFirst(i) == \A j \in HotIx : \/ hot[i].last_access < hot[j].last_access
                                   \/ hot[i].last_access = hot[j].last_access /\ i <= j
Lru == CHOOSE i \in HotIx : OldestFirst(i)
TableFull == Len(hot) >= HotMax
FreshBlock(pc) == [arm_pc |-> pc, hit_count |-> 0, last_access |-> 0,
                   retranslated |-> FALSE, aggressive |-> FALSE, x86_optimized |-> NoCode]

(* The table and the live buffers once the block of pc has a slot. *)
Slotted(pc) ==
  IF HotAt(pc) # {} THEN hot
  ELSE IF TableFull THEN [hot EXCEPT ![Lru] = FreshBlock(pc)]
  ELSE Append(hot, FreshBlock(pc))
AfterEvictKept(pc) == buffers
AfterEvict(pc) ==
  IF HotAt(pc) = {} /\ TableFull THEN buffers \ {hot[Lru].x86_optimized} ELSE buffers
HotSlot(pc) == CHOOSE i \in DOMAIN Slotted(pc) : Slotted(pc)[i].arm_pc = pc

HotCounted(n) == IF n < Aggressive THEN n + 1 ELSE n
Hit(pc, now) ==
  [Slotted(pc) EXCEPT ![HotSlot(pc)].hit_count = HotCounted(@),
                      ![HotSlot(pc)].last_access = now]

hotblock_should_retranslate(b) == b.hit_count >= Threshold
Due(b) == hotblock_should_retranslate(b) /\ ~b.retranslated

Tick(now) == now \in {clock, clock + 1} /\ now <= MaxClock /\ clock' = now

(* hotblock_record_hit below the threshold, or for a block done before. *)
RecordHit(pc) ==
  /\ \E now \in clock .. clock + 1 :
       /\ Tick(now)
       /\ ~Due(Hit(pc, now)[HotSlot(pc)])
       /\ hot' = Hit(pc, now)
  /\ buffers' = AfterEvict(pc)
  /\ UNCHANGED phaseLeak

(***************************************************************************)
(* hotblock_retranslate: hotblock_apply_optimizations runs the passes;     *)
(* when one changed the code the result is copied to memory of the block's *)
(* own, and the last pass buffer is not freed.  optimized_buffer never is. *)
(***************************************************************************)
Optimised(b, changed, copy) ==
  [b EXCEPT !.x86_optimized = IF changed THEN copy ELSE @,
            !.retranslated = changed,
            !.aggressive = b.aggressive \/ b.hit_count >= Aggressive]
Copies(live) == {c \in Buffer : c \notin live} \cup {NoCode}
BuffersAfter(live, b, changed, copy) ==
  IF changed THEN (live \ {b.x86_optimized}) \cup ({copy} \ {NoCode}) ELSE live
Retranslate(pc) ==
  \E now \in clock .. clock + 1, changed \in BOOLEAN :
    /\ Tick(now)
    /\ LET h == Hit(pc, now)
           b == h[HotSlot(pc)]
           live == AfterEvict(pc)
       IN  /\ Due(b)
           /\ \E copy \in Copies(live) :
                /\ changed \/ copy = NoCode
                /\ hot' = [h EXCEPT ![HotSlot(pc)] = Optimised(b, changed, copy)]
                /\ buffers' = BuffersAfter(live, b, changed, copy)
           /\ phaseLeak' = TRUE

(* hotblock_destroy, then hotblock_init. *)
hotblock_destroy ==
  /\ hot # <<>> /\ hot' = <<>>
  /\ buffers' = buffers \ {hot[i].x86_optimized : i \in HotIx}
  /\ UNCHANGED <<clock, phaseLeak>>

HotInit == hot = <<>> /\ clock = 0 /\ buffers = {} /\ phaseLeak = FALSE
HotNext ==
  \/ \E pc \in HotPc : RecordHit(pc) \/ Retranslate(pc)
  \/ hotblock_destroy
HotSpec == HotInit /\ [][HotNext]_hotVars
-----------------------------------------------------------------------------
(* Every optimised code belongs to exactly one block and lives as long as  *)
(* the block: replacing, optimising again and destroying neither free it   *)
(* twice nor lose it.                                                      *)
OptimisedOwned ==
  /\ buffers = {hot[i].x86_optimized : i \in HotIx} \ {NoCode}
  /\ \A i, j \in HotIx : i # j /\ hot[i].x86_optimized # NoCode
                           => hot[i].x86_optimized # hot[j].x86_optimized

(* A block is counted in one place, so its threshold is reached. *)
CountedOnce == \A i, j \in HotIx : i # j => hot[i].arm_pc # hot[j].arm_pc

(* A block is counted in one slot, and its optimised code lives exactly as *)
(* long as it is in the slot (hotblock_record_hit).                        *)
HotRight == OptimisedOwned /\ CountedOnce

(* A block marked as retranslated has code to run. *)
RetranslatedHasCode == \A i \in HotIx : hot[i].retranslated => hot[i].x86_optimized # NoCode
(* The passes leave no memory behind. *)
NoPhaseLeak == ~phaseLeak
=============================================================================
