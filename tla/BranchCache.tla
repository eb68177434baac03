---------------------------- MODULE BranchCache ----------------------------
(***************************************************************************)
(* modules/arm2x86_syscall.c: the inline cache of an indirect branch       *)
(* (inline_cache_init, _lookup and _insert) and the list of hot blocks that *)
(* says which block is translated again (profile_record_hit, profile_check). *)
(* The inline cache is used by one thread; the list has a mutex, so each of *)
(* its functions is one step, but a caller asks and acts in two.           *)
(***************************************************************************)
EXTENDS Integers, Sequences, FiniteSets

CONSTANTS
  BrTarget,      \* ARM targets of the branch; NoBr is the zero of an empty entry
  BrCode,        \* x86 entry points
  InlineSize,    \* INLINE_CACHE_SIZE
  NoBr,
  MaxBrHits,     \* a bound on the counters
  BrPc,          \* blocks
  BrThread,
  HotListMax,    \* MAX_HOT_BLOCKS
  HotAfter       \* ARM2X86_HOT_THRESHOLD

ASSUME BranchAssumption ==
  /\ InlineSize \in Nat \ {0} /\ {MaxBrHits, HotListMax, HotAfter} \subseteq Nat
  /\ NoBr \notin BrTarget /\ NoBr \notin BrPc

VARIABLES
  inline,        \* entries: [arm, x86, hits]
  inlineHits, inlineMisses,
  inlineLast,    \* what was last inserted for each target
  brGot,         \* the last lookup: [arm, x86]
  hotList,       \* g_hot_blocks: sequence of [pc, hits, again]
  hotSeen,       \* the block a thread has been told is hot
  retranslations \* how often each block has been translated again

branchVars == <<inline, inlineHits, inlineMisses, inlineLast, brGot, hotList, hotSeen,
                retranslations>>
inlineVars == <<inline, inlineHits, inlineMisses, inlineLast, brGot>>
hotListVars == <<hotList, hotSeen, retranslations>>

-----------------------------------------------------------------------------
FirstOf(S) == CHOOSE i \in S : \A j \in S : i <= j
arm2x86_inline_cache_init ==
  /\ inline' = [i \in 1..InlineSize |-> [arm |-> NoBr, x86 |-> NoBr, hits |-> 0]]
  /\ inlineHits' = 0 /\ inlineMisses' = 0
  /\ inlineLast' = [t \in BrTarget |-> NoBr]
  /\ brGot' = [arm |-> NoBr, x86 |-> NoBr]
  /\ UNCHANGED hotListVars

arm2x86_inline_cache_lookup(t) ==
  LET at == {i \in 1..InlineSize : inline[i].arm = t /\ inline[i].x86 # NoBr}
  IN /\ inlineHits + inlineMisses < MaxBrHits
     /\ \/ /\ at # {}
           /\ inline' = [inline EXCEPT ![FirstOf(at)].hits = @ + 1]
           /\ inlineHits' = inlineHits + 1
           /\ brGot' = [arm |-> t, x86 |-> inline[FirstOf(at)].x86]
           /\ UNCHANGED inlineMisses
        \/ /\ at = {}
           /\ inlineMisses' = inlineMisses + 1
           /\ brGot' = [arm |-> t, x86 |-> NoBr]
           /\ UNCHANGED <<inline, inlineHits>>
     /\ UNCHANGED <<inlineLast, hotListVars>>

(* The first entry with the fewest hits.                                    *)
LruSlot == FirstOf({i \in 1..InlineSize : \A j \in 1..InlineSize : inline[i].hits <= inline[j].hits})
InlineSlotAlwaysNew(t) == LruSlot
(* The entry of the target, whatever its code, or the one to replace.       *)
InlineSlot(t) ==
  LET same == {i \in 1..InlineSize : inline[i].arm = t}
  IN IF same # {} THEN FirstOf(same) ELSE LruSlot
arm2x86_inline_cache_insert(t, x) ==
  /\ inline' = [inline EXCEPT ![InlineSlot(t)] = [arm |-> t, x86 |-> x, hits |-> 0]]
  /\ inlineLast' = [inlineLast EXCEPT ![t] = x]
  /\ UNCHANGED <<inlineHits, inlineMisses, brGot, hotListVars>>

-----------------------------------------------------------------------------
HotListAt(pc) == {i \in DOMAIN hotList : hotList[i].pc = pc}
arm2x86_profile_record_hit(pc) ==
  /\ \/ /\ HotListAt(pc) # {}
        /\ hotList[FirstOf(HotListAt(pc))].hits <= HotAfter
        /\ hotList' = [hotList EXCEPT ![FirstOf(HotListAt(pc))].hits = @ + 1]
     \/ /\ HotListAt(pc) = {} /\ Len(hotList) < HotListMax
        /\ hotList' = Append(hotList, [pc |-> pc, hits |-> 1, again |-> FALSE])
     \/ /\ HotListAt(pc) = {} /\ Len(hotList) >= HotListMax
        /\ UNCHANGED hotList
  /\ UNCHANGED <<inlineVars, hotSeen, retranslations>>

DueOnHits(i) == hotList[i].hits > HotAfter
DueAgainAt(i) == hotList[i].hits > HotAfter /\ ~hotList[i].again
(* The first entry of the block decides.                                    *)
arm2x86_profile_check(t, pc) ==
  /\ hotSeen[t] = NoBr
  /\ HotListAt(pc) # {} /\ DueAgainAt(FirstOf(HotListAt(pc)))
  /\ hotSeen' = [hotSeen EXCEPT ![t] = pc]
  /\ UNCHANGED <<inlineVars, hotList, retranslations>>
(* The caller acts on the answer later; the conditions are looked at again. *)
arm2x86_retranslate_hot_block(t) ==
  LET due == {i \in HotListAt(hotSeen[t]) : DueAgainAt(i)}
  IN /\ hotSeen[t] # NoBr
     /\ \/ /\ due # {}
           /\ hotList' = [hotList EXCEPT ![FirstOf(due)].again = TRUE]
           /\ retranslations' = [retranslations EXCEPT ![hotSeen[t]] = @ + 1]
        \/ due = {} /\ UNCHANGED <<hotList, retranslations>>
     /\ hotSeen' = [hotSeen EXCEPT ![t] = NoBr]
     /\ UNCHANGED inlineVars

BranchInit ==
  /\ inline = [i \in 1..InlineSize |-> [arm |-> NoBr, x86 |-> NoBr, hits |-> 0]]
  /\ inlineHits = 0 /\ inlineMisses = 0
  /\ inlineLast = [t \in BrTarget |-> NoBr]
  /\ brGot = [arm |-> NoBr, x86 |-> NoBr]
  /\ hotList = <<>>
  /\ hotSeen = [t \in BrThread |-> NoBr]
  /\ retranslations = [pc \in BrPc |-> 0]

InlineNext ==
  \/ \E t \in BrTarget :
       \/ arm2x86_inline_cache_lookup(t)
       \/ \E x \in BrCode : arm2x86_inline_cache_insert(t, x)
  \/ arm2x86_inline_cache_init
HotListNext ==
  \/ \E pc \in BrPc : arm2x86_profile_record_hit(pc)
  \/ \E t \in BrThread :
       \/ \E pc \in BrPc : arm2x86_profile_check(t, pc)
       \/ arm2x86_retranslate_hot_block(t)

InlineSpec == BranchInit /\ [][InlineNext]_branchVars
HotListSpec == BranchInit /\ [][HotListNext]_branchVars

-----------------------------------------------------------------------------
(* A branch never goes to code that has been replaced: an entry of the      *)
(* cache holds the code last inserted for its target, even when the target  *)
(* was evicted and inserted again (arm2x86_inline_cache_insert).            *)
InlineNewest ==
  \A i \in 1..InlineSize : inline[i].arm # NoBr => inline[i].x86 = inlineLast[inline[i].arm]

(* However threads interleave their question with the action, a block is    *)
(* translated again at most once (arm2x86_profile_check,                    *)
(* arm2x86_retranslate_hot_block).                                          *)
RetranslatedOnce == \A pc \in BrPc : retranslations[pc] <= 1

(* Not true of the code; see the README: an insert replaces an entry only   *)
(* when no entry is empty.                                                  *)
EmptyFirst ==
  [][\A i \in 1..InlineSize :
       inline[i].arm # NoBr /\ inline'[i].arm \notin {inline[i].arm, NoBr}
         => \A j \in 1..InlineSize : inline[j].arm # NoBr]_branchVars
=============================================================================
