--------------------------- MODULE SyscallProofs ---------------------------
(***************************************************************************)
(* Proofs about the parts of modules/arm2x86_syscall.c that keep state:    *)
(* the number table and the bridge's signal handlers (Syscalls), inline    *)
(* caches and the hot list (BranchCache), the reflection cache             *)
(* (Reflection) and linker namespaces (Namespaces), for tables of every    *)
(* size and any number of threads.                                         *)
(***************************************************************************)
EXTENDS Syscalls, BranchCache, Reflection, Namespaces, SetFacts, FiniteSetTheorems, SequenceTheorems, TLAPS

-----------------------------------------------------------------------------
(***************************************************************************)
(* The number table.  An entry is good once it has been cleared: from then *)
(* on it is -1 or its number, however many threads clear and fill again.   *)
(* A thread that clears has made the entries below its index good, and     *)
(* whoever fills or reads has seen all of them good.                       *)
(***************************************************************************)
Good(nr) == lookup[nr] \in {-1} \union {n \in 0..NrKnown - 1 : n = nr}
AllGood == \A nr \in 0..NrMax - 1 : Good(nr)

ScAtType == [at : {"idle", "enter", "clear", "fill", "read"}, i : 0..NrMax, nr : Int]
LookupType ==
  /\ lookup \in [0..NrMax - 1 -> Int]
  /\ scAt \in [ScThread -> ScAtType]
  /\ scResult \in [ScThread -> [nr : Int, got : Int]]

LookupInv ==
  /\ LookupType
  /\ lookupReady => AllGood
  /\ \A t \in ScThread :
       /\ scAt[t].at = "enter" => scAt[t].i = 0
       /\ scAt[t].at = "clear" => \A nr \in 0..scAt[t].i - 1 : nr < NrMax => Good(nr)
       /\ scAt[t].at = "clear" => scAt[t].i < NrMax
       /\ scAt[t].at \in {"fill", "read"} => AllGood
       /\ scAt[t].at = "fill" => scAt[t].i <= NrKnown
  /\ NumberOrUnknown

\* Changing one field of one thread keeps the type.
LEMMA AtTyped ==
  ASSUME NEW f \in [ScThread -> ScAtType], NEW t \in ScThread, NEW j \in 0..NrMax,
         NEW a \in {"idle", "enter", "clear", "fill", "read"}
  PROVE  /\ [f EXCEPT ![t].i = j] \in [ScThread -> ScAtType]
         /\ [f EXCEPT ![t].at = a] \in [ScThread -> ScAtType]
  <1>1. f[t] \in ScAtType
    OBVIOUS
  <1>2. [f[t] EXCEPT !.i = j] \in ScAtType /\ [f[t] EXCEPT !.at = a] \in ScAtType
    BY <1>1 DEF ScAtType
  <1> QED
    BY <1>2

\* The first state satisfies the invariant.
LEMMA LookupStart == ScInit => LookupInv
  <1> SUFFICES ASSUME ScInit PROVE LookupInv
    OBVIOUS
  <1>1. LookupType
    BY ScAssumption DEF ScInit, LookupType, ScAtType, ScIdle
  <1>2. NumberOrUnknown
    BY ScAssumption DEF ScInit, NumberOrUnknown, syscall_table
  <1>3. ~lookupReady /\ \A t \in ScThread : scAt[t].at = "idle"
    BY DEF ScInit, ScIdle
  <1> QED
    BY <1>1, <1>2, <1>3 DEF LookupInv

\* What the steps of one thread have in common: entries stay good.
LEMMA GoodStays ==
  ASSUME LookupInv, NEW t \in ScThread,
         InitClear(t) \/ InitFill(t)
  PROVE  /\ \A nr \in 0..NrMax - 1 : Good(nr) => Good(nr)'
         /\ InitClear(t) => lookup'[scAt[t].i] = -1
         /\ lookup' \in [0..NrMax - 1 -> Int]
  <1>1. CASE InitClear(t)
    <2>1. lookup' = [lookup EXCEPT ![scAt[t].i] = -1] /\ scAt[t].i \in 0..NrMax - 1
      BY <1>1, ScAssumption DEF LookupInv, LookupType, ScAtType, InitClear
    <2>2. ~InitFill(t) /\ NrKnown \in Int
      BY <1>1, ScAssumption DEF InitClear, InitFill
    <2> QED
      BY <2>1, <2>2, <1>1 DEF LookupInv, LookupType, ScAtType, Good
  <1>2. CASE InitFill(t)
    <2>1. CASE scAt[t].i < NrKnown
      <3>1. scAt[t].i \in Nat /\ lookup \in [0..NrMax - 1 -> Int]
        BY DEF LookupInv, LookupType, ScAtType
      <3>2. scAt[t].i \in 0..NrKnown - 1 /\ scAt[t].i \in 0..NrMax - 1 /\ NrKnown \in Int
        BY <2>1, <3>1, ScAssumption
      <3>3. syscall_table[scAt[t].i] = scAt[t].i
        BY <3>2 DEF syscall_table
      <3>4. lookup' = [lookup EXCEPT ![scAt[t].i] = scAt[t].i] /\ ~InitClear(t)
        BY <1>2, <2>1, <3>2, <3>3 DEF InitFill, InitClear
      <3> QED
        BY <3>1, <3>2, <3>4 DEF Good
    <2>2. CASE scAt[t].i = NrKnown
      BY <1>2, <2>2, ScAssumption DEF LookupInv, LookupType, ScAtType, InitFill, InitClear, Good
    <2> QED
      BY <1>2, <2>1, <2>2 DEF InitFill
  <1> QED
    BY <1>1, <1>2

\* Every step keeps the invariant.
LEMMA LookupStep == LookupInv /\ [LookupNext]_lookupVars => LookupInv'
  <1> SUFFICES ASSUME LookupInv, [LookupNext]_lookupVars PROVE LookupInv'
    OBVIOUS
  <1>1. ASSUME NEW t \in ScThread, NEW nr \in -1..NrMax, translate_syscall_number(t, nr)
        PROVE  LookupInv'
    BY <1>1, ScAssumption DEF LookupInv, LookupType, ScAtType, translate_syscall_number, AllGood, Good,
       NumberOrUnknown
  <1>2. ASSUME NEW t \in ScThread, init_syscall_lookup(t) PROVE LookupInv'
    <2>1. NumberOrUnknown' /\ (lookupReady' => AllGood')
      BY <1>2 DEF LookupInv, init_syscall_lookup, AllGood, Good, NumberOrUnknown
    <2>2. \A u \in ScThread : u # t => scAt'[u] = scAt[u]
      BY <1>2 DEF LookupInv, LookupType, ScAtType, init_syscall_lookup
    <2>3. \/ scAt'[t].at = "read" /\ lookupReady
          \/ scAt'[t].at = "clear" /\ scAt'[t].i = scAt[t].i
      BY <1>2 DEF LookupInv, LookupType, ScAtType, init_syscall_lookup
    <2>4. lookup' = lookup /\ scAt[t].i = 0
      BY <1>2 DEF init_syscall_lookup, LookupInv
    <2>5. PICK l \in {"read", "clear"} : scAt' = [scAt EXCEPT ![t].at = l]
      BY <1>2 DEF init_syscall_lookup
    <2>6. LookupType'
      <3>1. scAt \in [ScThread -> ScAtType] /\ 0 \in 0..NrMax
        BY ScAssumption DEF LookupInv, LookupType
      <3>2. scAt' \in [ScThread -> ScAtType]
        BY <2>5, <3>1, AtTyped
      <3> QED
        BY <1>2, <3>2 DEF LookupInv, LookupType, init_syscall_lookup
    <2> QED
      BY <2>1, <2>2, <2>3, <2>4, <2>6, ScAssumption DEF LookupInv, AllGood, Good
  <1>3. ASSUME NEW t \in ScThread, InitClear(t) PROVE LookupInv'
    <2>0. lookup' \in [0..NrMax - 1 -> Int] /\ scResult' = scResult
      BY <1>3, GoodStays DEF InitClear
    <2>1. LookupType'
      <3>1. CASE scAt' = [scAt EXCEPT ![t].i = @ + 1] /\ scAt[t].i + 1 < NrMax
        <4>1. scAt[t].i + 1 \in 0..NrMax /\ scAt \in [ScThread -> ScAtType]
          BY <3>1, ScAssumption DEF LookupInv, LookupType, ScAtType
        <4>2. scAt' \in [ScThread -> ScAtType]
          BY <3>1, <4>1, AtTyped
        <4> QED
          BY <2>0, <4>2 DEF LookupInv, LookupType
      <3>2. CASE scAt' = [scAt EXCEPT ![t] = [at |-> "fill", i |-> 0, nr |-> scAt[t].nr]]
        BY <3>2, <2>0, ScAssumption DEF LookupInv, LookupType, ScAtType
      <3> QED
        BY <1>3, <3>1, <3>2 DEF InitClear
    <2>2. \A u \in ScThread : u # t => scAt'[u] = scAt[u]
      BY <1>3 DEF LookupInv, LookupType, ScAtType, InitClear
    <2>3. AllGood => AllGood'
      BY <1>3, GoodStays DEF AllGood
    <2>4. \A nr \in 0..scAt[t].i : nr < NrMax => Good(nr)'
      <3> TAKE nr \in 0..scAt[t].i
      <3> HAVE nr < NrMax
      <3>1. nr \in 0..NrMax - 1 /\ scAt[t].i \in Nat /\ scAt[t].at = "clear"
        BY <1>3, ScAssumption DEF LookupInv, LookupType, ScAtType, InitClear
      <3>2. CASE nr = scAt[t].i
        BY <3>2, <1>3, GoodStays DEF Good
      <3>3. CASE nr # scAt[t].i
        <4>1. nr \in 0..scAt[t].i - 1
          BY <3>1, <3>3
        <4>2. Good(nr)
          BY <3>1, <4>1 DEF LookupInv
        <4> QED
          BY <1>3, <3>1, <4>2, GoodStays
      <3> QED
        BY <3>2, <3>3
    <2>5. \/ scAt[t].i + 1 < NrMax /\ scAt'[t].at = "clear" /\ scAt'[t].i = scAt[t].i + 1
          \/ scAt[t].i + 1 = NrMax /\ scAt'[t].at = "fill" /\ scAt'[t].i = 0
      BY <1>3, ScAssumption DEF LookupInv, LookupType, ScAtType, InitClear
    <2>6. scAt'[t].at = "fill" => AllGood'
      <3>1. scAt[t].i \in Nat
        BY DEF LookupInv, LookupType, ScAtType
      <3> SUFFICES ASSUME scAt'[t].at = "fill", NEW nr \in 0..NrMax - 1 PROVE Good(nr)'
        BY DEF AllGood
      <3>2. scAt[t].i + 1 = NrMax
        BY <2>5
      <3>3. nr \in 0..scAt[t].i /\ nr < NrMax
        BY <3>1, <3>2
      <3> QED
        BY <2>4, <3>3
    <2>7. \A u \in ScThread :
            /\ scAt'[u].at = "enter" => scAt'[u].i = 0
            /\ scAt'[u].at = "clear" => \A nr \in 0..scAt'[u].i - 1 : nr < NrMax => Good(nr)'
            /\ scAt'[u].at = "clear" => scAt'[u].i < NrMax
            /\ scAt'[u].at \in {"fill", "read"} => AllGood'
            /\ scAt'[u].at = "fill" => scAt'[u].i <= NrKnown
      <3> TAKE u \in ScThread
      <3>1. CASE u = t
        <4>1. scAt[t].i \in Nat
          BY DEF LookupInv, LookupType, ScAtType
        <4>2. CASE scAt'[t].at = "clear" /\ scAt'[t].i = scAt[t].i + 1 /\ scAt[t].i + 1 < NrMax
          <5>1. 0..scAt'[t].i - 1 = 0..scAt[t].i
            BY <4>1, <4>2
          <5> QED
            BY <2>4, <3>1, <4>2, <5>1
        <4>3. CASE scAt'[t].at = "fill" /\ scAt'[t].i = 0
          BY <2>6, <3>1, <4>3, ScAssumption
        <4> QED
          BY <2>5, <4>2, <4>3
      <3>2. CASE u # t
        <4>1. scAt'[u] = scAt[u]
          BY <2>2, <3>2
        <4>2. ASSUME NEW nr \in 0..scAt[u].i - 1, nr < NrMax, Good(nr) PROVE Good(nr)'
          <5>1. nr \in 0..NrMax - 1
            BY <4>2, ScAssumption DEF LookupInv, LookupType, ScAtType
          <5> QED
            BY <1>3, <4>2, <5>1, GoodStays
        <4> QED
          BY <2>3, <4>1, <4>2 DEF LookupInv
      <3> QED
        BY <3>1, <3>2
    <2>8. NumberOrUnknown' /\ (lookupReady' => AllGood')
      BY <1>3, <2>3 DEF LookupInv, InitClear, NumberOrUnknown
    <2> QED
      BY <2>1, <2>7, <2>8 DEF LookupInv
  <1>4. ASSUME NEW t \in ScThread, InitFill(t) PROVE LookupInv'
    <2>0. lookup' \in [0..NrMax - 1 -> Int] /\ scResult' = scResult
      BY <1>4, GoodStays DEF InitFill
    <2>1. LookupType'
      <3>1. CASE scAt' = [scAt EXCEPT ![t].i = @ + 1] /\ scAt[t].i < NrKnown
        <4>1. scAt[t].i + 1 \in 0..NrMax /\ scAt \in [ScThread -> ScAtType]
          BY <3>1, ScAssumption DEF LookupInv, LookupType, ScAtType
        <4>2. scAt' \in [ScThread -> ScAtType]
          BY <3>1, <4>1, AtTyped
        <4> QED
          BY <2>0, <4>2 DEF LookupInv, LookupType
      <3>2. CASE scAt' = [scAt EXCEPT ![t].at = "read"]
        BY <3>2, <2>0 DEF LookupInv, LookupType, ScAtType
      <3> QED
        BY <1>4, <3>1, <3>2 DEF InitFill
    <2>2. AllGood'
      BY <1>4, GoodStays DEF LookupInv, InitFill, AllGood
    <2>3. \A u \in ScThread : u # t => scAt'[u] = scAt[u]
      BY <1>4 DEF LookupInv, LookupType, ScAtType, InitFill
    <2>4. /\ scAt'[t].at \in {"fill", "read"}
          /\ scAt'[t].at = "fill" => scAt'[t].i <= NrKnown
      BY <1>4, ScAssumption DEF LookupInv, LookupType, ScAtType, InitFill
    <2>5. NumberOrUnknown'
      BY <1>4 DEF LookupInv, InitFill, NumberOrUnknown
    <2>6. \A u \in ScThread :
            /\ scAt'[u].at = "enter" => scAt'[u].i = 0
            /\ scAt'[u].at = "clear" => \A nr \in 0..scAt'[u].i - 1 : nr < NrMax => Good(nr)'
            /\ scAt'[u].at = "clear" => scAt'[u].i < NrMax
            /\ scAt'[u].at = "fill" => scAt'[u].i <= NrKnown
      <3> TAKE u \in ScThread
      <3>1. \A nr \in 0..scAt'[u].i - 1 : nr < NrMax => Good(nr)'
        BY <2>1, <2>2, ScAssumption DEF AllGood, LookupType, ScAtType
      <3> QED
        BY <3>1, <2>3, <2>4 DEF LookupInv
    <2> QED
      BY <2>1, <2>2, <2>5, <2>6 DEF LookupInv
  <1>5. ASSUME NEW t \in ScThread, LookupReturn(t) PROVE LookupInv'
    <2>1. scResult' = [scResult EXCEPT ![t] =
            [nr |-> scAt[t].nr,
             got |-> IF scAt[t].nr \in 0..NrMax - 1 THEN lookup[scAt[t].nr] ELSE -1]]
      BY <1>5 DEF LookupReturn
    <2>2. scAt[t].nr \in 0..NrMax - 1 => Good(scAt[t].nr)
      BY <1>5 DEF LookupReturn, LookupInv, AllGood
    <2>3. NumberOrUnknown'
      BY <2>1, <2>2, ScAssumption DEF LookupInv, LookupType, ScAtType, NumberOrUnknown, Good, syscall_table
    <2> QED
      BY <1>5, <2>3, ScAssumption DEF LookupInv, LookupType, ScAtType, LookupReturn, ScIdle, AllGood, Good
  <1>6. CASE UNCHANGED lookupVars
    BY <1>6 DEF lookupVars, LookupInv, LookupType, ScAtType, AllGood, Good, NumberOrUnknown
  <1> QED
    BY <1>1, <1>2, <1>3, <1>4, <1>5, <1>6 DEF LookupNext

\* However many threads fill the table of translate_syscall_number at the same
\* time, no lookup returns an entry that has not been cleared.
THEOREM NumbersSafe == LookupSpec => []NumberOrUnknown
  <1>1. LookupInv => NumberOrUnknown
    BY DEF LookupInv
  <1> QED
    BY <1>1, LookupStart, LookupStep, PTL DEF LookupSpec

-----------------------------------------------------------------------------
(***************************************************************************)
(* The signal handlers of the bridge, when a signal is registered at most  *)
(* once at a time, over a handler of the application.  The wrapper is      *)
(* installed only while there is a handler for it to call and an action to *)
(* put back that is not the null pointer SIG_DFL.                          *)
(***************************************************************************)
BridgeUse ==
  /\ RegisterAgain = FALSE
  /\ \A s \in BridgeSig : AppAction[s] = "app"
  /\ "null" \notin BridgeHandler

BridgeInv ==
  /\ bridge \in [BridgeSig -> BridgeHandler \union {"null"}]
  /\ action \in [BridgeSig -> {"app", "wrapper"}]
  /\ oldAction \in [BridgeSig -> {"app", "default"}]
  /\ bridgeAt.at \in {"idle", "install", "clear"}
  /\ \A s \in BridgeSig : action[s] = "wrapper" => bridge[s] # "null" /\ oldAction[s] = "app"
  /\ bridgeAt.at = "install" =>
       bridgeAt.sig \in BridgeSig /\ bridge[bridgeAt.sig] # "null" /\ action[bridgeAt.sig] = "app"
  /\ bridgeAt.at = "clear" => bridgeAt.sig \in BridgeSig /\ action[bridgeAt.sig] = "app"
  /\ NoSignalLost

\* Every step of registering, unregistering and delivering keeps the invariant.
LEMMA BridgeStep ==
  ASSUME BridgeUse, BridgeInv, [BridgeNext]_bridgeVars PROVE BridgeInv'
  <1>1. ASSUME NEW s \in BridgeSig, NEW h \in BridgeHandler, RegisterStore(s, h)
        PROVE  BridgeInv'
    BY <1>1 DEF BridgeUse, BridgeInv, RegisterStore, NoSignalLost
  <1>2. ASSUME NEW s \in BridgeSig, UnregisterBegin(s) PROVE BridgeInv'
    BY <1>2 DEF BridgeInv, UnregisterBegin, UnregisterRestore, OldRestored, NoSignalLost
  <1>3. ASSUME NEW s \in BridgeSig, signal_wrapper(s) PROVE BridgeInv'
    BY <1>3 DEF BridgeInv, signal_wrapper, NoSignalLost
  <1>4. CASE RegisterInstall
    BY <1>4 DEF BridgeInv, RegisterInstall, NoSignalLost
  <1>5. CASE UnregisterEnd
    BY <1>5 DEF BridgeInv, UnregisterEnd, NoSignalLost
  <1>6. CASE UNCHANGED bridgeVars
    BY <1>6 DEF bridgeVars, BridgeInv, NoSignalLost
  <1> QED
    BY <1>1, <1>2, <1>3, <1>4, <1>5, <1>6 DEF BridgeNext

\* Wherever a signal interrupts NativeBridgeRegisterSignalHandler and
\* NativeBridgeUnregisterSignalHandler, it is not dropped, if the application
\* had a handler for it and the library registers it once.
THEOREM SignalsKept == ASSUME BridgeUse PROVE BridgeSpec => []NoSignalLost
  <1>1. ScInit => BridgeInv
    BY DEF BridgeUse, ScInit, BridgeInv, NoSignalLost
  <1>2. BridgeInv /\ [BridgeNext]_bridgeVars => BridgeInv'
    BY BridgeStep
  <1>3. BridgeInv => NoSignalLost
    BY DEF BridgeInv
  <1> QED
    BY <1>1, <1>2, <1>3, PTL DEF BridgeSpec

-----------------------------------------------------------------------------
(***************************************************************************)
(* The inline cache.  InlineNewest is inductive once no target has two     *)
(* entries: an insert changes the first entry it finds, and a second one   *)
(* would keep the old code.                                                *)
(***************************************************************************)
InlineType ==
  /\ inline \in [1..InlineSize -> [arm : BrTarget \union {NoBr}, x86 : BrCode \union {NoBr},
                                   hits : Nat]]
  /\ inlineLast \in [BrTarget -> BrCode \union {NoBr}]
InlineOnce ==
  \A i, j \in 1..InlineSize : inline[i].arm = inline[j].arm /\ inline[i].arm # NoBr => i = j
InlineInv == InlineType /\ InlineOnce /\ InlineNewest

\* The first member of a nonempty set of indices is one of them.
LEMMA FirstIn == ASSUME NEW S \in SUBSET Nat, S # {} PROVE FirstOf(S) \in S
  BY MinNat DEF FirstOf

\* There is an entry with the fewest hits.
LEMMA LruSlotIn == ASSUME InlineType PROVE LruSlot \in 1..InlineSize
  <1> DEFINE H == {inline[i].hits : i \in 1..InlineSize}
             Least == {i \in 1..InlineSize :
                         \A j \in 1..InlineSize : inline[i].hits <= inline[j].hits}
  <1>1. H \in SUBSET Nat /\ H # {}
    <2>1. 1 \in 1..InlineSize
      BY BranchAssumption
    <2> QED
      BY <2>1 DEF InlineType
  <1>2. Min(H) \in H /\ \A y \in H : Min(H) <= y
    BY <1>1, MinNat
  <1>3. PICK i \in 1..InlineSize : inline[i].hits = Min(H)
    BY <1>2
  <1>4. i \in Least
    BY <1>2, <1>3
  <1>5. Least \in SUBSET Nat /\ Least # {} /\ Least \subseteq 1..InlineSize
    BY <1>4
  <1>6. FirstOf(Least) \in Least
    BY <1>5, FirstIn
  <1> QED
    BY <1>5, <1>6 DEF LruSlot

\* An insert goes to the target's entry if there is one.
LEMMA InlineSlotIn ==
  ASSUME InlineType, NEW t \in BrTarget
  PROVE  /\ InlineSlot(t) \in 1..InlineSize
         /\ (\E i \in 1..InlineSize : inline[i].arm = t) => inline[InlineSlot(t)].arm = t
  <1> DEFINE same == {i \in 1..InlineSize : inline[i].arm = t}
  <1>1. CASE same = {}
    BY <1>1, LruSlotIn DEF InlineSlot
  <1>2. CASE same # {}
    <2>1. same \in SUBSET Nat
      OBVIOUS
    <2>2. FirstOf(same) \in same
      BY <1>2, <2>1, FirstIn
    <2> QED
      BY <1>2, <2>2 DEF InlineSlot
  <1> QED
    BY <1>1, <1>2

\* Every call keeps the invariant.
LEMMA InlineStep == InlineInv /\ [InlineNext]_branchVars => InlineInv'
  <1> SUFFICES ASSUME InlineInv, [InlineNext]_branchVars PROVE InlineInv'
    OBVIOUS
  <1>1. ASSUME NEW t \in BrTarget, arm2x86_inline_cache_lookup(t) PROVE InlineInv'
    <2> DEFINE at == {i \in 1..InlineSize : inline[i].arm = t /\ inline[i].x86 # NoBr}
    <2>1. CASE at = {}
      BY <1>1, <2>1 DEF arm2x86_inline_cache_lookup, InlineInv, InlineType, InlineOnce,
         InlineNewest
    <2>2. CASE at # {}
      <3>1. FirstOf(at) \in 1..InlineSize
        BY <2>2, FirstIn
      <3>2. /\ inline' = [inline EXCEPT ![FirstOf(at)].hits = @ + 1]
            /\ inlineLast' = inlineLast
        BY <1>1, <2>2 DEF arm2x86_inline_cache_lookup
      <3> HIDE DEF at
      <3>3. \A i \in 1..InlineSize : inline'[i].arm = inline[i].arm /\ inline'[i].x86 = inline[i].x86
        BY <3>1, <3>2 DEF InlineInv, InlineType
      <3>4. InlineType'
        BY <3>1, <3>2 DEF InlineInv, InlineType
      <3> QED
        BY <3>2, <3>3, <3>4 DEF InlineInv, InlineOnce, InlineNewest
    <2> QED
      BY <2>1, <2>2
  <1>2. ASSUME NEW t \in BrTarget, NEW x \in BrCode, arm2x86_inline_cache_insert(t, x)
        PROVE  InlineInv'
    <2> DEFINE k == InlineSlot(t)
    <2>1. k \in 1..InlineSize /\ ((\E i \in 1..InlineSize : inline[i].arm = t) => inline[k].arm = t)
      BY InlineSlotIn DEF InlineInv
    <2>2. /\ inline' = [inline EXCEPT ![k] = [arm |-> t, x86 |-> x, hits |-> 0]]
          /\ inlineLast' = [inlineLast EXCEPT ![t] = x]
      BY <1>2 DEF arm2x86_inline_cache_insert
    <2> HIDE DEF k
    <2>3. InlineType'
      BY <2>1, <2>2 DEF InlineInv, InlineType
    <2>4. inline'[k] = [arm |-> t, x86 |-> x, hits |-> 0]
          /\ \A i \in 1..InlineSize : i # k => inline'[i] = inline[i] /\ inline[i].arm # t
      BY <2>1, <2>2, BranchAssumption DEF InlineInv, InlineType, InlineOnce
    <2>5. InlineOnce'
      BY <2>1, <2>4 DEF InlineInv, InlineOnce
    <2>6. InlineNewest'
      BY <2>1, <2>2, <2>4 DEF InlineInv, InlineType, InlineNewest
    <2> QED
      BY <2>3, <2>5, <2>6 DEF InlineInv
  <1>3. CASE arm2x86_inline_cache_init
    BY <1>3 DEF arm2x86_inline_cache_init, InlineInv, InlineType, InlineOnce, InlineNewest
  <1>4. CASE UNCHANGED branchVars
    BY <1>4 DEF branchVars, InlineInv, InlineType, InlineOnce, InlineNewest
  <1> QED
    BY <1>1, <1>2, <1>3, <1>4 DEF InlineNext

\* An indirect branch never goes through arm2x86_inline_cache_lookup to code
\* that an insert has replaced, for caches of every size.
THEOREM InlineCurrent == InlineSpec => []InlineNewest
  <1>1. BranchInit => InlineInv
    BY DEF BranchInit, InlineInv, InlineType, InlineOnce, InlineNewest
  <1>2. InlineInv => InlineNewest
    BY DEF InlineInv
  <1> QED
    BY <1>1, <1>2, InlineStep, PTL DEF InlineSpec

-----------------------------------------------------------------------------
(***************************************************************************)
(* The list of hot blocks.  A block that has been translated again is in   *)
(* the list with its flag set, and it is there once.                       *)
(***************************************************************************)
HotEntry == [pc : BrPc, hits : Nat, again : BOOLEAN]
HotListOnce == \A i, j \in DOMAIN hotList : hotList[i].pc = hotList[j].pc => i = j
HotListInv ==
  /\ hotList \in Seq(HotEntry) /\ HotListOnce
  /\ hotSeen \in [BrThread -> BrPc \union {NoBr}]
  /\ retranslations \in [BrPc -> {0, 1}]
  /\ \A pc \in BrPc :
       retranslations[pc] = 1 => \E i \in DOMAIN hotList : hotList[i].pc = pc /\ hotList[i].again

\* Changing the hits or the flag of an entry keeps the list well formed.
LEMMA HotTyped ==
  ASSUME hotList \in Seq(HotEntry), NEW i \in DOMAIN hotList
  PROVE  /\ [hotList EXCEPT ![i].hits = @ + 1] \in Seq(HotEntry)
         /\ [hotList EXCEPT ![i].again = TRUE] \in Seq(HotEntry)
  <1>1. hotList[i] \in HotEntry
    OBVIOUS
  <1>2. [hotList[i] EXCEPT !.hits = @ + 1] \in HotEntry
    BY <1>1 DEF HotEntry
  <1>3. [hotList[i] EXCEPT !.again = TRUE] \in HotEntry
    BY <1>1, Zenon DEF HotEntry
  <1> QED
    BY <1>2, <1>3

\* Every call keeps the invariant.
LEMMA HotListStep == HotListInv /\ [HotListNext]_branchVars => HotListInv'
  <1> SUFFICES ASSUME HotListInv, [HotListNext]_branchVars PROVE HotListInv'
    OBVIOUS
  <1>0. \A pc : HotListAt(pc) \in SUBSET Nat
    BY DEF HotListInv, HotListAt
  <1>1. ASSUME NEW pc \in BrPc, arm2x86_profile_record_hit(pc) PROVE HotListInv'
    <2>0. hotSeen' = hotSeen /\ retranslations' = retranslations
      BY <1>1 DEF arm2x86_profile_record_hit
    <2>1. CASE HotListAt(pc) # {}
      <3> DEFINE i == FirstOf(HotListAt(pc))
      <3>1. i \in DOMAIN hotList
        BY <1>0, <2>1, FirstIn DEF HotListAt
      <3>2. hotList' = [hotList EXCEPT ![i].hits = @ + 1]
        BY <1>1, <2>1 DEF arm2x86_profile_record_hit
      <3> HIDE DEF i
      <3>3. hotList' \in Seq(HotEntry)
        BY <3>1, <3>2, HotTyped DEF HotListInv
      <3>4. DOMAIN hotList' = DOMAIN hotList
            /\ \A j \in DOMAIN hotList : /\ hotList'[j].pc = hotList[j].pc
                                         /\ hotList'[j].again = hotList[j].again
        <4>1. hotList[i] \in HotEntry
          BY <3>1 DEF HotListInv
        <4> QED
          BY <3>1, <3>2, <4>1 DEF HotListInv, HotEntry
      <3> QED
        BY <2>0, <3>3, <3>4 DEF HotListInv, HotListOnce
    <2>2. CASE HotListAt(pc) = {} /\ hotList' = Append(hotList, [pc |-> pc, hits |-> 1, again |-> FALSE])
      <3> DEFINE e == [pc |-> pc, hits |-> 1, again |-> FALSE]
      <3>1. e \in HotEntry /\ e.pc = pc
        BY DEF HotEntry
      <3>2. /\ hotList' \in Seq(HotEntry) /\ Len(hotList') = Len(hotList) + 1
            /\ hotList'[Len(hotList) + 1] = e
            /\ \A j \in 1..Len(hotList) : hotList'[j] = hotList[j]
        BY <2>2, <3>1 DEF HotListInv
      <3>3. \A j \in 1..Len(hotList) : hotList[j].pc # pc
        BY <2>2 DEF HotListInv, HotListAt
      <3> HIDE DEF e
      <3>4. HotListOnce'
        BY <3>1, <3>2, <3>3 DEF HotListInv, HotListOnce
      <3>5. \A q \in BrPc : retranslations'[q] = 1 =>
              \E j \in DOMAIN hotList' : hotList'[j].pc = q /\ hotList'[j].again
        <4>1. DOMAIN hotList = 1..Len(hotList) /\ DOMAIN hotList' = 1..Len(hotList) + 1
          BY <3>2 DEF HotListInv
        <4> QED
          BY <2>0, <3>2, <4>1 DEF HotListInv
      <3> QED
        BY <2>0, <3>2, <3>4, <3>5 DEF HotListInv
    <2>3. CASE hotList' = hotList
      BY <2>0, <2>3 DEF HotListInv, HotListOnce
    <2> QED
      BY <1>1, <2>1, <2>2, <2>3 DEF arm2x86_profile_record_hit
  <1>2. ASSUME NEW t \in BrThread, NEW pc \in BrPc, arm2x86_profile_check(t, pc) PROVE HotListInv'
    BY <1>2 DEF arm2x86_profile_check, HotListInv, HotListOnce
  <1>3. ASSUME NEW t \in BrThread, arm2x86_retranslate_hot_block(t) PROVE HotListInv'
    <2> DEFINE pc == hotSeen[t]
               due == {i \in HotListAt(pc) : DueAgainAt(i)}
    <2>1. pc \in BrPc /\ hotSeen' \in [BrThread -> BrPc \union {NoBr}]
      BY <1>3 DEF arm2x86_retranslate_hot_block, HotListInv
    <2>2. CASE due = {}
      BY <1>3, <2>1, <2>2 DEF arm2x86_retranslate_hot_block, HotListInv, HotListOnce
    <2>3. CASE due # {}
      <3> DEFINE i == FirstOf(due)
      <3>1. i \in DOMAIN hotList /\ hotList[i].pc = pc /\ ~hotList[i].again
        <4>1. due \in SUBSET Nat
          BY <1>0
        <4>2. i \in due
          BY <2>3, <4>1, FirstIn
        <4> QED
          BY <4>2 DEF HotListAt, DueAgainAt
      <3>2. /\ hotList' = [hotList EXCEPT ![i].again = TRUE]
            /\ retranslations' = [retranslations EXCEPT ![pc] = @ + 1]
        BY <1>3, <2>3 DEF arm2x86_retranslate_hot_block
      <3> HIDE DEF i, due, pc
      <3>3. hotList' \in Seq(HotEntry)
        BY <3>1, <3>2, HotTyped DEF HotListInv
      <3>4. DOMAIN hotList' = DOMAIN hotList /\ hotList'[i].again
            /\ \A j \in DOMAIN hotList : /\ hotList'[j].pc = hotList[j].pc
                                         /\ hotList[j].again => hotList'[j].again
        <4>1. hotList[i] \in HotEntry
          BY <3>1 DEF HotListInv
        <4> QED
          BY <3>1, <3>2, <4>1 DEF HotListInv, HotEntry
      <3>5. retranslations[pc] = 0
        BY <2>1, <3>1 DEF HotListInv, HotListOnce
      <3>6. /\ retranslations' \in [BrPc -> {0, 1}]
            /\ \A q \in BrPc : q # pc => retranslations'[q] = retranslations[q]
        BY <2>1, <3>2, <3>5 DEF HotListInv
      <3>7. \A q \in BrPc : retranslations'[q] = 1 =>
              \E j \in DOMAIN hotList' : hotList'[j].pc = q /\ hotList'[j].again
        BY <3>1, <3>4, <3>6 DEF HotListInv
      <3> QED
        BY <2>1, <3>3, <3>4, <3>6, <3>7 DEF HotListInv, HotListOnce
    <2> QED
      BY <2>2, <2>3
  <1>4. CASE UNCHANGED branchVars
    BY <1>4 DEF branchVars, HotListInv, HotListOnce
  <1> QED
    BY <1>1, <1>2, <1>3, <1>4 DEF HotListNext

\* However many threads ask arm2x86_profile_check and act on the answer later,
\* a block is translated again at most once.
THEOREM RetranslatesOnce == HotListSpec => []RetranslatedOnce
  <1>1. BranchInit => HotListInv
    BY DEF BranchInit, HotListInv, HotListOnce
  <1>2. HotListInv => RetranslatedOnce
    BY DEF HotListInv, RetranslatedOnce
  <1> QED
    BY <1>1, <1>2, HotListStep, PTL DEF HotListSpec

-----------------------------------------------------------------------------
(***************************************************************************)
(* The reflection cache.  A call that is in the Java machine holds an      *)
(* allocation and an index.  While its allocation is the table's, the      *)
(* index is still that of its class, because entries are only added; once  *)
(* the table has moved, no later table has the same allocation.            *)
(***************************************************************************)
ReflEntry == [class : JClass, object : JClass \union {NullObject}, methods : Seq({"id"})]
ReflOp == {"call", "field", "static field"}
ReflFrame == [class : JClass, op : ReflOp, alloc : Nat \ {0}, index : Nat,
              in : {"FindClass", "GetID", "Invoke"}]

TableOnce(table) ==
  \A i, j \in DOMAIN table :
    table[i].class = table[j].class /\ UsersOf(table[i].class) = {table[i].class} => i = j
EntryRight(e) ==
  e.object \in {NullObject} \union UsersOf(e.class) /\ Len(e.methods) <= MethodMax
TableRight(table, max) ==
  /\ table \in Seq(ReflEntry) /\ TableOnce(table)
  /\ max \in Nat \ {0} /\ Len(table) <= max
  /\ \A i \in DOMAIN table : EntryRight(table[i])
FrameRight(f) ==
  /\ f.alloc <= reflAllocs
  /\ f.alloc = reflAlloc => f.index \in DOMAIN refl /\ f.class \in UsersOf(refl[f.index].class)
ReflInv ==
  /\ TableRight(refl, reflMax)
  /\ reflAlloc \in Nat /\ reflAllocs \in Nat /\ reflAlloc <= reflAllocs
  /\ reflFrames \in Seq(ReflFrame)
  /\ reflAlloc = 0 => refl = <<>>
  /\ \A k \in DOMAIN reflFrames : FrameRight(reflFrames[k])

\* What find_reflection_cache returns: a table that has the entry it names, and
\* that agrees with the old one if it is in the same allocation.
LEMMA FoundRight ==
  ASSUME ReflInv, NEW c \in JClass, NEW f \in find_reflection_cache(c)
  PROVE  /\ TableRight(f.table, f.max)
         /\ f.index \in DOMAIN f.table /\ c \in UsersOf(f.table[f.index].class)
         /\ f.alloc \in Nat \ {0} /\ f.alloc <= reflAllocs + 1
         /\ f.alloc = reflAlloc \/ f.alloc = reflAllocs + 1
         /\ f.alloc = reflAlloc =>
              \A i \in DOMAIN refl : i \in DOMAIN f.table /\ f.table[i] = refl[i]
  <1> DEFINE table == IF reflAlloc = 0 THEN <<>> ELSE refl
             held == IF reflAlloc = 0 THEN reflAllocs + 1 ELSE reflAlloc
             at == Found(table, c)
             made == Append(table, FreshEntry(c))
  <1>1. table = refl
    BY DEF ReflInv
  <1>2. /\ held \in Nat \ {0} /\ held <= reflAllocs + 1
        /\ held = reflAlloc \/ held = reflAllocs + 1
        /\ reflAllocs + 1 # reflAlloc /\ reflAllocs + 1 \in Nat \ {0}
    BY DEF ReflInv
  <1>3. refl \in Seq(ReflEntry) /\ Len(refl) <= reflMax /\ reflMax \in Nat \ {0}
    BY DEF ReflInv, TableRight
  <1>4. CASE at # {}
    <2> DEFINE plain == [table |-> made, alloc |-> held, max |-> reflMax, index |-> Len(made)]
               first == {k \in at : \A j \in at : k <= j}
    <2>1. f \in {[plain EXCEPT !.table = table, !.index = i] : i \in first}
      BY <1>4 DEF find_reflection_cache
    <2>2. PICK i \in first : f = [plain EXCEPT !.table = table, !.index = i]
      BY <2>1
    <2>4. f.index = i /\ f.table = table /\ f.alloc = plain.alloc /\ f.max = plain.max
      BY <2>2
    <2>5. f.index \in DOMAIN refl /\ refl[f.index].class = c
      BY <1>1, <2>4 DEF Found, EntriesOf
    <2>3. f.table = refl /\ f.alloc = held /\ f.max = reflMax
      BY <1>1, <2>4
    <2> QED
      BY <1>2, <2>3, <2>5 DEF ReflInv, UsersOf
  <1>5. CASE at = {}
    <2>1. f.table = made /\ f.index = Len(made)
          /\ \/ Len(table) < reflMax /\ f.max = reflMax /\ f.alloc = held
             \/ f.max = 2 * reflMax /\ f.alloc \in {held, reflAllocs + 1}
      <3> DEFINE plain == [table |-> made, alloc |-> held, max |-> reflMax, index |-> Len(made)]
      <3>1. CASE Len(table) < reflMax
        <4>1. f = plain
          BY <1>5, <3>1 DEF find_reflection_cache
        <4> QED
          BY <3>1, <4>1
      <3>2. CASE ~(Len(table) < reflMax)
        <4>1. f \in {[plain EXCEPT !.max = 2 * reflMax, !.alloc = a] : a \in {held, reflAllocs + 1}}
          BY <1>5, <3>2 DEF find_reflection_cache
        <4>2. PICK a \in {held, reflAllocs + 1} : f = [plain EXCEPT !.max = 2 * reflMax, !.alloc = a]
          BY <4>1
        <4>3. f.table = plain.table /\ f.index = plain.index /\ f.max = 2 * reflMax /\ f.alloc = a
          BY <4>2
        <4> QED
          BY <4>3
      <3> QED
        BY <3>1, <3>2
    <2>2. FreshEntry(c) \in ReflEntry /\ c \in UsersOf(FreshEntry(c).class)
          /\ EntryRight(FreshEntry(c))
      BY ReflAssumption DEF FreshEntry, ReflEntry, EntryRight, UsersOf
    <2>3. /\ made \in Seq(ReflEntry) /\ Len(made) = Len(refl) + 1
          /\ made[Len(refl) + 1] = FreshEntry(c)
          /\ \A i \in 1..Len(refl) : made[i] = refl[i]
      BY <1>1, <1>3, <2>2
    <2>4. \A i \in 1..Len(refl) : refl[i].class # c
      BY <1>1, <1>3, <1>5 DEF Found, EntriesOf
    <2>5. DOMAIN made = 1..Len(refl) + 1 /\ DOMAIN refl = 1..Len(refl) /\ Len(refl) \in Nat
      BY <1>3, <2>3
    <2> HIDE DEF made, at
    <2>6. TableOnce(made)
      <3>1. ASSUME NEW i \in 1..Len(refl),
                   UsersOf(made[Len(refl) + 1].class) = {made[Len(refl) + 1].class},
                   made[i].class = made[Len(refl) + 1].class
            PROVE  FALSE
        BY <2>2, <2>3, <2>4, <3>1
      <3>2. \A i, j \in 1..Len(refl) :
              made[i].class = made[j].class /\ UsersOf(made[i].class) = {made[i].class} => i = j
        BY <2>3, <2>5 DEF ReflInv, TableRight, TableOnce
      <3> QED
        BY <2>5, <3>1, <3>2 DEF TableOnce
    <2>7. \A i \in DOMAIN made : EntryRight(made[i])
      BY <2>2, <2>3, <2>5 DEF ReflInv, TableRight
    <2>8. f.max \in Nat \ {0} /\ Len(made) <= f.max
      BY <1>1, <1>3, <2>1, <2>3
    <2>9. TableRight(f.table, f.max)
      BY <2>1, <2>3, <2>6, <2>7, <2>8 DEF TableRight
    <2>10. f.index \in DOMAIN f.table /\ c \in UsersOf(f.table[f.index].class)
      BY <2>1, <2>2, <2>3, <2>5
    <2> QED
      BY <1>2, <2>1, <2>3, <2>5, <2>9, <2>10
  <1> QED
    BY <1>4, <1>5

\* Beginning a call keeps the invariant.
LEMMA BeginStep ==
  ASSUME ReflInv, NEW c \in JClass, NEW op \in ReflOp, Begin(c, op)
  PROVE  ReflInv'
  <1>1. PICK f \in find_reflection_cache(c) :
          /\ refl' = f.table /\ reflAlloc' = f.alloc /\ reflMax' = f.max
          /\ reflAllocs' = IF f.alloc > reflAllocs THEN f.alloc ELSE reflAllocs
          /\ reflFrames' = Append(reflFrames,
               [class |-> c, op |-> op, alloc |-> f.alloc, index |-> f.index,
                in |-> IF f.table[f.index].object = NullObject THEN "FindClass" ELSE "GetID"])
    BY DEF Begin
  <1> DEFINE g == [class |-> c, op |-> op, alloc |-> f.alloc, index |-> f.index,
                   in |-> IF f.table[f.index].object = NullObject THEN "FindClass" ELSE "GetID"]
  <1>2. /\ TableRight(f.table, f.max)
        /\ f.index \in DOMAIN f.table /\ c \in UsersOf(f.table[f.index].class)
        /\ f.alloc \in Nat \ {0} /\ f.alloc <= reflAllocs + 1
        /\ f.alloc = reflAlloc \/ f.alloc = reflAllocs + 1
        /\ f.alloc = reflAlloc =>
             \A i \in DOMAIN refl : i \in DOMAIN f.table /\ f.table[i] = refl[i]
    BY FoundRight
  <1>3. /\ reflAllocs' \in Nat /\ reflAllocs <= reflAllocs' /\ reflAlloc' <= reflAllocs'
        /\ reflAlloc' \in Nat /\ reflAlloc' # 0
    BY <1>1, <1>2 DEF ReflInv
  <1>4. f.index \in Nat
    BY <1>2 DEF TableRight
  <1>5. g \in ReflFrame /\ g.class = c /\ g.alloc = f.alloc /\ g.index = f.index
    BY <1>2, <1>4 DEF ReflFrame
  <1> HIDE DEF g
  <1>6. /\ reflFrames' \in Seq(ReflFrame) /\ Len(reflFrames') = Len(reflFrames) + 1
        /\ reflFrames'[Len(reflFrames) + 1] = g
        /\ \A k \in 1..Len(reflFrames) : reflFrames'[k] = reflFrames[k]
    BY <1>1, <1>5 DEF ReflInv, g
  <1>7. ASSUME NEW k \in DOMAIN reflFrames' PROVE FrameRight(reflFrames[k])'
    <2>1. CASE k = Len(reflFrames) + 1
      BY <1>1, <1>2, <1>3, <1>5, <1>6, <2>1 DEF FrameRight
    <2>2. CASE k \in 1..Len(reflFrames)
      <3>1. reflFrames'[k] = reflFrames[k] /\ FrameRight(reflFrames[k]) /\ reflFrames[k] \in ReflFrame
        BY <1>6, <2>2 DEF ReflInv
      <3>2. reflFrames[k].alloc = f.alloc => f.alloc = reflAlloc
        BY <1>2, <3>1 DEF FrameRight, ReflFrame, ReflInv
      <3>3. reflFrames[k].alloc <= reflAllocs'
        BY <1>3, <3>1 DEF FrameRight, ReflFrame, ReflInv
      <3> QED
        BY <1>1, <1>2, <3>1, <3>2, <3>3 DEF FrameRight
    <2> QED
      BY <1>6, <2>1, <2>2 DEF ReflInv
  <1> QED
    BY <1>1, <1>2, <1>3, <1>6, <1>7 DEF ReflInv

\* Leaving a call, or going on with it, keeps the frames right.
LEMMA FramesKept ==
  ASSUME ReflInv, reflFrames # <<>>, NEW l \in {"FindClass", "GetID", "Invoke"}
  PROVE  /\ Top \in ReflFrame /\ FrameRight(Top)
         /\ Popped \in Seq(ReflFrame) /\ GoesOn(l) \in Seq(ReflFrame)
         /\ \A k \in DOMAIN Popped : k \in DOMAIN reflFrames /\ Popped[k] = reflFrames[k]
         /\ \A k \in DOMAIN GoesOn(l) :
              /\ k \in DOMAIN reflFrames
              /\ GoesOn(l)[k].alloc = reflFrames[k].alloc
              /\ GoesOn(l)[k].index = reflFrames[k].index
              /\ GoesOn(l)[k].class = reflFrames[k].class
  <1>1. Len(reflFrames) \in Nat \ {0} /\ Len(reflFrames) \in DOMAIN reflFrames
    BY DEF ReflInv
  <1>2. Top \in ReflFrame /\ FrameRight(Top)
    BY <1>1 DEF Top, ReflInv
  <1>3. /\ Popped \in Seq(ReflFrame)
        /\ \A k \in DOMAIN Popped : k \in DOMAIN reflFrames /\ Popped[k] = reflFrames[k]
    BY <1>1 DEF Popped, ReflInv
  <1>4. [Top EXCEPT !.in = l] \in ReflFrame
    BY <1>2 DEF ReflFrame
  <1>5. GoesOn(l) = [reflFrames EXCEPT ![Len(reflFrames)] = [Top EXCEPT !.in = l]]
    BY <1>1 DEF GoesOn, Top
  <1>6. GoesOn(l) \in Seq(ReflFrame)
    BY <1>1, <1>4, <1>5 DEF ReflInv
  <1>7. ASSUME NEW k \in DOMAIN GoesOn(l)
        PROVE  /\ k \in DOMAIN reflFrames
               /\ GoesOn(l)[k].alloc = reflFrames[k].alloc
               /\ GoesOn(l)[k].index = reflFrames[k].index
               /\ GoesOn(l)[k].class = reflFrames[k].class
    BY <1>1, <1>2, <1>5 DEF ReflInv, ReflFrame, Top
  <1> QED
    BY <1>2, <1>3, <1>6, <1>7

\* Writing through the pointer of the innermost call, which keeps the class of
\* the entry, keeps the invariant when the frames are kept right.
LEMMA ThroughStep ==
  ASSUME ReflInv, reflFrames # <<>>, NEW new, Through(new),
         UNCHANGED <<reflAlloc, reflMax, reflAllocs>>,
         Alive => new \in ReflEntry /\ new.class = refl[Top.index].class /\ EntryRight(new),
         NEW l \in {"FindClass", "GetID", "Invoke"},
         reflFrames' = Popped \/ reflFrames' = GoesOn(l)
  PROVE  ReflInv'
  <1>1. /\ Top \in ReflFrame /\ FrameRight(Top)
        /\ reflFrames' \in Seq(ReflFrame)
        /\ \A k \in DOMAIN reflFrames' :
             /\ k \in DOMAIN reflFrames
             /\ reflFrames'[k].alloc = reflFrames[k].alloc
             /\ reflFrames'[k].index = reflFrames[k].index
             /\ reflFrames'[k].class = reflFrames[k].class
    BY FramesKept
  <1>2. /\ TableRight(refl', reflMax) /\ DOMAIN refl' = DOMAIN refl
        /\ \A i \in DOMAIN refl : refl'[i].class = refl[i].class
    <2>1. CASE ~Alive
      BY <2>1 DEF Through, ReflInv
    <2>2. CASE Alive
      <3>1. Top.index \in DOMAIN refl
        BY <1>1, <2>2 DEF FrameRight, Alive
      <3>2. refl' = [refl EXCEPT ![Top.index] = new] /\ refl \in Seq(ReflEntry)
        BY <2>2 DEF Through, ReflInv, TableRight
      <3>3. refl' \in Seq(ReflEntry) /\ Len(refl') = Len(refl) /\ DOMAIN refl' = DOMAIN refl
        BY <2>2, <3>1, <3>2
      <3>4. \A i \in DOMAIN refl : refl'[i].class = refl[i].class /\ EntryRight(refl'[i])
        BY <2>2, <3>1, <3>2 DEF ReflInv, TableRight
      <3>5. refl # <<>>
        BY <3>1
      <3> QED
        BY <3>3, <3>4 DEF ReflInv, TableRight, TableOnce
    <2> QED
      BY <2>1, <2>2
  <1>3. \A k \in DOMAIN reflFrames' : FrameRight(reflFrames[k])'
    BY <1>1, <1>2 DEF ReflInv, FrameRight
  <1>4. reflAlloc = 0 => refl' = <<>>
    BY <1>2 DEF ReflInv, TableRight
  <1> QED
    BY <1>1, <1>2, <1>3, <1>4 DEF ReflInv

\* Every step keeps the invariant.
LEMMA ReflStep == ReflInv /\ [ReflNext]_reflVars => ReflInv'
  <1> SUFFICES ASSUME ReflInv, [ReflNext]_reflVars PROVE ReflInv'
    OBVIOUS
  <1>0. ASSUME reflFrames # <<>>, Alive
        PROVE  /\ refl[Top.index] \in ReflEntry /\ Top.class \in UsersOf(refl[Top.index].class)
               /\ EntryRight(refl[Top.index]) /\ Top.class \in JClass
    <2>1. Top \in ReflFrame /\ FrameRight(Top)
      BY <1>0, FramesKept
    <2> QED
      BY <1>0, <2>1 DEF Alive, FrameRight, ReflInv, TableRight, ReflFrame
  <1>1. ASSUME NEW c \in JClass,
               arm2x86_jni_reflect_and_call(c) \/ arm2x86_jni_reflect_get_field(c)
        PROVE  ReflInv'
    BY <1>1, BeginStep DEF ReflOp, arm2x86_jni_reflect_and_call, arm2x86_jni_reflect_get_field
  <1>2. CASE FindClassReturns
    <2>1. PICK o \in {ObjectOf(Top.class), NullObject} :
            /\ Through([refl[Top.index] EXCEPT !.object = o])
            /\ reflFrames' = IF o = NullObject THEN Popped ELSE GoesOn("GetID")
      BY <1>2 DEF FindClassReturns
    <2> DEFINE new == [refl[Top.index] EXCEPT !.object = o]
    <2>2. Alive => new \in ReflEntry /\ new.class = refl[Top.index].class /\ EntryRight(new)
      BY <1>0, <1>2, <2>1 DEF FindClassReturns, ReflEntry, EntryRight, ObjectOf
    <2>3. reflFrames # <<>> /\ UNCHANGED <<reflAlloc, reflMax, reflAllocs>>
      BY <1>2 DEF FindClassReturns
    <2> HIDE DEF new
    <2> QED
      BY <2>1, <2>2, <2>3, ThroughStep DEF new
  <1>3. CASE GetIDReturns
    <2>1. reflFrames # <<>> /\ UNCHANGED <<reflAlloc, reflMax, reflAllocs>>
      BY <1>3 DEF GetIDReturns
    <2> DEFINE new == [refl[Top.index] EXCEPT !.methods = MethodsAfter(@)]
    <2>2. CASE Through(new) /\ reflFrames' = GoesOn("Invoke")
      <3>1. Alive => new \in ReflEntry /\ new.class = refl[Top.index].class /\ EntryRight(new)
        <4> SUFFICES ASSUME Alive
                     PROVE  new \in ReflEntry /\ new.class = refl[Top.index].class /\ EntryRight(new)
          OBVIOUS
        <4>1. refl[Top.index] \in ReflEntry /\ EntryRight(refl[Top.index])
          BY <1>0, <2>1
        <4>2. MethodsAfter(refl[Top.index].methods) \in Seq({"id"})
              /\ Len(MethodsAfter(refl[Top.index].methods)) <= MethodMax
          BY <4>1, ReflAssumption DEF MethodsAfter, ReflEntry, EntryRight
        <4> QED
          BY <4>1, <4>2 DEF ReflEntry, EntryRight
      <3> HIDE DEF new
      <3> QED
        BY <2>1, <2>2, <3>1, ThroughStep
    <2>3. CASE (reflFrames' = GoesOn("Invoke") \/ reflFrames' = Popped) /\ UNCHANGED <<refl, reflStale>>
      <3>1. \A k \in DOMAIN reflFrames' :
              /\ k \in DOMAIN reflFrames
              /\ reflFrames'[k].alloc = reflFrames[k].alloc
              /\ reflFrames'[k].index = reflFrames[k].index
              /\ reflFrames'[k].class = reflFrames[k].class
        BY <2>1, <2>3, FramesKept
      <3>2. reflFrames' \in Seq(ReflFrame)
        BY <2>1, <2>3, FramesKept
      <3> QED
        BY <2>1, <2>3, <3>1, <3>2 DEF ReflInv, FrameRight
    <2>4. CASE Through(refl[Top.index]) /\ reflFrames' = GoesOn("Invoke")
      <3>1. Alive => refl[Top.index] \in ReflEntry /\ EntryRight(refl[Top.index])
        BY <1>0, <2>1
      <3> QED
        BY <2>1, <2>4, <3>1, ThroughStep
    <2> QED
      BY <1>3, <2>2, <2>3, <2>4 DEF GetIDReturns
  <1>4. CASE InvokeReturns
    <2>1. reflFrames # <<>> /\ reflFrames' = Popped
          /\ UNCHANGED <<refl, reflAlloc, reflMax, reflAllocs>>
      BY <1>4 DEF InvokeReturns
    <2>2. Popped \in Seq(ReflFrame)
          /\ \A k \in DOMAIN Popped : k \in DOMAIN reflFrames /\ Popped[k] = reflFrames[k]
      BY <2>1, FramesKept
    <2> QED
      BY <2>1, <2>2 DEF ReflInv, FrameRight
  <1>5. CASE arm2x86_jni_cleanup_reflection
    <2>1. refl' = <<>> /\ reflAlloc' = 0 /\ UNCHANGED <<reflMax, reflFrames, reflAllocs>>
      BY <1>5 DEF arm2x86_jni_cleanup_reflection
    <2>2. TableRight(refl', reflMax')
      BY <2>1 DEF ReflInv, TableRight, TableOnce
    <2>3. ASSUME NEW k \in DOMAIN reflFrames PROVE FrameRight(reflFrames[k])'
      <3>1. reflFrames[k] \in ReflFrame /\ FrameRight(reflFrames[k])
        BY DEF ReflInv
      <3> QED
        BY <2>1, <3>1 DEF FrameRight, ReflFrame
    <2> QED
      BY <2>1, <2>2, <2>3 DEF ReflInv
  <1>6. CASE UNCHANGED reflVars
    BY <1>6 DEF reflVars, ReflInv, FrameRight
  <1> QED
    BY <1>1, <1>2, <1>3, <1>4, <1>5, <1>6 DEF ReflNext

\* The invariant holds in every reachable state.
LEMMA ReflInductive == ReflSpec => []ReflInv
  <1>1. ReflInit => ReflInv
    BY ReflAssumption DEF ReflInit, ReflInv, TableRight, TableOnce
  <1> QED
    BY <1>1, ReflStep, PTL DEF ReflSpec

\* However calls into Java nest, and whether or not realloc moves the table of
\* find_reflection_cache, up to the first use of a pointer into a table that has
\* moved: no class whose name is kept whole and alone gets two entries, and no
\* write through a pointer kept over a call puts the object of one class into the
\* entry of another, or more methods than the entry has room for.
THEOREM EntriesKept == ReflSpec => []EntriesSound
  <1>1. ReflInv => OneEntryPerClass
    BY DEF ReflInv, TableRight, TableOnce, OneEntryPerClass
  <1>2. ReflInv => EntriesRight
    BY DEF ReflInv, TableRight, EntryRight, EntriesRight
  <1> QED
    BY <1>1, <1>2, ReflInductive, PTL DEF EntriesSound

-----------------------------------------------------------------------------
(***************************************************************************)
(* Namespaces.  The inductive invariant: every copy of the namespace, the  *)
(* current one and the saved ones, has a list within its array; a copy     *)
(* saved later, and the current one, that share an array with an earlier   *)
(* one have at least its length, so that adding behind the shortest copy   *)
(* put back disturbs no list below it; what a load will add is permitted   *)
(* by the copy it saved.                                                   *)
(***************************************************************************)
NsStruct == [ns : {"none"} \cup Ns, array : Nat, count : Nat, max : Nat]
NsFrame == [lib : NsLib, saved : NsStruct]
Lists(s, mem, done) ==
  s.array \in DOMAIN mem =>
    /\ s.count <= s.max /\ 1 .. s.max \subseteq DOMAIN mem[s.array]
    /\ \A i \in 1 .. s.count :
         /\ Permits(s.ns, mem[s.array][i].lib)
         /\ mem[s.array][i].at \in 1 .. done
         /\ \A j \in 1 .. s.count : i < j => mem[s.array][i].at < mem[s.array][j].at
Below(s, t) == s.array = t.array /\ s.array # 0 => s.count <= t.count /\ s.max <= t.max
Kept(s, next) == s \in NsStruct /\ s.array < next /\ (s.array # 0 => s.max >= 1)
NsInv ==
  /\ nsDone \in Nat /\ nsBase \in Nat /\ nsNext \in Nat \ {0}
  /\ nsFrames \in Seq(NsFrame) /\ DOMAIN nsMem \subseteq 1 .. (nsNext - 1)
  /\ Kept(nsCurrent, nsNext) /\ Lists(nsCurrent, nsMem, nsDone)
  /\ \A k \in 1 .. Len(nsFrames) :
       /\ Kept(nsFrames[k].saved, nsNext) /\ Lists(nsFrames[k].saved, nsMem, nsDone)
       /\ Below(nsFrames[k].saved, nsCurrent)
       /\ Permits(nsFrames[k].saved.ns, nsFrames[k].lib)
       /\ \A j \in 1 .. Len(nsFrames) : j < k => Below(nsFrames[j].saved, nsFrames[k].saved)
  /\ ~nsNested =>
       /\ nsCurrent.count = nsDone - nsBase
       /\ Len(nsFrames) <= 1 /\ (Len(nsFrames) = 1 => nsFrames[1].saved = nsCurrent)

\* What an addition to t in the array a leaves of the arrays.
Added1(t, mem, mem2, a, n, e) ==
  /\ a \in DOMAIN mem2 /\ 1 .. n \subseteq DOMAIN mem2[a]
  /\ \A b \in DOMAIN mem2 : b # a => b \in DOMAIN mem /\ mem2[b] = mem[b]
  /\ mem2[a][t.count + 1] = e /\ \A i \in 1 .. t.count : mem2[a][i] = mem[t.array][i]
  /\ t.count + 1 <= n /\ t.max <= n

LEMMA ListGrows ==
  ASSUME NEW t \in NsStruct, NEW mem, NEW mem2, NEW a, NEW n \in Nat, NEW e, NEW done \in Nat,
         t.array \in DOMAIN mem, Lists(t, mem, done), Added1(t, mem, mem2, a, n, e),
         e.at = done + 1, Permits(t.ns, e.lib),
         NEW u \in NsStruct, u.ns = t.ns, u.array = a, u.count = t.count + 1, u.max = n
  PROVE  Lists(u, mem2, done + 1)
  <1>1. t.count \in Nat /\ t.max \in Nat /\ u.count \in Nat
    BY DEF NsStruct
  <1>2. \A i \in 1 .. t.count : mem2[a][i] = mem[t.array][i]
    BY DEF Added1
  <1>3. ASSUME NEW i \in 1 .. u.count, NEW j \in 1 .. u.count
        PROVE  /\ Permits(u.ns, mem2[a][i].lib) /\ mem2[a][i].at \in 1 .. (done + 1)
               /\ i < j => mem2[a][i].at < mem2[a][j].at
    <2>1. CASE i = t.count + 1
      <3>1. mem2[a][i] = e
        BY <2>1 DEF Added1
      <3>2. ~ (i < j)
        BY <1>1, <2>1
      <3> QED
        BY <3>1, <3>2
    <2>2. CASE i # t.count + 1
      <3>1. i \in 1 .. t.count
        BY <1>1, <2>2
      <3>2. mem2[a][i] = mem[t.array][i]
        BY <1>2, <3>1
      <3>3. Permits(t.ns, mem2[a][i].lib) /\ mem2[a][i].at \in 1 .. done
        BY <3>1, <3>2 DEF Lists
      <3>4. CASE j = t.count + 1
        <4>1. mem2[a][j].at = done + 1
          BY <3>4 DEF Added1
        <4> QED
          BY <3>3, <4>1
      <3>5. CASE j # t.count + 1
        <4>1. j \in 1 .. t.count
          BY <1>1, <3>5
        <4>2. mem2[a][j] = mem[t.array][j]
          BY <1>2, <4>1
        <4>3. i < j => mem[t.array][i].at < mem[t.array][j].at
          BY <3>1, <4>1 DEF Lists
        <4> QED
          BY <3>2, <3>3, <4>2, <4>3
      <3> QED
        BY <3>4, <3>5
    <2> QED
      BY <2>1, <2>2
  <1>4. u.count <= u.max /\ 1 .. u.max \subseteq DOMAIN mem2[u.array]
    BY DEF Added1
  <1>5. \A i \in 1 .. u.count :
          /\ Permits(u.ns, mem2[a][i].lib) /\ mem2[a][i].at \in 1 .. (done + 1)
          /\ \A j \in 1 .. u.count : i < j => mem2[a][i].at < mem2[a][j].at
    BY <1>3
  <1> QED
    BY <1>4, <1>5 DEF Lists

LEMMA ListStays ==
  ASSUME NEW s \in NsStruct, NEW t \in NsStruct, NEW mem, NEW mem2, NEW a, NEW n \in Nat, NEW e, NEW done \in Nat,
         t.array \in DOMAIN mem, t.array # 0, Lists(s, mem, done), Below(s, t), Added1(t, mem, mem2, a, n, e),
         s.array = a => a = t.array
  PROVE  Lists(s, mem2, done + 1)
  <1> SUFFICES ASSUME s.array \in DOMAIN mem2
               PROVE  Lists(s, mem2, done + 1)
    BY DEF Lists
  <1>1. s.count \in Nat /\ s.max \in Nat /\ t.count \in Nat /\ t.max \in Nat
    BY DEF NsStruct
  <1>2. CASE s.array # a
    <2>1. s.array \in DOMAIN mem /\ mem2[s.array] = mem[s.array]
      BY <1>2 DEF Added1
    <2>2. \A x \in 1 .. done : x \in 1 .. (done + 1)
      OBVIOUS
    <2> QED
      BY <2>1, <2>2 DEF Lists
  <1>3. CASE s.array = a
    <2>1. s.array = t.array /\ s.count <= t.count /\ s.max <= t.max
      BY <1>3 DEF Below
    <2>2. \A i \in 1 .. s.count : i \in 1 .. t.count
      BY <1>1, <2>1
    <2>3. \A i \in 1 .. s.count : mem2[s.array][i] = mem[s.array][i]
      BY <1>3, <2>1, <2>2 DEF Added1
    <2>4. s.max <= n /\ 1 .. n \subseteq DOMAIN mem2[s.array]
      BY <1>1, <1>3, <2>1 DEF Added1
    <2>5. 1 .. s.max \subseteq DOMAIN mem2[s.array]
      BY <1>1, <2>4
    <2>6. \A x \in 1 .. done : x \in 1 .. (done + 1)
      OBVIOUS
    <2>7. s.count <= s.max
      BY <2>1 DEF Lists
    <2>8. \A i \in 1 .. s.count :
            /\ Permits(s.ns, mem[s.array][i].lib) /\ mem[s.array][i].at \in 1 .. done
            /\ \A j \in 1 .. s.count : i < j => mem[s.array][i].at < mem[s.array][j].at
      BY <2>1 DEF Lists
    <2>9. \A i \in 1 .. s.count :
            /\ Permits(s.ns, mem2[s.array][i].lib) /\ mem2[s.array][i].at \in 1 .. (done + 1)
            /\ \A j \in 1 .. s.count : i < j => mem2[s.array][i].at < mem2[s.array][j].at
      BY <2>3, <2>6, <2>8
    <2> QED
      BY <2>5, <2>7, <2>9 DEF Lists
  <1> QED
    BY <1>2, <1>3

\* Arrays appear or vanish that s has not.
LEMMA ListApart ==
  ASSUME NEW s, NEW mem, NEW mem2, NEW done, Lists(s, mem, done),
         s.array \in DOMAIN mem2 => s.array \in DOMAIN mem /\ mem2[s.array] = mem[s.array]
  PROVE  Lists(s, mem2, done)
  BY DEF Lists

LEMMA NsStart == NsInit => NsInv
  <1> SUFFICES ASSUME NsInit PROVE NsInv
    OBVIOUS
  <1>1. /\ nsDone = 0 /\ nsBase = 0 /\ nsNext = 1 /\ nsFrames = <<>> /\ DOMAIN nsMem = {}
        /\ nsCurrent = NoNs
    BY DEF NsInit
  <1>2. nsCurrent \in NsStruct /\ nsCurrent.array = 0 /\ nsCurrent.count = 0
    BY <1>1 DEF NoNs, NsStruct
  <1>3. Kept(nsCurrent, 1) /\ Lists(nsCurrent, nsMem, 0)
    BY <1>1, <1>2 DEF Kept, Lists
  <1>4. nsFrames \in Seq(NsFrame) /\ Len(nsFrames) = 0
    BY <1>1
  <1> QED
    BY <1>1, <1>2, <1>3, <1>4 DEF NsInv

\* arm2x86_init_namespace: the array is a new one, or there is none.
LEMMA NsInitKeeps ==
  ASSUME NsInv, NEW ns \in Ns, arm2x86_init_namespace(ns) PROVE NsInv'
  <1>1. PICK c : c = nsCurrent'
    OBVIOUS
  <1>2. /\ nsDone' = nsDone /\ nsBase' = nsDone /\ nsFrames' = nsFrames /\ nsNested' = (nsFrames # <<>>)
        /\ nsNext' \in {nsNext, nsNext + 1}
    BY DEF arm2x86_init_namespace
  <1>3. nsDone \in Nat /\ nsNext \in Nat \ {0} /\ DOMAIN nsMem \subseteq 1 .. (nsNext - 1) /\ nsFrames \in Seq(NsFrame)
    BY DEF NsInv
  <1>4. /\ c \in NsStruct /\ c.count = 0 /\ c.max = NsFirstMax /\ c.array \in {0, nsNext}
        /\ c.array = nsNext => nsNext' = nsNext + 1
    BY <1>1, <1>3, NsAssumption DEF arm2x86_init_namespace, NsStruct
  <1>5. /\ DOMAIN nsMem' \subseteq 1 .. (nsNext' - 1)
        /\ \A b \in DOMAIN nsMem' : b # nsNext => b \in DOMAIN nsMem /\ nsMem'[b] = nsMem[b]
        /\ nsNext \in DOMAIN nsMem' => DOMAIN nsMem'[nsNext] = 1 .. NsFirstMax
    <2>1. CASE UNCHANGED <<nsMem, nsNext>>
      BY <1>3, <2>1
    <2>2. CASE /\ nsMem' = [a \in DOMAIN nsMem \union {nsNext} |->
                               IF a = nsNext THEN [i \in 1 .. NsFirstMax |-> NoEntry] ELSE nsMem[a]]
               /\ nsNext' = nsNext + 1
      BY <1>3, <2>2
    <2> QED
      BY <2>1, <2>2 DEF arm2x86_init_namespace
  <1>6. Kept(c, nsNext')
    BY <1>2, <1>3, <1>4, NsAssumption DEF Kept
  <1>7. Lists(c, nsMem', nsDone)
    <2>1. 0 \notin DOMAIN nsMem'
      BY <1>2, <1>3, <1>5
    <2>2. c.array \in DOMAIN nsMem' => 1 .. NsFirstMax \subseteq DOMAIN nsMem'[c.array]
      BY <1>4, <1>5, <2>1
    <2>3. 1 .. c.count = {} /\ c.count <= c.max
      BY <1>4, NsAssumption
    <2> QED
      BY <1>4, <2>2, <2>3 DEF Lists
  <1>8. ASSUME NEW k \in 1 .. Len(nsFrames)
        PROVE  /\ Kept(nsFrames[k].saved, nsNext') /\ Lists(nsFrames[k].saved, nsMem', nsDone)
               /\ Below(nsFrames[k].saved, c)
               /\ Permits(nsFrames[k].saved.ns, nsFrames[k].lib)
               /\ \A j \in 1 .. Len(nsFrames) : j < k => Below(nsFrames[j].saved, nsFrames[k].saved)
    <2>1. PICK s : s = nsFrames[k].saved
      OBVIOUS
    <2>2. Kept(s, nsNext) /\ Lists(s, nsMem, nsDone)
      BY <2>1 DEF NsInv
    <2>3. s \in NsStruct /\ s.array \in Nat /\ s.array < nsNext /\ s.array # nsNext
      BY <1>3, <2>2 DEF Kept, NsStruct
    <2>4. Kept(s, nsNext')
      BY <1>2, <1>3, <2>2, <2>3 DEF Kept
    <2>5. Lists(s, nsMem', nsDone)
      BY <1>5, <2>2, <2>3, ListApart
    <2>6. Below(s, c)
      BY <1>4, <2>3 DEF Below
    <2>7. /\ Permits(nsFrames[k].saved.ns, nsFrames[k].lib)
          /\ \A j \in 1 .. Len(nsFrames) : j < k => Below(nsFrames[j].saved, nsFrames[k].saved)
      BY DEF NsInv
    <2> QED
      BY <2>1, <2>4, <2>5, <2>6, <2>7
  <1>9. ~nsNested' => /\ c.count = nsDone' - nsBase' /\ Len(nsFrames) <= 1 /\ Len(nsFrames) # 1
    <2>1. ~nsNested' => nsFrames = <<>>
      BY <1>2
    <2>2. nsFrames = <<>> => Len(nsFrames) = 0
      OBVIOUS
    <2>3. c.count = nsDone' - nsBase'
      BY <1>2, <1>3, <1>4
    <2> QED
      BY <2>1, <2>2, <2>3
  <1>10. nsNext' \in Nat \ {0}
    BY <1>2, <1>3
  <1> QED
    BY <1>1, <1>2, <1>3, <1>5, <1>6, <1>7, <1>8, <1>9, <1>10 DEF NsInv

\* A load saves the current namespace on top of the stack.
LEMMA NsBeginKeeps ==
  ASSUME NsInv, NEW lib \in NsLib, LoadBegin(lib) PROVE NsInv'
  <1>1. PICK f, L : f = [lib |-> lib, saved |-> nsCurrent] /\ L = Len(nsFrames)
    OBVIOUS
  <1>2. /\ nsFrames' = Append(nsFrames, f) /\ nsNested' = (nsNested \/ nsFrames # <<>>)
        /\ UNCHANGED <<nsCurrent, nsMem, nsNext, nsDone, nsBase>> /\ Permits(nsCurrent.ns, lib)
    BY <1>1 DEF LoadBegin
  <1>3. f \in NsFrame /\ f.saved = nsCurrent /\ f.lib = lib /\ nsFrames \in Seq(NsFrame) /\ L \in Nat
    BY <1>1 DEF NsInv, Kept, NsFrame
  <1>4. /\ nsFrames' \in Seq(NsFrame) /\ Len(nsFrames') = L + 1 /\ nsFrames'[L + 1] = f
        /\ \A k \in 1 .. L : nsFrames'[k] = nsFrames[k]
    BY <1>1, <1>2, <1>3, AppendProperties
  <1>5. Below(nsCurrent, nsCurrent)
    <2>1. nsCurrent \in NsStruct
      BY DEF NsInv, Kept
    <2>2. nsCurrent.count \in Nat /\ nsCurrent.max \in Nat
      BY <2>1 DEF NsStruct
    <2> QED
      BY <2>2 DEF Below
  <1>6. ASSUME NEW k \in 1 .. (L + 1)
        PROVE  /\ Kept(nsFrames'[k].saved, nsNext) /\ Lists(nsFrames'[k].saved, nsMem, nsDone)
               /\ Below(nsFrames'[k].saved, nsCurrent)
               /\ Permits(nsFrames'[k].saved.ns, nsFrames'[k].lib)
               /\ \A j \in 1 .. (L + 1) : j < k => Below(nsFrames'[j].saved, nsFrames'[k].saved)
    <2>1. CASE k = L + 1
      <3>1. \A j \in 1 .. (L + 1) : j < k => j \in 1 .. L
        BY <1>3, <2>1
      <3>2. \A j \in 1 .. L : Below(nsFrames[j].saved, nsCurrent)
        BY <1>1 DEF NsInv
      <3>3. Kept(nsCurrent, nsNext) /\ Lists(nsCurrent, nsMem, nsDone)
        BY DEF NsInv
      <3> QED
        BY <1>2, <1>3, <1>4, <1>5, <2>1, <3>1, <3>2, <3>3
    <2>2. CASE k # L + 1
      <3>1. k \in 1 .. L /\ \A j \in 1 .. (L + 1) : j < k => j \in 1 .. L
        BY <1>3, <2>2
      <3>2. /\ Kept(nsFrames[k].saved, nsNext) /\ Lists(nsFrames[k].saved, nsMem, nsDone)
            /\ Below(nsFrames[k].saved, nsCurrent)
            /\ Permits(nsFrames[k].saved.ns, nsFrames[k].lib)
            /\ \A j \in 1 .. L : j < k => Below(nsFrames[j].saved, nsFrames[k].saved)
        BY <1>1, <3>1 DEF NsInv
      <3> QED
        BY <1>4, <3>1, <3>2
    <2> QED
      BY <2>1, <2>2
  <1>7. ~nsNested' => /\ nsCurrent.count = nsDone - nsBase /\ L + 1 <= 1 /\ nsFrames'[1].saved = nsCurrent
    <2> SUFFICES ASSUME ~nsNested'
                 PROVE  /\ nsCurrent.count = nsDone - nsBase /\ L + 1 <= 1 /\ nsFrames'[1].saved = nsCurrent
      OBVIOUS
    <2>1. ~nsNested /\ nsFrames = <<>>
      BY <1>2
    <2>2. L = 0
      BY <1>1, <2>1
    <2> QED
      BY <1>3, <1>4, <2>1, <2>2 DEF NsInv
  <1>8. /\ nsDone \in Nat /\ nsBase \in Nat /\ nsNext \in Nat \ {0} /\ DOMAIN nsMem \subseteq 1 .. (nsNext - 1)
        /\ Kept(nsCurrent, nsNext) /\ Lists(nsCurrent, nsMem, nsDone)
    BY DEF NsInv
  <1> QED
    BY <1>2, <1>4, <1>6, <1>7, <1>8 DEF NsInv

\* A load returns: the copy s it saved was put back, and c has come of it.
LEMMA NsReturnKeeps ==
  ASSUME NsInv, nsFrames # <<>>, Returned, NEW s, s = Saved,
         nsDone' \in Nat, nsNext' \in Nat \ {0}, UNCHANGED <<nsBase, nsNested>>,
         DOMAIN nsMem' \subseteq 1 .. (nsNext' - 1), nsNext <= nsNext',
         Kept(nsCurrent', nsNext'), Lists(nsCurrent', nsMem', nsDone'),
         \A t : Kept(t, nsNext) /\ Lists(t, nsMem, nsDone) /\ Below(t, s)
                  => Lists(t, nsMem', nsDone') /\ Below(t, nsCurrent'),
         s.count = nsDone - nsBase => nsCurrent'.count = nsDone' - nsBase
  PROVE  NsInv'
  <1>1. PICK L : L = Len(nsFrames)
    OBVIOUS
  <1>2. nsFrames \in Seq(NsFrame) /\ L \in Nat /\ L >= 1 /\ nsNext \in Nat
    <2>1. nsFrames \in Seq(NsFrame) /\ nsNext \in Nat
      BY DEF NsInv
    <2> QED
      BY <1>1, <2>1, EmptySeq
  <1>3. /\ nsFrames' \in Seq(NsFrame) /\ Len(nsFrames') = L - 1
        /\ \A k \in 1 .. (L - 1) : nsFrames'[k] = nsFrames[k]
    <2>1. nsFrames' = SubSeq(nsFrames, 1, L - 1)
      BY <1>1 DEF Returned
    <2> QED
      BY <1>1, <1>2, <2>1
  <1>4. s = nsFrames[L].saved
    BY <1>1 DEF Saved
  <1>5. ASSUME NEW k \in 1 .. (L - 1)
        PROVE  /\ Kept(nsFrames[k].saved, nsNext') /\ Lists(nsFrames[k].saved, nsMem', nsDone')
               /\ Below(nsFrames[k].saved, nsCurrent')
               /\ Permits(nsFrames[k].saved.ns, nsFrames[k].lib)
               /\ \A j \in 1 .. (L - 1) : j < k => Below(nsFrames[j].saved, nsFrames[k].saved)
    <2>1. k \in 1 .. L /\ L \in 1 .. L /\ k < L /\ 1 .. (L - 1) \subseteq 1 .. L
      BY <1>2
    <2>2. PICK t : t = nsFrames[k].saved
      OBVIOUS
    <2>3. Kept(t, nsNext) /\ Lists(t, nsMem, nsDone) /\ Below(t, s)
      BY <1>1, <1>4, <2>1, <2>2 DEF NsInv
    <2>4. Kept(t, nsNext')
      <3>1. t.array \in Nat /\ t \in NsStruct /\ t.array < nsNext
        BY <2>3 DEF Kept, NsStruct
      <3>2. t.array < nsNext'
        BY <1>2, <3>1
      <3> QED
        BY <2>3, <3>1, <3>2 DEF Kept
    <2>5. Lists(t, nsMem', nsDone') /\ Below(t, nsCurrent')
      BY <2>3
    <2>6. /\ Permits(nsFrames[k].saved.ns, nsFrames[k].lib)
          /\ \A j \in 1 .. (L - 1) : j < k => Below(nsFrames[j].saved, nsFrames[k].saved)
      BY <1>1, <2>1 DEF NsInv
    <2> QED
      BY <2>2, <2>4, <2>5, <2>6
  <1>6. ~nsNested' => /\ nsCurrent'.count = nsDone' - nsBase' /\ L - 1 <= 1 /\ L - 1 # 1
    <2> SUFFICES ASSUME ~nsNested'
                 PROVE  /\ nsCurrent'.count = nsDone' - nsBase' /\ L - 1 <= 1 /\ L - 1 # 1
      OBVIOUS
    <2>1. ~nsNested /\ nsBase' = nsBase
      OBVIOUS
    <2>2. L <= 1 /\ (L = 1 => nsFrames[1].saved = nsCurrent) /\ nsCurrent.count = nsDone - nsBase
      BY <1>1, <2>1 DEF NsInv
    <2>3. L = 1
      BY <1>2, <2>2
    <2>4. s.count = nsDone - nsBase
      BY <1>4, <2>2, <2>3
    <2> QED
      BY <2>1, <2>3, <2>4
  <1>7. nsBase' \in Nat
    BY DEF NsInv
  <1> QED
    BY <1>3, <1>5, <1>6, <1>7 DEF NsInv

\* The copy that is put back.
LEMMA SavedKept ==
  ASSUME NsInv, nsFrames # <<>>
  PROVE  /\ Kept(Saved, nsNext) /\ Lists(Saved, nsMem, nsDone)
         /\ Permits(Saved.ns, nsFrames[Len(nsFrames)].lib) /\ nsFrames[Len(nsFrames)].lib \in NsLib
  <1>1. nsFrames \in Seq(NsFrame)
    BY DEF NsInv
  <1>2. Len(nsFrames) \in 1 .. Len(nsFrames) /\ nsFrames[Len(nsFrames)] \in NsFrame
    BY <1>1, EmptySeq
  <1> QED
    BY <1>2 DEF NsInv, Saved, NsFrame

LEMMA NsFailKeeps ==
  ASSUME NsInv, nsFrames # <<>>, Returned, nsCurrent' = Saved,
         UNCHANGED <<nsMem, nsNext, nsDone, nsBase, nsNested>>
  PROVE  NsInv'
  <1>1. PICK s : s = Saved
    OBVIOUS
  <1>2. Kept(s, nsNext) /\ Lists(s, nsMem, nsDone)
    BY <1>1, SavedKept
  <1>3. nsDone \in Nat /\ nsNext \in Nat \ {0} /\ DOMAIN nsMem \subseteq 1 .. (nsNext - 1) /\ nsNext <= nsNext
    BY DEF NsInv
  <1> QED
    BY <1>1, <1>2, <1>3, NsReturnKeeps

LEMMA NsAddKeeps ==
  ASSUME NsInv, nsFrames # <<>>, Returned, UNCHANGED <<nsBase, nsNested>>,
         NEW a \in Nat, NEW n \in Nat, NEW next \in Nat, nsNext' = next, nsNext <= next, a < next, a # 0,
         a = Saved.array \/ a = nsNext, Saved.array \in DOMAIN nsMem,
         DOMAIN nsMem' \subseteq 1 .. (next - 1),
         Added1(Saved, nsMem, nsMem', a, n, Entry(nsFrames[Len(nsFrames)].lib)),
         nsCurrent' = [Saved EXCEPT !.array = a, !.count = @ + 1, !.max = n],
         nsDone' = nsDone + 1
  PROVE  NsInv'
  <1>1. PICK s, lib : s = Saved /\ lib = nsFrames[Len(nsFrames)].lib
    OBVIOUS
  <1>2. Kept(s, nsNext) /\ Lists(s, nsMem, nsDone) /\ Permits(s.ns, lib)
    BY <1>1, SavedKept
  <1>3. nsDone \in Nat /\ nsNext \in Nat \ {0} /\ nsBase \in Nat /\ DOMAIN nsMem \subseteq 1 .. (nsNext - 1)
    BY DEF NsInv
  <1>4. s \in NsStruct /\ s.count \in Nat /\ s.max \in Nat /\ s.array \in Nat /\ s.array # 0
    <2>1. s \in NsStruct
      BY <1>2 DEF Kept
    <2>2. s.count \in Nat /\ s.max \in Nat /\ s.array \in Nat
      BY <2>1 DEF NsStruct
    <2>3. s.array # 0
      BY <1>1, <1>3
    <2> QED
      BY <2>1, <2>2, <2>3
  <1>5. PICK c : c = nsCurrent'
    OBVIOUS
  <1>6. /\ c \in NsStruct /\ c.ns = s.ns /\ c.array = a /\ c.count = s.count + 1 /\ c.max = n
    <2>1. c = [s EXCEPT !.array = a, !.count = @ + 1, !.max = n]
      BY <1>1, <1>5
    <2>2. c = [ns |-> s.ns, array |-> a, count |-> s.count + 1, max |-> n]
      BY <1>4, <2>1 DEF NsStruct
    <2>3. s.ns \in {"none"} \cup Ns
      BY <1>4 DEF NsStruct
    <2> QED
      BY <1>4, <2>2, <2>3 DEF NsStruct
  <1>7. PICK e, mem2 : e = Entry(lib) /\ mem2 = nsMem'
    OBVIOUS
  <1>8. e.at = nsDone + 1 /\ e.lib = lib
    BY <1>7 DEF Entry
  <1>9. Added1(s, nsMem, mem2, a, n, e)
    BY <1>1, <1>7
  <1>10. s.count + 1 <= n /\ s.max <= n
    BY <1>9 DEF Added1
  <1>11. Kept(c, next)
    BY <1>4, <1>6, <1>10 DEF Kept
  <1>12. Lists(c, mem2, nsDone + 1)
    BY <1>1, <1>2, <1>3, <1>4, <1>6, <1>8, <1>9, ListGrows
  <1>13. ASSUME NEW t, Kept(t, nsNext), Lists(t, nsMem, nsDone), Below(t, s)
         PROVE  Lists(t, mem2, nsDone + 1) /\ Below(t, c)
    <2>1. t \in NsStruct /\ t.array \in Nat /\ t.array < nsNext /\ t.count \in Nat /\ t.max \in Nat
      BY <1>13 DEF Kept, NsStruct
    <2>2. t.array = a => a = s.array
      BY <1>1, <1>3, <2>1
    <2>3. Lists(t, mem2, nsDone + 1)
      BY <1>1, <1>3, <1>4, <1>9, <1>13, <2>1, <2>2, ListStays
    <2>4. Below(t, c)
      <3> SUFFICES ASSUME t.array = c.array, t.array # 0 PROVE t.count <= c.count /\ t.max <= c.max
        BY DEF Below
      <3>1. t.array = s.array
        BY <1>6, <2>2
      <3>2. t.count <= s.count /\ t.max <= s.max
        BY <1>13, <3>1 DEF Below
      <3> QED
        BY <1>4, <1>6, <1>10, <2>1, <3>2
    <2> QED
      BY <2>3, <2>4
  <1>14. s.count = nsDone - nsBase => c.count = (nsDone + 1) - nsBase
    BY <1>3, <1>6
  <1>15. next \in Nat \ {0}
    BY <1>3
  <1>16. nsDone' = nsDone + 1 /\ nsDone' \in Nat
    BY <1>3
  <1> QED
    BY <1>1, <1>5, <1>7, <1>11, <1>12, <1>13, <1>14, <1>15, <1>16, NsReturnKeeps

LEMMA NsDoneKeeps == ASSUME NsInv, LoadDone PROVE NsInv'
  <1>1. PICK s, lib : s = Saved /\ lib = nsFrames[Len(nsFrames)].lib
    OBVIOUS
  <1>2. nsFrames # <<>> /\ Returned /\ UNCHANGED <<nsBase, nsNested>>
    BY DEF LoadDone
  <1>3. Kept(s, nsNext) /\ Lists(s, nsMem, nsDone)
    BY <1>1, <1>2, SavedKept
  <1>4. nsNext \in Nat \ {0} /\ DOMAIN nsMem \subseteq 1 .. (nsNext - 1)
    BY DEF NsInv
  <1>5. s \in NsStruct /\ s.count \in Nat /\ s.max \in Nat /\ s.array \in Nat /\ s.array < nsNext /\ (s.array # 0 => s.max >= 1)
    BY <1>3 DEF Kept, NsStruct
  <1>6. CASE AddInPlace(s, lib)
    <2>1. /\ s.count < s.max /\ s.array \in DOMAIN nsMem /\ nsNext' = nsNext /\ nsDone' = nsDone + 1
          /\ nsMem' = [nsMem EXCEPT ![s.array][s.count + 1] = Entry(lib)]
          /\ nsCurrent' = [s EXCEPT !.count = @ + 1]
      BY <1>5, <1>6 DEF AddInPlace, Full, NsAlive
    <2>2. 1 .. s.max \subseteq DOMAIN nsMem[s.array] /\ s.array # 0
      BY <1>3, <1>4, <2>1 DEF Lists
    <2>3. PICK old, k, e : old = nsMem[s.array] /\ k = s.count + 1 /\ e = Entry(lib)
      OBVIOUS
    <2>4. nsMem' = [nsMem EXCEPT ![s.array] = [old EXCEPT ![k] = e]]
      BY <2>1, <2>3
    <2>5. k \in DOMAIN old /\ k \in 1 .. s.max /\ \A i \in 1 .. s.count : i # k /\ i \in DOMAIN old
      <3>1. k \in 1 .. s.max /\ \A i \in 1 .. s.count : i # k /\ i \in 1 .. s.max
        BY <1>5, <2>1, <2>3
      <3> QED
        BY <2>2, <2>3, <3>1
    <2>6. /\ DOMAIN nsMem' = DOMAIN nsMem /\ nsMem'[s.array] = [old EXCEPT ![k] = e]
          /\ \A b \in DOMAIN nsMem : b # s.array => nsMem'[b] = nsMem[b]
      BY <2>1, <2>4
    <2>7. /\ DOMAIN nsMem'[s.array] = DOMAIN old /\ nsMem'[s.array][k] = e
          /\ \A i \in 1 .. s.count : nsMem'[s.array][i] = old[i]
      BY <2>5, <2>6
    <2>8. Added1(s, nsMem, nsMem', s.array, s.max, e)
      <3>1. s.count + 1 <= s.max /\ s.max <= s.max
        BY <1>5, <2>1
      <3> QED
        BY <2>1, <2>2, <2>3, <2>6, <2>7, <3>1 DEF Added1
    <2>9. nsCurrent' = [s EXCEPT !.array = s.array, !.count = @ + 1, !.max = s.max]
      BY <1>5, <2>1 DEF NsStruct
    <2>10. nsNext <= nsNext /\ nsNext \in Nat
      BY <1>4
    <2> QED
      BY <1>1, <1>2, <1>4, <1>5, <2>1, <2>2, <2>3, <2>6, <2>8, <2>9, <2>10, NsAddKeeps
  <1>7. ASSUME NEW a \in {s.array, nsNext}, AddGrown(s, lib, a) PROVE NsInv'
    <2>1. /\ s.count >= s.max /\ s.array \in DOMAIN nsMem /\ nsNext' = nsNext + 1 /\ nsDone' = nsDone + 1
          /\ nsMem' = [b \in (DOMAIN nsMem \ {s.array}) \union {a} |->
                        IF b = a THEN Regrown(nsMem[s.array], Grown(s.max), s.count + 1, Entry(lib)) ELSE nsMem[b]]
          /\ nsCurrent' = [s EXCEPT !.array = a, !.count = @ + 1, !.max = Grown(s.max)]
      BY <1>7 DEF AddGrown, Full, NsAlive
    <2>2. 1 .. s.max \subseteq DOMAIN nsMem[s.array] /\ s.array # 0 /\ s.count <= s.max
      BY <1>3, <1>4, <2>1 DEF Lists
    <2>3. PICK old, k, n, e : old = nsMem[s.array] /\ k = s.count + 1 /\ n = Grown(s.max) /\ e = Entry(lib)
      OBVIOUS
    <2>4. n \in Nat /\ k <= n /\ s.max <= n /\ k \in 1 .. n /\ k \in Nat
      BY <1>5, <2>2, <2>3 DEF Grown
    <2>5. DOMAIN Regrown(old, n, k, e) = 1 .. n /\ Regrown(old, n, k, e)[k] = e
      BY <2>4 DEF Regrown
    <2>6. \A i \in 1 .. s.count : Regrown(old, n, k, e)[i] = old[i]
      <3>1. ASSUME NEW i \in 1 .. s.count PROVE Regrown(old, n, k, e)[i] = old[i]
        <4>1. i \in 1 .. n /\ i # k /\ i \in 1 .. s.max
          BY <1>5, <2>2, <2>3, <2>4
        <4>2. i \in DOMAIN old
          BY <2>2, <2>3, <4>1
        <4> QED
          BY <4>1, <4>2 DEF Regrown
      <3> QED
        BY <3>1
    <2>7. PICK new : new = Regrown(old, n, k, e)
      OBVIOUS
    <2>8. nsMem' = [b \in (DOMAIN nsMem \ {s.array}) \union {a} |-> IF b = a THEN new ELSE nsMem[b]]
      BY <2>1, <2>3, <2>7
    <2>9. /\ DOMAIN nsMem' = (DOMAIN nsMem \ {s.array}) \union {a} /\ nsMem'[a] = new
          /\ \A b \in DOMAIN nsMem' : b # a => b \in DOMAIN nsMem /\ nsMem'[b] = nsMem[b]
      BY <2>8
    <2>10. Added1(s, nsMem, nsMem', a, n, e)
      <3>1. s.count + 1 <= n /\ s.max <= n
        BY <2>3, <2>4
      <3>2. DOMAIN new = 1 .. n /\ new[s.count + 1] = e /\ \A i \in 1 .. s.count : new[i] = nsMem[s.array][i]
        BY <2>3, <2>5, <2>6, <2>7
      <3> QED
        BY <2>9, <3>1, <3>2 DEF Added1
    <2>11. a \in Nat /\ a # 0 /\ a < nsNext + 1 /\ nsNext <= nsNext + 1 /\ nsNext + 1 \in Nat
      BY <1>4, <1>5, <1>7, <2>2
    <2>12. DOMAIN nsMem' \subseteq 1 .. ((nsNext + 1) - 1)
      <3>1. \A b \in DOMAIN nsMem' : b = a \/ b \in 1 .. (nsNext - 1)
        BY <1>4, <2>9
      <3>2. \A b \in 1 .. (nsNext - 1) : b \in 1 .. ((nsNext + 1) - 1)
        BY <1>4
      <3>3. a \in 1 .. ((nsNext + 1) - 1)
        BY <1>4, <2>11
      <3> QED
        BY <3>1, <3>2, <3>3
    <2>13. nsCurrent' = [s EXCEPT !.array = a, !.count = @ + 1, !.max = n]
      BY <2>1, <2>3
    <2> QED
      BY <1>1, <1>2, <1>7, <2>1, <2>3, <2>4, <2>10, <2>11, <2>12, <2>13, NsAddKeeps
  <1>8. CASE NotAdded(s)
    <2>1. nsCurrent' = Saved /\ UNCHANGED <<nsMem, nsNext, nsDone>>
      BY <1>1, <1>8 DEF NotAdded
    <2> QED
      BY <1>2, <2>1, NsFailKeeps
  <1> QED
    BY <1>1, <1>6, <1>7, <1>8 DEF LoadDone

LEMMA NsFiniKeeps == ASSUME NsInv, lib_fini PROVE NsInv'
  <1>1. /\ nsFrames' = <<>> /\ nsCurrent' = NoNs /\ nsDone' = nsDone /\ nsBase' = nsDone /\ nsNext' = nsNext
        /\ DOMAIN nsMem' = DOMAIN nsMem \ {nsCurrent.array}
    BY DEF lib_fini
  <1>2. nsDone \in Nat /\ nsNext \in Nat \ {0} /\ DOMAIN nsMem \subseteq 1 .. (nsNext - 1)
    BY DEF NsInv
  <1>3. PICK c : c = nsCurrent'
    OBVIOUS
  <1>4. c \in NsStruct /\ c.array = 0 /\ c.count = 0
    BY <1>1, <1>3 DEF NoNs, NsStruct
  <1>5. DOMAIN nsMem' \subseteq 1 .. (nsNext - 1) /\ 0 \notin DOMAIN nsMem'
    BY <1>1, <1>2
  <1>6. Kept(c, nsNext) /\ Lists(c, nsMem', nsDone)
    BY <1>2, <1>4, <1>5 DEF Kept, Lists
  <1>7. nsFrames' \in Seq(NsFrame) /\ Len(nsFrames') = 0
    BY <1>1
  <1>8. c.count = nsDone' - nsBase'
    BY <1>1, <1>2, <1>4
  <1> QED
    BY <1>1, <1>2, <1>3, <1>5, <1>6, <1>7, <1>8 DEF NsInv

\* For any number of libraries, however deep loads nest, fail and grow the list,
\* and whenever the namespace is initialised anew: its list lies in its array and
\* holds libraries its paths permit, in the order they were added, and all of
\* them as long as no load was nested (arm2x86_load_library_in_namespace).
THEOREM NamespacesKept == NsSpec => []NamespacesRight
  <1>1. NsInv /\ [NsNext]_nsVars => NsInv'
    <2> SUFFICES ASSUME NsInv, [NsNext]_nsVars PROVE NsInv'
      OBVIOUS
    <2>1. CASE LoadFailed
      BY <2>1, NsFailKeeps DEF LoadFailed
    <2>2. CASE UNCHANGED nsVars
      BY <2>2 DEF nsVars, NsInv
    <2> QED
      BY <2>1, <2>2, NsInitKeeps, NsBeginKeeps, NsDoneKeeps, NsFiniKeeps DEF NsNext
  <1>2. NsInv => NamespacesRight
    BY DEF NsInv, NamespacesRight, Lists, ListOf
  <1> QED
    BY <1>1, <1>2, NsStart, PTL DEF NsSpec
=============================================================================
