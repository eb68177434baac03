---------------------------- MODULE GuestProofs ----------------------------
(***************************************************************************)
(* Proofs about what the library makes of a guest's code: the blocks it    *)
(* translates (Block64), the symbols it looks up in an ELF image           *)
(* (ElfSymbols) and the libraries it loads and unloads (Loader).           *)
(***************************************************************************)
EXTENDS Block64, ElfSymbols, Loader, SetFacts, FiniteSetTheorems, SequenceTheorems, TLAPS

(***************************************************************************)
(* Block64.  RegistersApart says nothing of how the allocator's fields     *)
(* belong together; the inductive invariant adds that some register is     *)
(* always held, so that a spill always finds a victim, that no free        *)
(* register is the mark for memory, and that the map from ARM to x86       *)
(* addresses repeats where each instruction began.                         *)
(***************************************************************************)
XReg == {InMemory, BaseReg} \union {Pool[i] : i \in DOMAIN Pool}
AlType ==
  [held : [Gpr -> XReg], dirty : [Gpr -> BOOLEAN], free : Seq(XReg), astray : BOOLEAN, at : Nat]

Apart(s) ==
  /\ \A a, b \in Gpr : a # b /\ s.held[a] # InMemory => s.held[a] # s.held[b]
  /\ \A i, j \in DOMAIN s.free : i # j => s.free[i] # s.free[j]
  /\ \A a \in Gpr, i \in DOMAIN s.free : s.held[a] # s.free[i]
  /\ \A i \in DOMAIN s.free : s.free[i] # InMemory
SomeHeld(s) == \E a \in Gpr : s.held[a] # InMemory
AlInv(s) == s \in AlType /\ Apart(s)

MapRight ==
  /\ armCur \in Nat /\ starts \in Seq(Nat) /\ Len(starts) = armCur
  /\ pcMap \in Seq(Nat \X Nat)
  /\ \A i \in DOMAIN pcMap : pcMap[i][1] < armCur /\ pcMap[i][2] = starts[pcMap[i][1] + 1]

BlockInv ==
  /\ AlInv(al) /\ SomeHeld(al)
  /\ finished \in BOOLEAN
  /\ leave.kind = "none" => leave.how # "direct"
  /\ MapRight
  /\ LandsRight

-----------------------------------------------------------------------------
\* Taking a free register keeps the registers apart.
LEMMA AllocKeeps ==
  ASSUME NEW s, AlInv(s), s.free # <<>>, NEW a \in Gpr, NEW w, w = Alloc(s, a)
  PROVE  AlInv(w) /\ w.held[a] # InMemory /\ SomeHeld(w)
  <1> PICK n : n = Len(s.free)
    OBVIOUS
  <1>1. /\ s \in AlType /\ n \in Nat /\ n >= 1 /\ n \in DOMAIN s.free /\ s.free[n] \in XReg
        /\ SubSeq(s.free, 1, n - 1) \in Seq(XReg)
    BY DEF AlInv, AlType
  <1>2. /\ w \in AlType
        /\ w.held = [s.held EXCEPT ![a] = s.free[n]]
        /\ w.free = SubSeq(s.free, 1, n - 1)
    <2> DEFINE u == [s EXCEPT !.free = SubSeq(@, 1, n - 1)]
               v == reg_alloc_assign(u, a, s.free[n])
    <2>1. u \in AlType /\ u.held = s.held /\ u.free = SubSeq(s.free, 1, n - 1)
      BY <1>1 DEF AlType
    <2>2. w = [v EXCEPT !.at = @ + 1]
      BY DEF Alloc, emit_load
    <2> HIDE DEF u
    <2>3. v \in AlType
      BY <1>1, <2>1 DEF AlType, reg_alloc_assign
    <2>4. v.held = [u.held EXCEPT ![a] = s.free[n]] /\ v.free = u.free
      BY <1>1, <2>1 DEF AlType, reg_alloc_assign
    <2> HIDE DEF v
    <2>5. w \in AlType
      BY <2>2, <2>3 DEF AlType
    <2>6. w.held = v.held /\ w.free = v.free
      BY <2>2, <2>3 DEF AlType
    <2> QED
      BY <2>1, <2>4, <2>5, <2>6
  <1>3. /\ DOMAIN w.free = 1..(n - 1)
        /\ \A i \in DOMAIN w.free : i \in DOMAIN s.free /\ i # n /\ w.free[i] = s.free[i]
    BY <1>1, <1>2 DEF AlType
  <1>4. /\ \A b \in Gpr \ {a} : w.held[b] = s.held[b]
        /\ w.held[a] = s.free[n]
    BY <1>1, <1>2 DEF AlType
  <1>5. w.held[a] # InMemory
    BY <1>1, <1>4 DEF AlInv, Apart
  <1>6. Apart(w)
    BY <1>1, <1>3, <1>4 DEF AlInv, Apart
  <1> QED
    BY <1>2, <1>5, <1>6 DEF AlInv, SomeHeld

\* What changes neither owners nor the pool keeps the registers apart.
LEMMA SameOwners ==
  ASSUME NEW s, AlInv(s), NEW w \in AlType, w.held = s.held, w.free = s.free
  PROVE  AlInv(w)
  BY DEF AlInv, Apart

\* Whether a store went astray is no part of who owns what.
LEMMA AstrayKeeps ==
  ASSUME NEW u \in AlType, NEW lost \in BOOLEAN, NEW w, w = [u EXCEPT !.astray = lost]
  PROVE  w \in AlType /\ w.held = u.held /\ w.free = u.free
  BY DEF AlType

\* Storing a register to its home.
LEMMA StoreKeeps ==
  ASSUME NEW s, AlInv(s), NEW a \in Gpr, NEW w, w = emit_store(s, a)
  PROVE  AlInv(w) /\ w.held = s.held /\ w.free = s.free
  <1>1. s \in AlType
    BY DEF AlInv
  <1>2. PICK lost : lost = (s.astray \/ s.held[a] \in High)
    OBVIOUS
  <1>3. lost \in BOOLEAN
    BY <1>2
  <1>4. PICK u : u = [s EXCEPT !.at = @ + 1]
    OBVIOUS
  <1>5. w = [u EXCEPT !.astray = lost]
    BY <1>2, <1>4, Zenon DEF emit_store
  <1>6. u \in AlType /\ u.held = s.held /\ u.free = s.free
    BY <1>1, <1>4 DEF AlType
  <1>7. w \in AlType /\ w.held = u.held /\ w.free = u.free
    BY <1>3, <1>5, <1>6, AstrayKeeps
  <1> QED
    BY <1>6, <1>7, SameOwners

\* Marking a held register dirty.
LEMMA MarkKeeps ==
  ASSUME NEW s, AlInv(s), NEW a \in Gpr, NEW mark \in BOOLEAN, NEW w, w = Mark(s, a, mark)
  PROVE  AlInv(w) /\ w.held = s.held
  <1>1. s \in AlType
    BY DEF AlInv
  <1>2. w \in AlType /\ w.held = s.held /\ w.free = s.free
    BY <1>1 DEF AlType, Mark
  <1> QED
    BY <1>2, SameOwners

\* The victim of a spill: the priorities are numbers, so one is least.
LEMMA VictimHeld ==
  ASSUME NEW s, SomeHeld(s), NEW v, v = Victim(s)
  PROVE  v \in Gpr /\ s.held[v] # InMemory
  <1> DEFINE cand == {a \in Gpr : s.held[a] # InMemory}
             low(a) == \A b \in cand : arm_reg_priority[a] <= arm_reg_priority[b]
             prios == {arm_reg_priority[a] : a \in cand}
             lowest == {a \in cand : low(a)}
  <1>1. cand \subseteq 0..31 /\ cand # {}
    BY BlockAssumption DEF SomeHeld
  <1>2. \A a \in 0..31 : arm_reg_priority[a] \in Nat
    <2> TAKE a \in 0..31
    <2>1. a \div 2 \in 0..15
      OBVIOUS
    <2>2. a < 9 => a \div 2 <= 4
      OBVIOUS
    <2> QED
      BY <2>1, <2>2 DEF arm_reg_priority
  <1>3. prios \in SUBSET Nat /\ prios # {}
    BY <1>1, <1>2
  <1>4. PICK p \in prios : \A q \in prios : p <= q
    <2> HIDE DEF prios
    <2> QED
      BY <1>3, MinNat
  <1>5. lowest \in SUBSET Nat /\ lowest # {}
    <2>1. PICK a \in cand : p = arm_reg_priority[a]
      BY <1>4
    <2>2. low(a)
      BY <1>4, <2>1
    <2> QED
      BY <1>1, <2>1, <2>2
  <1>6. PICK m \in lowest : \A b \in lowest : m <= b
    <2> HIDE DEF lowest
    <2> QED
      BY <1>5, MinNat
  <1>7. \E a \in cand : low(a) /\ \A b \in cand : low(b) => a <= b
    BY <1>6
  <1>8. v = CHOOSE a \in cand : low(a) /\ \A b \in cand : low(b) => a <= b
    BY DEF Victim
  <1> QED
    <2> HIDE DEF low, cand
    <2>1. v \in cand
      BY <1>7, <1>8
    <2> QED
      BY <2>1 DEF cand

\* Spilling a register makes room for another one.
LEMMA SpillKeeps ==
  ASSUME NEW s, AlInv(s), NEW v \in Gpr, s.held[v] # InMemory, s.free = <<>>,
         NEW w, w = Spill(s, v)
  PROVE  AlInv(w) /\ w.free # <<>>
  <1>1. PICK t : t = StoreIfDirty(s, v)
    OBVIOUS
  <1>2. AlInv(t) /\ t.held = s.held /\ t.free = s.free
    <2>1. t = s \/ t = emit_store(s, v)
      BY <1>1 DEF StoreIfDirty
    <2> QED
      BY <2>1, StoreKeeps
  <1>3. PICK u : u = [t EXCEPT !.held[v] = InMemory]
    OBVIOUS
  <1>4. u \in AlType /\ u.free = <<>> /\ u.held = [s.held EXCEPT ![v] = InMemory]
    <2>1. t \in AlType /\ t.free = <<>> /\ t.held = s.held
      BY <1>2 DEF AlInv
    <2>2. PICK h : h = [t.held EXCEPT ![v] = InMemory]
      OBVIOUS
    <2>3. h \in [Gpr -> XReg]
      <3>1. InMemory \in XReg
        BY DEF XReg
      <3>2. t.held \in [Gpr -> XReg]
        BY <2>1 DEF AlType
      <3> QED
        BY <2>2, <3>1, <3>2
    <2>4. u = [t EXCEPT !.held = h]
      BY <1>3, <2>2
    <2>5. u \in AlType /\ u.free = t.free /\ u.held = h
      BY <2>1, <2>3, <2>4 DEF AlType
    <2> QED
      BY <2>1, <2>2, <2>5
  <1>5. /\ u.held[v] = InMemory /\ \A b \in Gpr \ {v} : u.held[b] = s.held[b]
        /\ s.held[v] \in XReg
    BY <1>4 DEF AlInv, AlType
  <1>6. Len(u.free) < Len(Pool)
    BY <1>4, BlockAssumption
  <1>7. w = [u EXCEPT !.free = Append(@, s.held[v])]
    BY <1>1, <1>3, <1>6 DEF Spill, reg_alloc_free
  <1>8. w \in AlType /\ w.held = u.held /\ w.free = <<s.held[v]>>
    <2>1. PICK f : f = Append(u.free, s.held[v])
      OBVIOUS
    <2>2. f = <<s.held[v]>> /\ f \in Seq(XReg)
      BY <1>4, <1>5, <2>1
    <2>3. w = [u EXCEPT !.free = f]
      BY <1>7, <2>1
    <2>4. w \in AlType /\ w.held = u.held /\ w.free = f
      BY <1>4, <2>2, <2>3 DEF AlType
    <2> QED
      BY <2>2, <2>4
  <1>9. Apart(w)
    BY <1>5, <1>8 DEF AlInv, Apart
  <1> QED
    BY <1>8, <1>9 DEF AlInv

\* reg_alloc_get_reg always finds a register, its own, a free one or a spilled one.
LEMMA GetRegKeeps ==
  ASSUME NEW s, AlInv(s), SomeHeld(s), NEW a \in Gpr,
         NEW mark \in BOOLEAN, NEW w, w = reg_alloc_get_reg(s, a, mark)
  PROVE  AlInv(w) /\ SomeHeld(w)
  <1>1. CASE s.held[a] # InMemory
    <2>1. w = Mark(s, a, mark)
      BY <1>1 DEF reg_alloc_get_reg
    <2> QED
      BY <2>1, MarkKeeps DEF SomeHeld
  <1>2. CASE s.held[a] = InMemory /\ s.free # <<>>
    <2>1. PICK u : u = Alloc(s, a)
      OBVIOUS
    <2>2. w = Mark(u, a, mark)
      BY <1>2, <2>1 DEF reg_alloc_get_reg
    <2>3. AlInv(u) /\ SomeHeld(u)
      BY <1>2, <2>1, AllocKeeps
    <2> QED
      BY <2>2, <2>3, MarkKeeps DEF SomeHeld
  <1>3. CASE s.held[a] = InMemory /\ s.free = <<>>
    <2>1. PICK v : v = Victim(s)
      OBVIOUS
    <2>2. v \in Gpr /\ s.held[v] # InMemory
      BY <2>1, VictimHeld
    <2>3. PICK t : t = Spill(s, v)
      OBVIOUS
    <2>4. AlInv(t) /\ t.free # <<>>
      BY <1>3, <2>2, <2>3, SpillKeeps
    <2>5. PICK u : u = Alloc(t, a)
      OBVIOUS
    <2>6. w = Mark(u, a, mark)
      BY <1>3, <2>1, <2>2, <2>3, <2>5 DEF reg_alloc_get_reg
    <2>7. AlInv(u) /\ SomeHeld(u)
      BY <2>4, <2>5, AllocKeeps
    <2> QED
      BY <2>6, <2>7, MarkKeeps DEF SomeHeld
  <1> QED
    BY <1>1, <1>2, <1>3

\* The stores at the end of a block change no owner.
LEMMA BatchStored ==
  ASSUME NEW s, AlInv(s), NEW w, w = reg_alloc_emit_batch_store(s)
  PROVE  AlInv(w) /\ w.held = s.held
  <1>1. PICK live : live = {a \in reg_alloc_compute_live_out(s) : s.dirty[a]}
    OBVIOUS
  <1>2. live \subseteq 0..31
    BY <1>1, BlockAssumption DEF reg_alloc_compute_live_out
  <1>3. PICK k : k = Cardinality(live)
    OBVIOUS
  <1>4. k \in Nat
    <2>1. IsFiniteSet(0..31)
      <3>1. 0 \in Int /\ 31 \in Int
        OBVIOUS
      <3> QED
        BY <3>1, FS_Interval, Zenon
    <2> QED
      BY <1>2, <1>3, <2>1, FS_Subset, FS_CardinalityType
  <1>5. PICK lost : lost = (s.astray \/ \E a \in live : s.held[a] \in High)
    OBVIOUS
  <1>6. PICK di : di = [a \in Gpr |-> s.dirty[a] /\ a \notin live]
    OBVIOUS
  <1>7. s \in AlType
    BY DEF AlInv
  <1>8. lost \in BOOLEAN
    BY <1>5
  <1>9. di \in [Gpr -> BOOLEAN]
    BY <1>6, <1>7 DEF AlType
  <1>10. PICK u : u = [s EXCEPT !.at = @ + k]
    OBVIOUS
  <1>11. PICK v : v = [u EXCEPT !.astray = lost]
    OBVIOUS
  <1>12. w = [v EXCEPT !.dirty = di]
    BY <1>1, <1>3, <1>5, <1>6, <1>10, <1>11, Zenon DEF reg_alloc_emit_batch_store
  <1>13. u \in AlType /\ u.held = s.held /\ u.free = s.free
    BY <1>4, <1>7, <1>10 DEF AlType
  <1>14. v \in AlType /\ v.held = u.held /\ v.free = u.free
    BY <1>8, <1>11, <1>13, AstrayKeeps
  <1>15. w \in AlType /\ w.held = v.held /\ w.free = v.free
    BY <1>9, <1>12, <1>14 DEF AlType
  <1> QED
    BY <1>13, <1>14, <1>15, SameOwners

\* Instructions that only move the x86 address.
LEMMA EmitKeeps ==
  ASSUME NEW s, AlInv(s), NEW k \in Nat, NEW w, w = [s EXCEPT !.at = @ + k]
  PROVE  AlInv(w) /\ w.held = s.held
  <1>1. w \in AlType /\ w.held = s.held /\ w.free = s.free
    BY DEF AlInv, AlType
  <1> QED
    BY <1>1, SameOwners

\* Every translated instruction extends the two maps alike.
LEMMA MapKept ==
  ASSUME MapRight, al.at \in Nat, Advance, pcMap' = pc_map_add(al.at) \/ pcMap' = pcMap
  PROVE  MapRight'
  <1>1. /\ armCur' = armCur + 1 /\ starts' = Append(starts, al.at)
        /\ armCur \in Nat /\ starts \in Seq(Nat) /\ Len(starts) = armCur
    BY DEF Advance, MapRight
  <1>2. /\ starts' \in Seq(Nat) /\ Len(starts') = armCur + 1 /\ starts'[armCur + 1] = al.at
        /\ \A k \in 1..armCur : starts'[k] = starts[k]
    BY <1>1
  <1>3. pcMap \in Seq(Nat \X Nat)
    BY DEF MapRight
  <1>4. CASE pcMap' = pcMap
    <2>1. \A i \in DOMAIN pcMap : pcMap[i] \in Nat \X Nat
      BY <1>3
    <2>2. ASSUME NEW i \in DOMAIN pcMap
          PROVE  pcMap[i][1] < armCur + 1 /\ pcMap[i][2] = starts'[pcMap[i][1] + 1]
      <3>1. PICK k \in Nat : k = pcMap[i][1]
        BY <2>1
      <3>2. k < armCur /\ pcMap[i][2] = starts[k + 1]
        BY <3>1 DEF MapRight
      <3>3. k + 1 \in 1..armCur
        BY <1>1, <3>2
      <3> QED
        BY <1>1, <1>2, <3>1, <3>2, <3>3
    <2> QED
      BY <1>1, <1>2, <1>3, <1>4, <2>2 DEF MapRight
  <1>5. CASE pcMap' = Append(pcMap, <<armCur, al.at>>)
    <2>1. pcMap' \in Seq(Nat \X Nat)
      BY <1>1, <1>3, <1>5
    <2>2. PICK n \in Nat : n = Len(pcMap)
      BY <1>3
    <2>3. /\ DOMAIN pcMap' = 1..(n + 1) /\ DOMAIN pcMap = 1..n
          /\ pcMap'[n + 1] = <<armCur, al.at>> /\ \A i \in 1..n : pcMap'[i] = pcMap[i]
      BY <1>3, <1>5, <2>2
    <2>4. \A i \in 1..n : pcMap[i][1] \in 0..(armCur - 1)
      <3>1. \A i \in 1..n : pcMap[i] \in Nat \X Nat
        BY <1>3, <2>3
      <3>2. \A i \in 1..n : pcMap[i][1] < armCur
        BY <2>3 DEF MapRight
      <3> QED
        BY <1>1, <3>1, <3>2
    <2>5. ASSUME NEW i \in DOMAIN pcMap'
          PROVE  pcMap'[i][1] < armCur + 1 /\ pcMap'[i][2] = starts'[pcMap'[i][1] + 1]
      <3>1. CASE i = n + 1
        BY <1>1, <1>2, <2>3, <3>1
      <3>2. CASE i # n + 1
        <4>1. i \in 1..n
          BY <2>2, <2>3, <3>2
        <4>2. PICK k \in 0..(armCur - 1) : k = pcMap[i][1]
          BY <2>4, <4>1
        <4>3. pcMap[i][2] = starts[k + 1]
          BY <2>3, <4>1, <4>2 DEF MapRight
        <4>4. k + 1 \in 1..armCur /\ k < armCur + 1
          BY <1>1
        <4> QED
          BY <1>2, <2>3, <4>1, <4>2, <4>3, <4>4
      <3> QED
        BY <3>1, <3>2
    <2> QED
      BY <1>1, <1>2, <2>1, <2>5 DEF MapRight
  <1> QED
    BY <1>4, <1>5 DEF pc_map_add

\* A branch resolved through the map goes to the start of the instruction it names.
LEMMA ExitLands ==
  ASSUME MapRight, al.at \in Nat, Advance, pcMap' = pc_map_add(al.at),
         NEW kind, NEW named \in Int, NEW off \in Int, off = named \/ kind = "bcond",
         NEW e, e = JumpOrStub(kind, named, off)
  PROVE  e.how = "direct" /\ e.kind # "bcond" => e.to = starts'[armCur' + e.named]
  <1>1. MapRight'
    BY MapKept
  <1>2. PICK map : map = pcMap'
    OBVIOUS
  <1>3. PICK pc : pc = armCur + off
    OBVIOUS
  <1>4. PICK x : x = pc_map_lookup(map, pc)
    OBVIOUS
  <1>5. /\ e.kind = kind /\ e.named = named
        /\ e.how = "direct" => x >= 0 /\ e.to = x
    BY <1>2, <1>3, <1>4 DEF JumpOrStub, Exit
  <1>6. SUFFICES ASSUME x >= 0, off = named PROVE x = starts'[armCur' + named]
    BY <1>5
  <1>7. PICK hits : hits = {i \in DOMAIN map : map[i][1] = pc}
    OBVIOUS
  <1>8. hits # {} /\ x = map[CHOOSE i \in hits : \A j \in hits : i <= j][2]
    BY <1>4, <1>6, <1>7 DEF pc_map_lookup
  <1>9. hits \in SUBSET Nat
    <2>1. map \in Seq(Nat \X Nat)
      BY <1>1, <1>2 DEF MapRight
    <2>2. DOMAIN map \in SUBSET Nat
      BY <2>1
    <2> QED
      BY <1>7, <2>2
  <1>10. PICK i \in hits : x = map[i][2]
    <2>1. \E i \in hits : \A j \in hits : i <= j
      BY <1>8, <1>9, MinNat
    <2> QED
      BY <1>8, <2>1
  <1>11. x = starts'[pc + 1]
    BY <1>1, <1>2, <1>7, <1>10 DEF MapRight
  <1>12. armCur' = armCur + 1 /\ armCur \in Nat
    BY DEF Advance, MapRight
  <1>13. pc + 1 = armCur' + named
    BY <1>3, <1>6, <1>12
  <1> QED
    BY <1>11, <1>13

\* The fresh allocator, with X29 in its fixed register.
LEMMA BlockStart == BlockInit => BlockInv
  <1> SUFFICES ASSUME BlockInit PROVE BlockInv
    OBVIOUS
  <1> PICK s : s = reg_alloc_init
    OBVIOUS
  <1>1. /\ Pool \in Seq(XReg) /\ BaseReg \in XReg /\ InMemory \in XReg /\ BaseReg # InMemory
        /\ FP \in Gpr
    <2>1. PICK n \in Nat : n = Len(Pool)
      BY BlockAssumption
    <2>2. Pool \in [1..n -> XReg]
      BY <2>1, BlockAssumption DEF XReg
    <2> QED
      BY <2>2, BlockAssumption DEF XReg, BaseReg, InMemory
  <1>2. /\ s \in AlType /\ s.free = Pool
        /\ s.held = [a \in Gpr |-> InMemory]
    BY <1>1 DEF reg_alloc_init, AlType
  <1>3. PICK u : u = reg_alloc_assign(s, FP, BaseReg)
    OBVIOUS
  <1>4. al = [u EXCEPT !.at = @ + 1]
    BY <1>3 DEF BlockInit, reg_alloc_setup_calling_convention, reg_alloc_ensure_fixed, emit_load
  <1>5. u \in AlType
    BY <1>1, <1>2, <1>3 DEF AlType, reg_alloc_assign
  <1>6. /\ u.free = Pool
        /\ u.held = [s.held EXCEPT ![FP] = BaseReg]
    BY <1>1, <1>2, <1>3 DEF AlType, reg_alloc_assign
  <1>7. al \in AlType /\ al.free = u.free /\ al.held = u.held
    BY <1>4, <1>5 DEF AlType
  <1>8. /\ al.free = Pool
        /\ al.held[FP] = BaseReg /\ \A a \in Gpr \ {FP} : al.held[a] = InMemory
    BY <1>1, <1>2, <1>6, <1>7
  <1>9. Apart(al)
    BY <1>1, <1>8, BlockAssumption DEF Apart
  <1>10. SomeHeld(al)
    BY <1>1, <1>8 DEF SomeHeld
  <1>11. /\ finished = FALSE /\ armCur = 0 /\ starts = <<>> /\ pcMap = <<>>
         /\ leave = NoExit
    BY DEF BlockInit
  <1>12. MapRight
    BY <1>11 DEF MapRight
  <1>13. LandsRight
    BY <1>11 DEF LandsRight, NoExit
  <1> QED
    BY <1>7, <1>9, <1>10, <1>11, <1>12, <1>13 DEF AlInv, BlockInv, NoExit

\* What every instruction but a branch leaves to show.
LEMMA Straight ==
  ASSUME BlockInv, Translating, Advance, pcMap' = pc_map_add(al.at) \/ pcMap' = pcMap,
         UNCHANGED <<leave, finished>>, AlInv(al'), SomeHeld(al')
  PROVE  BlockInv'
  <1>1. al.at \in Nat
    BY DEF BlockInv, AlInv, AlType
  <1>2. MapRight'
    BY <1>1, MapKept DEF BlockInv
  <1>3. leave'.how = leave.how /\ leave'.kind = "none" /\ finished' = FALSE /\ leave' = leave
    BY DEF Translating, BlockInv
  <1>4. leave.how # "direct"
    BY DEF BlockInv, Translating
  <1> QED
    BY <1>2, <1>3, <1>4 DEF BlockInv, LandsRight

\* A data-processing instruction takes three registers.
LEMMA DataProcessingKeeps ==
  ASSUME BlockInv, NEW op, NEW i \in Triples, DataProcessing(op, i)
  PROVE  BlockInv'
  <1>1. i[1] \in Gpr /\ i[2] \in Gpr /\ i[3] \in Gpr
    BY BlockAssumption
  <1>2. PICK s1 : s1 = reg_alloc_get_reg(al, i[2], FALSE)
    OBVIOUS
  <1>3. PICK s2 : s2 = reg_alloc_get_reg(s1, i[3], FALSE)
    OBVIOUS
  <1>4. PICK s3 : s3 = reg_alloc_get_reg(s2, i[1], TRUE)
    OBVIOUS
  <1>5. AlInv(s1) /\ SomeHeld(s1)
    BY <1>1, <1>2, GetRegKeeps DEF BlockInv
  <1>6. AlInv(s2) /\ SomeHeld(s2)
    BY <1>1, <1>3, <1>5, GetRegKeeps
  <1>7. AlInv(s3) /\ SomeHeld(s3)
    BY <1>1, <1>4, <1>6, GetRegKeeps
  <1>8. PICK w : w = al'
    OBVIOUS
  <1>9. w = [s3 EXCEPT !.at = @ + OneX86(Got(s3, i[1]), Got(s1, i[2])) + (IF op \in {"bic", "orn"} THEN 1 ELSE 0)]
    BY <1>2, <1>3, <1>4, <1>8 DEF DataProcessing
  <1>10. w \in AlType /\ w.held = s3.held /\ w.free = s3.free
    BY <1>7, <1>9 DEF AlInv, AlType, OneX86
  <1>11. AlInv(w) /\ SomeHeld(w)
    BY <1>7, <1>10, SameOwners DEF SomeHeld
  <1> QED
    BY <1>8, <1>11, Straight DEF DataProcessing

\* MOVZ and MOVN.
LEMMA MovImmKeeps ==
  ASSUME BlockInv, NEW a \in Gpr, translate_mov_imm(a)
  PROVE  BlockInv'
  <1>0. AlInv(al) /\ SomeHeld(al)
    BY DEF BlockInv
  <1>1. CASE al.free # <<>> /\ al' = Mark(emit_store(Alloc(al, a), a), a, TRUE)
    <2>1. PICK u : u = Alloc(al, a)
      OBVIOUS
    <2>2. PICK v : v = emit_store(u, a)
      OBVIOUS
    <2>3. AlInv(u) /\ SomeHeld(u)
      BY <1>0, <1>1, <2>1, AllocKeeps
    <2>4. AlInv(v) /\ v.held = u.held
      BY <2>2, <2>3, StoreKeeps
    <2>5. PICK mark \in BOOLEAN : mark = TRUE
      OBVIOUS
    <2>6. PICK w : w = al'
      OBVIOUS
    <2>7. w = Mark(v, a, mark)
      BY <1>1, <2>1, <2>2, <2>5, <2>6
    <2>8. AlInv(w) /\ SomeHeld(w)
      BY <2>3, <2>4, <2>7, MarkKeeps DEF SomeHeld
    <2> QED
      BY <2>6, <2>8, Straight DEF translate_mov_imm
  <1>2. CASE al.free = <<>> /\ al' = [al EXCEPT !.at = @ + 1]
    <2>1. PICK w : w = al'
      OBVIOUS
    <2>2. AlInv(w) /\ SomeHeld(w)
      <3>1. PICK k \in Nat : k = 1
        OBVIOUS
      <3>2. w = [al EXCEPT !.at = @ + k]
        BY <1>2, <2>1, <3>1
      <3>3. AlInv(w) /\ w.held = al.held
        BY <1>0, <3>2, EmitKeeps
      <3> QED
        BY <1>0, <3>3 DEF SomeHeld
    <2> QED
      BY <2>1, <2>2, Straight DEF translate_mov_imm
  <1> QED
    BY <1>1, <1>2 DEF translate_mov_imm

\* The instructions that write rd through its home.
LEMMA ThroughHomeKeeps ==
  ASSUME BlockInv, NEW a \in Gpr, ThroughHome(a)
  PROVE  BlockInv'
  <1>1. PICK w : w = al'
    OBVIOUS
  <1>2. AlInv(w) /\ w.held = al.held
    BY <1>1, EmitKeeps DEF BlockInv, ThroughHome
  <1>3. SomeHeld(w)
    BY <1>2 DEF BlockInv, SomeHeld
  <1> QED
    BY <1>1, <1>2, <1>3, Straight DEF ThroughHome

\* What is not decoded.
LEMMA UnknownKeeps == ASSUME BlockInv, Unknown PROVE BlockInv'
  <1>1. PICK w : w = al'
    OBVIOUS
  <1>2. AlInv(w) /\ w.held = al.held
    BY <1>1, EmitKeeps DEF BlockInv, Unknown
  <1>3. AlInv(w) /\ SomeHeld(w)
    BY <1>2 DEF BlockInv, SomeHeld
  <1> QED
    BY <1>1, <1>3, Straight DEF Unknown

\* A branch stores what is dirty and ends the block.
LEMMA BranchKeeps ==
  ASSUME BlockInv, NEW emitted \in Nat, NEW e, Branch(al, emitted, e), e.kind # "none",
         e.how = "direct" /\ e.kind # "bcond" => e.to = starts'[armCur' + e.named]
  PROVE  BlockInv'
  <1>1. PICK u : u = [al EXCEPT !.at = @ + emitted]
    OBVIOUS
  <1>2. AlInv(u) /\ u.held = al.held
    BY <1>1, EmitKeeps DEF BlockInv
  <1>3. PICK w : w = al'
    OBVIOUS
  <1>4. w = reg_alloc_emit_batch_store(u)
    BY <1>1, <1>3 DEF Branch
  <1>5. AlInv(w) /\ w.held = al.held
    BY <1>2, <1>4, BatchStored
  <1>6. AlInv(al') /\ SomeHeld(al')
    BY <1>3, <1>5 DEF BlockInv, SomeHeld
  <1>7. al.at \in Nat
    BY DEF BlockInv, AlInv, AlType
  <1>8. MapRight'
    BY <1>7, MapKept DEF BlockInv, Branch
  <1>9. finished' = FALSE /\ leave' = e
    BY DEF BlockInv, Branch, Translating
  <1> QED
    BY <1>6, <1>8, <1>9 DEF BlockInv, LandsRight

\* A branch resolved through the map.
LEMMA ResolvedKeeps ==
  ASSUME BlockInv, NEW emitted \in Nat, NEW kind, kind # "none", NEW named \in Int, NEW off \in Int, off = named \/ kind = "bcond",
         Branch(al, emitted, JumpOrStub(kind, named, off))
  PROVE  BlockInv'
  <1>1. PICK e : e = JumpOrStub(kind, named, off)
    OBVIOUS
  <1>2. al.at \in Nat /\ MapRight /\ Advance /\ pcMap' = pc_map_add(al.at)
    BY DEF BlockInv, AlInv, AlType, Branch
  <1>3. e.how = "direct" /\ e.kind # "bcond" => e.to = starts'[armCur' + e.named]
    BY <1>1, <1>2, ExitLands
  <1>4. e.kind = kind
    BY <1>1 DEF JumpOrStub, Exit
  <1>5. Branch(al, emitted, e)
    BY <1>1
  <1> QED
    BY <1>3, <1>4, <1>5, BranchKeeps

\* A branch that goes on behind itself.
LEMMA NextKeeps ==
  ASSUME BlockInv, NEW emitted \in Nat, NEW kind, kind # "none", Branch(al, emitted, JumpNext(kind))
  PROVE  BlockInv'
  <1>1. PICK e : e = JumpNext(kind)
    OBVIOUS
  <1>2. e.kind = kind /\ e.how = "next"
    BY <1>1 DEF JumpNext, Exit
  <1>3. Branch(al, emitted, e)
    BY <1>1
  <1> QED
    BY <1>2, <1>3, BranchKeeps

\* The stores before the epilogue.
LEMMA EpilogueKeeps == ASSUME BlockInv, Epilogue PROVE BlockInv'
  <1>1. PICK u : u = reg_alloc_emit_batch_store(al)
    OBVIOUS
  <1>2. AlInv(u) /\ u.held = al.held
    BY <1>1, BatchStored DEF BlockInv
  <1>3. PICK w : w = al'
    OBVIOUS
  <1>4. w = [u EXCEPT !.at = @ + 2]
    BY <1>1, <1>3 DEF Epilogue
  <1>5. AlInv(w) /\ w.held = al.held
    BY <1>2, <1>4, EmitKeeps
  <1>6. AlInv(al') /\ SomeHeld(al')
    BY <1>3, <1>5 DEF BlockInv, SomeHeld
  <1>7. UNCHANGED <<pcMap, starts, armCur, leave>> /\ finished' = TRUE
    BY DEF Epilogue
  <1>8. MapRight' /\ LandsRight'
    BY <1>7 DEF BlockInv, MapRight, LandsRight
  <1> QED
    BY <1>6, <1>7, <1>8 DEF BlockInv

\* Every step keeps the block's invariant.
LEMMA BlockStep == BlockInv /\ [BlockNext]_blockVars => BlockInv'
  <1> SUFFICES ASSUME BlockInv, [BlockNext]_blockVars PROVE BlockInv'
    OBVIOUS
  <1> USE DEF Jump
  <1>0. /\ 0 \in Nat /\ 1 \in Nat /\ 2 \in Nat /\ 3 \in Nat /\ 4 \in Nat
        /\ \A off \in Offsets : off \in Int
    BY BlockAssumption
  <1>1. ASSUME NEW i \in Triples, translate_add_sub("add", i) \/ translate_logical("bic", i)
        PROVE  BlockInv'
    BY <1>1, DataProcessingKeeps DEF translate_add_sub, translate_logical
  <1>2. ASSUME NEW a \in Gpr, translate_mov_imm(a) PROVE BlockInv'
    BY <1>2, MovImmKeeps
  <1>3. ASSUME NEW a \in Gpr, ThroughHome(a) PROVE BlockInv'
    BY <1>3, ThroughHomeKeeps
  <1>4. CASE Unknown
    BY <1>4, UnknownKeeps
  <1>5. ASSUME NEW off \in Offsets, translate_b(off) PROVE BlockInv'
    BY <1>0, <1>5, ResolvedKeeps DEF translate_b
  <1>6. ASSUME NEW off \in Offsets, translate_bl(off) PROVE BlockInv'
    BY <1>0, <1>6, ResolvedKeeps DEF translate_bl
  <1>7. ASSUME NEW off \in Offsets, translate_cbz_cbnz(off) PROVE BlockInv'
    BY <1>0, <1>7, ResolvedKeeps DEF translate_cbz_cbnz
  <1>8. ASSUME NEW off \in Offsets, translate_tbz_tbnz(off) PROVE BlockInv'
    BY <1>0, <1>8, ResolvedKeeps DEF translate_tbz_tbnz
  <1>9. ASSUME NEW off \in Offsets, NEW always \in BOOLEAN, translate_b_cond(off, always)
        PROVE  BlockInv'
    <2>1. PICK half : half = off \div 2
      OBVIOUS
    <2>2. half \in Int
      BY <1>0, <2>1
    <2>3. PICK k \in Nat : k = IF always THEN 1 ELSE 2
      OBVIOUS
    <2>4. Branch(al, k, JumpOrStub("bcond", off, half))
      BY <1>9, <2>1, <2>3 DEF translate_b_cond
    <2> QED
      BY <1>0, <2>2, <2>4, ResolvedKeeps
  <1>10. CASE translate_br
    BY <1>0, <1>10, NextKeeps DEF translate_br
  <1>11. CASE translate_blr
    BY <1>0, <1>11, NextKeeps DEF translate_blr
  <1>12. ASSUME NEW lr \in BOOLEAN, translate_ret(lr) PROVE BlockInv'
    <2>1. PICK k \in Nat : k = IF lr THEN 0 ELSE 2
      OBVIOUS
    <2>2. Branch(al, k, JumpNext("ret"))
      BY <1>12, <2>1 DEF translate_ret
    <2> QED
      BY <2>2, NextKeeps
  <1>13. CASE Epilogue
    BY <1>13, EpilogueKeeps
  <1>14. CASE UNCHANGED blockVars
    BY <1>14 DEF blockVars, BlockInv, MapRight, LandsRight
  <1> QED
    BY <1>1, <1>2, <1>3, <1>4, <1>5, <1>6, <1>7, <1>8, <1>9, <1>10, <1>11, <1>12, <1>13, <1>14
    DEF BlockNext

\* For every register set, pool of x86 registers, program and limit: no x86 register has
\* two owners, whatever is spilled and reloaded, and branches within a block land on the
\* instruction they name (arm2x86_convert_block).
THEOREM BlocksSound == BlockSpec => []BlockSound
  <1>1. BlockInv => BlockSound
    BY DEF BlockInv, AlInv, Apart, RegistersApart, BlockSound
  <1> QED
    BY <1>1, BlockStart, BlockStep, PTL DEF BlockSpec

(***************************************************************************)
(* ElfSymbols.  The invariant says what the two hash tables hold: in a     *)
(* SysV table, the linker's or the rebuilt one, a bucket leads to the last *)
(* symbol of its chain and a link to the one before; a walk has not passed *)
(* the symbol it looks for.  In a GNU table every index from symoffset on  *)
(* is a defined symbol.                                                    *)
(***************************************************************************)
Slot(i) == HashOf[dynsym[i].name] % NBucket
Rebuilt ==
  {i \in Index :
     /\ \A j \in 1 .. i : dynsym[j].name # NoName
     /\ dynsym[i].form.bind \in {"global", "weak"}
     /\ dynsym[i].form.shndx # "undef" /\ dynsym[i].form.value # 0}
Kept == IF built THEN Rebuilt ELSE {i \in Index : Hashed(dynsym[i])}
InSlot(b) == {i \in Kept : Slot(i) = b}
IsLast(m, S) == IF S = {} THEN m = 0 ELSE m \in S /\ \A j \in S : j <= m

SysvRight ==
  /\ dynsym # <<>> /\ nbucket = NBucket /\ nchain = Len(dynsym) + 1
  /\ bucket \in [0 .. NBucket - 1 -> Nat] /\ chain \in [0 .. Len(dynsym) -> Nat]
  /\ \A b \in 0 .. NBucket - 1 : IsLast(bucket[b], InSlot(b))
  /\ \A i \in Kept : IsLast(chain[i], {j \in InSlot(Slot(i)) : j < i})
  /\ \A i \in DOMAIN chain : chain[i] \in 0 .. Len(dynsym)

DefinedOrNone(i) == i = 0 \/ (i \in Index /\ Exports(dynsym[i]))
GnuBuckets(t) == t \in [0 .. NBucket - 1 -> Nat] /\ \A b \in 0 .. NBucket - 1 : DefinedOrNone(t[b])
OnlyGnu ==
  /\ nchain = 0 /\ chain = <<>>
  /\ \/ nbucket = 0 /\ bucket = <<>>
     \/ built /\ nbucket = NBucket /\ GnuBuckets(bucket)

GnuRight ==
  /\ ghash.nbuckets = NBucket /\ GnuBuckets(ghash.buckets)
  /\ ghash.symoffset \in Nat \ {0}
  /\ \A i \in Index : i >= ghash.symoffset => Exports(dynsym[i])

LookType ==
  [pc : {"idle", "sysv", "gnu", "found", "fail", "null chain"}, name : Name \union {NoName},
   idx : 0 .. Len(dynsym), found : 0 .. Len(dynsym)]
NotPassed(l) ==
  /\ l.idx # 0 => l.idx \in InSlot(HashOf[l.name] % NBucket)
  /\ \A d \in Kept : Named(d, l.name) => d <= l.idx
NotKept(n) == \A d \in Kept : ~Named(d, n)
WalkRight(l) ==
  /\ l.pc = "sysv" => /\ l.name \in Name
                      /\ built => DefinedOrNone(l.idx)
                      /\ "sysv" \in has => NotPassed(l)
  /\ l.pc = "gnu" => /\ l.name \in Name /\ ghash # NoGnu /\ ghash.symoffset <= l.idx
                     /\ "sysv" \in has /\ NotKept(l.name)
  /\ l.pc = "fail" => ("sysv" \in has => NotKept(l.name))
  /\ l.pc = "found" => l.found \in Index /\ (built => Exports(dynsym[l.found]))

SymInv ==
  /\ dynsym \in {<<>>} \union SymbolTables /\ dynsym \in Seq(Symbol) /\ built \in BOOLEAN
  /\ dynsym = <<>> => has = {} /\ ~built /\ look = SymIdle
  /\ dynsym # <<>> => SymbolTable(dynsym)
  /\ IF "sysv" \in has THEN SysvRight ELSE OnlyGnu
  /\ ghash = NoGnu \/ GnuRight
  /\ look \in LookType /\ WalkRight(look)

\* The last of a set of indices.
LEMMA MaxOfIs ==
  ASSUME NEW n \in Nat, NEW S \in SUBSET (1 .. n), NEW m, m = MaxOf(S)
  PROVE  IsLast(m, S) /\ m \in 0 .. n
  <1>1. CASE S = {}
    BY <1>1 DEF MaxOf, IsLast
  <1>2. CASE S # {}
    <2>1. PICK T : T = {n - i : i \in S}
      OBVIOUS
    <2>0. \A i \in S : i \in 1 .. n /\ n - i \in Nat
      OBVIOUS
    <2>2. T \in SUBSET Nat /\ T # {}
      BY <1>2, <2>0, <2>1
    <2>3. PICK t \in T : \A u \in T : t <= u
      BY <2>2, MinNat
    <2>4. PICK i \in S : t = n - i
      BY <2>1
    <2>5. \A j \in S : j <= i
      <3> TAKE j \in S
      <3>1. n - j \in T
        BY <2>1
      <3> QED
        BY <2>3, <2>4, <3>1
    <2>6. m \in S /\ \A j \in S : j <= m
      BY <1>2, <2>5 DEF MaxOf
    <2> QED
      BY <1>2, <2>6 DEF IsLast
  <1> QED
    BY <1>1, <1>2

\* The first of a set of indices.
LEMMA MinOfIs ==
  ASSUME NEW n \in Nat, NEW S \in SUBSET (1 .. n), NEW m, m = MinOf(S)
  PROVE  m = 0 \/ m \in S
  <1>1. CASE S = {}
    BY <1>1 DEF MinOf
  <1>2. CASE S # {}
    <2>1. S \in SUBSET Nat
      OBVIOUS
    <2>2. \E i \in S : \A j \in S : i <= j
      BY <1>2, <2>1, MinNat
    <2> QED
      BY <1>2, <2>2 DEF MinOf
  <1> QED
    BY <1>1, <1>2

\* The definitions of a symbol table are its last entries.
LEMMA DefinedLast ==
  ASSUME NEW s \in Seq(Symbol), SymbolTable(s),
         NEW D, D = {i \in DOMAIN s : Exports(s[i])}, NEW o, o = Len(s) - Cardinality(D) + 1
  PROVE  o \in Nat \ {0} /\ \A i \in DOMAIN s : i >= o => Exports(s[i])
  <1>1. PICK n \in Nat : n = Len(s) /\ DOMAIN s = 1 .. n
    OBVIOUS
  <1>2. \A i, j \in 1 .. n : i < j /\ Exports(s[i]) => Exports(s[j])
    BY <1>1 DEF SymbolTable
  <1>3. CASE D = {}
    <2>1. Cardinality(D) = 0
      BY <1>3, FS_EmptySet
    <2>2. o = n + 1
      BY <1>1, <2>1
    <2>3. o \in Nat \ {0}
      BY <2>2
    <2>4. \A i \in 1 .. n : ~ (i >= o)
      BY <2>2
    <2> QED
      BY <1>1, <2>3, <2>4
  <1>4. CASE D # {}
    <2>1. D \in SUBSET Nat
      BY <1>1
    <2>2. PICK k \in D : \A j \in D : k <= j
      BY <1>4, <2>1, MinNat
    <2>3. D = k .. n /\ k \in 1 .. n /\ k \in Int /\ n \in Int
      BY <1>1, <1>2, <2>2
    <2>4. Cardinality(D) = n - k + 1
      <3>1. Cardinality(k .. n) = IF k > n THEN 0 ELSE n - k + 1
        BY <2>3, FS_Interval, Zenon
      <3>2. ~ (k > n)
        BY <2>3
      <3>3. Cardinality(k .. n) = n - k + 1
        BY <3>1, <3>2, Zenon
      <3> QED
        BY <2>3, <3>3, Zenon
    <2>5. o = k
      BY <1>1, <2>3, <2>4
    <2>6. o \in Nat \ {0}
      BY <2>3, <2>5
    <2>7. ASSUME NEW i \in DOMAIN s, i >= o PROVE Exports(s[i])
      <3>1. i \in D
        BY <1>1, <2>3, <2>5, <2>7
      <3> QED
        BY <3>1
    <2> QED
      BY <2>6, <2>7
  <1> QED
    BY <1>3, <1>4

\* Symbol tables are sequences.
LEMMA TablesAreSeqs ==
  ASSUME NEW s \in SymbolTables
  PROVE  s \in Seq(Symbol) /\ Len(s) \in Nat /\ DOMAIN s = 1 .. Len(s) /\ s # <<>>
  <1>1. PICK k \in 1 .. Cardinality(Name) : s \in [1 .. k -> Symbol]
    BY DEF SymbolTables
  <1>2. k \in Nat /\ k >= 1
    BY <1>1
  <1> QED
    BY <1>1, <1>2

\* Before a library is loaded.
LEMMA SymStart == SymInit => SymInv
  <1> SUFFICES ASSUME SymInit PROVE SymInv
    OBVIOUS
  <1>1. dynsym = <<>> /\ has = {} /\ built = FALSE /\ look = SymIdle /\ ghash = NoGnu
    BY DEF SymInit
  <1>2. OnlyGnu
    BY DEF SymInit, OnlyGnu
  <1>3. look \in LookType /\ WalkRight(look)
    BY <1>1 DEF LookType, WalkRight, SymIdle
  <1> QED
    <2>1. dynsym \in Seq(Symbol) /\ dynsym \in {<<>>} \union SymbolTables
      BY <1>1
    <2>2. "sysv" \notin has
      BY <1>1
    <2> QED
      BY <1>1, <1>2, <1>3, <2>1, <2>2 DEF SymInv

\* The tables that ElfLoad finds are the linker's.
LEMMA ReadDynamicKeeps ==
  ASSUME SymInv, NEW s \in SymbolTables, NEW t \in Tables, ReadDynamic(s, t)
  PROVE  SymInv'
  <1>1. /\ s \in Seq(Symbol) /\ Len(s) \in Nat /\ DOMAIN s = 1 .. Len(s) /\ s # <<>>
        /\ SymbolTable(s)
    BY TablesAreSeqs DEF ReadDynamic
  <1>2. /\ dynsym' = s /\ has' = t /\ built' = FALSE /\ look' = SymIdle
        /\ dynsym = <<>> /\ has = {} /\ OnlyGnu
    BY DEF ReadDynamic, SymInv
  <1>0. PICK L : L = {i \in DOMAIN s : Hashed(s[i])}
    OBVIOUS
  <1>3. Kept' = L /\ Index' = 1 .. Len(s) /\ L \in SUBSET (1 .. Len(s))
    BY <1>0, <1>1, <1>2 DEF Kept, Index
  <1>4. /\ NBucket \in Nat \ {0}
        /\ \A i : Slot(i)' = HashOf[s[i].name] % NBucket
    BY <1>2, SymbolAssumption DEF Slot
  <1>5. ASSUME "sysv" \in t PROVE SysvRight'
    <2>1. /\ nbucket' = NBucket /\ nchain' = Len(s) + 1
          /\ bucket' = LinkerBuckets(L) /\ chain' = LinkerChain(L, Len(s))
      BY <1>0, <1>5 DEF ReadDynamic
    <2>2. ASSUME NEW b PROVE InBucket(L, b) = InSlot(b)'
      BY <1>2, <1>3, <1>4 DEF InBucket, InSlot
    <2>3. ASSUME NEW b \in 0 .. NBucket - 1
          PROVE  bucket'[b] \in 0 .. Len(s) /\ IsLast(bucket'[b], InSlot(b)')
      <3>1. PICK S : S = InBucket(L, b)
        OBVIOUS
      <3>2. S \in SUBSET (1 .. Len(s))
        BY <1>3, <3>1 DEF InBucket
      <3>3. PICK m : m = bucket'[b]
        OBVIOUS
      <3>4. m = MaxOf(S)
        BY <2>1, <3>1, <3>3 DEF LinkerBuckets
      <3>5. IsLast(m, S) /\ m \in 0 .. Len(s)
        BY <1>1, <3>2, <3>4, MaxOfIs
      <3> QED
        BY <2>2, <3>1, <3>3, <3>5
    <2>4. ASSUME NEW i \in L
          PROVE  /\ chain'[i] \in 0 .. Len(s)
                 /\ IsLast(chain'[i], {j \in InSlot(Slot(i))' : j < i})
      <3>1. PICK b : b = HashOf[s[i].name] % NBucket
        OBVIOUS
      <3>2. PICK S : S = {j \in InBucket(L, b) : j < i}
        OBVIOUS
      <3>3. S \in SUBSET (1 .. Len(s))
        BY <1>3, <3>2 DEF InBucket
      <3>4. PICK m : m = chain'[i]
        OBVIOUS
      <3>8. i \in 0 .. Len(s)
        BY <1>1, <1>3
      <3>5. m = MaxOf(S)
        BY <1>2, <2>1, <3>1, <3>2, <3>4, <3>8 DEF LinkerChain
      <3>6. IsLast(m, S) /\ m \in 0 .. Len(s)
        BY <1>1, <3>3, <3>5, MaxOfIs
      <3>7. InSlot(Slot(i))' = InBucket(L, b)
        BY <1>4, <2>2, <3>1
      <3> QED
        BY <3>2, <3>4, <3>6, <3>7
    <2>5. \A i \in 0 .. Len(s) : i \notin L => chain'[i] = 0
      BY <2>1 DEF LinkerChain
    <2>6. DOMAIN bucket' = 0 .. NBucket - 1 /\ DOMAIN chain' = 0 .. Len(s)
      BY <2>1 DEF LinkerBuckets, LinkerChain
    <2>7. \A i \in 0 .. Len(s) : chain'[i] \in 0 .. Len(s)
      <3>2. 0 \in 0 .. Len(s)
        BY <1>1
      <3> QED
        BY <2>4, <2>5, <3>2
    <2>8. bucket' \in [0 .. NBucket - 1 -> Nat] /\ chain' \in [0 .. Len(s) -> Nat]
      BY <1>1, <2>1, <2>3, <2>6, <2>7 DEF LinkerBuckets, LinkerChain
    <2> QED
      BY <1>1, <1>2, <1>3, <2>1, <2>3, <2>4, <2>6, <2>7, <2>8 DEF SysvRight
  <1>6. ASSUME "sysv" \notin t PROVE OnlyGnu'
    BY <1>2, <1>6 DEF ReadDynamic, OnlyGnu
  <1>7. ASSUME "gnu" \in t PROVE GnuRight'
    <2>1. PICK D : D = {i \in DOMAIN s : Exports(s[i])}
      OBVIOUS
    <2>2. D \in SUBSET (1 .. Len(s)) /\ \A i \in D : i \in Index' /\ Exports(dynsym'[i])
      BY <1>1, <1>2, <1>3, <2>1
    <2>3. ghash' = LinkerGnu(D, Len(s))
      BY <1>7, <2>1 DEF ReadDynamic
    <2>4. PICK o : o = Len(s) - Cardinality(D) + 1
      OBVIOUS
    <2>5. o \in Nat \ {0} /\ \A i \in DOMAIN s : i >= o => Exports(s[i])
      BY <1>1, <2>1, <2>4, DefinedLast
    <2>6. /\ ghash'.nbuckets = NBucket /\ ghash'.symoffset = o
          /\ ghash'.buckets = [b \in 0 .. NBucket - 1 |-> MinOf(InBucket(D, b))]
      BY <2>3, <2>4 DEF LinkerGnu
    <2>7. ASSUME NEW b \in 0 .. NBucket - 1
          PROVE  ghash'.buckets[b] \in Nat /\ DefinedOrNone(ghash.buckets[b])'
      <3>1. PICK S : S = InBucket(D, b)
        OBVIOUS
      <3>2. S \in SUBSET (1 .. Len(s)) /\ S \subseteq D
        BY <2>2, <3>1 DEF InBucket
      <3>3. PICK m : m = ghash'.buckets[b]
        OBVIOUS
      <3>4. m = MinOf(S)
        BY <2>6, <3>1, <3>3
      <3>5. m = 0 \/ m \in S
        BY <1>1, <3>2, <3>4, MinOfIs
      <3>6. m \in Nat /\ DefinedOrNone(m)'
        <4>1. m \in S => m \in 1 .. Len(s) /\ m \in D
          BY <3>2
        <4>2. m \in Nat
          BY <1>1, <3>5, <4>1
        <4> QED
          BY <2>2, <3>5, <4>1, <4>2 DEF DefinedOrNone
      <3> QED
        BY <3>3, <3>6 DEF DefinedOrNone
    <2>8. GnuBuckets(ghash.buckets)'
      BY <2>6, <2>7 DEF GnuBuckets
    <2> QED
      BY <1>1, <1>2, <1>3, <2>5, <2>6, <2>8 DEF GnuRight
  <1>8. ghash' = NoGnu \/ GnuRight'
    BY <1>7 DEF ReadDynamic
  <1>9. look' \in LookType' /\ WalkRight(look)'
    BY <1>1, <1>2 DEF LookType, WalkRight, SymIdle
  <1> QED
    BY <1>1, <1>2, <1>5, <1>6, <1>8, <1>9 DEF SymInv

\* What SymInv says of a loaded library's symbols and of a hash.
LEMMA SymFacts ==
  ASSUME SymInv
  PROVE  /\ Len(dynsym) \in Nat /\ Index = DOMAIN dynsym /\ Index \in SUBSET (1 .. Len(dynsym))
         /\ \A n \in Name : HashOf[n] \in Nat /\ HashOf[n] % NBucket \in 0 .. NBucket - 1
  <1>1. dynsym \in Seq(Symbol)
    BY DEF SymInv
  <1>2. Len(dynsym) \in Nat /\ Index = DOMAIN dynsym
    BY <1>1 DEF Index
  <1>4. \A n \in Name : HashOf[n] \in Nat /\ HashOf[n] % NBucket \in 0 .. NBucket - 1
    <2> TAKE n \in Name
    <2>1. HashOf[n] \in Nat /\ NBucket \in Nat /\ NBucket > 0
      BY SymbolAssumption
    <2> QED
      BY <2>1
  <1>5. Index \in SUBSET (1 .. Len(dynsym))
    BY DEF Index
  <1> QED
    BY <1>2, <1>4, <1>5

\* A symbol that the rebuilt table keeps is defined.
LEMMA RebuiltExports == \A i \in Rebuilt : i \in Index /\ Exports(dynsym[i])
  <1> SUFFICES ASSUME NEW i \in Rebuilt PROVE i \in Index /\ Exports(dynsym[i])
    OBVIOUS
  <1>1. i \in Index /\ i \in 1 .. i
    BY DEF Rebuilt, Index
  <1> QED
    BY <1>1 DEF Rebuilt, Exports, Hashed

\* ElfBuildSymbolTable: the defined symbols in chains of their own, or the GNU buckets.
LEMMA BuildKeeps == ASSUME SymInv, ElfBuildSymbolTable PROVE SymInv'
  <1>1. /\ UNCHANGED <<dynsym, has, nchain, ghash, look>> /\ built' = TRUE
        /\ dynsym # <<>> /\ look.pc = "idle"
    BY DEF ElfBuildSymbolTable
  <1>2. Kept' = Rebuilt /\ \A i : Slot(i)' = Slot(i)
    BY <1>1 DEF Kept, Rebuilt, Index, Slot
  <1>3. NBucket \in Nat \ {0}
    BY SymbolAssumption
  <1>4. ASSUME "sysv" \in has PROVE SysvRight'
    <2>1. SysvRight
      BY <1>4 DEF SymInv
    <2>2. nbucket = NBucket /\ nchain = Len(dynsym) + 1 /\ nbucket > 0 /\ nchain > 0
      BY <1>3, <2>1, SymFacts DEF SysvRight
    <2>3. Inserted = Rebuilt
      BY <2>2, SymFacts DEF Inserted, Rebuilt, num_syms
    <2>4. Inserted \in SUBSET (1 .. Len(dynsym)) /\ Kept' = Inserted
      BY <1>2, <2>3, SymFacts DEF Inserted
    <2>5. \A b : InSlot(b)' = {i \in Inserted : elf_hash(dynsym[i].name) % nbucket = b}
      BY <1>2, <2>2, <2>4 DEF InSlot, Slot, elf_hash
    <2>6. /\ bucket' = [b \in 0 .. nbucket - 1 |->
                          MaxOf({i \in Inserted : elf_hash(dynsym[i].name) % nbucket = b})]
          /\ chain' = [i \in 0 .. nchain - 1 |-> IF i \in Inserted THEN HeadBeforeInsert(i) ELSE 0]
          /\ nbucket' = nbucket
      BY <2>2 DEF ElfBuildSymbolTable
    <2>7. ASSUME NEW b \in 0 .. NBucket - 1
          PROVE  bucket'[b] \in 0 .. Len(dynsym) /\ IsLast(bucket'[b], InSlot(b)')
      <3>1. PICK S : S = {i \in Inserted : elf_hash(dynsym[i].name) % nbucket = b}
        OBVIOUS
      <3>2. S \in SUBSET (1 .. Len(dynsym)) /\ S = InSlot(b)'
        BY <2>4, <2>5, <3>1
      <3>3. PICK m : m = bucket'[b]
        OBVIOUS
      <3>4. m = MaxOf(S)
        BY <2>2, <2>6, <3>1, <3>3
      <3>5. IsLast(m, S) /\ m \in 0 .. Len(dynsym)
        BY <3>2, <3>4, MaxOfIs, SymFacts
      <3> QED
        BY <3>2, <3>3, <3>5
    <2>8. ASSUME NEW i \in Inserted
          PROVE  /\ chain'[i] \in 0 .. Len(dynsym)
                 /\ IsLast(chain'[i], {j \in InSlot(Slot(i))' : j < i})
      <3>1. PICK S : S = {j \in SameBucket(i) : j < i}
        OBVIOUS
      <3>2. SameBucket(i) = InSlot(Slot(i))'
        BY <1>2, <2>2, <2>5 DEF SameBucket, Slot, elf_hash
      <3>3. S \in SUBSET (1 .. Len(dynsym))
        BY <2>4, <3>1 DEF SameBucket
      <3>4. PICK m : m = chain'[i]
        OBVIOUS
      <3>5. i \in 0 .. nchain - 1
        BY <2>2, <2>4, SymFacts
      <3>6. m = MaxOf(S)
        BY <2>6, <3>1, <3>4, <3>5 DEF HeadBeforeInsert
      <3>7. IsLast(m, S) /\ m \in 0 .. Len(dynsym)
        BY <3>3, <3>6, MaxOfIs, SymFacts
      <3> QED
        BY <3>1, <3>2, <3>4, <3>7
    <2>9. DOMAIN bucket' = 0 .. NBucket - 1 /\ DOMAIN chain' = 0 .. Len(dynsym)
      BY <2>2, <2>6, SymFacts
    <2>10. \A i \in 0 .. Len(dynsym) : chain'[i] \in 0 .. Len(dynsym)
      <3> TAKE i \in 0 .. Len(dynsym)
      <3>1. CASE i \in Inserted
        BY <2>8, <3>1
      <3>2. CASE i \notin Inserted
        BY <2>2, <2>6, <3>2, SymFacts
      <3> QED
        BY <3>1, <3>2
    <2>11. bucket' \in [0 .. NBucket - 1 -> Nat] /\ chain' \in [0 .. Len(dynsym) -> Nat]
      <3>1. /\ \A b \in 0 .. NBucket - 1 : bucket'[b] \in Nat
            /\ \A i \in 0 .. Len(dynsym) : chain'[i] \in Nat
        BY <2>7, <2>10, SymFacts
      <3>2. /\ bucket' = [b \in DOMAIN bucket' |-> bucket'[b]]
            /\ chain' = [i \in DOMAIN chain' |-> chain'[i]]
        BY <2>6
      <3> QED
        BY <2>9, <3>1, <3>2
    <2> QED
      BY <1>1, <2>2, <2>4, <2>6, <2>7, <2>8, <2>9, <2>10, <2>11 DEF SysvRight
  <1>5. ASSUME "sysv" \notin has PROVE OnlyGnu'
    <2>1. OnlyGnu /\ ~built
      BY <1>5 DEF SymInv, ElfBuildSymbolTable
    <2>2. nbucket = 0 /\ nchain = 0 /\ chain = <<>>
      BY <2>1 DEF OnlyGnu
    <2>3. nbucket' = ghash.nbuckets /\ bucket' = ghash.buckets /\ chain' = chain
      BY <2>2 DEF ElfBuildSymbolTable
    <2>4. CASE ghash = NoGnu
      BY <1>1, <2>2, <2>3, <2>4 DEF OnlyGnu, NoGnu
    <2>5. CASE GnuRight
      BY <1>1, <2>2, <2>3, <2>5 DEF OnlyGnu, GnuRight, GnuBuckets, DefinedOrNone, Index
    <2> QED
      BY <2>4, <2>5 DEF SymInv
  <1>6. ghash' = NoGnu \/ GnuRight'
    BY <1>1 DEF SymInv, GnuRight, GnuBuckets, DefinedOrNone, Index
  <1>7. look' \in LookType' /\ WalkRight(look)'
    BY <1>1 DEF SymInv, LookType, WalkRight
  <1>8. SymbolTable(dynsym)'
    BY <1>1 DEF SymInv, SymbolTable
  <1> QED
    BY <1>1, <1>4, <1>5, <1>6, <1>7, <1>8 DEF SymInv

\* The GNU walk is only entered after the SysV one has failed, and among defined symbols.
LEMMA StartGnuRight ==
  ASSUME SymInv, NEW l \in LookType, l.name \in Name, "sysv" \in has => NotKept(l.name),
         NEW w, w = StartGnu(l)
  PROVE  w \in LookType /\ WalkRight(w)
  <1>1. CASE ghash = NoGnu \/ ghash.nbuckets = 0 \/ nchain < ghash.symoffset
    <2>1. w = [l EXCEPT !.pc = "fail"]
      BY <1>1 DEF StartGnu
    <2>2. w \in LookType /\ w.pc = "fail" /\ w.name = l.name
      BY <2>1 DEF LookType
    <2> QED
      BY <2>2 DEF WalkRight
  <1>2. CASE ~ (ghash = NoGnu \/ ghash.nbuckets = 0 \/ nchain < ghash.symoffset)
    <2>1. GnuRight
      BY <1>2 DEF SymInv
    <2>2. PICK i : i = ghash.buckets[gnu_hash(l.name) % ghash.nbuckets]
      OBVIOUS
    <2>3. i \in 0 .. Len(dynsym)
      <3>1. gnu_hash(l.name) % ghash.nbuckets \in 0 .. NBucket - 1
        BY <2>1, SymFacts DEF GnuRight, gnu_hash
      <3>2. DefinedOrNone(i)
        BY <2>1, <2>2, <3>1 DEF GnuRight, GnuBuckets
      <3> QED
        BY <3>2, SymFacts DEF DefinedOrNone
    <2>4. PICK p : p = IF i >= ghash.symoffset /\ i < nchain THEN "gnu" ELSE "fail"
      OBVIOUS
    <2>5. p \in {"gnu", "fail"}
      BY <2>4
    <2>6. w = [l EXCEPT !.pc = p, !.idx = i]
      BY <1>2, <2>2, <2>4 DEF StartGnu
    <2>7. w \in LookType /\ w.pc = p /\ w.idx = i /\ w.name = l.name
      BY <2>3, <2>5, <2>6 DEF LookType
    <2>8. p = "gnu" => i >= ghash.symoffset /\ i < nchain
      BY <2>4
    <2>9. nchain > 0 => "sysv" \in has
      BY DEF SymInv, OnlyGnu
    <2>10. ghash.symoffset \in Nat /\ ghash # NoGnu
      BY <1>2, <2>1 DEF GnuRight
    <2>11. p = "gnu" => "sysv" \in has
      <3>1. nchain \in Nat
        BY SymFacts DEF SymInv, OnlyGnu, SysvRight
      <3> QED
        BY <2>3, <2>8, <2>9, <3>1, SymFacts
    <2> QED
      BY <2>3, <2>5, <2>7, <2>8, <2>10, <2>11 DEF WalkRight
  <1> QED
    BY <1>1, <1>2

\* A step of a lookup changes look alone.
LEMMA LookKeeps ==
  ASSUME SymInv, dynsym # <<>>, UNCHANGED <<dynsym, has, nbucket, nchain, bucket, chain, ghash, built>>,
         look' \in LookType, WalkRight(look')
  PROVE  SymInv'
  <1>1. look' \in LookType' /\ WalkRight(look)'
    BY DEF LookType, WalkRight, NotPassed, NotKept, InSlot, Kept, Rebuilt, Slot, Index, Named, DefinedOrNone
  <1>2. "sysv" \in has => SysvRight'
    BY DEF SymInv, SysvRight, InSlot, Kept, Rebuilt, Slot, Index
  <1>3. "sysv" \notin has => OnlyGnu'
    BY DEF SymInv, OnlyGnu, GnuBuckets, DefinedOrNone, Index
  <1>4. ghash' = NoGnu \/ GnuRight'
    BY DEF SymInv, GnuRight, GnuBuckets, DefinedOrNone, Index
  <1>5. SymbolTable(dynsym)'
    BY DEF SymInv, SymbolTable
  <1> QED
    BY <1>1, <1>2, <1>3, <1>4, <1>5 DEF SymInv

\* The walk starts at the last symbol of the name's chain.
LEMMA GetSymbolKeeps == ASSUME SymInv, NEW n \in Name, ElfGetSymbol(n) PROVE SymInv'
  <1>1. /\ dynsym # <<>> /\ look.pc = "idle"
        /\ UNCHANGED <<dynsym, has, nbucket, nchain, bucket, chain, ghash, built>>
    BY DEF ElfGetSymbol
  <1>2. PICK l : l = [SymIdle EXCEPT !.name = n]
    OBVIOUS
  <1>3. l \in LookType /\ l.name = n /\ l.idx = 0 /\ l.found = 0
    <2>1. l = [pc |-> "idle", name |-> n, idx |-> 0, found |-> 0]
      BY <1>2 DEF SymIdle
    <2>2. 0 \in 0 .. Len(dynsym)
      BY SymFacts
    <2> QED
      BY <2>1, <2>2 DEF LookType
  <1>4. PICK b : b = elf_hash(n) % NBucket
    OBVIOUS
  <1>5. b \in 0 .. NBucket - 1 /\ b = HashOf[n] % NBucket
    BY <1>4, SymFacts DEF elf_hash
  <1>6. ASSUME HasSysv PROVE look' \in LookType /\ WalkRight(look')
    <2>1. nbucket = NBucket
      BY <1>6 DEF HasSysv, SymInv, SysvRight, OnlyGnu
    <2>2. PICK i : i = bucket[b]
      OBVIOUS
    <2>3. look' = [l EXCEPT !.pc = "sysv", !.idx = i]
      BY <1>2, <1>4, <1>6, <2>1, <2>2 DEF ElfGetSymbol
    <2>4. /\ i \in 0 .. Len(dynsym) /\ (built => DefinedOrNone(i))
          /\ "sysv" \in has => IsLast(i, InSlot(b))
      <3>1. CASE "sysv" \in has
        <4>1. IsLast(i, InSlot(b))
          BY <1>5, <2>2, <3>1 DEF SymInv, SysvRight
        <4>2. i = 0 \/ i \in Kept
          BY <4>1 DEF IsLast, InSlot
        <4> QED
          BY <4>1, <4>2, RebuiltExports, SymFacts DEF Kept, DefinedOrNone
      <3>2. CASE "sysv" \notin has
        <4>1. built /\ GnuBuckets(bucket)
          BY <1>6, <3>2 DEF HasSysv, SymInv, OnlyGnu
        <4>2. DefinedOrNone(i)
          BY <1>5, <2>2, <4>1 DEF GnuBuckets
        <4> QED
          BY <3>2, <4>2, SymFacts DEF DefinedOrNone
      <3> QED
        BY <3>1, <3>2
    <2>5. look' \in LookType /\ look'.pc = "sysv" /\ look'.idx = i /\ look'.name = n
      <3>1. PICK u : u = [l EXCEPT !.pc = "sysv"]
        OBVIOUS
      <3>2. u \in LookType /\ u.pc = "sysv" /\ u.name = n
        BY <1>3, <3>1 DEF LookType
      <3>3. look' = [u EXCEPT !.idx = i]
        BY <2>3, <3>1
      <3> QED
        BY <2>4, <3>2, <3>3 DEF LookType
    <2>6. ASSUME "sysv" \in has PROVE NotPassed(look')
      <3>1. ASSUME NEW d \in Kept, Named(d, n) PROVE d <= i
        <4>1. d \in InSlot(b)
          BY <1>5, <3>1 DEF InSlot, Slot, Named
        <4> QED
          BY <2>4, <2>6, <4>1 DEF IsLast
      <3>2. i # 0 => i \in InSlot(b)
        BY <2>4, <2>6 DEF IsLast
      <3> QED
        BY <1>5, <2>5, <3>1, <3>2 DEF NotPassed
    <2> QED
      BY <2>4, <2>5, <2>6 DEF WalkRight
  <1>7. ASSUME ~HasSysv PROVE look' \in LookType /\ WalkRight(look')
    <2>1. look' = StartGnu(l)
      BY <1>2, <1>7 DEF ElfGetSymbol
    <2>2. "sysv" \notin has
      <3> SUFFICES ASSUME "sysv" \in has PROVE FALSE
        OBVIOUS
      <3>1. bucket \in [0 .. NBucket - 1 -> Nat] /\ nbucket = NBucket /\ NBucket \in Nat \ {0}
        BY SymbolAssumption DEF SymInv, SysvRight
      <3>2. 0 \in DOMAIN bucket
        BY <3>1
      <3>3. bucket # <<>>
        BY <3>2
      <3> QED
        BY <1>7, <3>1, <3>3 DEF HasSysv
    <2> QED
      BY <1>3, <2>1, <2>2, StartGnuRight
  <1> QED
    BY <1>1, <1>6, <1>7, LookKeeps

\* A step of the SysV walk goes to the symbol before, and does not pass the one it looks for.
LEMMA SysvStepKeeps == ASSUME SymInv, SysvStep PROVE SymInv'
  <1>1. /\ look.pc = "sysv" /\ look \in LookType /\ WalkRight(look)
        /\ UNCHANGED <<dynsym, has, nbucket, nchain, bucket, chain, ghash, built>>
    BY DEF SymInv, SysvStep
  <1>2. dynsym # <<>>
    BY <1>1 DEF SymInv, SymIdle
  <1>3. /\ look.name \in Name /\ look.idx \in 0 .. Len(dynsym)
        /\ built => DefinedOrNone(look.idx)
        /\ "sysv" \in has => NotPassed(look)
    BY <1>1 DEF WalkRight, LookType
  <1>4. CASE look.idx = 0 \/ look.idx >= num_syms
    <2>1. look' = StartGnu(look)
      BY <1>4 DEF SysvStep
    <2>2. ASSUME "sysv" \in has PROVE NotKept(look.name)
      <3>1. num_syms = Len(dynsym) + 1
        BY <2>2, SymFacts DEF SymInv, SysvRight, num_syms
      <3>2. look.idx = 0
        BY <1>3, <1>4, <3>1, SymFacts
      <3>3. Kept \in SUBSET Index
        BY DEF Kept, Rebuilt
      <3> QED
        BY <1>3, <2>2, <3>2, <3>3, SymFacts DEF NotPassed, NotKept
    <2> QED
      BY <1>1, <1>2, <1>3, <2>1, <2>2, StartGnuRight, LookKeeps
  <1>5. CASE ~ (look.idx = 0 \/ look.idx >= num_syms)
    <2>1. look.idx \in Index
      BY <1>3, <1>5, SymFacts DEF Index
    <2>2. CASE Named(look.idx, look.name)
      <3>1. look' = [look EXCEPT !.pc = "found", !.found = look.idx]
        BY <1>5, <2>2 DEF SysvStep
      <3>2. look' \in LookType /\ look'.pc = "found" /\ look'.found = look.idx
        BY <1>1, <3>1 DEF LookType
      <3>3. WalkRight(look')
        BY <1>3, <1>5, <2>1, <3>2 DEF WalkRight, DefinedOrNone
      <3> QED
        BY <1>1, <1>2, <3>2, <3>3, LookKeeps
    <2>3. CASE ~Named(look.idx, look.name) /\ chain = <<>>
      <3>1. look' = [look EXCEPT !.pc = "null chain"]
        BY <1>5, <2>3 DEF SysvStep
      <3>2. look' \in LookType /\ look'.pc = "null chain"
        BY <1>1, <3>1 DEF LookType
      <3>3. WalkRight(look')
        BY <3>2 DEF WalkRight
      <3> QED
        BY <1>1, <1>2, <3>2, <3>3, LookKeeps
    <2>4. CASE ~Named(look.idx, look.name) /\ chain # <<>>
      <3>1. "sysv" \in has /\ SysvRight
        BY <2>4 DEF SymInv, OnlyGnu
      <3>2. PICK i : i = look.idx
        OBVIOUS
      <3>3. PICK c : c = chain[i]
        OBVIOUS
      <3>4. look' = [look EXCEPT !.idx = c]
        BY <1>5, <2>4, <3>2, <3>3 DEF SysvStep
      <3>5. PICK b : b = HashOf[look.name] % NBucket
        OBVIOUS
      <3>6. i \in Index /\ i # 0 /\ i \in InSlot(b)
        BY <1>3, <1>5, <2>1, <3>1, <3>2, <3>5 DEF NotPassed
      <3>7. Slot(i) = b /\ i \in Kept
        BY <3>6 DEF InSlot
      <3>8. IsLast(c, {j \in InSlot(b) : j < i})
        BY <3>1, <3>3, <3>7 DEF SysvRight
      <3>9. c \in 0 .. Len(dynsym)
        BY <3>1, <3>3, <3>6, SymFacts DEF SysvRight
      <3>10. look' \in LookType /\ look'.pc = "sysv" /\ look'.idx = c /\ look'.name = look.name
        BY <1>1, <3>4, <3>9 DEF LookType
      <3>11. c # 0 => c \in InSlot(b)
        BY <3>8 DEF IsLast
      <3>12. ASSUME NEW d \in Kept, Named(d, look.name) PROVE d <= c
        <4>1. d <= i /\ d # i
          BY <1>3, <2>4, <3>1, <3>2, <3>12 DEF NotPassed
        <4>2. d \in InSlot(b)
          BY <3>5, <3>12 DEF InSlot, Slot, Named
        <4>4. d \in Index
          BY <3>12 DEF Kept, Rebuilt
        <4>3. d < i
          BY <3>6, <4>1, <4>4, SymFacts
        <4> QED
          BY <3>8, <4>2, <4>3 DEF IsLast
      <3>13. NotPassed(look')
        BY <3>5, <3>10, <3>11, <3>12 DEF NotPassed
      <3>14. built => DefinedOrNone(c)
        BY <3>11, RebuiltExports DEF InSlot, Kept, DefinedOrNone
      <3>15. WalkRight(look')
        BY <1>3, <3>10, <3>13, <3>14 DEF WalkRight
      <3> QED
        BY <1>1, <1>2, <3>10, <3>15, LookKeeps
    <2> QED
      BY <2>2, <2>3, <2>4
  <1> QED
    BY <1>4, <1>5

\* A step of the GNU walk stays among the defined symbols.
LEMMA GnuStepKeeps == ASSUME SymInv, GnuStep PROVE SymInv'
  <1>1. /\ look.pc = "gnu" /\ look \in LookType /\ WalkRight(look)
        /\ UNCHANGED <<dynsym, has, nbucket, nchain, bucket, chain, ghash, built>>
    BY DEF SymInv, GnuStep
  <1>2. dynsym # <<>>
    BY <1>1 DEF SymInv, SymIdle
  <1>3. /\ look.name \in Name /\ look.idx \in 0 .. Len(dynsym) /\ look.idx >= ghash.symoffset
        /\ GnuRight /\ SysvRight /\ ghash # NoGnu /\ "sysv" \in has /\ NotKept(look.name)
    BY <1>1 DEF WalkRight, LookType, SymInv
  <1>4. look.idx \in Nat /\ ghash.symoffset \in Nat \ {0} /\ nchain = Len(dynsym) + 1
    BY <1>3, SymFacts DEF GnuRight, SysvRight
  <1>5. CASE look' = Fail
    <2>1. look' \in LookType /\ look'.pc = "fail" /\ look'.name = look.name
      BY <1>1, <1>5 DEF LookType, Fail
    <2>2. WalkRight(look')
      BY <1>3, <2>1 DEF WalkRight
    <2> QED
      BY <1>1, <1>2, <2>1, <2>2, LookKeeps
  <1>6. CASE look' = [look EXCEPT !.pc = "found", !.found = look.idx]
    <2>1. look' \in LookType /\ look'.pc = "found" /\ look'.found = look.idx
      BY <1>1, <1>6 DEF LookType
    <2>2. look.idx \in Index
      BY <1>3, <1>4, SymFacts DEF Index
    <2>3. Exports(dynsym[look.idx])
      BY <1>3, <2>2 DEF GnuRight
    <2>4. WalkRight(look')
      BY <2>1, <2>2, <2>3 DEF WalkRight
    <2> QED
      BY <1>1, <1>2, <2>1, <2>4, LookKeeps
  <1>7. CASE look' = [look EXCEPT !.idx = @ + 1] /\ look.idx + 1 < nchain
    <2>1. PICK k : k = look.idx + 1
      OBVIOUS
    <2>2. k \in 0 .. Len(dynsym) /\ k >= ghash.symoffset
      BY <1>3, <1>4, <1>7, <2>1, SymFacts
    <2>3. look' = [look EXCEPT !.idx = k]
      BY <1>7, <2>1
    <2>4. look' \in LookType /\ look'.pc = "gnu" /\ look'.idx = k /\ look'.name = look.name
      BY <1>1, <2>2, <2>3 DEF LookType
    <2>5. WalkRight(look')
      BY <1>3, <2>2, <2>4 DEF WalkRight
    <2> QED
      BY <1>1, <1>2, <2>4, <2>5, LookKeeps
  <1> QED
    BY <1>5, <1>6, <1>7 DEF GnuStep

\* Every step keeps the invariant of the tables and the lookup.
LEMMA SymStep == SymInv /\ [SymNext]_symVars => SymInv'
  <1> SUFFICES ASSUME SymInv, [SymNext]_symVars PROVE SymInv'
    OBVIOUS
  <1>1. ASSUME NEW s \in SymbolTables, NEW t \in Tables, ReadDynamic(s, t) PROVE SymInv'
    BY <1>1, ReadDynamicKeeps
  <1>2. CASE ElfBuildSymbolTable
    BY <1>2, BuildKeeps
  <1>3. ASSUME NEW n \in Name, ElfGetSymbol(n) PROVE SymInv'
    BY <1>3, GetSymbolKeeps
  <1>4. CASE SysvStep
    BY <1>4, SysvStepKeeps
  <1>5. CASE GnuStep
    BY <1>5, GnuStepKeeps
  <1>6. CASE GetSymbolReturn
    <2>1. dynsym # <<>>
      BY <1>6 DEF GetSymbolReturn, SymInv, SymIdle
    <2>2. look' = SymIdle /\ 0 \in 0 .. Len(dynsym)
      BY <1>6, SymFacts DEF GetSymbolReturn
    <2>3. look' \in LookType /\ WalkRight(look')
      BY <2>2 DEF LookType, WalkRight, SymIdle
    <2> QED
      BY <1>6, <2>1, <2>3, LookKeeps DEF GetSymbolReturn
  <1>7. CASE UNCHANGED symVars
    <2>1. CASE dynsym # <<>>
      <3>1. look' \in LookType /\ WalkRight(look')
        BY <1>7 DEF symVars, SymInv
      <3> QED
        BY <1>7, <2>1, <3>1, LookKeeps DEF symVars
    <2>2. CASE dynsym = <<>>
      <3>1. "sysv" \notin has /\ OnlyGnu'
        BY <1>7, <2>2 DEF symVars, SymInv, OnlyGnu, GnuBuckets, DefinedOrNone, Index
      <3>2. ghash' = NoGnu \/ GnuRight'
        BY <1>7 DEF symVars, SymInv, GnuRight, GnuBuckets, DefinedOrNone, Index
      <3>3. look' \in LookType' /\ WalkRight(look)'
        <4>1. look \in LookType /\ look' = look /\ dynsym' = dynsym /\ look.pc = "idle"
          BY <1>7, <2>2 DEF symVars, SymInv, SymIdle
        <4>2. look' \in LookType'
          BY <4>1 DEF LookType
        <4> QED
          BY <4>1, <4>2 DEF WalkRight
      <3> QED
        BY <1>7, <2>2, <3>1, <3>2, <3>3 DEF symVars, SymInv
    <2> QED
      BY <2>1, <2>2
  <1> QED
    BY <1>1, <1>2, <1>3, <1>4, <1>5, <1>6, <1>7 DEF SymNext

\* For every symbol table, hash function and number of buckets, whichever hash tables the
\* library has: in a library with a SysV table ElfGetSymbol fails only for a name that is
\* not defined or, once ElfBuildSymbolTable has run, that its loop does not reach or
\* passes over; and then it finds no import.
THEOREM LookupsRight == SymSpec => []LookupRight
  <1>1. SymInv => LookupRight
    <2> SUFFICES ASSUME SymInv PROVE LookupRight
      OBVIOUS
    <2>1. look \in LookType /\ WalkRight(look)
      BY DEF SymInv
    <2>0. \A i \in Index : Findable(i) => i \in Kept
      <3> SUFFICES ASSUME NEW i \in Index, Findable(i) PROVE i \in Kept
        OBVIOUS
      <3>1. dynsym[i].form.bind \in {"global", "weak"}
        <4>1. dynsym[i] \in Symbol
          BY DEF SymInv, Index
        <4>2. dynsym[i].form \in Forms
          BY <4>1 DEF Symbol
        <4>3. dynsym[i].form.bind \in {"local", "global", "weak"}
          BY <4>2, SymbolAssumption
        <4> QED
          BY <4>3 DEF Findable, Exports, Hashed
      <3> QED
        BY <3>1 DEF Findable, Kept, Rebuilt, Exports
    <2>2. DefinedFound /\ ImportsHidden
      BY <2>0, <2>1 DEF WalkRight, NotKept, DefinedFound, ImportsHidden
    <2>3. /\ nbucket \in Nat /\ nchain \in Nat
          /\ \A b \in DOMAIN bucket : bucket[b] \in 0 .. Len(dynsym)
          /\ \A i \in DOMAIN chain : chain[i] \in 0 .. Len(dynsym)
      <3>1. CASE "sysv" \in has
        <4>1. SysvRight
          BY <3>1 DEF SymInv
        <4>2. \A b \in 0 .. NBucket - 1 : bucket[b] = 0 \/ bucket[b] \in Index
          BY <4>1 DEF SysvRight, IsLast, InSlot, Kept, Rebuilt
        <4>3. \A b \in 0 .. NBucket - 1 : bucket[b] \in 0 .. Len(dynsym)
          BY <4>2, SymFacts DEF Index
        <4> QED
          BY <4>1, <4>3, SymFacts, SymbolAssumption DEF SysvRight
      <3>2. CASE "sysv" \notin has
        <4>1. OnlyGnu
          BY <3>2 DEF SymInv
        <4>2. \A b \in DOMAIN bucket : DefinedOrNone(bucket[b])
          <5>1. CASE bucket = <<>>
            BY <5>1
          <5>2. CASE GnuBuckets(bucket)
            BY <5>2 DEF GnuBuckets
          <5> QED
            BY <4>1, <5>1, <5>2 DEF OnlyGnu
        <4>3. \A b \in DOMAIN bucket : bucket[b] \in 0 .. Len(dynsym)
          BY <4>2, SymFacts DEF DefinedOrNone, Index
        <4> QED
          BY <4>1, <4>3, SymbolAssumption DEF OnlyGnu
      <3> QED
        BY <3>1, <3>2
    <2>4. SymTypeOK
      BY <2>1, <2>3 DEF SymTypeOK, LookType, SymInv
    <2> QED
      BY <2>2, <2>4 DEF LookupRight
  <1> QED
    BY <1>1, SymStart, SymStep, PTL DEF SymSpec

-----------------------------------------------------------------------------
(***************************************************************************)
(* Loader, with one thread.  LoadedSound speaks of the list as a walk from *)
(* its head and of the modules the runtime holds; the inductive invariant  *)
(* names the sequence that is walked, and says of every ElfModule, leaked  *)
(* ones too, whose pages it has and where its methods lie, and of a load   *)
(* under way that its module is the head, or about to become it.           *)
(***************************************************************************)
ThState ==
  [pc : {"idle", "link", "relocate", "onload", "unload"}, m : Mod \cup {Null}, head : Mod \cup {Null}]

LoaderTypes ==
  /\ heap \in [Mod -> ElfModule \cup {NotHeap}] /\ page \in [Page -> Mod \cup {Null, "code"}]
  /\ held \in SUBSET Mod /\ g_module_list \in Mod \cup {Null}

\* s is the module list: distinct modules with an image, linked by next.
Linked(s) ==
  /\ s \in Seq(Mod) /\ Len(s) = g_module_count
  /\ \A i, j \in 1..Len(s) : i # j => s[i] # s[j]
  /\ g_module_list = IF Len(s) = 0 THEN Null ELSE s[1]
  /\ \A i \in 1..Len(s) :
       /\ heap[s[i]] # NotHeap /\ heap[s[i]].base # 0
       /\ heap[s[i]].next = IF i = Len(s) THEN Null ELSE s[i + 1]
HeldIn(s) == \A m \in held : \E i \in 1..Len(s) : s[i] = m

\* The image of a module r at address m, the methods entered in it, and the
\* ones its configuration names.
ImageSound(r, m) ==
  r.base # 0 =>
    /\ r.size <= r.mapped_size
    /\ \A p \in Extent(r.base, r.mapped_size) : p \in Page /\ page[p] = m
MethodsSound(r) ==
  \A i \in DOMAIN r.methods :
    /\ r.methods[i].class = Null => r.base # 0 /\ r.methods[i].fn \in Extent(r.base, r.mapped_size)
    /\ r.methods[i].class = "l" /\ r.methods[i].name \in Stubbed => r.methods[i].fn # Null
Configured(r) ==
  r.patched =>
    \A i \in DOMAIN Info[r.lib].conf :
      \E j \in DOMAIN r.methods : r.methods[j].class = "l" /\ r.methods[j].name = Info[r.lib].conf[i]

ModulesInv ==
  /\ LoaderTypes
  /\ \E s : Linked(s) /\ HeldIn(s)
  /\ \A m \in Mod : heap[m] # NotHeap => ImageSound(heap[m], m) /\ MethodsSound(heap[m])
  /\ \A m \in held : Configured(heap[m])

\* The load a thread is in.
InLoad(t) ==
  /\ th[t].pc \in {"link", "relocate", "onload"} =>
       /\ th[t].m \in Mod /\ th[t].m \notin held
       /\ heap[th[t].m] # NotHeap /\ heap[th[t].m].base # 0
  /\ th[t].pc = "link" => heap[th[t].m].next = g_module_list
  /\ th[t].pc \in {"relocate", "onload"} => g_module_list = th[t].m
  /\ th[t].pc = "unload" => held = {}
LoadsInv ==
  /\ th \in [Thread -> ThState] /\ \A t \in Thread : InLoad(t)
  /\ g_current_loading_module = Null
       \/ \E t \in Thread : th[t].pc = "onload" /\ th[t].m = g_current_loading_module

-----------------------------------------------------------------------------
LEMMA DistinctFits ==
  ASSUME NEW s \in Seq(Mod), \A i, j \in 1..Len(s) : i # j => s[i] # s[j]
  PROVE  Cardinality(Mod) \in Nat /\ Len(s) <= Cardinality(Mod)
  <1>1. IsFiniteSet(Mod)
    BY LoaderAssumption
  <1>2. PICK n : n = Len(s) /\ n \in Nat
    OBVIOUS
  <1>3. s \in Injection(1..n, Mod)
    <2>1. s \in [1..n -> Mod]
      BY <1>2
    <2>2. \A i, j \in 1..n : s[i] = s[j] => i = j
      BY <1>2
    <2> QED
      BY <2>1, <2>2 DEF Injection, IsInjective
  <1>4. Cardinality(1..n) = n
    <2>1. 1 \in Int /\ n \in Int
      BY <1>2
    <2>2. Cardinality(1..n) = IF 1 > n THEN 0 ELSE n - 1 + 1
      BY <2>1, FS_Interval
    <2> QED
      BY <1>2, <2>2
  <1>5. Cardinality(1..n) <= Cardinality(Mod)
    BY <1>1, <1>3, FS_Injection
  <1>6. Cardinality(Mod) \in Nat
    BY <1>1, FS_CardinalityType
  <1> QED
    BY <1>2, <1>4, <1>5, <1>6

IsWalk(f) ==
  f = [i \in 0 .. Cardinality(Mod) |-> IF i = 0 THEN g_module_list ELSE NextOf(f[i - 1])]

\* What the walk from the head finds is the sequence it is linked in.
LEMMA ListIs == ASSUME NEW s, Linked(s) PROVE List = s
  <1>1. PICK n, N : n = Len(s) /\ N = Cardinality(Mod)
    OBVIOUS
  <1>2. /\ s \in Seq(Mod) /\ n \in Nat /\ s \in [1..n -> Mod]
        /\ \A i, j \in 1..n : i # j => s[i] # s[j]
        /\ g_module_list = IF n = 0 THEN Null ELSE s[1]
        /\ \A i \in 1..n : heap[s[i]] # NotHeap /\ heap[s[i]].next = IF i = n THEN Null ELSE s[i + 1]
    BY <1>1 DEF Linked
  <1>3. N \in Nat /\ n <= N
    BY <1>1, <1>2, DistinctFits
  <1>4. PICK F : F = [i \in 0..N |-> IF i < n THEN s[i + 1] ELSE Null]
    OBVIOUS
  <1>5. \A i \in 1..n : s[i] \in Mod /\ s[i] # Null
    BY <1>2, LoaderAssumption
  <1>6. ASSUME NEW i \in 0..N PROVE F[i] = IF i = 0 THEN g_module_list ELSE NextOf(F[i - 1])
    <2>1. CASE i = 0
      BY <1>2, <1>3, <1>4, <2>1
    <2>2. CASE i # 0
      <3>1. i \in Nat /\ i >= 1 /\ i - 1 \in 0..N /\ F[i - 1] = IF i - 1 < n THEN s[i] ELSE Null
        BY <1>3, <1>4, <2>2
      <3>2. CASE i - 1 < n
        <4>1. i \in 1..n /\ F[i - 1] = s[i]
          BY <1>2, <3>1, <3>2
        <4>2. NextOf(F[i - 1]) = IF i = n THEN Null ELSE s[i + 1]
          BY <1>2, <1>5, <4>1 DEF NextOf
        <4>3. F[i] = IF i = n THEN Null ELSE s[i + 1]
          BY <1>2, <1>4, <4>1
        <4> QED
          BY <2>2, <4>2, <4>3
      <3>3. CASE ~ (i - 1 < n)
        <4>1. F[i - 1] = Null /\ F[i] = Null
          BY <1>2, <1>4, <3>1, <3>3
        <4> QED
          BY <2>2, <4>1 DEF NextOf
      <3> QED
        BY <3>2, <3>3
    <2> QED
      BY <2>1, <2>2
  <1>7. IsWalk(F)
    <2>1. F = [i \in 0..N |-> F[i]]
      BY <1>4
    <2> QED
      BY <1>1, <1>6, <2>1 DEF IsWalk
  <1>8. PICK g : g = CHOOSE f : IsWalk(f)
    OBVIOUS
  <1>9. Walk = g
    BY <1>8 DEF Walk, IsWalk
  <1>10. \A i \in 0..N : g[i] = IF i = 0 THEN g_module_list ELSE NextOf(g[i - 1])
    BY <1>1, <1>7, <1>8 DEF IsWalk
  <1>11. DOMAIN g = 0..N /\ g = [i \in 0..N |-> g[i]]
    <2>1. IsWalk(g)
      BY <1>7, <1>8
    <2> QED
      BY <1>1, <2>1 DEF IsWalk
  <1> DEFINE K == {k \in Nat : k <= N => g[k] = F[k]}
  <1>12. 0 \in K
    BY <1>3, <1>6, <1>10
  <1>13. ASSUME NEW k \in K PROVE k + 1 \in K
    <2>1. k \in Nat
      OBVIOUS
    <2>2. ASSUME k + 1 <= N PROVE g[k + 1] = F[k + 1]
      <3>1. k <= N /\ k + 1 \in 0..N /\ k + 1 # 0 /\ (k + 1) - 1 = k
        BY <1>3, <2>1, <2>2
      <3>2. g[k] = F[k]
        BY <3>1
      <3>3. g[k + 1] = NextOf(g[(k + 1) - 1]) /\ F[k + 1] = NextOf(F[(k + 1) - 1])
        BY <1>6, <1>10, <3>1
      <3> QED
        BY <3>1, <3>2, <3>3
    <2> QED
      BY <2>1, <2>2
  <1>14. K = Nat
    <2> HIDE DEF K
    <2>1. K \in SUBSET Nat
      BY DEF K
    <2> QED
      BY <1>12, <1>13, <2>1, NatSteps
  <1>15. \A k \in 0..N : g[k] = F[k]
    <2>1. ASSUME NEW k \in 0..N PROVE g[k] = F[k]
      <3>1. k \in K
        BY <1>14
      <3> QED
        BY <3>1
    <2> QED
      BY <2>1
  <1>16. {k \in DOMAIN g : g[k] # Null} = 0..(n - 1)
    <2>1. \A k \in 0..N : g[k] # Null <=> k < n
      BY <1>2, <1>4, <1>5, <1>15
    <2> QED
      BY <1>2, <1>3, <1>11, <2>1
  <1>17. Cardinality(0..(n - 1)) = n
    <2>1. 0 \in Int /\ n - 1 \in Int
      BY <1>2
    <2>2. Cardinality(0..(n - 1)) = IF 0 > n - 1 THEN 0 ELSE (n - 1) - 0 + 1
      BY <2>1, FS_Interval
    <2> QED
      BY <1>2, <2>2
  <1>18. List = [i \in 1..n |-> g[i - 1]]
    BY <1>9, <1>16, <1>17 DEF List
  <1>19. \A i \in 1..n : g[i - 1] = s[i]
    BY <1>2, <1>3, <1>4, <1>15
  <1> QED
    BY <1>2, <1>18, <1>19

-----------------------------------------------------------------------------
\* The state the invariant of the modules is about does not change.
LEMMA ModulesKept ==
  ASSUME ModulesInv, UNCHANGED <<heap, g_module_list, g_module_count, page>>, held' \subseteq held
  PROVE  ModulesInv'
  <1>1. LoaderTypes'
    BY DEF ModulesInv, LoaderTypes
  <1>2. PICK s : Linked(s) /\ HeldIn(s)
    BY DEF ModulesInv
  <1>3. Linked(s)' /\ HeldIn(s)'
    BY <1>2 DEF Linked, HeldIn
  <1>4. \A m \in Mod : heap'[m] # NotHeap => ImageSound(heap[m], m)' /\ MethodsSound(heap[m])'
    BY DEF ModulesInv, ImageSound, MethodsSound
  <1>5. \A m \in held' : Configured(heap[m])'
    BY DEF ModulesInv, Configured
  <1> QED
    BY <1>1, <1>3, <1>4, <1>5 DEF ModulesInv

\* A module at m is given a new record r that is linked as it was.
LEMMA ModuleRewritten ==
  ASSUME ModulesInv, NEW m \in Mod, heap[m] # NotHeap, NEW r \in ElfModule,
         r.base = heap[m].base, r.size = heap[m].size, r.mapped_size = heap[m].mapped_size,
         r.next = heap[m].next, MethodsSound(r),
         heap' = [heap EXCEPT ![m] = r], UNCHANGED <<g_module_list, g_module_count, page>>,
         (held' = held /\ m \notin held) \/ (held' = held \cup {m} /\ g_module_list = m /\ Configured(r))
  PROVE  ModulesInv'
  <1>1. PICK s, n : Linked(s) /\ HeldIn(s) /\ n = Len(s)
    BY DEF ModulesInv
  <1>2. /\ s \in Seq(Mod) /\ n \in Nat /\ n = g_module_count
        /\ \A i \in 1..n : s[i] \in Mod
        /\ \A i, j \in 1..n : i # j => s[i] # s[j]
        /\ g_module_list = IF n = 0 THEN Null ELSE s[1]
        /\ \A i \in 1..n : heap[s[i]] # NotHeap /\ heap[s[i]].base # 0
                            /\ heap[s[i]].next = IF i = n THEN Null ELSE s[i + 1]
    BY <1>1 DEF Linked
  <1>3. /\ heap \in [Mod -> ElfModule \cup {NotHeap}] /\ page \in [Page -> Mod \cup {Null, "code"}]
        /\ held \in SUBSET Mod /\ g_module_list \in Mod \cup {Null}
        /\ \A q \in Mod : heap[q] # NotHeap => ImageSound(heap[q], q) /\ MethodsSound(heap[q])
        /\ \A q \in held : Configured(heap[q])
    BY DEF ModulesInv, LoaderTypes
  <1>4. r # NotHeap /\ Null \notin Mod
    BY LoaderAssumption
  <1>5. \A q \in Mod : heap'[q] = IF q = m THEN r ELSE heap[q]
    BY <1>3
  <1>6. LoaderTypes'
    BY <1>3 DEF LoaderTypes
  <1>7. Linked(s)'
    <2>1. ASSUME NEW i \in 1..n
          PROVE  heap'[s[i]] # NotHeap /\ heap'[s[i]].base # 0
                   /\ heap'[s[i]].next = IF i = n THEN Null ELSE s[i + 1]
      BY <1>2, <1>4, <1>5
    <2> QED
      BY <1>1, <1>2, <2>1 DEF Linked
  <1>8. HeldIn(s)'
    <2>1. ASSUME NEW q \in held' PROVE \E i \in 1..n : s[i] = q
      <3>1. CASE q \in held
        BY <1>1, <3>1 DEF HeldIn
      <3>2. CASE q \notin held
        <4>1. q = m /\ g_module_list = m
          BY <3>2
        <4>2. n # 0 /\ s[1] = q
          BY <1>2, <1>4, <4>1
        <4>3. 1 \in 1..n
          BY <1>2, <4>2
        <4> QED
          BY <4>2, <4>3
      <3> QED
        BY <3>1, <3>2
    <2> QED
      BY <1>1, <2>1 DEF HeldIn
  <1>9. ASSUME NEW q \in Mod, heap'[q] # NotHeap PROVE ImageSound(heap[q], q)' /\ MethodsSound(heap[q])'
    <2>1. CASE q = m
      <3>1. heap'[q] = r /\ page' = page /\ ImageSound(heap[m], m)
        BY <1>3, <1>5, <2>1
      <3> QED
        BY <2>1, <3>1 DEF ImageSound, MethodsSound
    <2>2. CASE q # m
      <3>1. heap'[q] = heap[q] /\ page' = page /\ ImageSound(heap[q], q) /\ MethodsSound(heap[q])
        BY <1>3, <1>5, <1>9, <2>2
      <3> QED
        BY <3>1 DEF ImageSound, MethodsSound
    <2> QED
      BY <2>1, <2>2
  <1>10. ASSUME NEW q \in held' PROVE Configured(heap[q])'
    <2>1. q \in Mod
      BY <1>3
    <2>2. CASE q = m
      <3>1. heap'[q] = r /\ Configured(r)
        BY <1>5, <2>1, <2>2
      <3> QED
        BY <3>1 DEF Configured
    <2>3. CASE q # m
      <3>1. heap'[q] = heap[q] /\ Configured(heap[q])
        BY <1>3, <1>5, <2>1, <2>3
      <3> QED
        BY <3>1 DEF Configured
    <2> QED
      BY <2>2, <2>3
  <1> QED
    BY <1>6, <1>7, <1>8, <1>9, <1>10 DEF ModulesInv

\* A module that is not linked yet: no listed module is touched.
LEMMA ModuleMade ==
  ASSUME ModulesInv, NEW m \in Mod, heap[m] = NotHeap, NEW r \in ElfModule,
         NEW pg, page' = pg, pg \in [Page -> Mod \cup {Null, "code"}],
         \A p \in Page : page[p] \in Mod => pg[p] = page[p],
         ImageSound(r, m)', r.methods = <<>>,
         heap' = [heap EXCEPT ![m] = r], UNCHANGED <<g_module_list, g_module_count, held>>
  PROVE  ModulesInv'
  <1>1. PICK s, n : Linked(s) /\ HeldIn(s) /\ n = Len(s)
    BY DEF ModulesInv
  <1>2. /\ s \in Seq(Mod) /\ n \in Nat /\ n = g_module_count
        /\ \A i \in 1..n : s[i] \in Mod
        /\ \A i, j \in 1..n : i # j => s[i] # s[j]
        /\ g_module_list = IF n = 0 THEN Null ELSE s[1]
        /\ \A i \in 1..n : heap[s[i]] # NotHeap /\ heap[s[i]].base # 0
                            /\ heap[s[i]].next = IF i = n THEN Null ELSE s[i + 1]
    BY <1>1 DEF Linked
  <1>3. /\ heap \in [Mod -> ElfModule \cup {NotHeap}] /\ page \in [Page -> Mod \cup {Null, "code"}]
        /\ held \in SUBSET Mod /\ g_module_list \in Mod \cup {Null}
        /\ \A q \in Mod : heap[q] # NotHeap => ImageSound(heap[q], q) /\ MethodsSound(heap[q])
        /\ \A q \in held : Configured(heap[q])
    BY DEF ModulesInv, LoaderTypes
  <1>4. \A q \in Mod : heap'[q] = IF q = m THEN r ELSE heap[q]
    BY <1>3
  <1>5. LoaderTypes'
    BY <1>3 DEF LoaderTypes
  <1>6. Linked(s)' /\ HeldIn(s)'
    <2>1. \A i \in 1..n : heap'[s[i]] = heap[s[i]]
      BY <1>2, <1>4
    <2> QED
      BY <1>1, <1>2, <2>1 DEF Linked, HeldIn
  <1>7. ASSUME NEW q \in Mod, heap'[q] # NotHeap PROVE ImageSound(heap[q], q)' /\ MethodsSound(heap[q])'
    <2>1. CASE q = m
      <3>1. heap'[q] = r
        BY <1>4, <2>1
      <3>2. MethodsSound(r)
        BY DEF MethodsSound
      <3> QED
        BY <2>1, <3>1, <3>2 DEF ImageSound, MethodsSound
    <2>2. CASE q # m
      <3>1. heap'[q] = heap[q] /\ ImageSound(heap[q], q) /\ MethodsSound(heap[q])
        BY <1>3, <1>4, <1>7, <2>2
      <3>2. ASSUME heap[q].base # 0, NEW p \in Extent(heap[q].base, heap[q].mapped_size) PROVE page'[p] = q
        BY <3>1, <3>2 DEF ImageSound
      <3> QED
        BY <3>1, <3>2 DEF ImageSound, MethodsSound
    <2> QED
      BY <2>1, <2>2
  <1>8. ASSUME NEW q \in held' PROVE Configured(heap[q])'
    <2>1. \E i \in 1..n : s[i] = q
      BY <1>1, <1>8 DEF HeldIn
    <2>2. q \in Mod /\ heap[q] # NotHeap
      BY <1>2, <2>1
    <2>3. heap'[q] = heap[q] /\ Configured(heap[q])
      BY <1>3, <1>4, <2>2
    <2> QED
      BY <2>3 DEF Configured
  <1> QED
    BY <1>5, <1>6, <1>7, <1>8 DEF ModulesInv

\* A module with an image and the old head as its next becomes the head.
LEMMA ModuleLinked ==
  ASSUME ModulesInv, NEW m \in Mod, heap[m] # NotHeap, heap[m].base # 0,
         heap[m].next = g_module_list, g_module_list' = m, g_module_count' = g_module_count + 1,
         UNCHANGED <<heap, page, held>>
  PROVE  ModulesInv'
  <1>1. PICK s, n : Linked(s) /\ HeldIn(s) /\ n = Len(s)
    BY DEF ModulesInv
  <1>2. /\ s \in Seq(Mod) /\ n \in Nat /\ n = g_module_count
        /\ \A i \in 1..n : s[i] \in Mod
        /\ \A i, j \in 1..n : i # j => s[i] # s[j]
        /\ g_module_list = IF n = 0 THEN Null ELSE s[1]
        /\ \A i \in 1..n : heap[s[i]] # NotHeap /\ heap[s[i]].base # 0
                            /\ heap[s[i]].next = IF i = n THEN Null ELSE s[i + 1]
    BY <1>1 DEF Linked
  <1>3. Null \notin Mod
    BY LoaderAssumption
  \* A listed module's next is not the head.
  <1>4. ASSUME NEW i \in 1..n PROVE s[i] # m
    <2>1. SUFFICES ASSUME s[i] = m PROVE FALSE
      OBVIOUS
    <2>2. n # 0 /\ 1 \in 1..n /\ s[1] \in Mod /\ g_module_list = s[1]
      <3>1. n # 0 /\ 1 \in 1..n
        BY <1>2
      <3> QED
        BY <1>2, <3>1
    <2>3. CASE i = n
      BY <1>2, <1>3, <2>1, <2>2, <2>3
    <2>4. CASE i # n
      <3>1. i + 1 \in 1..n /\ i + 1 # 1 /\ s[i + 1] = s[1]
        BY <1>2, <2>1, <2>2, <2>4
      <3> QED
        BY <1>2, <2>2, <3>1
    <2> QED
      BY <2>3, <2>4
  <1>5. PICK w : w = [i \in 1..(n + 1) |-> IF i = 1 THEN m ELSE s[i - 1]]
    OBVIOUS
  <1>6. w \in Seq(Mod) /\ Len(w) = n + 1 /\ w[1] = m
    <2>1. n + 1 \in Nat /\ w \in [1..(n + 1) -> Mod] /\ w[1] = m
      BY <1>2, <1>5
    <2> QED
      BY <2>1, SeqDef, LenProperties
  <1>7. \A i \in 1..n : w[i + 1] = s[i]
    BY <1>2, <1>5
  <1>8. ASSUME NEW i \in 1..(n + 1), i # 1 PROVE i - 1 \in 1..n /\ w[i] = s[i - 1]
    BY <1>2, <1>5, <1>8
  <1>9. ASSUME NEW i \in 1..(n + 1), NEW j \in 1..(n + 1), i # j PROVE w[i] # w[j]
    <2>1. CASE i = 1
      BY <1>4, <1>6, <1>8, <1>9, <2>1
    <2>2. CASE j = 1
      BY <1>4, <1>6, <1>8, <1>9, <2>2
    <2>3. CASE i # 1 /\ j # 1
      <3>1. i - 1 \in 1..n /\ j - 1 \in 1..n /\ i - 1 # j - 1 /\ w[i] = s[i - 1] /\ w[j] = s[j - 1]
        BY <1>8, <1>9, <2>3
      <3> QED
        BY <1>2, <3>1
    <2> QED
      BY <2>1, <2>2, <2>3
  <1>10. ASSUME NEW i \in 1..(n + 1)
         PROVE  heap[w[i]] # NotHeap /\ heap[w[i]].base # 0
                  /\ heap[w[i]].next = IF i = n + 1 THEN Null ELSE w[i + 1]
    <2>1. CASE i = 1
      <3>1. heap[w[i]] # NotHeap /\ heap[w[i]].base # 0 /\ heap[w[i]].next = g_module_list
        BY <1>6, <2>1
      <3>2. CASE n = 0
        BY <1>2, <2>1, <3>1, <3>2
      <3>3. CASE n # 0
        <4>1. 1 \in 1..n /\ w[1 + 1] = s[1]
          BY <1>2, <1>7, <3>3
        <4> QED
          BY <1>2, <2>1, <3>1, <3>3, <4>1
      <3> QED
        BY <3>2, <3>3
    <2>2. CASE i # 1
      <3>1. i - 1 \in 1..n /\ w[i] = s[i - 1]
        BY <1>8, <2>2
      <3>2. heap[w[i]] # NotHeap /\ heap[w[i]].base # 0
              /\ heap[w[i]].next = IF i - 1 = n THEN Null ELSE s[(i - 1) + 1]
        BY <1>2, <3>1
      <3>3. CASE i - 1 = n
        BY <1>2, <3>1, <3>2, <3>3
      <3>4. CASE i - 1 # n
        <4>1. i \in 1..n /\ (i - 1) + 1 = i /\ w[i + 1] = s[i]
          <5>1. i \in 1..n /\ (i - 1) + 1 = i
            BY <1>2, <3>1, <3>4
          <5> QED
            BY <1>7, <5>1
        <4> QED
          BY <1>2, <3>1, <3>2, <3>4, <4>1
      <3> QED
        BY <3>3, <3>4
    <2> QED
      BY <2>1, <2>2
  <1>11. Linked(w)'
    BY <1>2, <1>6, <1>9, <1>10 DEF Linked
  <1>12. HeldIn(w)'
    <2>1. ASSUME NEW q \in held PROVE \E i \in 1..(n + 1) : w[i] = q
      <3>1. PICK i \in 1..n : s[i] = q
        BY <1>1 DEF HeldIn
      <3>2. i + 1 \in 1..(n + 1) /\ w[i + 1] = q
        BY <1>2, <1>7, <3>1
      <3> QED
        BY <3>2
    <2> QED
      BY <1>6, <2>1 DEF HeldIn
  <1>13. LoaderTypes'
    BY DEF ModulesInv, LoaderTypes
  <1>14. \A q \in Mod : heap'[q] # NotHeap => ImageSound(heap[q], q)' /\ MethodsSound(heap[q])'
    BY DEF ModulesInv, ImageSound, MethodsSound
  <1>15. \A q \in held' : Configured(heap[q])'
    BY DEF ModulesInv, Configured
  <1> QED
    BY <1>11, <1>12, <1>13, <1>14, <1>15 DEF ModulesInv

\* ElfUnload of the head of the list, which the runtime does not hold.
LEMMA HeadUnloaded ==
  ASSUME ModulesInv, NEW m \in Mod, g_module_list = m, m \notin held, ElfUnload(m), held' = held
  PROVE  ModulesInv'
  <1>1. PICK s, n : Linked(s) /\ HeldIn(s) /\ n = Len(s)
    BY DEF ModulesInv
  <1>2. /\ s \in Seq(Mod) /\ n \in Nat /\ n = g_module_count /\ DOMAIN s = 1..n
        /\ \A i \in 1..n : s[i] \in Mod
        /\ \A i, j \in 1..n : i # j => s[i] # s[j]
        /\ g_module_list = IF n = 0 THEN Null ELSE s[1]
        /\ \A i \in 1..n : heap[s[i]] # NotHeap /\ heap[s[i]].base # 0
                            /\ heap[s[i]].next = IF i = n THEN Null ELSE s[i + 1]
    BY <1>1 DEF Linked
  <1>3. Null \notin Mod
    BY LoaderAssumption
  <1>4. n # 0 /\ 1 \in 1..n /\ s[1] = m
    <2>1. n # 0 /\ s[1] = m
      BY <1>2, <1>3
    <2> QED
      BY <1>2, <2>1
  <1>5. /\ heap \in [Mod -> ElfModule \cup {NotHeap}] /\ page \in [Page -> Mod \cup {Null, "code"}]
        /\ held \in SUBSET Mod
        /\ \A q \in Mod : heap[q] # NotHeap => ImageSound(heap[q], q) /\ MethodsSound(heap[q])
        /\ \A q \in held : Configured(heap[q])
    BY DEF ModulesInv, LoaderTypes
  <1>6. List = s
    BY <1>1, ListIs
  <1>7. Range(List) = {s[i] : i \in 1..n}
    BY <1>2, <1>6 DEF Range
  <1>8. Prev(m) = {}
    <2>1. ASSUME NEW i \in 1..n PROVE heap[s[i]].next # m
      <3>1. CASE i = n
        BY <1>2, <1>3, <3>1
      <3>2. CASE i # n
        <4>1. i + 1 \in 1..n /\ i + 1 # 1
          BY <1>2, <3>2
        <4>2. s[i + 1] # s[1]
          BY <1>2, <1>4, <4>1
        <4> QED
          BY <1>2, <1>4, <3>2, <4>2
      <3> QED
        BY <3>1, <3>2
    <2> QED
      BY <1>7, <2>1 DEF Prev
  <1>9. \A q \in Mod : heap'[q] = IF q = m THEN NotHeap ELSE heap[q]
    BY <1>8 DEF ElfUnload, Unlinked
  <1>10. heap' \in [Mod -> ElfModule \cup {NotHeap}]
    <2>1. heap' = [q \in Mod |-> IF q = m THEN NotHeap ELSE heap[q]]
      BY <1>8 DEF ElfUnload, Unlinked
    <2> QED
      BY <1>5, <2>1
  <1>11. Listed(m)
    BY <1>4, <1>7 DEF Listed
  <1>12. g_module_count' = n - 1 /\ g_module_list' = heap[m].next
    BY <1>2, <1>11 DEF ElfUnload, CountWithout, HeadWithout
  <1>13. page' = [p \in Page |-> IF p \in Extent(heap[m].base, heap[m].size) THEN Null ELSE page[p]]
    BY DEF ElfUnload, Unmapped, unmap_size
  <1>14. PICK w : w = [i \in 1..(n - 1) |-> s[i + 1]]
    OBVIOUS
  <1>15. w \in Seq(Mod) /\ Len(w) = n - 1
    <2>1. n - 1 \in Nat /\ w \in [1..(n - 1) -> Mod]
      BY <1>2, <1>4, <1>14
    <2> QED
      BY <2>1, SeqDef, LenProperties
  <1>16. ASSUME NEW i \in 1..(n - 1) PROVE i \in 1..n /\ i + 1 \in 1..n /\ w[i] = s[i + 1] /\ w[i] # m
    <2>1. i \in 1..n /\ i + 1 \in 1..n /\ i + 1 # 1 /\ w[i] = s[i + 1]
      BY <1>2, <1>14
    <2> QED
      BY <1>2, <1>4, <2>1
  <1>17. Linked(w)'
    <2>1. ASSUME NEW i \in 1..(n - 1), NEW j \in 1..(n - 1), i # j PROVE w[i] # w[j]
      <3>1. i + 1 # j + 1 /\ i + 1 \in 1..n /\ j + 1 \in 1..n
        BY <1>16, <2>1
      <3> QED
        BY <1>2, <1>16, <3>1
    <2>2. ASSUME NEW i \in 1..(n - 1)
          PROVE  heap'[w[i]] # NotHeap /\ heap'[w[i]].base # 0
                   /\ heap'[w[i]].next = IF i = n - 1 THEN Null ELSE w[i + 1]
      <3>1. i + 1 \in 1..n /\ w[i] = s[i + 1] /\ w[i] # m /\ w[i] \in Mod
        BY <1>2, <1>16
      <3>2. heap'[w[i]] = heap[s[i + 1]]
        BY <1>9, <3>1
      <3>3. heap[s[i + 1]] # NotHeap /\ heap[s[i + 1]].base # 0
              /\ heap[s[i + 1]].next = IF i + 1 = n THEN Null ELSE s[(i + 1) + 1]
        BY <1>2, <3>1
      <3>4. CASE i = n - 1
        BY <1>2, <3>2, <3>3, <3>4
      <3>5. CASE i # n - 1
        <4>1. i + 1 \in 1..(n - 1) /\ w[i + 1] = s[(i + 1) + 1] /\ i + 1 # n
          BY <1>2, <1>14, <3>5
        <4> QED
          BY <3>2, <3>3, <3>5, <4>1
      <3> QED
        BY <3>4, <3>5
    <2>3. g_module_list' = IF n - 1 = 0 THEN Null ELSE w[1]
      <3>1. heap[m].next = IF 1 = n THEN Null ELSE s[1 + 1]
        BY <1>2, <1>4
      <3>2. CASE n = 1
        BY <1>12, <3>1, <3>2
      <3>3. CASE n # 1
        <4>1. 1 \in 1..(n - 1) /\ n - 1 # 0
          BY <1>2, <1>4, <3>3
        <4>2. w[1] = s[1 + 1]
          BY <1>16, <4>1
        <4> QED
          BY <1>12, <3>1, <3>3, <4>1, <4>2
      <3> QED
        BY <3>2, <3>3
    <2> QED
      BY <1>12, <1>15, <2>1, <2>2, <2>3 DEF Linked
  <1>18. HeldIn(w)'
    <2>1. ASSUME NEW q \in held PROVE \E i \in 1..(n - 1) : w[i] = q
      <3>1. PICK i \in 1..n : s[i] = q
        BY <1>1 DEF HeldIn
      <3>2. i # 1
        BY <1>4, <3>1
      <3>3. i - 1 \in 1..(n - 1) /\ (i - 1) + 1 = i
        BY <1>2, <3>2
      <3>4. w[i - 1] = s[(i - 1) + 1]
        BY <1>16, <3>3
      <3> QED
        BY <3>1, <3>3, <3>4
    <2> QED
      BY <1>15, <2>1 DEF HeldIn
  <1>19. LoaderTypes'
    <2>1. page' \in [Page -> Mod \cup {Null, "code"}]
      BY <1>5, <1>13
    <2>2. g_module_list' \in Mod \cup {Null}
      BY <1>15, <1>17 DEF Linked
    <2> QED
      BY <1>5, <1>10, <2>1, <2>2 DEF LoaderTypes
  <1>20. ASSUME NEW q \in Mod, heap'[q] # NotHeap PROVE ImageSound(heap[q], q)' /\ MethodsSound(heap[q])'
    <2>1. q # m /\ heap'[q] = heap[q] /\ heap[q] # NotHeap
      BY <1>9, <1>20
    <2>2. ImageSound(heap[q], q) /\ MethodsSound(heap[q])
      BY <1>5, <2>1
    <2>3. ASSUME heap[q].base # 0, NEW p \in Extent(heap[q].base, heap[q].mapped_size)
          PROVE  p \in Page /\ page'[p] = q
      <3>1. p \in Page /\ page[p] = q
        BY <2>2, <2>3 DEF ImageSound
      <3>2. p \notin Extent(heap[m].base, heap[m].size)
        <4>1. heap[m] # NotHeap /\ heap[m].base # 0 /\ heap[m] \in ElfModule
          BY <1>2, <1>4, <1>5
        <4>2. /\ heap[m].base \in Nat /\ heap[m].size \in Nat /\ heap[m].mapped_size \in Nat
              /\ heap[m].size <= heap[m].mapped_size
              /\ \A x \in Extent(heap[m].base, heap[m].mapped_size) : page[x] = m
          BY <1>5, <4>1 DEF ImageSound, ElfModule, Page
        <4>3. \A x \in Extent(heap[m].base, heap[m].size) : x \in Extent(heap[m].base, heap[m].mapped_size)
          BY <4>2 DEF Extent
        <4> QED
          BY <2>1, <3>1, <4>2, <4>3
      <3> QED
        BY <1>13, <3>1, <3>2
    <2> QED
      BY <2>1, <2>2, <2>3 DEF ImageSound, MethodsSound
  <1>21. ASSUME NEW q \in held' PROVE Configured(heap[q])'
    <2>1. q \in Mod /\ q # m /\ Configured(heap[q])
      BY <1>5, <1>21
    <2>2. heap'[q] = heap[q]
      BY <1>9, <2>1
    <2> QED
      BY <2>1, <2>2 DEF Configured
  <1> QED
    BY <1>17, <1>18, <1>19, <1>20, <1>21 DEF ModulesInv

-----------------------------------------------------------------------------
\* The structure ElfLoad makes.
IsNew(r, l, b, h) ==
  /\ r \in ElfModule /\ r.base = b /\ r.size = Info[l].file /\ r.mapped_size = map_size(l)
  /\ r.next = h /\ r.methods = <<>>

LEMMA NewModuleIn ==
  ASSUME NEW l \in Lib, NEW b \in Page \cup {0}, NEW h \in Mod \cup {Null},
         NEW r, r = [NewModule(l, b) EXCEPT !.next = h] \/ (r = NewModule(l, b) /\ h = Null)
  PROVE  IsNew(r, l, b, h)
  <1>1. Info[l] \in LibInfo
    BY LoaderAssumption
  <1>2. Info[l].file \in Nat /\ Info[l].vaddr \in Nat
    BY <1>1 DEF LibInfo
  <1>3. map_size(l) \in Nat
    BY <1>2 DEF map_size
  <1>4. <<>> \in Seq(NativeMethod)
    OBVIOUS
  <1>5. r = [lib |-> l, base |-> b, size |-> Info[l].file, mapped_size |-> map_size(l),
             next |-> h, methods |-> <<>>, patched |-> FALSE]
    <2>1. CASE r = [NewModule(l, b) EXCEPT !.next = h]
      BY <2>1 DEF NewModule
    <2>2. CASE r = NewModule(l, b) /\ h = Null
      BY <2>2 DEF NewModule
    <2> QED
      BY <2>1, <2>2
  <1>6. r \in ElfModule
    <2>1. PICK fs, sz : fs = Info[l].file /\ sz = map_size(l)
      OBVIOUS
    <2>2. r = [lib |-> l, base |-> b, size |-> fs, mapped_size |-> sz, next |-> h, methods |-> <<>>, patched |-> FALSE]
      BY <1>5, <2>1
    <2>3. fs \in Nat /\ sz \in Nat /\ FALSE \in BOOLEAN
      BY <1>2, <1>3, <2>1
    <2>4. [lib |-> l, base |-> b, size |-> fs, mapped_size |-> sz, next |-> h, methods |-> <<>>, patched |-> FALSE]
            \in [lib : Lib, base : Page \cup {0}, size : Nat, mapped_size : Nat, next : Mod \cup {Null},
                 methods : Seq(NativeMethod), patched : BOOLEAN]
      BY ONLY <1>4, <2>3, l \in Lib, b \in Page \cup {0}, h \in Mod \cup {Null}
    <2> QED
      BY <2>2, <2>4 DEF ElfModule
  <1> QED
    BY <1>2, <1>3, <1>5, <1>6 DEF IsNew

\* Registering methods of either kind in a module.
EntriesSound(r0, es) ==
  \A i \in 1..Len(es) :
    /\ es[i].class = Null => r0.base # 0 /\ es[i].fn \in Extent(r0.base, r0.mapped_size)
    /\ es[i].class = "l" /\ es[i].name \in Stubbed => es[i].fn # Null

HasRegistered(r, r0, es) ==
  /\ r \in ElfModule /\ MethodsSound(r)
  /\ r.lib = r0.lib /\ r.base = r0.base /\ r.size = r0.size /\ r.mapped_size = r0.mapped_size
  /\ r.next = r0.next /\ r.patched = r0.patched
  /\ \A i \in 1..Len(es) : \E j \in DOMAIN r.methods : r.methods[j] = es[i]

LEMMA MethodsRegistered ==
  ASSUME NEW r0 \in ElfModule, MethodsSound(r0), NEW es \in Seq(NativeMethod), EntriesSound(r0, es),
         NEW ws, ws = Registered(r0.methods, es), NEW r, r = [r0 EXCEPT !.methods = ws]
  PROVE  HasRegistered(r, r0, es)
  <1>1. PICK ms : ms = r0.methods /\ ws = ms \o es
    BY DEF Registered
  <1>2. ms \in Seq(NativeMethod)
    BY <1>1 DEF ElfModule
  <1>3. PICK k, n : k = Len(ms) /\ n = Len(es) /\ k \in Nat /\ n \in Nat
    <2>1. Len(ms) \in Nat /\ Len(es) \in Nat
      BY <1>2, LenProperties
    <2> QED
      BY <2>1
  <1>4. /\ ws \in Seq(NativeMethod) /\ Len(ws) = k + n
        /\ \A i \in 1..(k + n) : ws[i] = IF i <= k THEN ms[i] ELSE es[i - k]
    BY <1>1, <1>2, <1>3, ConcatProperties
  <1>6. /\ r \in ElfModule /\ r.methods = ws
        /\ r.lib = r0.lib /\ r.base = r0.base /\ r.size = r0.size /\ r.mapped_size = r0.mapped_size
        /\ r.next = r0.next /\ r.patched = r0.patched
    BY <1>4 DEF ElfModule
  <1>7. DOMAIN ws = 1..(k + n) /\ DOMAIN ms = 1..k
    BY <1>2, <1>3, <1>4
  <1>8. MethodsSound(r)
    <2>1. ASSUME NEW i \in 1..(k + n)
          PROVE  /\ ws[i].class = Null => r0.base # 0 /\ ws[i].fn \in Extent(r0.base, r0.mapped_size)
                 /\ ws[i].class = "l" /\ ws[i].name \in Stubbed => ws[i].fn # Null
      <3>1. CASE i <= k
        <4>1. i \in 1..k /\ ws[i] = ms[i]
          BY <1>3, <1>4, <3>1
        <4> QED
          BY <1>1, <1>7, <4>1 DEF MethodsSound
      <3>2. CASE ~ (i <= k)
        <4>1. i - k \in 1..n /\ ws[i] = es[i - k]
          BY <1>3, <1>4, <3>2
        <4> QED
          BY <1>3, <4>1 DEF EntriesSound
      <3> QED
        BY <3>1, <3>2
    <2> QED
      BY <1>6, <1>7, <2>1 DEF MethodsSound
  <1>9. ASSUME NEW i \in 1..n PROVE \E j \in DOMAIN r.methods : r.methods[j] = es[i]
    <2>1. k + i \in 1..(k + n) /\ ~ (k + i <= k) /\ (k + i) - k = i
      BY <1>3
    <2>2. ws[k + i] = es[(k + i) - k]
      BY <1>4, <2>1
    <2> QED
      BY <1>6, <1>7, <2>1, <2>2
  <1> QED
    BY <1>3, <1>6, <1>8, <1>9 DEF HasRegistered

\* load_native_method_stubs leaves the module with its configured methods.
LEMMA StubsLoaded ==
  ASSUME NEW m \in Mod, NEW r0 \in ElfModule, heap[m] = r0, MethodsSound(r0),
         NEW r, r = [r0 EXCEPT !.methods = load_native_method_stubs(m)]
  PROVE  /\ r \in ElfModule /\ MethodsSound(r) /\ Configured(r)
         /\ r.lib = r0.lib /\ r.base = r0.base /\ r.size = r0.size /\ r.mapped_size = r0.mapped_size
         /\ r.next = r0.next
  <1>0. r0.patched \in BOOLEAN /\ r0.lib \in Lib
    BY DEF ElfModule
  <1>1. CASE r0.patched = TRUE
    <2>1. PICK c, es : c = Info[r0.lib].conf
                       /\ es = [i \in DOMAIN c |-> Entry("l", c[i], find_stub_function(c[i]))]
      OBVIOUS
    <2>2. Info[r0.lib] \in LibInfo
      BY <1>0, LoaderAssumption
    <2>3. c \in Seq(Method)
      BY <2>1, <2>2 DEF LibInfo
    <2>4. PICK n : n = Len(c) /\ n \in Nat /\ DOMAIN c = 1..n
      BY <2>3
    <2>5. ASSUME NEW i \in 1..n
          PROVE  /\ es[i] \in NativeMethod /\ es[i].class = "l" /\ es[i].name = c[i]
                 /\ es[i].name \in Stubbed => es[i].fn # Null
      <3>1. c[i] \in Method /\ es[i] = [class |-> "l", name |-> c[i], fn |-> find_stub_function(c[i])]
        BY <2>1, <2>3, <2>4 DEF Entry
      <3>2. find_stub_function(c[i]) \in Stubbed \cup {Null}
              /\ (c[i] \in Stubbed => find_stub_function(c[i]) # Null)
        BY <3>1, LoaderAssumption DEF find_stub_function
      <3> QED
        BY <3>1, <3>2 DEF NativeMethod
    <2>6. es \in Seq(NativeMethod) /\ Len(es) = n
      <3>1. es \in [1..n -> NativeMethod]
        BY <2>1, <2>4, <2>5
      <3> QED
        BY <2>4, <3>1, SeqDef, LenProperties
    <2>7. PICK ws : ws = Registered(r0.methods, es) /\ r = [r0 EXCEPT !.methods = ws]
      BY <1>1, <2>1 DEF load_native_method_stubs
    <2>8. Null # "l"
      BY LoaderAssumption
    <2>9. EntriesSound(r0, es)
      BY <2>5, <2>6, <2>8 DEF EntriesSound
    <2>10. /\ r \in ElfModule /\ MethodsSound(r)
           /\ r.lib = r0.lib /\ r.base = r0.base /\ r.size = r0.size /\ r.mapped_size = r0.mapped_size
           /\ r.next = r0.next
           /\ \A i \in 1..Len(es) : \E j \in DOMAIN r.methods : r.methods[j] = es[i]
      <3>1. es \in Seq(NativeMethod)
        BY <2>6
      <3>2. HasRegistered(r, r0, es)
        BY <2>7, <2>9, <3>1, MethodsRegistered
      <3> QED
        BY <3>2 DEF HasRegistered
    <2>11. Configured(r)
      <3>1. ASSUME NEW i \in 1..n PROVE \E j \in DOMAIN r.methods : r.methods[j].class = "l" /\ r.methods[j].name = c[i]
        <4>1. PICK j \in DOMAIN r.methods : r.methods[j] = es[i]
          BY <2>6, <2>10
        <4> QED
          BY <2>5, <4>1
      <3>2. Info[r.lib].conf = c /\ DOMAIN c = 1..n
        BY <2>1, <2>4, <2>10
      <3> QED
        BY <3>1, <3>2 DEF Configured
    <2> QED
      BY <2>10, <2>11
  <1>2. CASE r0.patched = FALSE
    <2>1. r = [r0 EXCEPT !.methods = r0.methods]
      BY <1>2 DEF load_native_method_stubs
    <2>2. r = r0
      BY <2>1 DEF ElfModule
    <2> QED
      BY <1>2, <2>2 DEF Configured
  <1> QED
    BY <1>0, <1>1, <1>2

\* With one thread, the load it is in is the only one.
LEMMA OneLoad ==
  ASSUME \A t, u \in Thread : t = u, NEW t \in Thread, NEW x \in ThState,
         th \in [Thread -> ThState], th' = [th EXCEPT ![t] = x], InLoad(t)',
         \/ g_current_loading_module' = Null
         \/ x.pc = "onload" /\ x.m = g_current_loading_module'
  PROVE  LoadsInv'
  <1>1. th' \in [Thread -> ThState] /\ th'[t] = x
    OBVIOUS
  <1>2. \A u \in Thread : InLoad(u)'
    OBVIOUS
  <1> QED
    BY <1>1, <1>2 DEF LoadsInv

LEMMA NotInOnLoad ==
  ASSUME \A t, u \in Thread : t = u, LoadsInv, NEW t \in Thread, th[t].pc # "onload"
  PROVE  g_current_loading_module = Null
  BY DEF LoadsInv

LEMMA HeldLive ==
  ASSUME ModulesInv, NEW m \in held
  PROVE  m \in Mod /\ heap[m] # NotHeap /\ heap[m].base # 0
  <1>1. PICK s : Linked(s) /\ HeldIn(s)
    BY DEF ModulesInv
  <1>2. PICK i \in 1..Len(s) : s[i] = m
    BY <1>1 DEF HeldIn
  <1> QED
    BY <1>1, <1>2 DEF Linked

LoaderInv == ModulesInv /\ LoadsInv

\* Nothing the invariant is about changes.
LEMMA LoaderQuiet ==
  ASSUME LoaderInv,
         UNCHANGED <<heap, g_module_list, g_module_count, g_current_loading_module, page, held, th>>
  PROVE  LoaderInv'
  <1>1. ModulesInv'
    <2>1. ModulesInv /\ held' \subseteq held
      BY DEF LoaderInv
    <2> QED
      BY <2>1, ModulesKept
  <1>2. LoadsInv'
    BY DEF LoaderInv, LoadsInv, InLoad
  <1> QED
    BY <1>1, <1>2 DEF LoaderInv

LEMMA LoadKeeps ==
  ASSUME LoaderInv, \A t, u \in Thread : t = u, \A l \in Lib : Info[l].file <= map_size(l),
         NEW t \in Thread, NEW l \in Lib, LoadShort(t, l) \/ ElfLoad(t, l)
  PROVE  LoaderInv'
  <1>0. ModulesInv /\ LoadsInv
    BY DEF LoaderInv
  <1>1. /\ heap \in [Mod -> ElfModule \cup {NotHeap}] /\ page \in [Page -> Mod \cup {Null, "code"}]
        /\ g_module_list \in Mod \cup {Null} /\ held \in SUBSET Mod
    BY <1>0 DEF ModulesInv, LoaderTypes
  <1>2. th \in [Thread -> ThState] /\ th[t] \in ThState
    BY <1>0 DEF LoadsInv
  <1>3. th[t].pc = "idle"
    BY DEF LoadShort, ElfLoad
  <1>4. g_current_loading_module = Null
    BY <1>0, <1>3, NotInOnLoad
  <1>5. CASE LoadShort(t, l)
    <2>1. PICK m \in Mod : heap[m] = NotHeap /\ heap' = [heap EXCEPT ![m] = NewModule(l, 0)]
      BY <1>5 DEF LoadShort
    <2>2. PICK r : r = NewModule(l, 0)
      OBVIOUS
    <2>4. r \in ElfModule /\ r.base = 0 /\ r.methods = <<>>
      <3>1. 0 \in Page \cup {0} /\ Null \in Mod \cup {Null}
        OBVIOUS
      <3>2. IsNew(r, l, 0, Null)
        BY <2>2, <3>1, NewModuleIn
      <3> QED
        BY <3>2 DEF IsNew
    <2>5. PICK pg : pg = page
      OBVIOUS
    <2>6. page' = pg /\ pg \in [Page -> Mod \cup {Null, "code"}]
            /\ \A p \in Page : page[p] \in Mod => pg[p] = page[p]
      BY <1>1, <1>5, <2>5 DEF LoadShort
    <2>7. ImageSound(r, m)'
      BY <2>4 DEF ImageSound
    <2>8. heap' = [heap EXCEPT ![m] = r] /\ UNCHANGED <<g_module_list, g_module_count, held>>
      BY <1>5, <2>1, <2>2 DEF LoadShort
    <2>9. ModulesInv'
      BY <1>0, <2>1, <2>4, <2>6, <2>7, <2>8, ModuleMade
    <2>10. th' = [th EXCEPT ![t] = th[t]] /\ th'[t] = th[t] /\ g_current_loading_module' = Null
      BY <1>2, <1>4, <1>5 DEF LoadShort
    <2>11. InLoad(t)'
      BY <1>3, <2>10 DEF InLoad
    <2>12. LoadsInv'
      BY <1>2, <2>10, <2>11, OneLoad
    <2> QED
      BY <2>9, <2>12 DEF LoaderInv
  <1>6. CASE ElfLoad(t, l)
    <2>1. PICK m \in Mod, b \in MmapAt(map_size(l)) :
            /\ heap[m] = NotHeap
            /\ heap' = [heap EXCEPT ![m] = [NewModule(l, b) EXCEPT !.next = g_module_list]]
            /\ page' = [p \in Page |-> IF p \in Extent(b, map_size(l)) THEN m ELSE page[p]]
            /\ th' = [th EXCEPT ![t] = [pc |-> "link", m |-> m, head |-> g_module_list]]
      BY <1>6 DEF ElfLoad
    <2>2. b \in Page /\ b # 0 /\ \A p \in Extent(b, map_size(l)) : p \in Page /\ page[p] = Null
      BY <2>1 DEF MmapAt, Page
    <2>3. PICK r : r = [NewModule(l, b) EXCEPT !.next = g_module_list]
      OBVIOUS
    <2>4. b \in Page \cup {0}
      BY <2>2
    <2>5. /\ r \in ElfModule /\ r.base = b /\ r.size = Info[l].file /\ r.mapped_size = map_size(l)
          /\ r.next = g_module_list /\ r.methods = <<>>
      <3>1. PICK h : h = g_module_list /\ h \in Mod \cup {Null}
        BY <1>1
      <3>2. r = [NewModule(l, b) EXCEPT !.next = h]
        BY <2>3, <3>1
      <3>3. h \in Mod \cup {Null}
        BY <3>1
      <3>4. IsNew(r, l, b, h)
        BY <2>4, <3>2, <3>3, NewModuleIn
      <3> QED
        BY <3>1, <3>4 DEF IsNew
    <2>6. PICK pg : pg = [p \in Page |-> IF p \in Extent(b, map_size(l)) THEN m ELSE page[p]]
      OBVIOUS
    <2>7. page' = pg /\ pg \in [Page -> Mod \cup {Null, "code"}]
      BY <1>1, <2>1, <2>6
    <2>8. \A p \in Page : page[p] \in Mod => pg[p] = page[p]
      BY <2>2, <2>6, LoaderAssumption
    <2>9. ImageSound(r, m)'
      <3>1. \A p \in Extent(b, map_size(l)) : p \in Page /\ pg[p] = m
        BY <2>2, <2>6
      <3>2. r.size <= r.mapped_size
        BY <2>5
      <3> QED
        BY <2>5, <2>7, <3>1, <3>2 DEF ImageSound
    <2>10. heap' = [heap EXCEPT ![m] = r] /\ UNCHANGED <<g_module_list, g_module_count, held>>
      BY <1>6, <2>1, <2>3 DEF ElfLoad
    <2>11. ModulesInv'
      BY <1>0, <2>1, <2>5, <2>7, <2>8, <2>9, <2>10, ModuleMade
    <2>12. PICK x : x = [pc |-> "link", m |-> m, head |-> g_module_list]
      OBVIOUS
    <2>13. x \in ThState /\ x.pc = "link" /\ x.m = m /\ th' = [th EXCEPT ![t] = x] /\ th'[t] = x
      BY <1>1, <1>2, <2>1, <2>12 DEF ThState
    <2>14. m \notin held
      BY <1>0, <2>1, HeldLive
    <2>15. heap'[m] = r /\ r # NotHeap
      BY <1>1, <2>5, <2>10, LoaderAssumption
    <2>16. InLoad(t)'
      BY <2>2, <2>5, <2>10, <2>13, <2>14, <2>15 DEF InLoad
    <2>17. g_current_loading_module' = Null
      BY <1>4, <1>6 DEF ElfLoad
    <2>18. LoadsInv'
      BY <1>2, <2>13, <2>16, <2>17, OneLoad
    <2> QED
      BY <2>11, <2>18 DEF LoaderInv
  <1> QED
    BY <1>5, <1>6

LEMMA LinkLoadKeeps ==
  ASSUME LoaderInv, \A t, u \in Thread : t = u, NEW t \in Thread, ElfLink(t)
  PROVE  LoaderInv'
  <1>0. ModulesInv /\ LoadsInv
    BY DEF LoaderInv
  <1>1. th \in [Thread -> ThState] /\ th[t] \in ThState /\ InLoad(t)
    BY <1>0 DEF LoadsInv
  <1>2. PICK m : m = th[t].m
    OBVIOUS
  <1>3. /\ m \in Mod /\ m \notin held /\ heap[m] # NotHeap /\ heap[m].base # 0
        /\ heap[m].next = g_module_list
    BY <1>1, <1>2 DEF InLoad, ElfLink
  <1>4. ModulesInv'
    <2>1. g_module_list' = m /\ g_module_count' = g_module_count + 1 /\ UNCHANGED <<heap, page, held>>
      BY <1>2 DEF ElfLink
    <2> QED
      BY <1>0, <1>3, <2>1, ModuleLinked
  <1>5. PICK x : x = [th[t] EXCEPT !.pc = "relocate"]
    OBVIOUS
  <1>6. x \in ThState /\ x.pc = "relocate" /\ x.m = m
    BY <1>1, <1>2, <1>5 DEF ThState
  <1>7. th' = [th EXCEPT ![t] = x] /\ th'[t] = x
    BY <1>1, <1>5 DEF ElfLink
  <1>8. InLoad(t)'
    BY <1>2, <1>3, <1>6, <1>7 DEF InLoad, ElfLink
  <1>9. g_current_loading_module' = Null
    BY <1>0, NotInOnLoad DEF ElfLink
  <1>10. LoadsInv'
    BY <1>1, <1>6, <1>7, <1>8, <1>9, OneLoad
  <1> QED
    BY <1>4, <1>10 DEF LoaderInv

LEMMA FinishKeeps ==
  ASSUME LoaderInv, \A t, u \in Thread : t = u, NEW t \in Thread,
         RelocateFails(t) \/ LoadRelocated(t) \/ simulate_jni_onload(t)
  PROVE  LoaderInv'
  <1>0. ModulesInv /\ LoadsInv
    BY DEF LoaderInv
  <1>1. th \in [Thread -> ThState] /\ th[t] \in ThState /\ InLoad(t)
    BY <1>0 DEF LoadsInv
  <1>2. PICK m : m = th[t].m
    OBVIOUS
  <1>3. th[t].pc \in {"relocate", "onload"}
    BY DEF RelocateFails, LoadRelocated, simulate_jni_onload, Loading
  <1>4. /\ m \in Mod /\ m \notin held /\ heap[m] # NotHeap /\ heap[m].base # 0
        /\ g_module_list = m
    BY <1>1, <1>2, <1>3 DEF InLoad
  <1>5. PICK r0 : r0 = heap[m]
    OBVIOUS
  <1>6. r0 \in ElfModule /\ MethodsSound(r0) /\ heap \in [Mod -> ElfModule \cup {NotHeap}]
    BY <1>0, <1>4, <1>5 DEF ModulesInv, LoaderTypes
  <1>7. ThIdle \in ThState /\ ThIdle.pc = "idle"
    BY DEF ThIdle, ThState
  <1>8. CASE RelocateFails(t)
    <2>1. ElfUnload(m) /\ held' = held /\ th[t].pc = "relocate"
      BY <1>2, <1>8 DEF RelocateFails, Loading
    <2>2. ModulesInv'
      BY <1>0, <1>4, <2>1, HeadUnloaded
    <2>3. th' = [th EXCEPT ![t] = ThIdle] /\ th'[t] = ThIdle
      BY <1>1, <1>8 DEF RelocateFails
    <2>4. InLoad(t)'
      BY <1>7, <2>3 DEF InLoad
    <2>5. g_current_loading_module' = Null
      BY <1>0, <1>8, <2>1, NotInOnLoad DEF RelocateFails
    <2>6. LoadsInv'
      BY <1>1, <1>7, <2>3, <2>4, <2>5, OneLoad
    <2> QED
      BY <2>2, <2>6 DEF LoaderInv
  <1>9. CASE LoadRelocated(t)
    <2>1. PICK r : r = [r0 EXCEPT !.patched = Info[r0.lib].patches]
      OBVIOUS
    <2>2. Info[r0.lib].patches \in BOOLEAN
      BY <1>6, LoaderAssumption DEF ElfModule, LibInfo
    <2>3. r \in ElfModule
      BY <1>6, <2>1, <2>2 DEF ElfModule
    <2>4. /\ r.base = r0.base /\ r.size = r0.size /\ r.mapped_size = r0.mapped_size
          /\ r.next = r0.next /\ r.methods = r0.methods
      BY <1>6, <2>1 DEF ElfModule
    <2>5. MethodsSound(r)
      BY <1>6, <2>4 DEF MethodsSound
    <2>6. heap' = [heap EXCEPT ![m] = r] /\ UNCHANGED <<g_module_list, g_module_count, page>> /\ held' = held
      BY <1>2, <1>4, <1>5, <1>6, <1>9, <2>1 DEF LoadRelocated
    <2>7. ModulesInv'
      <3>1. held' = held /\ m \notin held
        BY <1>4, <2>6
      <3> QED
        BY <1>0, <1>4, <1>5, <2>3, <2>4, <2>5, <2>6, <3>1, ModuleRewritten
    <2>8. PICK x : x = [th[t] EXCEPT !.pc = "onload"]
      OBVIOUS
    <2>9. x \in ThState /\ x.pc = "onload" /\ x.m = m
      BY <1>1, <1>2, <2>8 DEF ThState
    <2>10. th' = [th EXCEPT ![t] = x] /\ th'[t] = x /\ g_current_loading_module' = m
      BY <1>1, <1>2, <1>9, <2>8 DEF LoadRelocated
    <2>11. heap'[m] = r /\ r # NotHeap
      BY <1>4, <1>6, <2>3, <2>6, LoaderAssumption
    <2>12. InLoad(t)'
      BY <1>4, <1>5, <2>4, <2>6, <2>9, <2>10, <2>11 DEF InLoad
    <2>13. LoadsInv'
      BY <1>1, <2>9, <2>10, <2>12, OneLoad
    <2> QED
      BY <2>7, <2>13 DEF LoaderInv
  <1>10. CASE simulate_jni_onload(t)
    <2>1. PICK r : r = [r0 EXCEPT !.methods = load_native_method_stubs(m)]
      OBVIOUS
    <2>2. /\ r \in ElfModule /\ MethodsSound(r) /\ Configured(r)
          /\ r.base = r0.base /\ r.size = r0.size /\ r.mapped_size = r0.mapped_size
          /\ r.next = r0.next
      BY <1>4, <1>5, <1>6, <2>1, StubsLoaded
    <2>3. heap' = [heap EXCEPT ![m] = r] /\ UNCHANGED <<g_module_list, g_module_count, page>>
            /\ held' = held \cup {m}
      BY <1>2, <1>4, <1>5, <1>6, <1>10, <2>1 DEF simulate_jni_onload
    <2>4. ModulesInv'
      BY <1>0, <1>4, <1>5, <2>2, <2>3, ModuleRewritten
    <2>5. th' = [th EXCEPT ![t] = ThIdle] /\ th'[t] = ThIdle /\ g_current_loading_module' = Null
      BY <1>1, <1>10 DEF simulate_jni_onload
    <2>6. InLoad(t)'
      BY <1>7, <2>5 DEF InLoad
    <2>7. LoadsInv'
      BY <1>1, <1>7, <2>5, <2>6, OneLoad
    <2> QED
      BY <2>4, <2>7 DEF LoaderInv
  <1> QED
    BY <1>8, <1>9, <1>10

LEMMA UnloadKeeps ==
  ASSUME LoaderInv, \A t, u \in Thread : t = u, NEW t \in Thread,
         UnloadBegin(t) \/ UnloadNext(t) \/ UnloadEnd(t) \/ nb_initialize(t)
  PROVE  LoaderInv'
  <1>0. ModulesInv /\ LoadsInv
    BY DEF LoaderInv
  <1>1. th \in [Thread -> ThState] /\ th[t] \in ThState /\ InLoad(t)
    BY <1>0 DEF LoadsInv
  <1>2. th[t].pc \in {"idle", "unload"}
    BY DEF UnloadBegin, UnloadNext, UnloadEnd, nb_initialize
  <1>3. g_current_loading_module' = Null
    BY <1>0, <1>2, NotInOnLoad DEF UnloadBegin, UnloadNext, UnloadEnd, nb_initialize
  \* The list is empty, or forgotten while no module is held.
  <1>4. ASSUME held = {}, g_module_list' = Null, g_module_count' = 0, UNCHANGED <<heap, page, held>>
        PROVE  ModulesInv'
    <2>1. LoaderTypes'
      BY <1>0, <1>4 DEF ModulesInv, LoaderTypes
    <2>2. Linked(<<>>)' /\ HeldIn(<<>>)'
      <3>1. <<>> \in Seq(Mod) /\ Len(<<>>) = 0 /\ 1..0 = {}
        OBVIOUS
      <3> QED
        BY <1>4, <3>1 DEF Linked, HeldIn
    <2>3. \A q \in Mod : heap'[q] # NotHeap => ImageSound(heap[q], q)' /\ MethodsSound(heap[q])'
      BY <1>0, <1>4 DEF ModulesInv, ImageSound, MethodsSound
    <2>4. \A q \in held' : Configured(heap[q])'
      BY <1>4
    <2> QED
      BY <2>1, <2>2, <2>3, <2>4 DEF ModulesInv
  <1>5. CASE UnloadBegin(t)
    <2>1. held' \subseteq held /\ held' = {} /\ UNCHANGED <<heap, g_module_list, g_module_count, page>>
      BY <1>5 DEF UnloadBegin
    <2>2. ModulesInv'
      BY <1>0, <2>1, ModulesKept
    <2>3. PICK x : x = [th[t] EXCEPT !.pc = "unload"]
      OBVIOUS
    <2>4. x \in ThState /\ x.pc = "unload"
      BY <1>1, <2>3 DEF ThState
    <2>5. th' = [th EXCEPT ![t] = x] /\ th'[t] = x
      BY <1>1, <1>5, <2>3 DEF UnloadBegin
    <2>6. InLoad(t)'
      BY <2>1, <2>4, <2>5 DEF InLoad
    <2>7. LoadsInv'
      BY <1>1, <1>3, <2>4, <2>5, <2>6, OneLoad
    <2> QED
      BY <2>2, <2>7 DEF LoaderInv
  <1>6. CASE UnloadNext(t)
    <2>1. held = {} /\ held' = held /\ th' = th /\ th[t].pc = "unload"
      BY <1>1, <1>6 DEF UnloadNext, InLoad
    <2>2. PICK m : m = g_module_list
      OBVIOUS
    <2>3. m \in Mod /\ m \notin held
      BY <1>0, <1>6, <2>1, <2>2 DEF UnloadNext, ModulesInv, LoaderTypes
    <2>4. ModulesInv'
      <3>1. CASE heap[m] = NotHeap
        <4>1. UNCHANGED <<heap, g_module_list, g_module_count, page>>
          BY <1>6, <2>2, <3>1 DEF UnloadNext
        <4>2. held' \subseteq held
          BY <2>1
        <4> QED
          BY <1>0, <4>1, <4>2, ModulesKept
      <3>2. CASE heap[m] # NotHeap
        <4>1. ElfUnload(m)
          BY <1>6, <2>2, <3>2 DEF UnloadNext
        <4> QED
          BY <1>0, <2>1, <2>2, <2>3, <4>1, HeadUnloaded
      <3> QED
        BY <3>1, <3>2
    <2>5. th' = [th EXCEPT ![t] = th[t]] /\ th'[t] = th[t]
      BY <1>1, <2>1
    <2>6. InLoad(t)'
      BY <2>1, <2>5 DEF InLoad
    <2>7. LoadsInv'
      BY <1>1, <1>3, <2>5, <2>6, OneLoad
    <2> QED
      BY <2>4, <2>7 DEF LoaderInv
  <1>7. CASE UnloadEnd(t)
    <2>1. held = {} /\ g_module_list' = Null /\ g_module_count' = 0 /\ UNCHANGED <<heap, page, held>>
      BY <1>1, <1>7 DEF UnloadEnd, InLoad
    <2>2. ModulesInv'
      BY <1>4, <2>1
    <2>3. ThIdle \in ThState /\ ThIdle.pc = "idle"
      BY DEF ThIdle, ThState
    <2>4. th' = [th EXCEPT ![t] = ThIdle] /\ th'[t] = ThIdle
      BY <1>1, <1>7 DEF UnloadEnd
    <2>5. InLoad(t)'
      BY <2>3, <2>4 DEF InLoad
    <2>6. LoadsInv'
      BY <1>1, <1>3, <2>3, <2>4, <2>5, OneLoad
    <2> QED
      BY <2>2, <2>6 DEF LoaderInv
  <1>8. CASE nb_initialize(t)
    <2>1. /\ held = {} /\ g_module_list' = Null /\ g_module_count' = 0 /\ UNCHANGED <<heap, page, held>>
          /\ th[t].pc = "idle" /\ th' = th
      BY <1>8 DEF nb_initialize
    <2>2. ModulesInv'
      BY <1>4, <2>1
    <2>3. th' = [th EXCEPT ![t] = th[t]] /\ th'[t] = th[t]
      BY <1>1, <2>1
    <2>4. InLoad(t)'
      BY <2>1, <2>3 DEF InLoad
    <2>5. LoadsInv'
      BY <1>1, <1>3, <2>3, <2>4, OneLoad
    <2> QED
      BY <2>2, <2>5 DEF LoaderInv
  <1> QED
    BY <1>5, <1>6, <1>7, <1>8

LEMMA InterceptKeeps ==
  ASSUME LoaderInv, NEW n \in Method, NEW p \in Page, Intercept(<<n>>, p)
  PROVE  LoaderInv'
  <1>0. ModulesInv /\ LoadsInv
    BY DEF LoaderInv
  <1>1. PICK m : m = g_current_loading_module
    OBVIOUS
  <1>2. UNCHANGED <<g_module_list, g_module_count, g_current_loading_module, page, held, th>>
    BY DEF Intercept
  <1>3. CASE m # Null /\ heap[m] # NotHeap /\ InModule(m, p)
    <2>1. PICK t \in Thread : th[t].pc = "onload" /\ th[t].m = m
      BY <1>0, <1>1, <1>3 DEF LoadsInv
    <2>2. m \in Mod /\ m \notin held /\ heap[m].base # 0
      BY <1>0, <2>1 DEF LoadsInv, InLoad
    <2>3. PICK r0 : r0 = heap[m]
      OBVIOUS
    <2>4. r0 \in ElfModule /\ MethodsSound(r0) /\ heap \in [Mod -> ElfModule \cup {NotHeap}]
      BY <1>0, <1>3, <2>2, <2>3 DEF ModulesInv, LoaderTypes
    <2>5. PICK e, es : e = [class |-> Null, name |-> n, fn |-> p] /\ es = <<e>>
      OBVIOUS
    <2>6. e \in NativeMethod /\ e.class = Null /\ e.fn = p
      BY <2>5 DEF NativeMethod
    <2>7. es \in Seq(NativeMethod)
      BY <2>5, <2>6
    <2>8. Len(es) = 1 /\ es[1] = e
      BY <2>5
    <2>9. p \in Extent(r0.base, r0.mapped_size)
      BY <1>3, <2>3 DEF InModule
    <2>10. EntriesSound(r0, es)
      <3>1. Null # "l"
        BY LoaderAssumption
      <3> QED
        BY <2>2, <2>3, <2>6, <2>8, <2>9, <3>1 DEF EntriesSound
    <2>11. PICK ws, r : ws = Registered(r0.methods, es) /\ r = [r0 EXCEPT !.methods = ws]
      OBVIOUS
    <2>12. HasRegistered(r, r0, es)
      BY <2>4, <2>7, <2>10, <2>11, MethodsRegistered
    <2>13. /\ r \in ElfModule /\ MethodsSound(r) /\ r.base = r0.base /\ r.size = r0.size
           /\ r.mapped_size = r0.mapped_size /\ r.next = r0.next
      BY <2>12 DEF HasRegistered
    <2>14. heap' = [heap EXCEPT ![m] = r]
      <3>1. [i \in DOMAIN <<n>> |-> Entry(Null, <<n>>[i], p)] = es
        BY <2>5 DEF Entry
      <3>2. heap' = [heap EXCEPT ![m].methods = Registered(@, [i \in DOMAIN <<n>> |-> Entry(Null, <<n>>[i], p)])]
        BY <1>1, <1>3 DEF Intercept
      <3>3. heap' = [heap EXCEPT ![m].methods = Registered(@, es)]
        BY <3>1, <3>2
      <3> QED
        BY <2>2, <2>3, <2>4, <2>11, <3>3
    <2>15. ModulesInv'
      <3>1. held' = held /\ m \notin held
        BY <1>2, <2>2
      <3> QED
        BY <1>0, <1>2, <1>3, <2>2, <2>3, <2>13, <2>14, <3>1, ModuleRewritten
    <2>16. heap'[m] = r /\ r # NotHeap /\ \A q \in Mod : q # m => heap'[q] = heap[q]
      BY <2>2, <2>4, <2>13, <2>14, LoaderAssumption
    <2>17. ASSUME NEW u \in Thread PROVE InLoad(u)'
      <3>1. InLoad(u)
        BY <1>0 DEF LoadsInv
      <3>2. CASE th[u].m = m
        BY <1>2, <2>3, <2>13, <2>16, <3>1, <3>2 DEF InLoad
      <3>3. CASE th[u].m # m
        BY <1>2, <2>16, <3>1, <3>3 DEF InLoad
      <3> QED
        BY <3>2, <3>3
    <2>18. LoadsInv'
      BY <1>0, <1>2, <2>17 DEF LoadsInv
    <2> QED
      BY <2>15, <2>18 DEF LoaderInv
  <1>4. CASE ~ (m # Null /\ heap[m] # NotHeap /\ InModule(m, p))
    <2>1. heap' = heap
      BY <1>1, <1>4 DEF Intercept
    <2> QED
      BY <1>2, <2>1, LoaderQuiet
  <1> QED
    BY <1>3, <1>4

LEMMA TrampolineKeeps ==
  ASSUME LoaderInv, NEW t \in Thread, NEW m \in Mod, nb_getTrampoline(t, m)
  PROVE  LoaderInv'
  <1>0. ModulesInv /\ LoadsInv
    BY DEF LoaderInv
  <1>1. UNCHANGED <<heap, g_module_list, g_module_count, g_current_loading_module, held, th>>
    BY DEF nb_getTrampoline
  <1>2. CASE page' = page
    BY <1>1, <1>2, LoaderQuiet
  <1>3. CASE Patch(m)
    <2>1. PICK b \in MmapAt(1) : page' = [page EXCEPT ![b] = "code"]
      BY <1>3 DEF Patch
    <2>2. b \in Page /\ page[b] = Null
      <3>1. b \in Page /\ \A q \in Extent(b, 1) : page[q] = Null
        BY <2>1 DEF MmapAt
      <3>2. b \in Extent(b, 1)
        BY <3>1 DEF Extent, Page
      <3> QED
        BY <3>1, <3>2
    <2>3. page \in [Page -> Mod \cup {Null, "code"}] /\ Null \notin Mod
      BY <1>0, LoaderAssumption DEF ModulesInv, LoaderTypes
    <2>4. page' \in [Page -> Mod \cup {Null, "code"}] /\ \A q \in Page : page[q] \in Mod => page'[q] = page[q]
      BY <2>1, <2>2, <2>3
    <2>5. LoaderTypes'
      BY <1>0, <1>1, <2>4 DEF ModulesInv, LoaderTypes
    <2>6. PICK s : Linked(s) /\ HeldIn(s)
      BY <1>0 DEF ModulesInv
    <2>7. Linked(s)' /\ HeldIn(s)'
      BY <1>1, <2>6 DEF Linked, HeldIn
    <2>8. ASSUME NEW q \in Mod, heap[q] # NotHeap PROVE ImageSound(heap[q], q)' /\ MethodsSound(heap[q])'
      <3>1. ImageSound(heap[q], q) /\ MethodsSound(heap[q]) /\ heap' = heap
        BY <1>0, <1>1, <2>8 DEF ModulesInv
      <3> QED
        BY <2>4, <3>1 DEF ImageSound, MethodsSound
    <2>9. \A q \in held' : Configured(heap[q])'
      BY <1>0, <1>1 DEF ModulesInv, Configured
    <2>10. ModulesInv'
      BY <1>1, <2>5, <2>7, <2>8, <2>9 DEF ModulesInv
    <2>11. LoadsInv'
      BY <1>0, <1>1 DEF LoadsInv, InLoad
    <2> QED
      BY <2>10, <2>11 DEF LoaderInv
  <1> QED
    BY <1>2, <1>3 DEF nb_getTrampoline, Translated, Untranslated

\* The first entry that matches a configured method resolves to code.
LEMMA StubResolves ==
  ASSUME NEW m \in Mod, NEW r \in ElfModule, heap[m] = r, MethodsSound(r), NEW n \in Stubbed,
         \E j \in DOMAIN r.methods : r.methods[j].class = "l" /\ r.methods[j].name = n
  PROVE  lookup_native_method(m, "l", n) # Null
  <1>1. PICK ms : ms = r.methods
    OBVIOUS
  <1>2. ms \in Seq(NativeMethod)
    BY <1>1 DEF ElfModule
  <1>3. PICK H : H = {i \in DOMAIN ms : Matches(ms[i], "l", n)}
    OBVIOUS
  <1>4. H \in SUBSET Nat /\ H # {}
    <2>1. DOMAIN ms = 1..Len(ms)
      BY <1>2
    <2>2. H # {}
      BY <1>1, <1>3 DEF Matches
    <2>3. \A i \in H : i \in Nat
      BY <1>3, <2>1
    <2> QED
      BY <2>2, <2>3
  <1>5. Min(H) \in H /\ \A j \in H : Min(H) <= j
    BY <1>4, MinNat
  <1>6. PICK i : i = CHOOSE k \in H : \A j \in H : k <= j
    OBVIOUS
  <1>7. i \in H
    BY <1>5, <1>6
  <1>8. lookup_native_method(m, "l", n) = ms[i].fn
    BY <1>1, <1>3, <1>4, <1>6 DEF lookup_native_method
  <1>9. i \in DOMAIN ms /\ ms[i].name = n
    BY <1>3, <1>7 DEF Matches
  <1>10. ms[i] \in NativeMethod
    BY <1>2, <1>9
  <1>11. CASE ms[i].class = "l"
    BY <1>1, <1>8, <1>9, <1>11 DEF MethodsSound
  <1>12. CASE ms[i].class # "l"
    <2>1. ms[i].fn \in Page
      BY <1>10, <1>12 DEF NativeMethod
    <2> QED
      BY <1>8, <2>1, LoaderAssumption
  <1> QED
    BY <1>11, <1>12

\* If one thread calls the bridge and no file is longer than its image: through
\* loads that fail anywhere, unloads and registrations, the module list, the
\* pages of each module and its methods agree (ElfLoad, ElfUnload,
\* simulate_jni_onload, arm2x86_intercept_register_natives).
THEOREM ModulesSound ==
  ASSUME \A t, u \in Thread : t = u, \A l \in Lib : Info[l].file <= map_size(l)
  PROVE  LoaderSpec => []LoadedSound
  <1>1. LoaderInit => LoaderInv
    <2> SUFFICES ASSUME LoaderInit PROVE LoaderInv
      OBVIOUS
    <2>1. LoaderTypes
      BY DEF LoaderInit, LoaderTypes
    <2>2. Linked(<<>>) /\ HeldIn(<<>>)
      <3>1. <<>> \in Seq(Mod) /\ Len(<<>>) = 0 /\ 1..0 = {}
        OBVIOUS
      <3> QED
        BY <3>1 DEF Linked, HeldIn, LoaderInit
    <2>3. ModulesInv
      BY <2>1, <2>2 DEF ModulesInv, LoaderInit
    <2>4. ThIdle \in ThState /\ ThIdle.pc = "idle"
      BY DEF ThIdle, ThState
    <2>5. LoadsInv
      BY <2>4 DEF LoadsInv, InLoad, LoaderInit
    <2> QED
      BY <2>3, <2>5 DEF LoaderInv
  <1>2. LoaderInv /\ [LoaderNext]_loaderVars => LoaderInv'
    <2> SUFFICES ASSUME LoaderInv, [LoaderNext]_loaderVars PROVE LoaderInv'
      OBVIOUS
    <2>1. CASE UNCHANGED loaderVars
      BY <2>1, LoaderQuiet DEF loaderVars
    <2>2. ASSUME NEW t \in Thread, NEW l \in Lib, LoadShort(t, l) \/ ElfLoad(t, l) PROVE LoaderInv'
      BY <2>2, LoadKeeps
    <2>3. ASSUME NEW t \in Thread, LoadFails(t) PROVE LoaderInv'
      <3>1. PICK m \in Mod : heap[m] = NotHeap /\ g_module_count' = CountWithout(m)
        BY <2>3 DEF LoadFails
      <3>2. PICK s : Linked(s)
        BY DEF LoaderInv, ModulesInv
      <3>3. List = s /\ DOMAIN s = 1..Len(s) /\ \A i \in 1..Len(s) : heap[s[i]] # NotHeap
        BY <3>2, ListIs DEF Linked
      <3>4. ~ Listed(m)
        BY <3>1, <3>3 DEF Listed, Range
      <3>5. g_module_count' = g_module_count
        BY <3>1, <3>4 DEF CountWithout
      <3> QED
        BY <2>3, <3>5, LoaderQuiet DEF LoadFails
    <2>4. ASSUME NEW t \in Thread, ElfLink(t) PROVE LoaderInv'
      BY <2>4, LinkLoadKeeps
    <2>5. ASSUME NEW t \in Thread, RelocateFails(t) \/ LoadRelocated(t) \/ simulate_jni_onload(t) PROVE LoaderInv'
      BY <2>5, FinishKeeps
    <2>6. ASSUME NEW t \in Thread, UnloadBegin(t) \/ UnloadNext(t) \/ UnloadEnd(t) \/ nb_initialize(t)
          PROVE  LoaderInv'
      BY <2>6, UnloadKeeps
    <2>7. ASSUME NEW t \in Thread, NEW m \in Mod, nb_getTrampoline(t, m) PROVE LoaderInv'
      BY <2>7, TrampolineKeeps
    <2>8. ASSUME NEW n \in Method, NEW p \in Page, Intercept(<<n>>, p) PROVE LoaderInv'
      BY <2>8, InterceptKeeps
    <2>9. CASE FreeCaptured
      BY <2>9, LoaderQuiet DEF FreeCaptured
    <2> QED
      BY <2>1, <2>2, <2>3, <2>4, <2>5, <2>6, <2>7, <2>8, <2>9 DEF LoaderNext
  <1>3. LoaderInv => LoadedSound
    <2> SUFFICES ASSUME LoaderInv PROVE LoadedSound
      OBVIOUS
    <2>1. ModulesInv /\ LoadsInv
      BY DEF LoaderInv
    <2>2. /\ heap \in [Mod -> ElfModule \cup {NotHeap}] /\ page \in [Page -> Mod \cup {Null, "code"}]
          /\ held \in SUBSET Mod /\ g_module_list \in Mod \cup {Null}
          /\ \A q \in Mod : heap[q] # NotHeap => ImageSound(heap[q], q) /\ MethodsSound(heap[q])
          /\ \A q \in held : Configured(heap[q])
      BY <2>1 DEF ModulesInv, LoaderTypes
    <2>3. PICK s : Linked(s) /\ HeldIn(s)
      BY <2>1 DEF ModulesInv
    <2>4. List = s
      BY <2>3, ListIs
    <2>5. /\ s \in Seq(Mod) /\ Len(s) \in Nat /\ Len(s) = g_module_count /\ DOMAIN s = 1..Len(s)
          /\ \A i, j \in 1..Len(s) : i # j => s[i] # s[j]
          /\ \A i \in 1..Len(s) : heap[s[i]] # NotHeap /\ heap[s[i]].base # 0
      BY <2>3 DEF Linked
    <2>6. LoaderTypeOK
      <3>1. ASSUME NEW q \in Mod, heap[q] # NotHeap
            PROVE  heap[q].next \in Mod \cup {Null} /\ heap[q].base \in 0 .. NPage
        <4>1. heap[q] \in ElfModule
          BY <2>2, <3>1
        <4>2. heap[q].next \in Mod \cup {Null} /\ heap[q].base \in Page \cup {0}
          BY <4>1 DEF ElfModule
        <4> QED
          BY <4>2, LoaderAssumption DEF Page
      <3>2. g_current_loading_module \in Mod \cup {Null}
        BY <2>1 DEF LoadsInv, InLoad
      <3>3. \A t \in Thread : th[t].pc \in {"idle", "link", "relocate", "onload", "unload"}
        BY <2>1 DEF LoadsInv, ThState
      <3>4. g_module_count \in Nat
        BY <2>5
      <3> QED
        BY <2>2, <3>1, <3>2, <3>3, <3>4 DEF LoaderTypeOK
    <2>7. ListSound
      BY <2>4, <2>5 DEF ListSound
    <2>8. HeldMapped
      <3>1. ASSUME NEW m \in held
            PROVE  /\ heap[m] # NotHeap /\ Listed(m)
                   /\ \A p \in Extent(heap[m].base, heap[m].mapped_size) : page[p] = m
        <4>1. PICK i \in 1..Len(s) : s[i] = m
          BY <2>3 DEF HeldIn
        <4>2. Listed(m)
          BY <2>4, <2>5, <4>1 DEF Listed, Range
        <4>3. m \in Mod /\ heap[m] # NotHeap /\ heap[m].base # 0
          BY <2>2, <2>5, <4>1
        <4>4. ImageSound(heap[m], m)
          BY <2>2, <4>3
        <4> QED
          BY <4>2, <4>3, <4>4 DEF ImageSound
      <3> QED
        BY <3>1 DEF HeldMapped
    <2>9. CapturedInModule
      <3>1. ASSUME NEW m \in Mod, heap[m] # NotHeap, NEW i \in DOMAIN heap[m].methods,
                   heap[m].methods[i].class = Null
            PROVE  page[heap[m].methods[i].fn] = m
        <4>1. ImageSound(heap[m], m) /\ MethodsSound(heap[m])
          BY <2>2, <3>1
        <4>2. heap[m].base # 0 /\ heap[m].methods[i].fn \in Extent(heap[m].base, heap[m].mapped_size)
          BY <3>1, <4>1 DEF MethodsSound
        <4> QED
          BY <4>1, <4>2 DEF ImageSound
      <3> QED
        BY <3>1 DEF CapturedInModule
    <2>10. StubsResolve
      <3>1. ASSUME NEW m \in held, heap[m].patched, NEW i \in DOMAIN Info[heap[m].lib].conf,
                   Info[heap[m].lib].conf[i] \in Stubbed
            PROVE  lookup_native_method(m, "l", Info[heap[m].lib].conf[i]) # Null
        <4>1. m \in Mod /\ heap[m] # NotHeap
          BY <2>1, HeldLive
        <4>2. PICK r, n : r = heap[m] /\ n = Info[heap[m].lib].conf[i]
          OBVIOUS
        <4>3. r \in ElfModule /\ MethodsSound(r) /\ Configured(r)
          BY <2>2, <4>1, <4>2
        <4>4. \E j \in DOMAIN r.methods : r.methods[j].class = "l" /\ r.methods[j].name = n
          BY <3>1, <4>2, <4>3 DEF Configured
        <4>5. n \in Stubbed
          BY <3>1, <4>2
        <4> QED
          BY <4>1, <4>2, <4>3, <4>4, <4>5, StubResolves
      <3> QED
        BY <3>1 DEF StubsResolve
    <2> QED
      BY <2>6, <2>7, <2>8, <2>9, <2>10 DEF LoadedSound
  <1> QED
    BY <1>1, <1>2, <1>3, PTL DEF LoaderSpec
=============================================================================
