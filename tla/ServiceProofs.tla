--------------------------- MODULE ServiceProofs ---------------------------
(***************************************************************************)
(* Proofs about the services around the translator, each for every value   *)
(* of its constants: the jump table (JumpTable), the pool of executable    *)
(* memory (MemPool), hot blocks (HotBlock) and the passes on their code    *)
(* (HotPasses), the context's code cache (CodeCache), the parts of a       *)
(* parallel batch (BatchParts), the signal handlers (Signals), the         *)
(* recorders (Recorders) and the record of page protections (PageProt).    *)
(* They share no state, so each has an inductive invariant of its own.     *)
(***************************************************************************)
EXTENDS JumpTable, MemPool, HotBlock, HotPasses, CodeCache, BatchParts, Signals,
        Recorders, PageProt, SetFacts, FiniteSetTheorems, SequenceTheorems, TLAPS

-----------------------------------------------------------------------------
(***************************************************************************)
(* The inductive invariant: until the program dies, every entry has a stub *)
(* of its own that was really given out, or none.  Without the last part a *)
(* new stub could be one that an entry has already.                        *)
(***************************************************************************)
JumpEntry == [arm_addr : Addr, x86_target : Addr, hit_count : Nat, x86_stub : Nat]
JumpInv ==
  ~jtCrashed =>
    /\ entries \in Seq(JumpEntry) /\ stubs \in Seq(Addr)
    /\ \A i \in Ix : entries[i].x86_stub \in 0..Len(stubs)
    /\ StubsApart /\ StubTarget

\* The first member of a nonempty set of indices is one of them.
LEMMA FirstIxIn == ASSUME NEW S \in SUBSET Nat, S # {} PROVE FirstIx(S) \in S
  BY MinNat DEF FirstIx

\* A table that is not empty has an entry with the fewest hits.
LEMMA LeastHitIn == ASSUME entries \in Seq(JumpEntry), entries # <<>> PROVE LeastHit \in Ix
  <1> DEFINE H == {entries[i].hit_count : i \in Ix}
             Fewest == {i \in Ix : \A j \in Ix : entries[i].hit_count <= entries[j].hit_count}
  <1>1. H \in SUBSET Nat /\ H # {}
    <2>1. 1 \in Ix
      BY DEF Ix
    <2>2. \A i \in Ix : entries[i] \in JumpEntry
      BY DEF Ix
    <2>3. \A i \in Ix : entries[i].hit_count \in Nat
      BY <2>2 DEF JumpEntry
    <2> QED
      BY <2>1, <2>3
  <1>2. Min(H) \in H /\ \A y \in H : Min(H) <= y
    BY <1>1, MinNat
  <1>3. PICK i \in Ix : entries[i].hit_count = Min(H)
    BY <1>2
  <1>4. i \in Fewest
    BY <1>2, <1>3
  <1>5. Fewest \in SUBSET Nat /\ Fewest # {}
    BY <1>4 DEF Ix
  <1>6. FirstIx(Fewest) \in Fewest
    BY <1>5, FirstIxIn
  <1> QED
    BY <1>6 DEF LeastHit

\* The index of an address that has an entry.
LEMMA FirstHitIn ==
  ASSUME entries \in Seq(JumpEntry), NEW a, LookupHits(a) # {}
  PROVE  FirstIx(LookupHits(a)) \in Ix /\ entries[FirstIx(LookupHits(a))].arm_addr = a
  <1>1. LookupHits(a) \in SUBSET Nat /\ LookupHits(a) # {}
    BY DEF LookupHits, Ix
  <1>2. FirstIx(LookupHits(a)) \in LookupHits(a)
    BY <1>1, FirstIxIn
  <1> QED
    BY <1>2 DEF LookupHits

\* An entry's count and target may change, if the stub is not taken for written.
LEMMA ChangedStep ==
  ASSUME JumpInv, ~jtCrashed, NEW i \in Ix, NEW e \in JumpEntry,
         e.arm_addr = entries[i].arm_addr, e.x86_stub = entries[i].x86_stub,
         e.x86_target = entries[i].x86_target \/ entries[i].arm_addr \in unwritten',
         entries' = [entries EXCEPT ![i] = e],
         stubs' = stubs, jtCrashed' = jtCrashed, unwritten \subseteq unwritten'
  PROVE  JumpInv'
  <1>0. entries \in Seq(JumpEntry) /\ stubs \in Seq(Addr)
    BY DEF JumpInv
  <1>1. entries' \in Seq(JumpEntry) /\ DOMAIN entries' = DOMAIN entries
    BY <1>0 DEF Ix
  <1>2. \A j \in Ix : /\ entries'[j].arm_addr = entries[j].arm_addr
                      /\ entries'[j].x86_stub = entries[j].x86_stub
                      /\ \/ entries'[j].x86_target = entries[j].x86_target
                         \/ entries[j].arm_addr \in unwritten'
    BY <1>0 DEF Ix
  <1>3. StubsApart'
    BY <1>1, <1>2 DEF JumpInv, StubsApart, Ix
  <1>4. StubTarget'
    BY <1>1, <1>2 DEF JumpInv, StubTarget, Ix
  <1> QED
    BY <1>0, <1>1, <1>2, <1>3, <1>4 DEF JumpInv, Ix

\* Looking an address up changes a count only.
LEMMA HitStep == ASSUME JumpInv, ~jtCrashed, NEW sym \in Addr, BridgeHit(sym) PROVE JumpInv'
  <1>0. entries \in Seq(JumpEntry)
    BY DEF JumpInv
  <1>1. PICK i : i = FirstIx(LookupHits(sym))
    OBVIOUS
  <1>2. i \in Ix
    BY <1>0, <1>1, FirstHitIn DEF BridgeHit
  <1>3. entries[i] \in JumpEntry
    BY <1>0, <1>2 DEF Ix
  <1>4. PICK e : e = [entries[i] EXCEPT !.hit_count = HitCounted(@)]
    OBVIOUS
  <1>5. HitCounted(entries[i].hit_count) \in Nat
    BY <1>3 DEF JumpEntry, HitCounted
  <1>6. /\ e \in JumpEntry /\ e.arm_addr = entries[i].arm_addr
        /\ e.x86_stub = entries[i].x86_stub /\ e.x86_target = entries[i].x86_target
    BY <1>3, <1>4, <1>5 DEF JumpEntry
  <1>7. entries' = [entries EXCEPT ![i] = e]
    BY <1>0, <1>1, <1>2, <1>4 DEF BridgeHit, Looked, Ix
  <1> QED
    BY <1>2, <1>6, <1>7, ChangedStep DEF BridgeHit

\* The existing-entry branch of jumptable_create_entry.
LEMMA ExistingStep ==
  ASSUME JumpInv, ~jtCrashed, NEW a \in Addr, NEW x \in Addr, CreateExisting(a, x)
  PROVE  JumpInv'
  <1>0. entries \in Seq(JumpEntry)
    BY DEF JumpInv
  <1>1. PICK i : i = FirstIx(LookupHits(a))
    OBVIOUS
  <1>2. i \in Ix /\ entries[i].arm_addr = a
    BY <1>0, <1>1, FirstHitIn DEF CreateExisting
  <1>3. entries[i] \in JumpEntry
    BY <1>0, <1>2 DEF Ix
  <1>4. PICK c : c = [entries[i] EXCEPT !.hit_count = HitCounted(@)]
    OBVIOUS
  <1>5. HitCounted(entries[i].hit_count) \in Nat
    BY <1>3 DEF JumpEntry, HitCounted
  <1>6. c \in JumpEntry /\ c.arm_addr = entries[i].arm_addr /\ c.x86_stub = entries[i].x86_stub
    BY <1>3, <1>4, <1>5 DEF JumpEntry
  <1>7. PICK e : e = [c EXCEPT !.x86_target = x]
    OBVIOUS
  <1>8. e \in JumpEntry /\ e.arm_addr = entries[i].arm_addr /\ e.x86_stub = entries[i].x86_stub
    BY <1>6, <1>7 DEF JumpEntry
  <1>9. Looked(a) = [entries EXCEPT ![i] = c]
    BY <1>0, <1>1, <1>2, <1>4 DEF Looked, Ix
  <1>10. entries' = [entries EXCEPT ![i] = e]
    BY <1>0, <1>1, <1>2, <1>7, <1>9 DEF CreateExisting, Ix
  <1> QED
    BY <1>2, <1>8, <1>10, ChangedStep DEF CreateExisting

\* A new entry gets a stub that no entry has, or, with none left, that of the
\* entry whose slot it takes.
LEMMA CreateStep ==
  ASSUME JumpInv, ~jtCrashed, NEW a \in Addr, NEW x \in Addr, LookupHits(a) = {},
         entries' = Filled(a, x, NewStub), stubs' = Written(x), unwritten' = UnwrittenAfter(a)
  PROVE  JumpInv'
  <1>0. entries \in Seq(JumpEntry) /\ stubs \in Seq(Addr)
    BY DEF JumpInv
  <1>1. \A i \in Ix : entries[i].arm_addr # a
    BY DEF LookupHits
  <1>2. JtFull => JtSlot \in Ix /\ entries[JtSlot] \in JumpEntry
    <2> SUFFICES ASSUME JtFull PROVE JtSlot \in Ix /\ entries[JtSlot] \in JumpEntry
      OBVIOUS
    <2>1. entries # <<>>
      BY <1>0, JumpTableAssumption DEF JtFull
    <2>2. JtSlot \in Ix
      BY <1>0, <2>1, LeastHitIn DEF JtSlot
    <2> QED
      BY <1>0, <2>2 DEF Ix
  <1>3. PICK ns : ns = NewStub
    OBVIOUS
  <1>4. /\ ns \in Nat
        /\ ns = Len(stubs) + 1 \/ ns = NoStub \/ (JtFull /\ ns = entries[JtSlot].x86_stub)
        /\ ~Exhausted => ns = Len(stubs) + 1
    <2>1. JtFull => entries[JtSlot].x86_stub \in Nat
      BY <1>2 DEF JumpEntry
    <2> QED
      BY <1>0, <1>3, <2>1 DEF NewStub, OldStub, NoStub
  <1>5. PICK e : e = [arm_addr |-> a, x86_target |-> x, hit_count |-> 0, x86_stub |-> ns]
    OBVIOUS
  <1>6. e \in JumpEntry /\ e.arm_addr = a /\ e.x86_target = x /\ e.x86_stub = ns
    BY <1>4, <1>5 DEF JumpEntry
  <1>7. entries' = IF JtFull THEN [entries EXCEPT ![JtSlot] = e] ELSE Append(entries, e)
    BY <1>3, <1>5 DEF Filled
  <1>8. PICK k \in DOMAIN entries' :
          /\ entries' \in Seq(JumpEntry) /\ entries'[k] = e
          /\ \A i \in DOMAIN entries' : i # k => i \in Ix /\ entries'[i] = entries[i]
          /\ JtFull => k = JtSlot
    <2>1. CASE JtFull
      BY <1>0, <1>2, <1>6, <1>7, <2>1 DEF Ix
    <2>2. CASE ~JtFull
      BY <1>0, <1>6, <1>7, <2>2 DEF Ix
    <2> QED
      BY <2>1, <2>2
  <1>9. /\ stubs' \in Seq(Addr) /\ \A s \in 1..Len(stubs) : stubs'[s] = stubs[s]
        /\ ~Exhausted => Len(stubs') = Len(stubs) + 1 /\ stubs'[Len(stubs) + 1] = x
        /\ Exhausted => stubs' = stubs
    BY <1>0 DEF Written
  <1>10. \A i \in DOMAIN entries' : i # k => entries'[i].x86_stub \in 0..Len(stubs)
    BY <1>8 DEF JumpInv
  <1>11. ns \in 0..Len(stubs')
    <2>1. CASE Exhausted
      <3>1. ns = NoStub \/ (JtFull /\ ns = entries[JtSlot].x86_stub)
        BY <1>3, <2>1 DEF NewStub, OldStub
      <3>2. JtFull => entries[JtSlot].x86_stub \in 0..Len(stubs)
        BY <1>2 DEF JumpInv
      <3> QED
        BY <1>0, <1>9, <2>1, <3>1, <3>2 DEF NoStub
    <2>2. CASE ~Exhausted
      BY <1>0, <1>4, <1>9, <2>2
    <2> QED
      BY <2>1, <2>2
  <1>12. \A i \in DOMAIN entries' : entries'[i].x86_stub \in 0..Len(stubs')
    <2> SUFFICES ASSUME NEW i \in DOMAIN entries' PROVE entries'[i].x86_stub \in 0..Len(stubs')
      OBVIOUS
    <2>1. Len(stubs) \in Nat /\ Len(stubs') \in Nat /\ Len(stubs) <= Len(stubs')
      BY <1>0, <1>9
    <2> QED
      BY <1>6, <1>8, <1>10, <1>11, <2>1
  <1>13. \A i \in DOMAIN entries' : i # k =>
           entries'[i].arm_addr # a /\ (ns # NoStub => entries'[i].x86_stub # ns)
    <2> SUFFICES ASSUME NEW i \in DOMAIN entries', i # k
                 PROVE  entries'[i].arm_addr # a /\ (ns # NoStub => entries'[i].x86_stub # ns)
      OBVIOUS
    <2>1. i \in Ix /\ entries'[i] = entries[i] /\ entries[i].x86_stub \in 0..Len(stubs)
      BY <1>8, <1>10
    <2>2. CASE ns = Len(stubs) + 1
      BY <1>0, <1>1, <2>1, <2>2
    <2>3. CASE JtFull /\ ns = entries[JtSlot].x86_stub
      <3>1. JtSlot \in Ix /\ i # JtSlot
        BY <1>2, <1>8, <2>3
      <3> QED
        BY <1>1, <2>1, <2>3, <3>1 DEF JumpInv, StubsApart
    <2> QED
      BY <1>1, <1>4, <2>1, <2>2, <2>3
  <1>14. StubsApart'
    <2> SUFFICES ASSUME NEW i \in DOMAIN entries', NEW j \in DOMAIN entries', i # j
                 PROVE  /\ entries'[i].arm_addr # entries'[j].arm_addr
                        /\ entries'[i].x86_stub # NoStub => entries'[i].x86_stub # entries'[j].x86_stub
      BY DEF StubsApart, Ix
    <2>1. CASE i = k
      BY <1>6, <1>8, <1>13, <2>1
    <2>2. CASE j = k
      BY <1>6, <1>8, <1>13, <2>2
    <2>3. CASE i # k /\ j # k
      BY <1>8, <2>3 DEF JumpInv, StubsApart
    <2> QED
      BY <2>1, <2>2, <2>3
  <1>15. StubTarget'
    <2> SUFFICES ASSUME NEW i \in DOMAIN entries', entries'[i].arm_addr \notin unwritten'
                 PROVE  /\ entries'[i].x86_stub # NoStub
                        /\ stubs'[entries'[i].x86_stub] = entries'[i].x86_target
      BY DEF StubTarget, Ix
    <2>1. CASE i = k
      <3>1. ~Exhausted
        BY <1>6, <1>8, <2>1 DEF UnwrittenAfter
      <3>2. Len(stubs) + 1 # NoStub
        BY <1>0 DEF NoStub
      <3> QED
        BY <1>4, <1>6, <1>8, <1>9, <2>1, <3>1, <3>2
    <2>2. CASE i # k
      <3>1. i \in Ix /\ entries'[i] = entries[i] /\ entries[i].arm_addr # a
        BY <1>1, <1>8, <2>2
      <3>2. entries[i].arm_addr \notin unwritten
        BY <3>1 DEF UnwrittenAfter
      <3>3. entries[i].x86_stub # NoStub /\ stubs[entries[i].x86_stub] = entries[i].x86_target
        BY <3>1, <3>2 DEF JumpInv, StubTarget
      <3>4. entries[i].x86_stub \in 1..Len(stubs)
        BY <1>0, <1>10, <2>2, <3>1, <3>3 DEF NoStub
      <3> QED
        BY <1>9, <3>1, <3>3, <3>4
    <2> QED
      BY <2>1, <2>2
  <1> QED
    BY <1>8, <1>9, <1>12, <1>14, <1>15 DEF JumpInv, Ix

\* Patching redirects one entry and its stub, which no other entry has.
LEMMA PatchStep ==
  ASSUME JumpInv, ~jtCrashed, NEW i \in Ix, NEW x \in Addr, jumptable_patch_entry(i, x)
  PROVE  JumpInv'
  <1>0. entries \in Seq(JumpEntry) /\ stubs \in Seq(Addr) /\ entries[i].x86_stub \in 1..Len(stubs)
    BY DEF JumpInv, jumptable_patch_entry, NoStub
  <1>1. /\ stubs' = [stubs EXCEPT ![entries[i].x86_stub] = x]
        /\ entries' = [entries EXCEPT ![i].x86_target = x]
        /\ jtCrashed' = jtCrashed
    BY DEF jumptable_patch_entry, PatchStub
  <1>2. entries[i] \in JumpEntry
    BY <1>0 DEF Ix
  <1>3. [entries[i] EXCEPT !.x86_target = x] \in JumpEntry
    BY <1>2 DEF JumpEntry
  <1>4. /\ entries' \in Seq(JumpEntry) /\ DOMAIN entries' = DOMAIN entries
        /\ stubs' \in Seq(Addr) /\ Len(stubs') = Len(stubs)
    BY <1>0, <1>1, <1>3 DEF Ix
  <1>5. \A j \in Ix : /\ entries'[j].arm_addr = entries[j].arm_addr
                      /\ entries'[j].x86_stub = entries[j].x86_stub
                      /\ entries'[j].x86_target = IF j = i THEN x ELSE entries[j].x86_target
    BY <1>0, <1>1, <1>2 DEF Ix, JumpEntry
  <1>6. StubTarget'
    <2> SUFFICES ASSUME NEW j \in Ix, entries'[j].arm_addr \notin unwritten'
                 PROVE  /\ entries'[j].x86_stub # NoStub
                        /\ stubs'[entries'[j].x86_stub] = entries'[j].x86_target
      BY <1>4 DEF StubTarget, Ix
    <2>1. CASE j = i
      BY <1>0, <1>1, <1>5, <2>1 DEF jumptable_patch_entry
    <2>2. CASE j # i
      <3>1. entries[i].x86_stub # entries[j].x86_stub /\ entries[i].arm_addr # entries[j].arm_addr
        BY <2>2 DEF JumpInv, StubsApart, jumptable_patch_entry
      <3>2. entries[j].arm_addr \notin unwritten
        BY <1>5, <3>1 DEF jumptable_patch_entry
      <3>3. entries[j].x86_stub # NoStub /\ stubs[entries[j].x86_stub] = entries[j].x86_target
        BY <3>2 DEF JumpInv, StubTarget
      <3>4. entries[j].x86_stub \in 1..Len(stubs)
        BY <1>0, <3>3 DEF JumpInv, NoStub
      <3> QED
        BY <1>0, <1>1, <1>5, <2>2, <3>1, <3>3, <3>4
    <2> QED
      BY <2>1, <2>2
  <1>7. StubsApart'
    BY <1>1, <1>4, <1>5 DEF JumpInv, StubsApart, Ix
  <1> QED
    BY <1>4, <1>5, <1>6, <1>7 DEF JumpInv, Ix

\* The invariant holds in every reachable state.
LEMMA JumpInductive == JtSpec => []JumpInv
  <1>1. JtInit => JumpInv
    BY DEF JtInit, JumpInv, StubsApart, StubTarget, Ix
  <1>2. JumpInv /\ [JtNext]_jumpVars => JumpInv'
    <2> SUFFICES ASSUME JumpInv, [JtNext]_jumpVars PROVE JumpInv'
      OBVIOUS
    <2>1. CASE jumptable_destroy
      BY <2>1 DEF jumptable_destroy, JumpInv, StubsApart, StubTarget, Ix
    <2>2. CASE UNCHANGED jumpVars
      BY <2>2 DEF jumpVars, JumpInv, StubsApart, StubTarget, Ix
    <2>3. ASSUME ~jtCrashed, NEW sym \in Addr, BridgeCreate(sym) PROVE JumpInv'
      BY <2>3, CreateStep DEF BridgeCreate
    <2>4. ASSUME ~jtCrashed, NEW a \in Addr, NEW x \in Addr, CreateNew(a, x) PROVE JumpInv'
      BY <2>4, CreateStep DEF CreateNew
    <2> QED
      BY <2>1, <2>2, <2>3, <2>4, HitStep, ExistingStep, PatchStep DEF JtNext
  <1> QED
    BY <1>1, <1>2, PTL DEF JtSpec

\* Through creation, also for an address that has an entry, replacement,
\* patching, exhaustion and destruction, the stub of every entry whose stub was
\* written jumps where the entry says, and neither a stub nor an address belongs
\* to two entries (jumptable_create_entry, jumptable_patch_entry).
THEOREM StubsKept == JtSpec => []StubsRight
  <1>1. JumpInv => StubsRight
    BY DEF JumpInv, StubTarget, StubsApart, StubsRight
  <1> QED
    BY <1>1, JumpInductive, PTL

-----------------------------------------------------------------------------
(***************************************************************************)
(* The inductive invariant.  A block lies below the offset of its chunk,   *)
(* and a new block begins at the offset, so two blocks of one chunk are    *)
(* apart; that blocks with one base are in one chunk needs ChunksApart.    *)
(***************************************************************************)
ChunkType == [base : Bases, size : Nat, offset : Nat]
ChunksApart ==
  \A k, l \in Classes : \A i \in DOMAIN chunks[k], j \in DOMAIN chunks[l] :
    chunks[k][i].base = chunks[l][j].base => k = l /\ i = j
BlockRight(x) ==
  /\ x.from \in Nat /\ x.upto \in Nat /\ x.asked \in Nat /\ x.from + x.asked <= x.upto
  /\ \E k \in Classes : \E i \in DOMAIN chunks[k] :
       chunks[k][i].base = x.base /\ x.upto <= chunks[k][i].offset
PoolInv ==
  /\ chunks \in [Classes -> Seq(ChunkType)] /\ ChunksApart
  /\ \A k \in Classes : \A i \in DOMAIN chunks[k] : chunks[k][i].offset <= chunks[k][i].size
  /\ \A x \in blocks : BlockRight(x)
  /\ BlocksDisjoint

\* Rounding up to the alignment gives no less than was asked for.
LEMMA AlignUp == ASSUME NEW n \in Nat PROVE Align(n) \in Nat /\ n <= Align(n)
  <1> DEFINE a == n + Alignment - 1
             q == a \div Alignment
  <1>1. Alignment \in Nat \ {0} /\ a \in Nat
    BY MemPoolConstants
  <1>2. q \in Nat /\ a < (q + 1) * Alignment
    BY <1>1, SMTT(30)
  <1> HIDE DEF q
  <1>3. (q + 1) * Alignment = q * Alignment + Alignment /\ q * Alignment \in Nat
    BY <1>1, <1>2
  <1> QED
    BY <1>1, <1>2, <1>3 DEF Align, q

\* A size has a class.
LEMMA ClassIn == ASSUME NEW n \in Nat PROVE mempool_get_class(n) \in Classes
  <1> DEFINE fit == {k \in Classes : n <= ClassSizes[k]}
  <1>1. Len(ClassSizes) \in Nat \ {0}
    BY MemPoolConstants
  <1>2. CASE fit = {}
    BY <1>1, <1>2 DEF mempool_get_class, Classes
  <1>3. CASE fit # {}
    <2>1. fit \in SUBSET Nat
      BY DEF Classes
    <2>2. Min(fit) \in fit
      BY <1>3, <2>1, MinNat
    <2> QED
      BY <1>3, <2>2 DEF mempool_get_class
  <1> QED
    BY <1>2, <1>3

\* A new chunk has room for what it was made for.
LEMMA ActualSizeFits == ASSUME NEW n \in Nat PROVE ActualSize(n) \in Nat /\ n <= ActualSize(n)
  <1>1. ClassSizes[mempool_get_class(n)] \in Nat
    BY ClassIn, MemPoolConstants DEF Classes
  <1> QED
    BY <1>1, AlignUp DEF ActualSize

\* A new pool has at most one chunk, and no block.
LEMMA EnableStep == ASSUME PoolInv, NEW n \in InitialSizes, EnablePool(n) PROVE PoolInv'
  <1>1. Initial(n) \in Nat
    BY MemPoolConstants DEF Initial
  <1> DEFINE k == mempool_get_class(Initial(n))
             size == ActualSize(Initial(n))
  <1>2. k \in Classes /\ size \in Nat
    BY <1>1, ClassIn, ActualSizeFits
  <1> HIDE DEF k, size
  <1>3. blocks' = {}
    BY DEF EnablePool
  <1>4. CASE chunks' = NoChunks
    BY <1>3, <1>4 DEF NoChunks, PoolInv, ChunksApart, BlocksDisjoint
  <1>5. ASSUME NEW b \in Bases, chunks' = [NoChunks EXCEPT ![k] = <<Chunk(b, size, 0)>>]
        PROVE  PoolInv'
    <2>1. Chunk(b, size, 0) \in ChunkType /\ Chunk(b, size, 0).offset = 0 /\ Chunk(b, size, 0).size = size
      BY <1>2 DEF Chunk, ChunkType
    <2>2. /\ <<Chunk(b, size, 0)>> \in Seq(ChunkType) /\ DOMAIN <<Chunk(b, size, 0)>> = {1}
          /\ <<Chunk(b, size, 0)>>[1] = Chunk(b, size, 0)
      BY <2>1
    <2>3. /\ chunks' \in [Classes -> Seq(ChunkType)]
          /\ \A l \in Classes : chunks'[l] = IF l = k THEN <<Chunk(b, size, 0)>> ELSE <<>>
      <3> DEFINE one == <<Chunk(b, size, 0)>>
      <3>1. one \in Seq(ChunkType) /\ <<>> \in Seq(ChunkType)
        BY <2>2
      <3>2. chunks' = [[l \in Classes |-> <<>>] EXCEPT ![k] = one]
        BY <1>5 DEF NoChunks
      <3> HIDE DEF one
      <3>3. chunks' = [l \in Classes |-> IF l = k THEN one ELSE <<>>]
        BY <1>2, <3>2
      <3> QED
        BY <3>1, <3>3 DEF one
    <2>4. \A l \in Classes : \A i \in DOMAIN chunks'[l] :
            l = k /\ i = 1 /\ chunks'[l][i] = Chunk(b, size, 0)
      BY <2>2, <2>3
    <2> QED
      BY <1>2, <1>3, <2>1, <2>3, <2>4 DEF PoolInv, ChunksApart, BlocksDisjoint
  <1> QED
    BY <1>4, <1>5 DEF EnablePool, k, size

\* Setting an offset changes one chunk of one class.
LEMMA OffsetSet ==
  ASSUME NEW f, NEW k, NEW i, NEW v
  PROVE  [f EXCEPT ![k][i].offset = v] = [f EXCEPT ![k] = [f[k] EXCEPT ![i] = [f[k][i] EXCEPT !.offset = v]]]
  OBVIOUS

LEMMA OffsetKeepsRest ==
  ASSUME NEW c \in ChunkType, NEW v \in Nat
  PROVE  LET d == [c EXCEPT !.offset = v]
         IN  d \in ChunkType /\ d.base = c.base /\ d.offset = v /\ d.size = c.size
  BY DEF ChunkType

\* A block cut off a chunk begins where all others of the chunk end.
LEMMA AllocHereStep == ASSUME PoolInv, NEW asked \in Requests, AllocHere(asked) PROVE PoolInv'
  <1> DEFINE n == Align(asked)
             k == mempool_get_class(n)
             i == Min(WithRoom(k, n))
             c == chunks[k][i]
  <1>1. n \in Nat /\ asked \in Nat /\ asked <= n
    BY AlignUp, MemPoolConstants
  <1>2. k \in Classes
    BY <1>1, ClassIn
  <1>3. i \in DOMAIN chunks[k] /\ c.offset + n <= c.size
    <2>1. chunks[k] \in Seq(ChunkType)
      BY <1>2 DEF PoolInv
    <2>2. WithRoom(k, n) \in SUBSET Nat /\ WithRoom(k, n) # {}
      BY <2>1 DEF AllocHere, WithRoom
    <2>3. i \in WithRoom(k, n)
      BY <2>2, MinNat
    <2> QED
      BY <2>3 DEF WithRoom, Fits
  <1>0. PICK x : x = [base |-> c.base, from |-> c.offset, upto |-> c.offset + n, asked |-> asked,
                      no |-> Cardinality(blocks)]
    OBVIOUS
  <1>4. /\ chunks' = [chunks EXCEPT ![k][i].offset = c.offset + n]
        /\ blocks' = blocks \cup {x}
    BY <1>0 DEF AllocHere, Advanced, Placed
  <1> HIDE DEF n, k, i
  <1>5. c \in ChunkType /\ chunks[k] \in Seq(ChunkType)
    BY <1>2, <1>3 DEF PoolInv
  <1>6. c.offset \in Nat /\ c.size \in Nat
    BY <1>5 DEF ChunkType
  <1> DEFINE d == [c EXCEPT !.offset = c.offset + n]
  <1>7. d \in ChunkType /\ d.base = c.base /\ d.offset = c.offset + n /\ d.size = c.size
    <2>1. c.offset + n \in Nat
      BY <1>1, <1>6
    <2> QED
      BY <1>5, <2>1, OffsetKeepsRest
  <1>8. chunks' = [chunks EXCEPT ![k] = [chunks[k] EXCEPT ![i] = d]]
    BY <1>4, OffsetSet
  <1>9. x.base = c.base /\ x.from = c.offset /\ x.upto = c.offset + n /\ x.asked = asked
    BY <1>0
  <1> HIDE DEF d
  <1>10. /\ chunks' \in [Classes -> Seq(ChunkType)]
         /\ \A l \in Classes : DOMAIN chunks'[l] = DOMAIN chunks[l]
         /\ chunks'[k][i] = d
         /\ \A l \in Classes : \A j \in DOMAIN chunks[l] :
              l # k \/ j # i => chunks'[l][j] = chunks[l][j]
    BY <1>2, <1>3, <1>5, <1>7, <1>8 DEF PoolInv
  <1>11. \A l \in Classes : \A j \in DOMAIN chunks[l] :
           /\ chunks'[l][j].base = chunks[l][j].base
           /\ chunks[l][j].offset <= chunks'[l][j].offset
           /\ chunks'[l][j].offset <= chunks'[l][j].size
    <2> TAKE l \in Classes
    <2> TAKE j \in DOMAIN chunks[l]
    <2>1. CASE l = k /\ j = i
      BY <1>1, <1>3, <1>6, <1>7, <1>10, <2>1
    <2>2. CASE l # k \/ j # i
      <3>1. chunks[l][j] \in ChunkType
        BY DEF PoolInv
      <3>2. chunks[l][j].offset \in Nat /\ chunks[l][j].offset <= chunks[l][j].size
        BY <3>1 DEF PoolInv, ChunkType
      <3>3. chunks'[l][j] = chunks[l][j]
        BY <1>10, <2>2
      <3> QED
        BY <3>2, <3>3
    <2> QED
      BY <2>1, <2>2
  <1>12. ChunksApart'
    BY <1>10, <1>11 DEF PoolInv, ChunksApart
  <1>13. ASSUME NEW y \in blocks PROVE BlockRight(y)'
    <2>0. PICK l \in Classes : \E j \in DOMAIN chunks[l] :
            chunks[l][j].base = y.base /\ y.upto <= chunks[l][j].offset
      BY DEF PoolInv, BlockRight
    <2>1. PICK j \in DOMAIN chunks[l] :
            chunks[l][j].base = y.base /\ y.upto <= chunks[l][j].offset
      BY <2>0
    <2>2. chunks'[l] \in Seq(ChunkType) /\ j \in DOMAIN chunks'[l] /\ chunks[l] \in Seq(ChunkType)
      BY <1>10 DEF PoolInv
    <2>3. chunks[l][j].offset \in Nat /\ chunks'[l][j].offset \in Nat /\ y.upto \in Nat
      <3>1. chunks[l][j] \in ChunkType /\ chunks'[l][j] \in ChunkType
        BY <2>2
      <3>2. y.upto \in Nat
        BY DEF PoolInv, BlockRight
      <3> QED
        BY <3>1, <3>2 DEF ChunkType
    <2>4. y.upto <= chunks'[l][j].offset /\ chunks'[l][j].base = y.base
      BY <1>11, <2>1, <2>3
    <2> QED
      BY <2>2, <2>4 DEF PoolInv, BlockRight
  <1>14. BlockRight(x)'
    <2>1. i \in DOMAIN chunks'[k] /\ chunks'[k][i].base = x.base /\ x.upto <= chunks'[k][i].offset
      BY <1>1, <1>2, <1>3, <1>6, <1>7, <1>9, <1>10
    <2> QED
      BY <1>1, <1>2, <1>6, <1>9, <2>1 DEF BlockRight
  <1>15. ASSUME NEW y \in blocks, y.base = x.base PROVE y.upto <= x.from
    BY <1>2, <1>3, <1>9, <1>15 DEF PoolInv, BlockRight, ChunksApart
  <1>16. BlocksDisjoint'
    BY <1>4, <1>15 DEF PoolInv, BlocksDisjoint
  <1> QED
    BY <1>4, <1>10, <1>11, <1>12, <1>13, <1>14, <1>16 DEF PoolInv

\* A new chunk is at a base that no block has.
LEMMA AllocGrowStep == ASSUME PoolInv, NEW asked \in Requests, AllocGrow(asked) PROVE PoolInv'
  <1> DEFINE n == Align(asked)
             k == mempool_get_class(n)
             size == ActualSize(n)
  <1>1. n \in Nat /\ asked \in Nat /\ asked <= n
    BY AlignUp, MemPoolConstants
  <1>2. k \in Classes /\ size \in Nat /\ n <= size
    BY <1>1, ClassIn, ActualSizeFits
  <1>3. PICK b \in Bases \ InUse :
          /\ chunks' = [chunks EXCEPT ![k] = <<Chunk(b, size, n)>> \o chunks[k]]
          /\ blocks' = blocks \cup
               {[base |-> b, from |-> 0, upto |-> n, asked |-> asked, no |-> Cardinality(blocks)]}
    BY DEF AllocGrow
  <1>0. PICK x : x = [base |-> b, from |-> 0, upto |-> n, asked |-> asked, no |-> Cardinality(blocks)]
    OBVIOUS
  <1> DEFINE d == Chunk(b, size, n)
             old == chunks[k]
             new == <<d>> \o old
  <1> HIDE DEF n, k, size
  <1>4. d \in ChunkType /\ d.base = b /\ d.offset = n /\ d.size = size
    BY <1>1, <1>2 DEF Chunk, ChunkType
  <1>5. x.base = b /\ x.from = 0 /\ x.upto = n /\ x.asked = asked
    BY <1>0
  <1>6. old \in Seq(ChunkType) /\ Len(old) \in Nat
    BY <1>2 DEF PoolInv
  <1> HIDE DEF d
  <1>7. /\ new \in Seq(ChunkType) /\ Len(new) = Len(old) + 1 /\ new[1] = d
        /\ DOMAIN new = 1..Len(old) + 1 /\ DOMAIN old = 1..Len(old)
        /\ \A j \in 1..Len(old) : new[j + 1] = old[j]
    BY <1>4, <1>6
  <1>8. \A j \in DOMAIN new : j # 1 => j - 1 \in DOMAIN old /\ new[j] = old[j - 1]
    BY <1>6, <1>7
  <1>9. /\ chunks' \in [Classes -> Seq(ChunkType)]
        /\ chunks'[k] = new
        /\ \A l \in Classes : l # k => chunks'[l] = chunks[l]
    BY <1>2, <1>3, <1>7 DEF PoolInv, d
  <1> HIDE DEF new
  <1>10. \A l \in Classes : \A j \in DOMAIN chunks[l] : chunks[l][j].base # b
    BY <1>3 DEF InUse, AllChunks
  <1>11. ChunksApart'
    <2> SUFFICES ASSUME NEW l \in Classes, NEW p \in Classes,
                        NEW i \in DOMAIN chunks'[l], NEW j \in DOMAIN chunks'[p],
                        chunks'[l][i].base = chunks'[p][j].base
                 PROVE  l = p /\ i = j
      BY DEF ChunksApart
    <2> DEFINE First(q, h) == q = k /\ h = 1
               At(q, h) == IF q = k THEN h - 1 ELSE h
    <2>1. ASSUME NEW q \in Classes, NEW h \in DOMAIN chunks'[q]
          PROVE  /\ First(q, h) => chunks'[q][h].base = b
                 /\ ~First(q, h) => /\ At(q, h) \in DOMAIN chunks[q]
                                    /\ chunks'[q][h] = chunks[q][At(q, h)]
      BY <1>4, <1>7, <1>8, <1>9
    <2>2. i \in Int /\ j \in Int
      BY <1>9
    <2>3. CASE First(l, i) \/ First(p, j)
      BY <1>10, <2>1, <2>3
    <2>4. CASE ~First(l, i) /\ ~First(p, j)
      <3>1. l = p /\ At(l, i) = At(p, j)
        BY <2>1, <2>4 DEF PoolInv, ChunksApart
      <3> QED
        BY <2>2, <3>1
    <2> QED
      BY <2>3, <2>4
  <1>12. \A l \in Classes : \A j \in DOMAIN chunks'[l] : chunks'[l][j].offset <= chunks'[l][j].size
    <2> TAKE l \in Classes
    <2> TAKE j \in DOMAIN chunks'[l]
    <2>1. CASE l = k /\ j = 1
      BY <1>2, <1>4, <1>7, <1>9, <2>1
    <2>2. CASE l = k /\ j # 1
      <3>1. j - 1 \in DOMAIN chunks[k] /\ chunks'[l][j] = chunks[k][j - 1]
        BY <1>8, <1>9, <2>2
      <3> QED
        BY <1>2, <3>1 DEF PoolInv
    <2>3. CASE l # k
      BY <1>9, <2>3 DEF PoolInv
    <2> QED
      BY <2>1, <2>2, <2>3
  <1>13. ASSUME NEW y \in blocks PROVE BlockRight(y)' /\ y.base # b
    <2>0. PICK l \in Classes : \E j \in DOMAIN chunks[l] :
            chunks[l][j].base = y.base /\ y.upto <= chunks[l][j].offset
      BY DEF PoolInv, BlockRight
    <2>1. PICK j \in DOMAIN chunks[l] :
            chunks[l][j].base = y.base /\ y.upto <= chunks[l][j].offset
      BY <2>0
    <2>2. \E h \in DOMAIN chunks'[l] : chunks'[l][h] = chunks[l][j]
      <3>1. CASE l = k
        <4>1. j \in 1..Len(old) /\ j + 1 \in DOMAIN new /\ new[j + 1] = old[j]
          BY <1>6, <1>7, <3>1
        <4> QED
          BY <1>9, <3>1, <4>1
      <3>2. CASE l # k
        BY <1>9, <3>2
      <3> QED
        BY <3>1, <3>2
    <2> QED
      <3>1. y.base # b
        BY <1>10, <2>1
      <3>2. \E h \in DOMAIN chunks'[l] : chunks'[l][h].base = y.base /\ y.upto <= chunks'[l][h].offset
        BY <2>1, <2>2
      <3>3. y.from \in Nat /\ y.upto \in Nat /\ y.asked \in Nat /\ y.from + y.asked <= y.upto
        BY DEF PoolInv, BlockRight
      <3> QED
        BY <3>1, <3>2, <3>3 DEF BlockRight
  <1>14. BlockRight(x)'
    <2>1. 1 \in DOMAIN chunks'[k] /\ chunks'[k][1].base = x.base /\ x.upto <= chunks'[k][1].offset
      BY <1>1, <1>4, <1>5, <1>6, <1>7, <1>9
    <2> QED
      BY <1>1, <1>2, <1>5, <2>1 DEF BlockRight
  <1>15. blocks' = blocks \cup {x}
    BY <1>0, <1>3
  <1>16. BlocksDisjoint'
    BY <1>5, <1>13, <1>15 DEF PoolInv, BlocksDisjoint
  <1> QED
    BY <1>9, <1>11, <1>12, <1>13, <1>14, <1>15, <1>16 DEF PoolInv

\* The invariant holds in every reachable state.
LEMMA PoolInductive == PoolSpec => []PoolInv
  <1>1. PoolInit => PoolInv
    BY DEF PoolInit, NoChunks, PoolInv, ChunksApart, BlocksDisjoint
  <1>2. PoolInv /\ [PoolNext]_poolVars => PoolInv'
    <2> SUFFICES ASSUME PoolInv, [PoolNext]_poolVars PROVE PoolInv'
      OBVIOUS
    <2>1. CASE DestroyPool
      BY <2>1 DEF DestroyPool, NoChunks, PoolInv, ChunksApart, BlocksDisjoint
    <2>2. CASE UNCHANGED poolVars
      BY <2>2 DEF poolVars, PoolInv, ChunksApart, BlockRight, BlocksDisjoint
    <2> QED
      BY <2>1, <2>2, EnableStep, AllocHereStep, AllocGrowStep DEF PoolNext
  <1> QED
    BY <1>1, <1>2, PTL DEF PoolSpec

\* In whatever order sizes are asked for and chunks are mapped,
\* arm2x86_mempool_alloc never hands out memory that overlaps a block it has
\* handed out, and every block is as large as was asked for and lies in a mapped
\* chunk, below the chunk's offset.
THEOREM PoolKept == PoolSpec => []BlocksSafe
  <1>1. PoolInv => BlocksInChunk
    <2> SUFFICES ASSUME PoolInv, NEW x \in blocks
                 PROVE  /\ x.from + x.asked <= x.upto
                        /\ \E c \in AllChunks : c.base = x.base /\ x.upto <= c.offset /\ c.offset <= c.size
      BY DEF BlocksInChunk
    <2>0. PICK k \in Classes : \E i \in DOMAIN chunks[k] :
            chunks[k][i].base = x.base /\ x.upto <= chunks[k][i].offset
      BY DEF PoolInv, BlockRight
    <2>1. PICK i \in DOMAIN chunks[k] :
            chunks[k][i].base = x.base /\ x.upto <= chunks[k][i].offset
      BY <2>0
    <2>2. chunks[k][i] \in AllChunks
      BY DEF AllChunks
    <2> QED
      BY <2>1, <2>2 DEF PoolInv, BlockRight
  <1>2. PoolInv => BlocksDisjoint
    BY DEF PoolInv
  <1> QED
    BY <1>1, <1>2, PoolInductive, PTL DEF BlocksSafe

\* The blocks are numbered, so that two equal requests are two blocks of the sum.
BlockSizes(B) == [x \in B |-> x.upto - x.from]
Numbered ==
  /\ IsFiniteSet(blocks)
  /\ \A x \in blocks : x.no \in Nat /\ x.no < Cardinality(blocks)

\* A new block adds its size to the sum, and gets the next number.
LEMMA NewBlock ==
  ASSUME PoolInv, Numbered, UsedIsSum, NEW n \in Nat, NEW x,
         blocks' = blocks \cup {x}, used_size' = used_size + n,
         x.no = Cardinality(blocks), x.upto - x.from = n
  PROVE  Numbered' /\ UsedIsSum'
  <1>1. x \notin blocks /\ IsFiniteSet(blocks) /\ Cardinality(blocks) \in Nat
    BY FS_CardinalityType DEF Numbered
  <1>2. IsFiniteSet(blocks') /\ Cardinality(blocks') = Cardinality(blocks) + 1
    BY <1>1, FS_AddElement
  <1>3. Numbered'
    BY <1>1, <1>2 DEF Numbered
  <1>4. PICK f : f = BlockSizes(blocks')
    OBVIOUS
  <1>5. PICK g : g = BlockSizes(blocks)
    OBVIOUS
  <1>6. \A y \in blocks : g[y] = f[y] /\ g[y] \in Int
    BY <1>4, <1>5 DEF BlockSizes, PoolInv, BlockRight
  <1>7. f[x] = n
    BY <1>4 DEF BlockSizes
  <1>8. \A y \in blocks \cup {x} : f[y] \in Int
    BY <1>6, <1>7
  <1>9. SumFunctionOnSet(f, blocks \cup {x}) = f[x] + SumFunctionOnSet(f, blocks)
    BY <1>1, <1>8, SumAdd
  <1>10. /\ SumFunctionOnSet(g, blocks) = SumFunctionOnSet(f, blocks)
         /\ SumFunctionOnSet(g, blocks) \in Int
    BY <1>1, <1>6, SumSame
  <1>11. used_size = SumFunctionOnSet(g, blocks)
    BY <1>5 DEF UsedIsSum, BlockSizes, SumFunction
  <1>12. used_size' = SumFunctionOnSet(f, blocks')
    BY <1>7, <1>9, <1>10, <1>11
  <1>13. UsedIsSum'
    BY <1>4, <1>12 DEF UsedIsSum, BlockSizes, SumFunction
  <1> QED
    BY <1>3, <1>13

\* used_size, which arm2x86_mempool_get_stats reports, is the sum of the blocks
\* handed out, rounded up as they were, over any sequence of requests.
THEOREM UsedKept == PoolSpec => []UsedIsSum
  <1> DEFINE Inv == Numbered /\ UsedIsSum
  <1>1. ASSUME blocks = {}, used_size = 0 PROVE Inv
    <2>1. SumFunction([x \in {} |-> x.upto - x.from]) = 0
      BY SumEmpty DEF SumFunction
    <2> QED
      BY <1>1, <2>1, FS_EmptySet DEF Numbered, UsedIsSum
  <1>2. ASSUME blocks' = {}, used_size' = 0 PROVE Inv'
    <2>1. SumFunction([x \in {} |-> x.upto - x.from]) = 0
      BY SumEmpty DEF SumFunction
    <2> QED
      BY <1>2, <2>1, FS_EmptySet DEF Numbered, UsedIsSum
  <1>3. PoolInit => Inv
    BY <1>1 DEF PoolInit
  <1>4. PoolInv /\ Inv /\ [PoolNext]_poolVars => Inv'
    <2> SUFFICES ASSUME PoolInv, Inv, [PoolNext]_poolVars PROVE Inv'
      OBVIOUS
    <2>1. ASSUME NEW asked \in Requests PROVE Align(asked) \in Nat
      BY AlignUp, MemPoolConstants
    <2>2. ASSUME NEW asked \in Requests, AllocHere(asked) PROVE Inv'
      <3> DEFINE n == Align(asked)
                 k == mempool_get_class(n)
                 i == Min(WithRoom(k, n))
                 c == chunks[k][i]
      <3>1. n \in Nat /\ k \in Classes
        BY <2>1, ClassIn
      <3>2. c.offset \in Nat
        <4>1. chunks[k] \in Seq(ChunkType)
          BY <3>1 DEF PoolInv
        <4>2. WithRoom(k, n) \in SUBSET Nat /\ WithRoom(k, n) # {}
          BY <2>2, <4>1 DEF AllocHere, WithRoom
        <4>3. i \in WithRoom(k, n)
          BY <4>2, MinNat
        <4>4. c \in ChunkType
          <5>1. i \in DOMAIN chunks[k]
            BY <4>3 DEF WithRoom
          <5> HIDE DEF i, k
          <5> QED
            BY <4>1, <5>1
        <4> QED
          BY <4>4 DEF ChunkType
      <3>3. PICK x : x = [base |-> c.base, from |-> c.offset, upto |-> c.offset + n,
                          asked |-> asked, no |-> Cardinality(blocks)]
        OBVIOUS
      <3>4. blocks' = blocks \cup {x} /\ used_size' = used_size + n
        BY <2>2, <3>3 DEF AllocHere, Placed, Charged
      <3> HIDE DEF n, k, i
      <3>5. x.no = Cardinality(blocks) /\ x.upto - x.from = n
        BY <3>1, <3>2, <3>3
      <3> QED
        BY <3>1, <3>4, <3>5, NewBlock
    <2>3. ASSUME NEW asked \in Requests, AllocGrow(asked) PROVE Inv'
      <3> DEFINE n == Align(asked)
      <3>1. PICK b \in Bases \ InUse : blocks' = blocks \cup
              {[base |-> b, from |-> 0, upto |-> n, asked |-> asked, no |-> Cardinality(blocks)]}
        BY <2>3 DEF AllocGrow
      <3>2. PICK x : x = [base |-> b, from |-> 0, upto |-> n, asked |-> asked,
                          no |-> Cardinality(blocks)]
        OBVIOUS
      <3>3. blocks' = blocks \cup {x} /\ used_size' = used_size + n
        BY <2>3, <3>1, <3>2 DEF AllocGrow, Charged
      <3> HIDE DEF n
      <3>4. x.no = Cardinality(blocks) /\ x.upto - x.from = n
        BY <2>1, <3>2 DEF n
      <3> QED
        BY <2>1, <3>3, <3>4, NewBlock DEF n
    <2>4. ASSUME NEW n \in InitialSizes, EnablePool(n) PROVE Inv'
      BY <1>2, <2>4 DEF EnablePool
    <2>5. CASE DestroyPool
      BY <1>2, <2>5 DEF DestroyPool
    <2>6. CASE UNCHANGED poolVars
      BY <2>6 DEF poolVars, Numbered, UsedIsSum
    <2> QED
      BY <2>2, <2>3, <2>4, <2>5, <2>6 DEF PoolNext
  <1> QED
    BY <1>3, <1>4, PoolInductive, PTL DEF PoolSpec

-----------------------------------------------------------------------------
(***************************************************************************)
(* HotBlock: the inductive invariant is HotRight with the types of the     *)
(* table.  Blocks and live code are stated of any table h and set of       *)
(* buffers live, because a hit is recorded in a table that the replacement *)
(* has already changed.                                                    *)
(***************************************************************************)
HotRecord == [arm_pc : HotPc, hit_count : Nat, last_access : Nat,
              retranslated : BOOLEAN, aggressive : BOOLEAN, x86_optimized : Buffer \cup {NoCode}]
CodeOwned(h, live) ==
  /\ live = {h[i].x86_optimized : i \in DOMAIN h} \ {NoCode}
  /\ \A i, j \in DOMAIN h : i # j /\ h[i].x86_optimized # NoCode
                              => h[i].x86_optimized # h[j].x86_optimized
PcOnce(h) == \A i, j \in DOMAIN h : i # j => h[i].arm_pc # h[j].arm_pc
TableRight(h, live) == h \in Seq(HotRecord) /\ CodeOwned(h, live) /\ PcOnce(h)
HotInv == clock \in Nat /\ TableRight(hot, buffers)

\* A table that is not empty has a least recently used block.
LEMMA LruIn == ASSUME hot \in Seq(HotRecord), hot # <<>> PROVE Lru \in HotIx
  <1> DEFINE T == {hot[i].last_access : i \in HotIx}
             O == {i \in HotIx : \A j \in HotIx : hot[i].last_access <= hot[j].last_access}
  <1>1. \A i \in HotIx : hot[i].last_access \in Nat /\ i \in Nat
    <2>1. \A i \in HotIx : hot[i] \in HotRecord /\ i \in Nat
      BY DEF HotIx
    <2> QED
      BY <2>1 DEF HotRecord
  <1>2. 1 \in HotIx
    BY DEF HotIx
  <1>3. Min(T) \in T /\ \A y \in T : Min(T) <= y
    <2>1. T \in SUBSET Nat /\ T # {}
      BY <1>1, <1>2
    <2> QED
      BY <2>1, MinNat
  <1>4. PICK i \in HotIx : hot[i].last_access = Min(T)
    BY <1>3
  <1>5. i \in O
    BY <1>3, <1>4
  <1>6. Min(O) \in O /\ \A y \in O : Min(O) <= y
    BY <1>1, <1>5, MinNat
  <1>7. PICK k \in O : \A y \in O : k <= y
    BY <1>6
  <1>8. OldestFirst(k)
    <2> SUFFICES ASSUME NEW j \in HotIx
                 PROVE \/ hot[k].last_access < hot[j].last_access
                       \/ hot[k].last_access = hot[j].last_access /\ k <= j
      BY DEF OldestFirst
    <2>1. hot[k].last_access <= hot[j].last_access
      BY <1>7
    <2>2. CASE hot[k].last_access = hot[j].last_access
      <3>1. j \in O
        BY <1>7, <2>2
      <3> QED
        BY <1>7, <2>2, <3>1
    <2> QED
      BY <1>1, <1>7, <2>1, <2>2
  <1> QED
    BY <1>7, <1>8 DEF Lru

\* Finding, adding or replacing the block of pc leaves a right table, in which
\* pc has a slot; every other slot is as it was, and so is that of a block that
\* was there.
LEMMA SlottedRight ==
  ASSUME HotInv, NEW pc \in HotPc
  PROVE  /\ TableRight(Slotted(pc), AfterEvict(pc))
         /\ HotSlot(pc) \in DOMAIN Slotted(pc) /\ Slotted(pc)[HotSlot(pc)].arm_pc = pc
         /\ \A i \in DOMAIN Slotted(pc) :
              i \in HotIx /\ Slotted(pc)[i].arm_pc = hot[i].arm_pc => Slotted(pc)[i] = hot[i]
  <1> DEFINE f == FreshBlock(pc)
  <1>1. hot \in Seq(HotRecord) /\ CodeOwned(hot, buffers) /\ PcOnce(hot) /\ \A i \in HotIx : hot[i] \in HotRecord
    BY DEF HotInv, TableRight, HotIx
  <1>2. f \in HotRecord /\ f.arm_pc = pc /\ f.x86_optimized = NoCode
    BY HotAssumption DEF FreshBlock, HotRecord
  <1> HIDE DEF f
  <1>3. CASE HotAt(pc) # {}
    <2>1. Slotted(pc) = hot /\ AfterEvict(pc) = buffers
      BY <1>3 DEF Slotted, AfterEvict
    <2>2. \E i \in DOMAIN hot : hot[i].arm_pc = pc
      BY <1>3 DEF HotAt, HotIx
    <2>3. HotSlot(pc) \in DOMAIN hot /\ hot[HotSlot(pc)].arm_pc = pc
      BY <2>1, <2>2 DEF HotSlot
    <2> QED
      BY <2>1, <2>3 DEF HotInv
  <1>4. CASE HotAt(pc) = {} /\ TableFull
    <2>1. hot # <<>>
      BY <1>1, <1>4, HotAssumption DEF TableFull
    <2>2. PICK k \in HotIx : k = Lru
      BY <1>1, <2>1, LruIn
    <2>3. Slotted(pc) = [hot EXCEPT ![k] = f] /\ AfterEvict(pc) = buffers \ {hot[k].x86_optimized}
      BY <1>4, <2>2 DEF Slotted, AfterEvict, f
    <2>4. /\ Slotted(pc) \in Seq(HotRecord) /\ DOMAIN Slotted(pc) = DOMAIN hot
          /\ Slotted(pc)[k] = f /\ \A i \in DOMAIN hot : i # k => Slotted(pc)[i] = hot[i]
      BY <1>1, <1>2, <2>3 DEF HotIx
    <2>5. \A i \in DOMAIN hot : hot[i].arm_pc # pc
      BY <1>4 DEF HotAt, HotIx
    <2>6. PcOnce(Slotted(pc))
      BY <1>1, <1>2, <2>4, <2>5 DEF PcOnce
    <2>7. CodeOwned(Slotted(pc), AfterEvict(pc))
      BY <1>1, <1>2, <2>2, <2>3, <2>4 DEF CodeOwned, HotIx
    <2>8. HotSlot(pc) \in DOMAIN Slotted(pc) /\ Slotted(pc)[HotSlot(pc)].arm_pc = pc
      BY <1>2, <2>2, <2>4 DEF HotSlot, HotIx
    <2> QED
      BY <1>2, <2>4, <2>5, <2>6, <2>7, <2>8 DEF TableRight, HotIx
  <1>5. CASE HotAt(pc) = {} /\ ~TableFull
    <2>1. Slotted(pc) = Append(hot, f) /\ AfterEvict(pc) = buffers
      BY <1>5 DEF Slotted, AfterEvict, f
    <2>2. PICK k \in Nat : k = Len(hot) + 1
      BY <1>1
    <2>3. /\ Slotted(pc) \in Seq(HotRecord) /\ DOMAIN Slotted(pc) = DOMAIN hot \cup {k} /\ k \notin DOMAIN hot
          /\ Slotted(pc)[k] = f /\ \A i \in DOMAIN hot : Slotted(pc)[i] = hot[i]
      BY <1>1, <1>2, <2>1, <2>2
    <2>5. \A i \in DOMAIN hot : hot[i].arm_pc # pc
      BY <1>5 DEF HotAt, HotIx
    <2>6. PcOnce(Slotted(pc))
      BY <1>1, <1>2, <2>3, <2>5 DEF PcOnce
    <2>7. CodeOwned(Slotted(pc), AfterEvict(pc))
      BY <1>1, <1>2, <2>1, <2>2, <2>3 DEF CodeOwned
    <2>8. HotSlot(pc) \in DOMAIN Slotted(pc) /\ Slotted(pc)[HotSlot(pc)].arm_pc = pc
      BY <1>2, <2>2, <2>3 DEF HotSlot
    <2> QED
      BY <1>2, <2>3, <2>6, <2>7, <2>8 DEF TableRight, HotIx
  <1> QED
    BY <1>3, <1>4, <1>5

\* Recording the hit changes a count and a time only.
LEMMA HitRight ==
  ASSUME HotInv, NEW pc \in HotPc, NEW now \in Nat
  PROVE  /\ TableRight(Hit(pc, now), AfterEvict(pc))
         /\ DOMAIN Hit(pc, now) = DOMAIN Slotted(pc) /\ HotSlot(pc) \in DOMAIN Hit(pc, now)
         /\ \A i \in DOMAIN Hit(pc, now) :
              /\ Hit(pc, now)[i].arm_pc = Slotted(pc)[i].arm_pc
              /\ Hit(pc, now)[i].retranslated = Slotted(pc)[i].retranslated
              /\ Hit(pc, now)[i].x86_optimized = Slotted(pc)[i].x86_optimized
  <1> PICK s : s = Slotted(pc)
    OBVIOUS
  <1> PICK k : k = HotSlot(pc)
    OBVIOUS
  <1> PICK h : h = Hit(pc, now)
    OBVIOUS
  <1>1. TableRight(s, AfterEvict(pc)) /\ k \in DOMAIN s
    BY SlottedRight
  <1>2. s \in Seq(HotRecord) /\ s[k] \in HotRecord
    BY <1>1 DEF TableRight
  <1> DEFINE r == [s[k] EXCEPT !.hit_count = HotCounted(@), !.last_access = now]
  <1>3. h = [s EXCEPT ![k] = r]
    BY <1>1, <1>2 DEF Hit, HotRecord
  <1>4. /\ r \in HotRecord /\ r.arm_pc = s[k].arm_pc /\ r.retranslated = s[k].retranslated
        /\ r.x86_optimized = s[k].x86_optimized
    <2>1. HotCounted(s[k].hit_count) \in Nat
      BY <1>2 DEF HotRecord, HotCounted
    <2> QED
      BY <1>2, <2>1 DEF HotRecord
  <1> HIDE DEF r
  <1>5. h \in Seq(HotRecord) /\ DOMAIN h = DOMAIN s /\ h[k] = r /\ \A i \in DOMAIN s : i # k => h[i] = s[i]
    BY <1>1, <1>2, <1>3, <1>4
  <1>6. \A i \in DOMAIN h : /\ h[i].arm_pc = s[i].arm_pc /\ h[i].retranslated = s[i].retranslated
                            /\ h[i].x86_optimized = s[i].x86_optimized
    BY <1>4, <1>5
  <1>7. TableRight(h, AfterEvict(pc))
    BY <1>1, <1>5, <1>6 DEF TableRight, CodeOwned, PcOnce
  <1> QED
    BY <1>1, <1>5, <1>6, <1>7

\* The code a changed block gets is its own, and the code it had is freed.
LEMMA OptimisedRight ==
  ASSUME NEW h, NEW live, TableRight(h, live), NEW k \in DOMAIN h, NEW changed \in BOOLEAN,
         NEW copy \in Copies(live)
  PROVE  TableRight([h EXCEPT ![k] = Optimised(h[k], changed, copy)],
                    BuffersAfter(live, h[k], changed, copy))
  <1> DEFINE r == Optimised(h[k], changed, copy)
             g == [h EXCEPT ![k] = r]
             after == BuffersAfter(live, h[k], changed, copy)
  <1>1. h \in Seq(HotRecord) /\ h[k] \in HotRecord /\ CodeOwned(h, live) /\ PcOnce(h)
    BY DEF TableRight
  <1>2. copy \in Buffer \cup {NoCode} /\ copy \notin live
    BY <1>1, HotAssumption DEF Copies, CodeOwned, NoCode
  <1>3. /\ r \in HotRecord /\ r.arm_pc = h[k].arm_pc
        /\ r.x86_optimized = IF changed THEN copy ELSE h[k].x86_optimized
    BY <1>1, <1>2 DEF Optimised, HotRecord
  <1>4. after = IF changed THEN (live \ {h[k].x86_optimized}) \cup ({copy} \ {NoCode}) ELSE live
    BY DEF BuffersAfter
  <1> HIDE DEF r
  <1>5. g \in Seq(HotRecord) /\ DOMAIN g = DOMAIN h /\ g[k] = r /\ \A i \in DOMAIN h : i # k => g[i] = h[i]
    BY <1>1, <1>3
  <1> HIDE DEF g, after
  <1>6. PcOnce(g)
    BY <1>1, <1>3, <1>5 DEF PcOnce
  <1>7. CodeOwned(g, after)
    BY <1>1, <1>2, <1>3, <1>4, <1>5 DEF CodeOwned
  <1> QED
    BY <1>5, <1>6, <1>7 DEF TableRight, g, r, after

\* Every step keeps the invariant.
LEMMA HotStep == ASSUME HotInv, [HotNext]_hotVars PROVE HotInv'
  <1>1. ASSUME NEW pc \in HotPc, RecordHit(pc) PROVE HotInv'
    <2>1. PICK now \in clock .. clock + 1 : clock' = now /\ hot' = Hit(pc, now)
      BY <1>1 DEF RecordHit, Tick
    <2>2. now \in Nat /\ buffers' = AfterEvict(pc)
      BY <1>1, <2>1 DEF HotInv, RecordHit
    <2> QED
      BY <2>1, <2>2, HitRight, SlottedRight DEF HotInv, HotIx
  <1>2. ASSUME NEW pc \in HotPc, Retranslate(pc) PROVE HotInv'
    <2> PICK k : k = HotSlot(pc)
      OBVIOUS
    <2> PICK live : live = AfterEvict(pc)
      OBVIOUS
    <2>1. PICK now \in clock .. clock + 1, changed \in BOOLEAN :
            /\ clock' = now
            /\ \E copy \in Copies(live) :
                 /\ hot' = [Hit(pc, now) EXCEPT ![k] = Optimised(Hit(pc, now)[k], changed, copy)]
                 /\ buffers' = BuffersAfter(live, Hit(pc, now)[k], changed, copy)
      BY <1>2 DEF Retranslate, Tick
    <2> PICK h : h = Hit(pc, now)
      OBVIOUS
    <2>2. PICK copy \in Copies(live) :
            /\ hot' = [h EXCEPT ![k] = Optimised(h[k], changed, copy)]
            /\ buffers' = BuffersAfter(live, h[k], changed, copy)
      BY <2>1
    <2>3. now \in Nat
      BY <2>1 DEF HotInv
    <2>4. TableRight(h, live) /\ k \in DOMAIN h
      BY <2>3, HitRight
    <2> QED
      BY <2>1, <2>2, <2>3, <2>4, OptimisedRight DEF HotInv
  <1>3. CASE hotblock_destroy
    <2>1. hot' = <<>> /\ buffers' = {} /\ clock' = clock
      BY <1>3 DEF hotblock_destroy, HotInv, TableRight, CodeOwned, HotIx
    <2> QED
      BY <2>1 DEF HotInv, TableRight, CodeOwned, PcOnce
  <1>4. CASE UNCHANGED hotVars
    BY <1>4 DEF hotVars, HotInv, HotIx
  <1> QED
    BY <1>1, <1>2, <1>3, <1>4 DEF HotNext

\* However blocks are counted, replaced, optimised and destroyed, for tables of
\* every size: a block is counted in one slot, and its optimised code belongs to
\* it alone and lives exactly as long as it is in the table
\* (hotblock_record_hit, hotblock_retranslate).
THEOREM HotKept == HotSpec => []HotRight
  <1>1. HotInit => HotInv
    BY DEF HotInit, HotInv, TableRight, CodeOwned, PcOnce
  <1>2. HotInv /\ [HotNext]_hotVars => HotInv'
    BY HotStep
  <1>3. HotInv => HotRight
    BY DEF HotInv, TableRight, CodeOwned, PcOnce, HotRight, OptimisedOwned, CountedOnce, HotIx
  <1> QED
    BY <1>1, <1>2, <1>3, PTL DEF HotSpec

-----------------------------------------------------------------------------
(***************************************************************************)
(* CodeCache: the inductive invariant.  Buffers in a thread's hand count   *)
(* as well: an insertion makes an entry of one, and mmap gives out only    *)
(* pages that are not mapped, so no two entries or hands share a buffer.   *)
(***************************************************************************)
CcSlot == [addr : CcAddr, code : CcBuffer, hits : Nat]
CcHeld == {t \in CcThread : ccHand[t] # NoHand}
CcTyped ==
  /\ ccSlots \in Seq(CcSlot)
  /\ DOMAIN ccHand = CcThread /\ DOMAIN ccGot = CcThread
  /\ \A t \in CcHeld : ccHand[t] \in [addr : CcAddr, code : CcBuffer]
  /\ \A t \in CcThread : ccGot[t] = NoGot \/ ccGot[t] \in [slot : Nat \ {0}, addr : CcAddr]
HandsMapped ==
  /\ \A t \in CcHeld : <<ccHand[t].code, 1>> \in ccMapped
  /\ \A t \in CcHeld, i \in DOMAIN ccSlots : ccSlots[i].code # ccHand[t].code
  /\ \A t, u \in CcHeld : ccHand[t].code = ccHand[u].code => t = u
SlotsMapped ==
  /\ \A i \in DOMAIN ccSlots : <<ccSlots[i].code, 1>> \in ccMapped
  /\ \A i, j \in DOMAIN ccSlots : ccSlots[i].code = ccSlots[j].code => i = j
CcInv == CcTyped /\ HandsMapped /\ SlotsMapped

\* The code of an entry is one page.
LEMMA CodePage == ASSUME NEW b PROVE Pages(b, OutPages) = {<<b, 1>>}
  BY DEF Pages, OutPages

\* arm2x86_convert: the new buffer is nobody's, since its pages were not mapped.
LEMMA ConvertStep ==
  ASSUME CcInv, NEW t \in CcThread, NEW a \in CcAddr, convert(t, a) PROVE CcInv'
  <1>1. PICK b \in FreeBuffers :
          /\ ccMapped' = ccMapped \cup Pages(b, EstPages)
          /\ ccHand' = [ccHand EXCEPT ![t] = [addr |-> a, code |-> b]]
    BY DEF convert
  <1>2. b \in CcBuffer /\ <<b, 1>> \notin ccMapped /\ <<b, 1>> \in ccMapped'
    BY <1>1 DEF FreeBuffers, Pages, EstPages
  <1>3. ccSlots' = ccSlots /\ ccGot' = ccGot /\ ccMapped \subseteq ccMapped'
    BY <1>1 DEF convert
  <1> DEFINE e == [addr |-> a, code |-> b]
  <1>4. e \in [addr : CcAddr, code : CcBuffer] /\ e.code = b
    BY <1>2
  <1>5. DOMAIN ccHand = CcThread
    BY DEF CcInv, CcTyped
  <1>6. /\ DOMAIN ccHand' = CcThread /\ ccHand'[t] = e
        /\ \A u \in CcThread : u # t => ccHand'[u] = ccHand[u]
    BY <1>1, <1>5
  <1>7. CcHeld' \subseteq CcHeld \cup {t} /\ CcHeld' \subseteq CcThread
    BY <1>6 DEF CcHeld
  <1> HIDE DEF e
  <1>8. \A u \in CcHeld' : u # t => u \in CcHeld /\ ccHand'[u] = ccHand[u]
    BY <1>6, <1>7
  <1>9. \A u \in CcHeld : ccHand[u].code # b
    BY <1>2 DEF CcInv, HandsMapped
  <1>10. \A i \in DOMAIN ccSlots : ccSlots[i].code # b
    BY <1>2 DEF CcInv, SlotsMapped
  <1>11. CcTyped'
    BY <1>3, <1>4, <1>6, <1>8 DEF CcInv, CcTyped
  <1>12. HandsMapped'
    BY <1>2, <1>3, <1>4, <1>6, <1>8, <1>9, <1>10 DEF CcInv, HandsMapped
  <1>13. SlotsMapped'
    BY <1>3 DEF CcInv, SlotsMapped
  <1> QED
    BY <1>11, <1>12, <1>13 DEF CcInv

\* arm2x86_cache_lookup changes a count only.
LEMMA CcLookupStep ==
  ASSUME CcInv, NEW t \in CcThread, NEW a \in CcAddr, cache_lookup(t, a)
  PROVE  CcInv'
  <1>1. PICK i \in Hits(a) :
          /\ ccSlots' = [ccSlots EXCEPT ![i].hits = @ + 1]
          /\ ccGot' = [ccGot EXCEPT ![t] = [slot |-> i, addr |-> a]]
    BY DEF cache_lookup
  <1>2. i \in DOMAIN ccSlots /\ ccSlots[i].addr = a
    BY DEF Hits, Matches
  <1>3. ccSlots \in Seq(CcSlot) /\ ccSlots[i] \in CcSlot
    BY <1>2 DEF CcInv, CcTyped
  <1> DEFINE r == [ccSlots[i] EXCEPT !.hits = @ + 1]
  <1>4. r \in CcSlot /\ r.addr = ccSlots[i].addr /\ r.code = ccSlots[i].code
    BY <1>3 DEF CcSlot
  <1>5. ccSlots' = [ccSlots EXCEPT ![i] = r]
    BY <1>1
  <1> HIDE DEF r
  <1>6. /\ ccSlots' \in Seq(CcSlot) /\ DOMAIN ccSlots' = DOMAIN ccSlots
        /\ \A j \in DOMAIN ccSlots : ccSlots'[j].code = ccSlots[j].code
    BY <1>2, <1>3, <1>4, <1>5
  <1>7. ccMapped' = ccMapped /\ ccHand' = ccHand
    BY DEF cache_lookup
  <1>8. [slot |-> i, addr |-> a] \in [slot : Nat \ {0}, addr : CcAddr]
    BY <1>2, <1>3
  <1>9. CcTyped'
    BY <1>1, <1>6, <1>7, <1>8 DEF CcInv, CcTyped, CcHeld
  <1>10. HandsMapped' /\ SlotsMapped'
    BY <1>6, <1>7 DEF CcInv, HandsMapped, SlotsMapped, CcHeld
  <1> QED
    BY <1>9, <1>10 DEF CcInv

\* arm2x86_cache_insert: the entry gets the buffer from the thread's hand; what
\* is unmapped is the buffer of the entry it replaces, which nobody else has.
LEMMA InsertStep ==
  ASSUME CcInv, NEW t \in CcThread, cache_insert(t)
  PROVE  CcInv'
  <1> DEFINE e == [addr |-> ccHand[t].addr, code |-> ccHand[t].code, hits |-> 0]
  <1> PICK c : c = ccHand[t].code
    OBVIOUS
  <1>1. t \in CcHeld /\ ccSlots \in Seq(CcSlot) /\ ccHand[t] \in [addr : CcAddr, code : CcBuffer]
    BY DEF cache_insert, CcHeld, CcInv, CcTyped
  <1>2. e \in CcSlot /\ e.code = c
    BY <1>1 DEF CcSlot
  <1>3. ccHand' = [ccHand EXCEPT ![t] = NoHand] /\ ccGot' = ccGot
    BY DEF cache_insert
  <1>4. PICK k \in DOMAIN ccSlots' :
          /\ ccSlots' \in Seq(CcSlot) /\ ccSlots'[k].code = c
          /\ \A i \in DOMAIN ccSlots' : i # k => i \in DOMAIN ccSlots /\ ccSlots'[i] = ccSlots[i]
          /\ \/ ccMapped' = ccMapped
             \/ k \in DOMAIN ccSlots /\ ccMapped' = ccMapped \ {<<ccSlots[k].code, 1>>}
    <2>1. CASE Len(ccSlots) >= CcSlots
      <3>1. PICK k \in Least : /\ ccMapped' = ccMapped \ Unmapped(k, e.code)
                               /\ ccSlots' = [ccSlots EXCEPT ![k] = e]
        BY <1>1, <2>1, CcAssumption DEF cache_insert
      <3>2. k \in DOMAIN ccSlots /\ ccMapped' = ccMapped \ {<<ccSlots[k].code, 1>>}
        BY <3>1, CodePage DEF Least, Unmapped
      <3> HIDE DEF e
      <3>3. ccSlots' \in Seq(CcSlot) /\ k \in DOMAIN ccSlots' /\ ccSlots'[k] = e
            /\ \A i \in DOMAIN ccSlots' : i # k => i \in DOMAIN ccSlots /\ ccSlots'[i] = ccSlots[i]
        BY <1>1, <1>2, <3>1, <3>2
      <3> QED
        BY <1>2, <3>2, <3>3
    <2>2. CASE ~(Len(ccSlots) >= CcSlots)
      <3>1. ccMapped' = ccMapped /\ ccSlots' = Append(ccSlots, e)
        BY <1>1, <2>2, CcAssumption DEF cache_insert
      <3> HIDE DEF e
      <3>2. PICK k : k = Len(ccSlots) + 1
        OBVIOUS
      <3>3. ccSlots' \in Seq(CcSlot) /\ k \in DOMAIN ccSlots' /\ ccSlots'[k] = e
            /\ \A i \in DOMAIN ccSlots' : i # k => i \in DOMAIN ccSlots /\ ccSlots'[i] = ccSlots[i]
        BY <1>1, <1>2, <3>1, <3>2
      <3> QED
        BY <1>2, <3>1, <3>3
    <2> QED
      BY <2>1, <2>2
  <1> HIDE DEF e
  <1>5. DOMAIN ccHand' = CcThread /\ ccHand'[t] = NoHand /\ \A u \in CcThread : u # t => ccHand'[u] = ccHand[u]
    BY <1>3 DEF CcInv, CcTyped
  <1>6. \A u \in CcHeld' : u \in CcHeld /\ u # t /\ ccHand'[u] = ccHand[u]
    BY <1>5 DEF CcHeld
  <1>7. CcTyped'
    BY <1>3, <1>4, <1>5, <1>6 DEF CcInv, CcTyped
  <1>8. \A i \in DOMAIN ccSlots : ccSlots[i].code # c
    BY <1>1 DEF CcInv, HandsMapped
  <1>9. \A u \in CcHeld : u # t => ccHand[u].code # c
    BY <1>1 DEF CcInv, HandsMapped
  <1>10. HandsMapped'
    BY <1>4, <1>6, <1>8, <1>9 DEF CcInv, HandsMapped
  <1>11. <<c, 1>> \in ccMapped
    BY <1>1 DEF CcInv, HandsMapped
  <1>12. SlotsMapped'
    BY <1>4, <1>8, <1>11 DEF CcInv, SlotsMapped
  <1> QED
    BY <1>3, <1>7, <1>10, <1>12 DEF CcInv

\* arm2x86_cache_init and arm2x86_cache_destroy forget the entries, and the
\* buffers in threads' hands stay.
LEMMA ForgetStep ==
  ASSUME CcInv, cache_init \/ cache_destroy PROVE CcInv'
  <1>1. ccSlots' = <<>> /\ ccMapped' = ccMapped /\ ccHand' = ccHand /\ ccGot' = ccGot
    BY DEF cache_init, cache_destroy
  <1> QED
    BY <1>1 DEF CcInv, CcTyped, HandsMapped, SlotsMapped, CcHeld

LEMMA CcStart == ASSUME CcInit PROVE CcInv
  BY DEF CcInit, CcInv, CcTyped, HandsMapped, SlotsMapped, CcHeld

LEMMA CcStep == ASSUME CcInv, [CcNext]_ccVars PROVE CcInv'
  <1>1. CASE UNCHANGED ccVars
    BY <1>1 DEF ccVars, CcInv, CcTyped, HandsMapped, SlotsMapped, CcHeld
  <1> QED
    BY <1>1, ConvertStep, CcLookupStep, InsertStep, ForgetStep DEF CcNext

\* However many threads convert, look up, insert, initialise and destroy at the
\* same time, for caches of every size: the code of every entry is mapped and
\* belongs to one entry (arm2x86_cache_insert).
THEOREM EntriesKeptMapped == CcSpec => []EntriesMapped
  <1>1. CcInit => CcInv
    BY CcStart
  <1>2. CcInv /\ [CcNext]_ccVars => CcInv'
    BY CcStep
  <1>3. CcInv => EntriesMapped
    BY CodePage DEF CcInv, SlotsMapped, EntriesMapped
  <1> QED
    BY <1>1, <1>2, <1>3, PTL DEF CcSpec

-----------------------------------------------------------------------------
(***************************************************************************)
(* BatchParts: the inductive invariant.  Blocks(t) is the part of worker   *)
(* t.  A part's blocks are handled in order and by its worker only, its    *)
(* successes are the blocks of it that succeeded, and what has been added  *)
(* up are the successes of the parts that were joined, so the total needs  *)
(* no sum over the workers.                                                *)
(***************************************************************************)
Blocks(t) == {i \in Nat : PartStart(t) <= i /\ i < PartEnd(t)}
GoodBlocks == {i \in DOMAIN doneBy : doneBy[i] = <<TRUE>>}
JoinedBlocks == {i \in Nat : \E t \in DOMAIN part : t < joining /\ i \in Blocks(t)}
PartsCut ==
  /\ call \in BatchCalls /\ creating \in 0..num_threads
  /\ DOMAIN part \subseteq {t \in 0..num_threads - 1 : t < creating}
  /\ \A t \in 0..num_threads - 1 :
       t < creating => t \in DOMAIN part \/ t \in unstarted \/ PartStart(t) >= PartEnd(t)
  /\ \A t \in DOMAIN part : /\ part[t] \in [next : Nat, end : Nat, ok : Nat]
                            /\ part[t].end = PartEnd(t)
                            /\ part[t].next \in PartStart(t)..PartEnd(t) + 1
BlocksHandled ==
  /\ IsFiniteSet(DOMAIN doneBy)
  /\ \A i \in DOMAIN doneBy : doneBy[i] = <<TRUE>> \/ doneBy[i] = <<FALSE>>
  /\ DOMAIN doneBy = {i \in Nat : \E t \in DOMAIN part : i \in Blocks(t) /\ i < part[t].next}
CountsRight ==
  /\ \A t \in DOMAIN part : part[t].ok = Cardinality(GoodBlocks \cap Blocks(t))
  /\ success \in [0..WorkerMax - 1 -> Nat]
  /\ \A t \in 0..WorkerMax - 1 :
       success[t] = IF t \in DOMAIN part /\ WorkerEnded(t) THEN part[t].ok ELSE 0
JoinRight ==
  /\ joining \in 0..num_threads
  /\ joining > 0 => creating = num_threads
  /\ \A t \in DOMAIN part : t < joining => WorkerEnded(t)
  /\ total = Cardinality(GoodBlocks \cap JoinedBlocks)
BatchInv == PartsCut /\ BlocksHandled /\ CountsRight /\ JoinRight

\* Products with the size of a part.
LEMMA PartProduct ==
  ASSUME NEW c \in Nat, NEW t \in Nat, NEW u \in Nat
  PROVE  /\ t * c \in Nat /\ (t < u => t * c + c <= u * c)
  OBVIOUS

\* Every number lies between two multiples.
LEMMA PartOf ==
  ASSUME NEW c \in Nat \ {0}, NEW i \in Nat
  PROVE  \E t \in Nat : t * c <= i /\ i < t * c + c
  <1>1. i \div c \in Nat /\ (i \div c) * c <= i /\ i < (i \div c) * c + c
    OBVIOUS
  <1> QED
    BY <1>1

LEMMA BatchSizes ==
  ASSUME call \in BatchCalls
  PROVE  /\ call.count \in Nat \ {0} /\ num_threads \in Nat \ {0} /\ num_threads <= WorkerMax
         /\ chunk_size \in Nat \ {0}
  <1>1. call.count \in Nat \ {0} /\ call.threads \in Nat \ {0} /\ WorkerMax \in Nat \ {0}
    BY BatchAssumption
  <1>2. num_threads \in Nat \ {0} /\ num_threads <= WorkerMax
    BY <1>1 DEF num_threads, Fewer
  <1>3. chunk_size \in Nat \ {0}
    <2> PICK n \in Nat \ {0} : n = num_threads
      BY <1>2
    <2>1. (call.count + n - 1) \in Nat /\ call.count + n - 1 >= n
      BY <1>1
    <2>2. (call.count + n - 1) \div n \in Nat \ {0}
      BY <2>1
    <2> QED
      BY <2>2 DEF chunk_size
  <1> QED
    BY <1>1, <1>2, <1>3

\* The parts: each starts where an earlier one ends or later, only the last can
\* be empty, and between them they cover the batch.
LEMMA PartsRight ==
  ASSUME call \in BatchCalls
  PROVE  /\ \A t \in 0..num_threads - 1 : PartStart(t) \in Nat /\ PartEnd(t) \in Nat
         /\ \A t, u \in 0..num_threads - 1 : t < u => PartEnd(t) <= PartStart(u)
         /\ \A t \in 0..num_threads - 1 : t # num_threads - 1 => PartStart(t) < PartEnd(t)
         /\ \A i \in 0..call.count - 1 : \E t \in 0..num_threads - 1 : i \in Blocks(t)
  <1> PICK n \in Nat \ {0} : n = num_threads
    BY BatchSizes
  <1> PICK c \in Nat \ {0} : c = chunk_size
    BY BatchSizes
  <1>1. /\ call.count \in Nat
        /\ \A t \in 0..n - 1 : /\ PartStart(t) = t * c /\ t * c \in Nat
                               /\ PartEnd(t) = IF t = n - 1 THEN call.count ELSE t * c + c
    BY BatchSizes, PartProduct DEF PartStart, PartEnd
  <1>2. \A t, u \in 0..n - 1 : t < u => t * c + c <= u * c
    BY PartProduct
  <1>3. \A t \in 0..n - 1 : PartStart(t) \in Nat /\ PartEnd(t) \in Nat
    BY <1>1
  <1>4. \A t, u \in 0..n - 1 : t < u => PartEnd(t) <= PartStart(u)
    BY <1>1, <1>2
  <1>5. \A t \in 0..n - 1 : t # n - 1 => PartStart(t) < PartEnd(t)
    BY <1>1
  <1>6. ASSUME NEW i \in 0..call.count - 1 PROVE \E t \in 0..n - 1 : i \in Blocks(t)
    <2>0. i \in Nat /\ i < call.count
      BY <1>1
    <2>1. PICK t \in Nat : t * c <= i /\ i < t * c + c
      BY <2>0, PartOf
    <2>2. CASE t < n - 1
      <3>1. t \in 0..n - 1 /\ t # n - 1
        BY <2>2
      <3>2. PartStart(t) = t * c /\ PartEnd(t) = t * c + c
        BY <1>1, <3>1
      <3> QED
        BY <2>0, <2>1, <3>1, <3>2 DEF Blocks
    <2>3. CASE t >= n - 1
      <3>1. PartEnd(n - 1) = call.count
        BY <1>1
      <3>2. PartStart(n - 1) <= i
        <4>1. t = n - 1 \/ (n - 1) * c + c <= t * c
          BY <2>3, PartProduct
        <4>2. (n - 1) * c \in Nat /\ t * c \in Nat
          BY PartProduct
        <4>3. PartStart(n - 1) = (n - 1) * c
          BY <1>1
        <4> QED
          BY <2>1, <4>1, <4>2, <4>3
      <3> QED
        BY <2>0, <3>1, <3>2 DEF Blocks
    <2> QED
      BY <2>2, <2>3
  <1> QED
    BY <1>3, <1>4, <1>5, <1>6

\* No block belongs to two parts.
LEMMA BlocksApart ==
  ASSUME call \in BatchCalls, NEW t \in 0..num_threads - 1, NEW u \in 0..num_threads - 1, t # u
  PROVE  Blocks(t) \cap Blocks(u) = {}
  <1>1. num_threads \in Nat /\ PartStart(t) \in Nat /\ PartEnd(t) \in Nat /\ PartStart(u) \in Nat /\ PartEnd(u) \in Nat
    BY PartsRight, BatchSizes
  <1>2. (t < u => PartEnd(t) <= PartStart(u)) /\ (u < t => PartEnd(u) <= PartStart(t))
    BY PartsRight
  <1> QED
    BY <1>1, <1>2 DEF Blocks

\* The parts depend on the call only.
LEMMA SameParts ==
  ASSUME call' = call
  PROVE  /\ num_threads' = num_threads
         /\ \A t : PartStart(t)' = PartStart(t) /\ PartEnd(t)' = PartEnd(t) /\ Blocks(t)' = Blocks(t)
  BY DEF num_threads, PartStart, PartEnd, chunk_size, Blocks

\* The workers are numbered below the number of threads.
LEMMA WorkersIn ==
  ASSUME BatchInv
  PROVE  /\ call \in BatchCalls /\ num_threads \in Nat \ {0} /\ 0..num_threads - 1 \subseteq 0..WorkerMax - 1
         /\ \A t \in DOMAIN part : t \in 0..num_threads - 1 /\ t \in 0..WorkerMax - 1 /\ t \in Nat
  BY BatchSizes, BatchAssumption DEF BatchInv, PartsCut

\* CreateWorker: a new part has no block that was handled before, and only the
\* last part can be empty.
LEMMA WorkerCreateStep ==
  ASSUME BatchInv, CreateWorker PROVE BatchInv'
  <1> PICK n \in Nat \ {0} : n = num_threads
    BY WorkersIn
  <1> PICK c : c = creating
    OBVIOUS
  <1>1. /\ c \in 0..n - 1 /\ call' = call /\ joining' = joining /\ success' = success
        /\ total' = total /\ doneBy' = doneBy
    BY DEF CreateWorker
  <1>2. call \in BatchCalls /\ \A t \in DOMAIN part : t \in 0..n - 1 /\ t < c /\ t # c
    BY DEF BatchInv, PartsCut
  <1>3. /\ num_threads' = n
        /\ \A t : PartStart(t)' = PartStart(t) /\ PartEnd(t)' = PartEnd(t) /\ Blocks(t)' = Blocks(t)
    BY <1>1, SameParts
  <1>4. joining = 0
    BY <1>1 DEF BatchInv, JoinRight
  <1>a. \/ PartStart(c) >= PartEnd(c) /\ creating' = n /\ part' = part /\ unstarted' = unstarted
        \/ PartStart(c) < PartEnd(c) /\ creating' = c + 1 /\ unstarted' = unstarted
             /\ part' = [t \in DOMAIN part \union {c} |->
                           IF t = c THEN [next |-> PartStart(t), end |-> PartEnd(t), ok |-> 0] ELSE part[t]]
        \/ creating' = c + 1 /\ part' = part /\ unstarted' = unstarted \union {c}
    BY DEF CreateWorker
  <1>b. CASE creating' = c + 1 /\ part' = part /\ unstarted' = unstarted \union {c}
    <2>1. creating' \in 0..n /\ DOMAIN part \subseteq {t \in 0..n - 1 : t < creating'}
      BY <1>1, <1>2, <1>b
    <2>2. \A t \in 0..n - 1 :
            t < creating' => t \in DOMAIN part \/ t \in unstarted' \/ PartStart(t) >= PartEnd(t)
      BY <1>1, <1>b DEF BatchInv, PartsCut
    <2>3. PartsCut'
      BY <1>1, <1>2, <1>3, <1>b, <2>1, <2>2 DEF BatchInv, PartsCut
    <2>4. BlocksHandled'
      BY <1>1, <1>3, <1>b DEF BatchInv, BlocksHandled
    <2>5. CountsRight'
      BY <1>1, <1>3, <1>b DEF BatchInv, CountsRight, GoodBlocks, WorkerEnded
    <2>6. JoinRight'
      <3>1. JoinedBlocks' = JoinedBlocks /\ GoodBlocks' = GoodBlocks
        BY <1>1, <1>3, <1>b DEF GoodBlocks, JoinedBlocks
      <3>2. joining' = 0 /\ ~(joining' > 0)
        BY <1>1, <1>4
      <3> QED
        BY <1>1, <1>3, <1>b, <3>1, <3>2 DEF BatchInv, JoinRight, WorkerEnded
    <2> QED
      BY <2>3, <2>4, <2>5, <2>6 DEF BatchInv
  <1>5. CASE PartStart(c) >= PartEnd(c) /\ creating' = n /\ part' = part /\ unstarted' = unstarted
    <2>1. creating' = n /\ part' = part /\ unstarted' = unstarted
      BY <1>5
    <2>2. c = n - 1
      <3>1. PartStart(c) \in Nat /\ PartEnd(c) \in Nat /\ (c # n - 1 => PartStart(c) < PartEnd(c))
        BY <1>1, <1>2, PartsRight
      <3> QED
        BY <1>5, <3>1
    <2>3. PartsCut'
      BY <1>1, <1>2, <1>3, <1>5, <2>1, <2>2 DEF BatchInv, PartsCut
    <2>4. BlocksHandled'
      BY <1>1, <1>3, <2>1 DEF BatchInv, BlocksHandled
    <2>5. CountsRight'
      BY <1>1, <1>3, <2>1 DEF BatchInv, CountsRight, GoodBlocks, WorkerEnded
    <2>6. JoinRight'
      BY <1>1, <1>3, <1>4, <2>1 DEF BatchInv, JoinRight, GoodBlocks, JoinedBlocks, WorkerEnded
    <2> QED
      BY <2>3, <2>4, <2>5, <2>6 DEF BatchInv
  <1>6. CASE /\ PartStart(c) < PartEnd(c) /\ creating' = c + 1 /\ unstarted' = unstarted
             /\ part' = [t \in DOMAIN part \union {c} |->
                           IF t = c THEN [next |-> PartStart(t), end |-> PartEnd(t), ok |-> 0] ELSE part[t]]
    <2> DEFINE r == [next |-> PartStart(c), end |-> PartEnd(c), ok |-> 0]
    <2>0. PartStart(c) \in Nat /\ PartEnd(c) \in Nat /\ PartStart(c) < PartEnd(c)
      BY <1>1, <1>2, <1>6, PartsRight
    <2>1. /\ creating' = c + 1 /\ unstarted' = unstarted
          /\ part' = [t \in DOMAIN part \union {c} |-> IF t = c THEN r ELSE part[t]]
      BY <1>6
    <2>2. /\ r \in [next : Nat, end : Nat, ok : Nat] /\ r.next = PartStart(c) /\ r.end = PartEnd(c) /\ r.ok = 0
      BY <2>0
    <2> HIDE DEF r
    <2>3. /\ DOMAIN part' = DOMAIN part \union {c} /\ part'[c] = r
          /\ \A t \in DOMAIN part : part'[t] = part[t]
      BY <1>2, <2>1
    <2>4. \A t \in DOMAIN part : Blocks(t) \cap Blocks(c) = {}
      BY <1>1, <1>2, BlocksApart
    <2>5. PartsCut'
      <3>1. creating' \in 0..n /\ DOMAIN part' \subseteq {t \in 0..n - 1 : t < creating'}
        BY <1>1, <1>2, <2>1, <2>3
      <3>2. \A t \in 0..n - 1 : t < creating' => t \in DOMAIN part' \/ t \in unstarted \/ PartStart(t) >= PartEnd(t)
        BY <1>1, <2>1, <2>3 DEF BatchInv, PartsCut
      <3>3. \A t \in DOMAIN part' : /\ part'[t] \in [next : Nat, end : Nat, ok : Nat]
                                    /\ part'[t].end = PartEnd(t)
                                    /\ part'[t].next \in PartStart(t)..PartEnd(t) + 1
        BY <2>0, <2>2, <2>3 DEF BatchInv, PartsCut
      <3> QED
        BY <1>1, <1>2, <1>3, <2>1, <3>1, <3>2, <3>3 DEF PartsCut
    <2>6. BlocksHandled'
      <3>1. \A i \in Blocks(c) : ~(i < r.next)
        BY <2>0, <2>2 DEF Blocks
      <3>2. \A i \in Nat : (\E t \in DOMAIN part' : i \in Blocks(t) /\ i < part'[t].next)
                            <=> \E t \in DOMAIN part : i \in Blocks(t) /\ i < part[t].next
        BY <2>3, <3>1
      <3> QED
        BY <1>1, <1>3, <3>2 DEF BatchInv, BlocksHandled
    <2>7. CountsRight'
      <3>1. GoodBlocks \cap Blocks(c) = {}
        <4>1. \A i \in GoodBlocks : \E t \in DOMAIN part : i \in Blocks(t)
          BY DEF GoodBlocks, BatchInv, BlocksHandled
        <4> QED
          BY <2>4, <4>1
      <3>2. r.ok = Cardinality(GoodBlocks \cap Blocks(c))
        BY <2>2, <3>1, FS_EmptySet
      <3>3. ~(r.next > r.end) /\ success[c] = 0
        BY <1>1, <1>2, <2>0, <2>2, WorkersIn DEF BatchInv, CountsRight
      <3>4. \A t \in DOMAIN part' : part'[t].ok = Cardinality(GoodBlocks \cap Blocks(t))
        BY <2>3, <3>2 DEF BatchInv, CountsRight
      <3>5. \A t \in 0..WorkerMax - 1 :
              success[t] = IF t \in DOMAIN part' /\ part'[t].next > part'[t].end THEN part'[t].ok ELSE 0
        BY <2>3, <3>3 DEF BatchInv, CountsRight, WorkerEnded
      <3> QED
        BY <1>1, <1>3, <3>4, <3>5 DEF BatchInv, CountsRight, GoodBlocks, WorkerEnded
    <2>8. JoinRight'
      <3>1. \A t \in DOMAIN part' : t \in Nat /\ ~(t < 0)
        BY <1>1, <1>2, <2>3
      <3>2. JoinedBlocks = {} /\ JoinedBlocks' = {}
        BY <1>1, <1>2, <1>4, <3>1 DEF JoinedBlocks
      <3> QED
        BY <1>1, <1>3, <1>4, <3>1, <3>2 DEF BatchInv, JoinRight, GoodBlocks
    <2> QED
      BY <2>5, <2>6, <2>7, <2>8 DEF BatchInv
  <1> QED
    BY <1>a, <1>b, <1>5, <1>6

\* WorkerBlock: the next block of the part is one nobody has handled.
LEMMA WorkerBlockStep ==
  ASSUME BatchInv, NEW t \in DOMAIN part, WorkerBlock(t) PROVE BatchInv'
  <1> PICK n \in Nat \ {0} : n = num_threads
    BY WorkersIn
  <1> PICK b : b = part[t].next
    OBVIOUS
  <1> PICK p : p = part[t]
    OBVIOUS
  <1>1. PICK ok \in BOOLEAN :
          /\ part' = [part EXCEPT ![t].next = @ + 1, ![t].ok = IF ok THEN @ + 1 ELSE @]
          /\ doneBy' = [i \in DOMAIN doneBy \union {b} |->
                          IF i # b THEN doneBy[i]
                          ELSE Append(IF i \in DOMAIN doneBy THEN doneBy[i] ELSE <<>>, ok)]
    BY DEF WorkerBlock
  <1>2. /\ call' = call /\ creating' = creating /\ joining' = joining /\ success' = success
        /\ total' = total /\ unstarted' = unstarted /\ b < p.end
    BY DEF WorkerBlock
  <1>3. /\ num_threads' = n
        /\ \A u : PartStart(u)' = PartStart(u) /\ PartEnd(u)' = PartEnd(u) /\ Blocks(u)' = Blocks(u)
    BY <1>2, SameParts
  <1>4. /\ call \in BatchCalls /\ \A u \in DOMAIN part : u \in 0..n - 1 /\ u \in 0..WorkerMax - 1 /\ u \in Nat
    BY WorkersIn
  <1>5. /\ p \in [next : Nat, end : Nat, ok : Nat] /\ p.end = PartEnd(t) /\ p.next = b
        /\ b \in PartStart(t)..PartEnd(t) + 1
    BY DEF BatchInv, PartsCut
  <1>6. PartStart(t) \in Nat /\ PartEnd(t) \in Nat
    BY <1>4, PartsRight
  <1>7. b \in Blocks(t) /\ b \in Nat
    BY <1>2, <1>5, <1>6 DEF Blocks
  <1> DEFINE r == [p EXCEPT !.next = @ + 1, !.ok = IF ok THEN @ + 1 ELSE @]
  <1>8. /\ r \in [next : Nat, end : Nat, ok : Nat] /\ r.end = p.end /\ r.next = b + 1
        /\ r.ok = IF ok THEN p.ok + 1 ELSE p.ok
    <2>1. p.ok \in Nat /\ p.next \in Nat
      BY <1>5
    <2>2. (IF ok THEN p.ok + 1 ELSE p.ok) \in Nat /\ p.next + 1 \in Nat
      BY <2>1
    <2> QED
      BY <1>5, <2>2
  <1>9. part' = [part EXCEPT ![t] = r]
    BY <1>1, <1>5
  <1> HIDE DEF r
  <1>10. DOMAIN part' = DOMAIN part /\ part'[t] = r /\ \A u \in DOMAIN part : u # t => part'[u] = part[u]
    BY <1>9
  <1>11. \A u \in DOMAIN part : u # t => Blocks(u) \cap Blocks(t) = {}
    BY <1>4, BlocksApart
  <1>12. b \notin DOMAIN doneBy
    BY <1>5, <1>7, <1>11 DEF BatchInv, BlocksHandled
  <1>13. /\ DOMAIN doneBy' = DOMAIN doneBy \union {b} /\ doneBy'[b] = <<ok>>
         /\ \A i \in DOMAIN doneBy : doneBy'[i] = doneBy[i]
    BY <1>1, <1>12
  <1>14. GoodBlocks' = GoodBlocks \union (IF ok THEN {b} ELSE {}) /\ b \notin GoodBlocks
    <2>1. <<ok>> = <<TRUE>> <=> ok
      <3>1. CASE ok = TRUE
        BY <3>1
      <3>2. CASE ok = FALSE
        <4>1. <<FALSE>> # <<TRUE>>
          OBVIOUS
        <4> QED
          BY <3>2, <4>1
      <3> QED
        BY <3>1, <3>2
    <2> QED
      BY <1>12, <1>13, <2>1 DEF GoodBlocks
  <1>15. IsFiniteSet(GoodBlocks)
    <2>1. IsFiniteSet(DOMAIN doneBy) /\ GoodBlocks \subseteq DOMAIN doneBy
      BY DEF BatchInv, BlocksHandled, GoodBlocks
    <2> QED
      BY <2>1, FS_Subset
  <1>16. PartsCut'
    <2>1. \A u \in DOMAIN part' : /\ part'[u] \in [next : Nat, end : Nat, ok : Nat]
                                  /\ part'[u].end = PartEnd(u)
                                  /\ part'[u].next \in PartStart(u)..PartEnd(u) + 1
      BY <1>2, <1>5, <1>6, <1>8, <1>10 DEF BatchInv, PartsCut
    <2> QED
      BY <1>2, <1>3, <1>10, <2>1 DEF BatchInv, PartsCut
  <1>17. BlocksHandled'
    <2>1. IsFiniteSet(DOMAIN doneBy')
      <3>1. IsFiniteSet(DOMAIN doneBy)
        BY DEF BatchInv, BlocksHandled
      <3>2. IsFiniteSet(DOMAIN doneBy \union {b})
        BY <3>1, FS_AddElement
      <3> QED
        BY <1>13, <3>2
    <2>2. \A i \in DOMAIN doneBy' : doneBy'[i] = <<TRUE>> \/ doneBy'[i] = <<FALSE>>
      BY <1>13 DEF BatchInv, BlocksHandled
    <2>3. \A i \in Nat : (\E u \in DOMAIN part' : i \in Blocks(u) /\ i < part'[u].next)
                          <=> (i = b \/ \E u \in DOMAIN part : i \in Blocks(u) /\ i < part[u].next)
      <3> SUFFICES ASSUME NEW i \in Nat
                   PROVE  (\E u \in DOMAIN part' : i \in Blocks(u) /\ i < part'[u].next)
                            <=> (i = b \/ \E u \in DOMAIN part : i \in Blocks(u) /\ i < part[u].next)
        OBVIOUS
      <3>1. i < part'[t].next <=> i = b \/ i < part[t].next
        BY <1>5, <1>7, <1>8, <1>10
      <3> QED
        BY <1>7, <1>10, <3>1
    <2>4. DOMAIN doneBy' = {i \in Nat : \E u \in DOMAIN part' : i \in Blocks(u) /\ i < part'[u].next}
      BY <1>7, <1>13, <2>3 DEF BatchInv, BlocksHandled
    <2> QED
      BY <1>3, <2>1, <2>2, <2>4 DEF BlocksHandled
  <1>18. CountsRight'
    <2>1. r.ok = Cardinality(GoodBlocks' \cap Blocks(t))
      <3>1. p.ok = Cardinality(GoodBlocks \cap Blocks(t)) /\ IsFiniteSet(GoodBlocks \cap Blocks(t))
        BY <1>15, FS_Intersection DEF BatchInv, CountsRight
      <3>2. CASE ok
        <4>1. GoodBlocks' \cap Blocks(t) = (GoodBlocks \cap Blocks(t)) \union {b} /\ b \notin GoodBlocks \cap Blocks(t)
          BY <1>7, <1>14, <3>2
        <4>2. Cardinality(GoodBlocks' \cap Blocks(t)) = Cardinality(GoodBlocks \cap Blocks(t)) + 1
          BY <3>1, <4>1, FS_AddElement
        <4> QED
          BY <1>8, <3>1, <3>2, <4>2
      <3>3. CASE ~ok
        BY <1>8, <1>14, <3>1, <3>3
      <3> QED
        BY <3>2, <3>3
    <2>2. \A u \in DOMAIN part : u # t => GoodBlocks' \cap Blocks(u) = GoodBlocks \cap Blocks(u)
      BY <1>7, <1>11, <1>14
    <2>3. \A u \in DOMAIN part' : part'[u].ok = Cardinality(GoodBlocks' \cap Blocks(u))
      BY <1>10, <2>1, <2>2 DEF BatchInv, CountsRight
    <2>4. ~(r.next > r.end) /\ ~(part[t].next > part[t].end)
      BY <1>2, <1>5, <1>8
    <2>5. \A u \in 0..WorkerMax - 1 :
            success[u] = IF u \in DOMAIN part' /\ part'[u].next > part'[u].end THEN part'[u].ok ELSE 0
      BY <1>10, <2>4 DEF BatchInv, CountsRight, WorkerEnded
    <2> QED
      BY <1>2, <1>3, <2>3, <2>5 DEF BatchInv, CountsRight, WorkerEnded
  <1>19. JoinRight'
    <2>1. ~(t < joining) /\ ~(part[t].next > part[t].end)
      BY <1>2, <1>5 DEF BatchInv, JoinRight, WorkerEnded
    <2>2. JoinedBlocks' = JoinedBlocks
      BY <1>2, <1>3, <1>10 DEF JoinedBlocks
    <2>3. b \notin JoinedBlocks
      BY <1>7, <1>11, <2>1 DEF JoinedBlocks
    <2>4. GoodBlocks' \cap JoinedBlocks' = GoodBlocks \cap JoinedBlocks
      BY <1>14, <2>2, <2>3
    <2>5. \A u \in DOMAIN part' : u < joining => part'[u].next > part'[u].end
      BY <1>10, <2>1 DEF BatchInv, JoinRight, WorkerEnded
    <2> QED
      BY <1>2, <1>3, <2>4, <2>5 DEF BatchInv, JoinRight, WorkerEnded
  <1> QED
    BY <1>16, <1>17, <1>18, <1>19 DEF BatchInv

\* WorkerEnd: the worker stores the number of its successes.
LEMMA WorkerEndStep ==
  ASSUME BatchInv, NEW t \in DOMAIN part, WorkerEnd(t) PROVE BatchInv'
  <1> PICK n \in Nat \ {0} : n = num_threads
    BY WorkersIn
  <1> PICK p : p = part[t]
    OBVIOUS
  <1>1. /\ call' = call /\ creating' = creating /\ joining' = joining /\ doneBy' = doneBy
        /\ total' = total /\ unstarted' = unstarted /\ p.next = p.end /\ success' = [success EXCEPT ![t] = @ + p.ok]
        /\ part' = [part EXCEPT ![t].next = @ + 1]
    BY DEF WorkerEnd, Stored
  <1>2. /\ num_threads' = n
        /\ \A u : PartStart(u)' = PartStart(u) /\ PartEnd(u)' = PartEnd(u) /\ Blocks(u)' = Blocks(u)
    BY <1>1, SameParts
  <1>3. /\ call \in BatchCalls /\ \A u \in DOMAIN part : u \in 0..n - 1 /\ u \in 0..WorkerMax - 1 /\ u \in Nat
    BY WorkersIn
  <1>4. p \in [next : Nat, end : Nat, ok : Nat] /\ p.end = PartEnd(t) /\ p.next \in PartStart(t)..PartEnd(t) + 1
    BY DEF BatchInv, PartsCut
  <1>5. PartStart(t) \in Nat /\ PartEnd(t) \in Nat
    BY <1>3, PartsRight
  <1> DEFINE r == [p EXCEPT !.next = @ + 1]
  <1>6. /\ r \in [next : Nat, end : Nat, ok : Nat] /\ r.end = p.end /\ r.next = p.end + 1 /\ r.ok = p.ok
    BY <1>1, <1>4
  <1>7. part' = [part EXCEPT ![t] = r]
    BY <1>1
  <1> HIDE DEF r
  <1>8. DOMAIN part' = DOMAIN part /\ part'[t] = r /\ \A u \in DOMAIN part : u # t => part'[u] = part[u]
    BY <1>7
  <1>9. PartsCut'
    <2>1. \A u \in DOMAIN part' : /\ part'[u] \in [next : Nat, end : Nat, ok : Nat]
                                  /\ part'[u].end = PartEnd(u)
                                  /\ part'[u].next \in PartStart(u)..PartEnd(u) + 1
      BY <1>1, <1>4, <1>5, <1>6, <1>8 DEF BatchInv, PartsCut
    <2> QED
      BY <1>1, <1>2, <1>8, <2>1 DEF BatchInv, PartsCut
  <1>10. BlocksHandled'
    <2>1. \A i \in Blocks(t) : i < r.next /\ i < p.next
      BY <1>1, <1>4, <1>5, <1>6 DEF Blocks
    <2>2. \A i \in Nat : (\E u \in DOMAIN part' : i \in Blocks(u) /\ i < part'[u].next)
                          <=> \E u \in DOMAIN part : i \in Blocks(u) /\ i < part[u].next
      BY <1>8, <2>1
    <2> QED
      BY <1>1, <1>2, <2>2 DEF BatchInv, BlocksHandled
  <1>11. CountsRight'
    <2>1. r.next > r.end /\ ~(p.next > p.end)
      BY <1>1, <1>4, <1>6
    <2>2. success[t] = 0 /\ success \in [0..WorkerMax - 1 -> Nat]
      BY <1>3, <2>1 DEF BatchInv, CountsRight, WorkerEnded
    <2>3. /\ success' \in [0..WorkerMax - 1 -> Nat] /\ success'[t] = r.ok
          /\ \A u \in 0..WorkerMax - 1 : u # t => success'[u] = success[u]
      BY <1>1, <1>3, <1>4, <1>6, <2>2
    <2>4. \A u \in DOMAIN part' : part'[u].ok = Cardinality(GoodBlocks \cap Blocks(u))
      BY <1>6, <1>8 DEF BatchInv, CountsRight
    <2>5. \A u \in 0..WorkerMax - 1 :
            success'[u] = IF u \in DOMAIN part' /\ part'[u].next > part'[u].end THEN part'[u].ok ELSE 0
      BY <1>8, <2>1, <2>3 DEF BatchInv, CountsRight, WorkerEnded
    <2>6. GoodBlocks' = GoodBlocks
      BY <1>1 DEF GoodBlocks
    <2> QED
      BY <1>2, <2>3, <2>4, <2>5, <2>6 DEF CountsRight, WorkerEnded
  <1>12. JoinRight'
    <2>1. r.next > r.end
      BY <1>1, <1>4, <1>6
    <2>2. \A u \in DOMAIN part' : u < joining => part'[u].next > part'[u].end
      BY <1>8, <2>1 DEF BatchInv, JoinRight, WorkerEnded
    <2>3. JoinedBlocks' = JoinedBlocks /\ GoodBlocks' = GoodBlocks
      BY <1>1, <1>2, <1>8 DEF JoinedBlocks, GoodBlocks
    <2> QED
      BY <1>1, <1>2, <2>2, <2>3 DEF BatchInv, JoinRight, WorkerEnded
  <1> QED
    BY <1>9, <1>10, <1>11, <1>12 DEF BatchInv

\* JoinWorker: the blocks of the part that is joined are added to those counted.
LEMMA JoinWorkerStep ==
  ASSUME BatchInv, JoinWorker PROVE BatchInv'
  <1> PICK n \in Nat \ {0} : n = num_threads
    BY WorkersIn
  <1> PICK j : j = joining
    OBVIOUS
  <1>1. /\ call' = call /\ creating' = creating /\ success' = success /\ doneBy' = doneBy /\ part' = part
        /\ unstarted' = unstarted
        /\ total' = total + success[j] /\ joining' = j + 1 /\ creating = n /\ j < n /\ Joined(j)
    BY DEF JoinWorker
  <1>2. /\ num_threads' = n
        /\ \A u : PartStart(u)' = PartStart(u) /\ PartEnd(u)' = PartEnd(u) /\ Blocks(u)' = Blocks(u)
    BY <1>1, SameParts
  <1>3. /\ call \in BatchCalls /\ \A u \in DOMAIN part : u \in 0..n - 1 /\ u \in Nat
        /\ j \in 0..n - 1 /\ j \in 0..WorkerMax - 1
    BY <1>1, WorkersIn DEF BatchInv, JoinRight
  <1>4. PartsCut' /\ BlocksHandled' /\ CountsRight'
    BY <1>1, <1>2 DEF BatchInv, PartsCut, BlocksHandled, CountsRight, GoodBlocks, WorkerEnded
  <1>5. \A u \in DOMAIN part : u < j + 1 => WorkerEnded(u)
    BY <1>1, <1>3 DEF Joined, BatchInv, JoinRight
  <1>6. IsFiniteSet(GoodBlocks)
    <2>1. IsFiniteSet(DOMAIN doneBy) /\ GoodBlocks \subseteq DOMAIN doneBy
      BY DEF BatchInv, BlocksHandled, GoodBlocks
    <2> QED
      BY <2>1, FS_Subset
  <1>7. total + success[j] = Cardinality(GoodBlocks \cap JoinedBlocks')
    <2>0. total = Cardinality(GoodBlocks \cap JoinedBlocks)
      BY DEF BatchInv, JoinRight
    <2>1. CASE j \notin DOMAIN part
      <3>1. JoinedBlocks' = JoinedBlocks
        BY <1>1, <1>2, <1>3, <2>1 DEF JoinedBlocks
      <3>2. success[j] = 0 /\ IsFiniteSet(GoodBlocks \cap JoinedBlocks)
        BY <1>3, <1>6, <2>1, FS_Intersection DEF BatchInv, CountsRight
      <3>3. total \in Nat
        BY <2>0, <3>2, FS_CardinalityType
      <3> QED
        BY <2>0, <3>1, <3>2, <3>3
    <2>2. CASE j \in DOMAIN part
      <3>1. JoinedBlocks' = JoinedBlocks \union Blocks(j)
        BY <1>1, <1>2, <1>3, <2>2 DEF JoinedBlocks, Blocks
      <3>2. JoinedBlocks \cap Blocks(j) = {}
        BY <1>3, <2>2, BlocksApart DEF JoinedBlocks
      <3>3. success[j] = Cardinality(GoodBlocks \cap Blocks(j))
        <4>1. WorkerEnded(j)
          BY <1>3, <1>5, <2>2
        <4>2. success[j] = part[j].ok /\ part[j].ok = Cardinality(GoodBlocks \cap Blocks(j))
          BY <1>3, <2>2, <4>1 DEF BatchInv, CountsRight
        <4> QED
          BY <4>2
      <3>4. IsFiniteSet(GoodBlocks \cap JoinedBlocks) /\ IsFiniteSet(GoodBlocks \cap Blocks(j))
        BY <1>6, FS_Intersection
      <3>5. /\ GoodBlocks \cap JoinedBlocks' = (GoodBlocks \cap JoinedBlocks) \union (GoodBlocks \cap Blocks(j))
            /\ (GoodBlocks \cap JoinedBlocks) \cap (GoodBlocks \cap Blocks(j)) = {}
        BY <3>1, <3>2
      <3>6. Cardinality(GoodBlocks \cap JoinedBlocks') =
              Cardinality(GoodBlocks \cap JoinedBlocks) + Cardinality(GoodBlocks \cap Blocks(j)) - Cardinality({})
        BY <3>4, <3>5, FS_Union
      <3>7. Cardinality({}) = 0 /\ Cardinality(GoodBlocks \cap JoinedBlocks) \in Nat /\ Cardinality(GoodBlocks \cap Blocks(j)) \in Nat
        BY <3>4, FS_EmptySet, FS_CardinalityType
      <3> QED
        BY <2>0, <3>3, <3>6, <3>7
    <2> QED
      BY <2>1, <2>2
  <1>8. JoinRight'
    <2>1. GoodBlocks' = GoodBlocks /\ joining' \in 0..n
      BY <1>1, <1>3 DEF GoodBlocks
    <2> QED
      BY <1>1, <1>2, <1>5, <1>7, <2>1 DEF JoinRight, WorkerEnded
  <1> QED
    BY <1>4, <1>8 DEF BatchInv

\* When the last worker is joined, the parts cover the batch, every worker has
\* ended, and the successes that were added up are all there are.
LEMMA BatchReturned == ASSUME BatchInv PROVE BatchRight
  <1> PICK n \in Nat \ {0} : n = num_threads
    BY WorkersIn
  <1>0. call \in BatchCalls /\ call.count \in Nat /\ \A u \in DOMAIN part : u \in 0..n - 1 /\ u \in Nat
    BY WorkersIn, BatchSizes
  <1>1. ASSUME joining = n PROVE creating = n /\ \A t \in DOMAIN part : WorkerEnded(t)
    BY <1>0, <1>1 DEF BatchInv, JoinRight
  <1>2. ASSUME joining = n, NEW t \in DOMAIN part, NEW i \in Blocks(t) PROVE i \in DOMAIN doneBy
    <2>1. part[t].next > part[t].end /\ part[t].end = PartEnd(t) /\ part[t] \in [next : Nat, end : Nat, ok : Nat]
      BY <1>1, <1>2 DEF WorkerEnded, BatchInv, PartsCut
    <2>2. i \in Nat /\ i < part[t].next
      BY <2>1 DEF Blocks
    <2> QED
      BY <2>2 DEF BatchInv, BlocksHandled
  <1>3. \A i \in DOMAIN doneBy : Len(doneBy[i]) = 1
    <2>1. Len(<<TRUE>>) = 1 /\ Len(<<FALSE>>) = 1
      OBVIOUS
    <2> QED
      BY <2>1, Zenon DEF BatchInv, BlocksHandled
  <1>4. ASSUME joining = n, NEW i \in 0..call.count - 1
        PROVE  \/ i \in DOMAIN doneBy /\ Len(doneBy[i]) = 1
               \/ i \notin DOMAIN doneBy /\ \E t \in unstarted : PartStart(t) <= i /\ i < PartEnd(t)
    <2>1. PICK t \in 0..n - 1 : i \in Blocks(t)
      BY <1>0, PartsRight
    <2>2. PartStart(t) \in Nat /\ PartEnd(t) \in Nat /\ PartStart(t) <= i /\ i < PartEnd(t) /\ i \in Nat
      BY <1>0, <2>1, PartsRight DEF Blocks
    <2>3. t \in DOMAIN part \/ t \in unstarted
      BY <1>1, <1>4, <2>1, <2>2 DEF BatchInv, PartsCut
    <2>4. CASE t \in DOMAIN part
      BY <1>2, <1>3, <1>4, <2>1, <2>4
    <2>5. CASE t \in unstarted
      BY <1>3, <2>2, <2>5
    <2> QED
      BY <2>3, <2>4, <2>5
  <1>5. ASSUME joining = n, WithinBatch
        PROVE  total = Cardinality({i \in DOMAIN doneBy : i < call.count /\ doneBy[i] = <<TRUE>>})
    <2>1. \A i \in DOMAIN doneBy : i \in Nat /\ \E t \in DOMAIN part : i \in Blocks(t)
      BY DEF BatchInv, BlocksHandled
    <2>2. \A t \in DOMAIN part : t < joining
      BY <1>0, <1>5
    <2>3. GoodBlocks \cap JoinedBlocks = GoodBlocks
      BY <2>1, <2>2 DEF GoodBlocks, JoinedBlocks
    <2>4. \A t \in DOMAIN part : \A i \in Blocks(t) : i < call.count
      <3> SUFFICES ASSUME NEW t \in DOMAIN part, NEW i \in Blocks(t) PROVE i < call.count
        OBVIOUS
      <3>1. part[t].end = PartEnd(t) /\ part[t].end <= call.count /\ part[t].end \in Nat
        BY <1>5 DEF BatchInv, PartsCut, WithinBatch
      <3> QED
        BY <1>0, <3>1 DEF Blocks
    <2>5. {i \in DOMAIN doneBy : i < call.count /\ doneBy[i] = <<TRUE>>} = GoodBlocks
      BY <2>1, <2>4 DEF GoodBlocks
    <2> QED
      BY <2>3, <2>5 DEF BatchInv, JoinRight
  <1> QED
    BY <1>4, <1>5 DEF BatchRight, EachBlockOnce, TotalRight, BatchReturns

\* For every number of blocks and threads, however the workers interleave and
\* whichever threads cannot be created: when a parallel batch returns, every
\* block of a part that got a thread has been handled exactly once and no other
\* has been, and the value returned is the number of blocks that succeeded
\* unless a part was cut behind the batch (arm2x86_translate_batch_parallel).
THEOREM BatchKept == BatchSpec => []BatchRight
  <1>1. BatchInit => BatchInv
    <2> SUFFICES ASSUME BatchInit PROVE BatchInv
      OBVIOUS
    <2>1. DOMAIN part = {} /\ DOMAIN doneBy = {} /\ GoodBlocks = {} /\ JoinedBlocks = {}
      BY DEF BatchInit, NoParts, GoodBlocks, JoinedBlocks
    <2>2. call \in BatchCalls /\ num_threads \in Nat \ {0}
      BY BatchSizes DEF BatchInit
    <2>3. GoodBlocks \cap JoinedBlocks = {} /\ Cardinality({}) = 0 /\ IsFiniteSet({})
      BY <2>1, FS_EmptySet
    <2>4. PartsCut
      BY <2>1, <2>2 DEF PartsCut, BatchInit
    <2>5. BlocksHandled
      BY <2>1, <2>3 DEF BlocksHandled
    <2>6. CountsRight
      BY <2>1, BatchAssumption DEF CountsRight, BatchInit
    <2>7. JoinRight
      BY <2>1, <2>2, <2>3 DEF JoinRight, BatchInit
    <2> QED
      BY <2>4, <2>5, <2>6, <2>7 DEF BatchInv
  <1>2. BatchInv /\ [BatchNext]_batchVars => BatchInv'
    <2> SUFFICES ASSUME BatchInv, [BatchNext]_batchVars PROVE BatchInv'
      OBVIOUS
    <2>1. CASE UNCHANGED batchVars
      <3>1. /\ call' = call /\ creating' = creating /\ success' = success /\ doneBy' = doneBy
            /\ part' = part /\ total' = total /\ joining' = joining /\ unstarted' = unstarted
        BY <2>1 DEF batchVars
      <3>2. /\ num_threads' = num_threads /\ GoodBlocks' = GoodBlocks
            /\ \A u : PartStart(u)' = PartStart(u) /\ PartEnd(u)' = PartEnd(u) /\ Blocks(u)' = Blocks(u)
        BY <3>1, SameParts DEF GoodBlocks
      <3>3. JoinedBlocks' = JoinedBlocks
        BY <3>1, <3>2 DEF JoinedBlocks
      <3>4. PartsCut' /\ BlocksHandled'
        BY <3>1, <3>2 DEF BatchInv, PartsCut, BlocksHandled
      <3>5. CountsRight' /\ JoinRight'
        BY <3>1, <3>2, <3>3 DEF BatchInv, CountsRight, JoinRight, WorkerEnded
      <3> QED
        BY <3>4, <3>5 DEF BatchInv
    <2> QED
      BY <2>1, WorkerCreateStep, WorkerBlockStep, WorkerEndStep, JoinWorkerStep DEF BatchNext
  <1> QED
    BY <1>1, <1>2, BatchReturned, PTL DEF BatchSpec

-----------------------------------------------------------------------------
(***************************************************************************)
(* Signals.  The lists are followed by one thread and by the signals that  *)
(* interrupt it.  A node is linked when it is allocated and is not the one *)
(* being registered or removed; the head that fini is about to clear does  *)
(* not count.  Every link in use leads to a linked node, and no two lead   *)
(* to the same: freeing the one that a head or a link has just let go then *)
(* leaves no pointer to it, wherever a signal comes.                       *)
(***************************************************************************)
NodeRec == [h : Handler, next : SigNode \union {SigNil}]
NodeTable == [SigNode -> NodeRec \union {SigFreed}]
HeadTable == [Sig -> SigNode \union {SigNil}]
SigRec ==
  [pc : {"idle", "init", "fini", "free", "reg", "find", "unreg"}, todo : SUBSET Sig,
   at : SigNode \union {SigNil}, sig : Sig \union {SigNil}, h : Handler \union {SigNil}]
WalkRec == [pc : {"none", "walk"}, sig : Sig \union {SigNil}, at : SigNode \union {SigNil}]

Linked(pc, at, N, n) == n \in SigNode /\ N[n] # SigFreed /\ ~(pc \in {"reg", "unreg"} /\ n = at)
NilOrLinked(pc, at, N, n) == n = SigNil \/ Linked(pc, at, N, n)
HeadInUse(pc, sig, s) == ~(pc = "free" /\ s = sig)

LinksLive(pc, at, sig, G, N) ==
  /\ \A s \in Sig : HeadInUse(pc, sig, s) => NilOrLinked(pc, at, N, G[s])
  /\ \A n \in SigNode : Linked(pc, at, N, n) => NilOrLinked(pc, at, N, N[n].next)
LinksOnce(pc, at, sig, G, N) ==
  /\ \A s, u \in Sig : HeadInUse(pc, sig, s) /\ HeadInUse(pc, sig, u) /\ s # u /\ G[s] # SigNil => G[s] # G[u]
  /\ \A s \in Sig, n \in SigNode :
       HeadInUse(pc, sig, s) /\ Linked(pc, at, N, n) /\ G[s] # SigNil => G[s] # N[n].next
  /\ \A n, m \in SigNode :
       Linked(pc, at, N, n) /\ Linked(pc, at, N, m) /\ n # m /\ N[n].next # SigNil => N[n].next # N[m].next
AtRight(pc, at, sig, G, N) ==
  /\ pc = "free" => /\ sig \in Sig /\ NilOrLinked(pc, at, N, at)
                    /\ at # SigNil => /\ \A s \in Sig : HeadInUse(pc, sig, s) => at # G[s]
                                      /\ \A n \in SigNode : Linked(pc, at, N, n) => at # N[n].next
  /\ pc = "reg" => sig \in Sig /\ at \in SigNode /\ N[at] # SigFreed /\ N[at].next = G[sig]
  /\ pc = "unreg" => at \in SigNode
  /\ pc = "find" => sig \in Sig /\ NilOrLinked(pc, at, N, at)
ListInv(pc, at, sig, G, N) ==
  /\ pc \in {"idle", "init", "fini", "free", "reg", "find", "unreg"}
  /\ G \in HeadTable /\ N \in NodeTable
  /\ LinksLive(pc, at, sig, G, N) /\ LinksOnce(pc, at, sig, G, N) /\ AtRight(pc, at, sig, G, N)

\* Fini frees a node and goes to the next.
LEMMA FreeStep ==
  ASSUME NEW at \in SigNode, NEW sig, NEW G, NEW N, ListInv("free", at, sig, G, N),
         NEW M, M = [N EXCEPT ![at] = SigFreed], NEW nx, nx = N[at].next
  PROVE  ListInv("free", nx, sig, G, M)
  <1>1. M \in NodeTable /\ M[at] = SigFreed /\ \A n \in SigNode \ {at} : M[n] = N[n]
    BY DEF ListInv, NodeTable
  <1>2. Linked("free", at, N, at)
    BY SignalAssumption DEF ListInv, AtRight, NilOrLinked
  <1>3. \A n : Linked("free", nx, M, n) <=> Linked("free", at, N, n) /\ n # at
    BY <1>1 DEF Linked
  <1>4. \A n \in SigNode : Linked("free", at, N, n) /\ n # at => M[n] = N[n]
    BY <1>1
  <1>5. \A s \in Sig : HeadInUse("free", sig, s) => at # G[s]
    BY SignalAssumption DEF ListInv, AtRight
  <1>6. \A n \in SigNode : Linked("free", at, N, n) => at # N[n].next
    BY SignalAssumption DEF ListInv, AtRight
  <1>7. LinksLive("free", nx, sig, G, M)
    BY <1>3, <1>4, <1>5, <1>6 DEF ListInv, LinksLive, NilOrLinked
  <1>8. LinksOnce("free", nx, sig, G, M)
    <2>0. LinksOnce("free", at, sig, G, N)
      BY DEF ListInv
    <2>1. \A n \in SigNode :
            Linked("free", nx, M, n) => Linked("free", at, N, n) /\ M[n].next = N[n].next
      BY <1>3, <1>4
    <2>2. ASSUME NEW s \in Sig, NEW u \in Sig, HeadInUse("free", sig, s), HeadInUse("free", sig, u),
                 s # u, G[s] # SigNil
          PROVE  G[s] # G[u]
      BY <2>0, <2>2 DEF LinksOnce
    <2>3. ASSUME NEW s \in Sig, NEW n \in SigNode, HeadInUse("free", sig, s),
                 Linked("free", nx, M, n), G[s] # SigNil
          PROVE  G[s] # M[n].next
      BY <2>0, <2>1, <2>3 DEF LinksOnce
    <2>4. ASSUME NEW n \in SigNode, NEW m \in SigNode, Linked("free", nx, M, n),
                 Linked("free", nx, M, m), n # m, M[n].next # SigNil
          PROVE  M[n].next # M[m].next
      BY <2>0, <2>1, <2>4 DEF LinksOnce
    <2> QED
      BY <2>2, <2>3, <2>4 DEF LinksOnce
  <1>9. AtRight("free", nx, sig, G, M)
    <2>1. NilOrLinked("free", at, N, nx) /\ nx # at
      BY <1>2, <1>6 DEF ListInv, LinksLive
    <2>2. ASSUME nx # SigNil, NEW s \in Sig, HeadInUse("free", sig, s) PROVE nx # G[s]
      BY <1>2, <2>2 DEF ListInv, LinksOnce
    <2>3. ASSUME nx # SigNil, NEW n \in SigNode, Linked("free", nx, M, n) PROVE nx # M[n].next
      <3>1. Linked("free", at, N, n) /\ n # at /\ M[n].next = N[n].next
        BY <1>3, <1>4, <2>3
      <3> QED
        BY <1>2, <2>3, <3>1 DEF ListInv, LinksOnce
    <2>4. sig \in Sig
      BY DEF ListInv, AtRight
    <2>5. NilOrLinked("free", nx, M, nx)
      BY <1>3, <2>1 DEF NilOrLinked
    <2> QED
      BY <2>2, <2>3, <2>4, <2>5 DEF AtRight
  <1> QED
    BY <1>1, <1>7, <1>8, <1>9 DEF ListInv

\* Fini starts with the list of a signal.
LEMMA FiniStart ==
  ASSUME NEW at, NEW sig, NEW G, NEW N, ListInv("fini", at, sig, G, N), NEW s \in Sig
  PROVE  ListInv("free", G[s], s, G, N)
  BY DEF ListInv, LinksLive, LinksOnce, AtRight, NilOrLinked, Linked, HeadInUse

\* Fini clears the head of the list that it has freed.
LEMMA FiniClears ==
  ASSUME NEW sig, NEW G, NEW N, ListInv("free", SigNil, sig, G, N),
         NEW H, H = [G EXCEPT ![sig] = SigNil]
  PROVE  ListInv("fini", SigNil, SigNil, H, N)
  <1>1. H \in HeadTable /\ H[sig] = SigNil /\ \A s \in Sig \ {sig} : H[s] = G[s]
    BY DEF ListInv, AtRight, HeadTable
  <1>2. \A n : Linked("fini", SigNil, N, n) <=> Linked("free", SigNil, N, n)
    BY DEF Linked
  <1>3. \A s \in Sig : H[s] # SigNil => HeadInUse("free", sig, s) /\ H[s] = G[s]
    BY <1>1 DEF HeadInUse
  <1>4. LinksLive("fini", SigNil, SigNil, H, N)
    BY <1>2, <1>3 DEF ListInv, LinksLive, NilOrLinked
  <1>5. LinksOnce("fini", SigNil, SigNil, H, N)
    BY <1>2, <1>3 DEF ListInv, LinksOnce
  <1> QED
    BY <1>1, <1>4, <1>5 DEF ListInv, AtRight

\* Between operations the program counter says nothing of the lists.
LEMMA Idles ==
  ASSUME NEW pc \in {"idle", "init", "fini", "find"}, NEW at, NEW sig, NEW G, NEW N,
         ListInv(pc, at, sig, G, N), NEW qc \in {"idle", "init", "fini"}, NEW bt, NEW sih
  PROVE  ListInv(qc, bt, sih, G, N)
  <1>1. /\ \A n : Linked(qc, bt, N, n) <=> Linked(pc, at, N, n)
        /\ \A s : HeadInUse(pc, sig, s) /\ HeadInUse(qc, sih, s)
    BY DEF Linked, HeadInUse
  <1>2. LinksLive(qc, bt, sih, G, N)
    BY <1>1 DEF ListInv, LinksLive, NilOrLinked
  <1>3. LinksOnce(qc, bt, sih, G, N)
    BY <1>1 DEF ListInv, LinksOnce
  <1> QED
    BY <1>2, <1>3 DEF ListInv, AtRight

\* A new node points to the head, and nothing points to it.
LEMMA RegisterStart ==
  ASSUME NEW at, NEW sig, NEW G, NEW N, ListInv("idle", at, sig, G, N),
         NEW n \in SigNode, N[n] = SigFreed, NEW s \in Sig, NEW x \in Handler,
         NEW M, M = [N EXCEPT ![n] = [h |-> x, next |-> G[s]]]
  PROVE  ListInv("reg", n, s, G, M)
  <1>1. [h |-> x, next |-> G[s]] \in NodeRec
    BY DEF ListInv, HeadTable, NodeRec
  <1>2. /\ M \in NodeTable /\ M[n] = [h |-> x, next |-> G[s]] /\ M[n] # SigFreed
        /\ \A q \in SigNode \ {n} : M[q] = N[q]
    BY <1>1, SignalAssumption DEF ListInv, NodeTable, NodeRec
  <1>3. \A q : Linked("reg", n, M, q) <=> Linked("idle", at, N, q)
    BY <1>2 DEF Linked
  <1>4. \A q \in SigNode : Linked("idle", at, N, q) => M[q] = N[q]
    BY <1>2 DEF Linked
  <1>5. \A u : HeadInUse("idle", sig, u) /\ HeadInUse("reg", s, u)
    BY DEF HeadInUse
  <1>6. LinksLive("reg", n, s, G, M)
    BY <1>3, <1>4, <1>5 DEF ListInv, LinksLive, NilOrLinked
  <1>7. LinksOnce("reg", n, s, G, M)
    <2>0. LinksOnce("idle", at, sig, G, N)
      BY DEF ListInv
    <2>1. \A q \in SigNode :
            Linked("reg", n, M, q) => Linked("idle", at, N, q) /\ M[q].next = N[q].next
      BY <1>3, <1>4
    <2>2. ASSUME NEW u \in Sig, NEW v \in Sig, u # v, G[u] # SigNil
          PROVE  G[u] # G[v]
      BY <1>5, <2>0, <2>2 DEF LinksOnce
    <2>3. ASSUME NEW u \in Sig, NEW q \in SigNode, Linked("reg", n, M, q), G[u] # SigNil
          PROVE  G[u] # M[q].next
      BY <1>5, <2>0, <2>1, <2>3 DEF LinksOnce
    <2>4. ASSUME NEW q \in SigNode, NEW m \in SigNode, Linked("reg", n, M, q),
                 Linked("reg", n, M, m), q # m, M[q].next # SigNil
          PROVE  M[q].next # M[m].next
      BY <2>0, <2>1, <2>4 DEF LinksOnce
    <2> QED
      BY <2>2, <2>3, <2>4 DEF LinksOnce
  <1>8. AtRight("reg", n, s, G, M)
    BY <1>2 DEF AtRight
  <1> QED
    BY <1>2, <1>6, <1>7, <1>8 DEF ListInv

\* The head then points to the new node.
LEMMA RegisterEnd ==
  ASSUME NEW at, NEW sig, NEW G, NEW N, ListInv("reg", at, sig, G, N),
         NEW H, H = [G EXCEPT ![sig] = at]
  PROVE  ListInv("idle", SigNil, SigNil, H, N)
  <1>1. /\ sig \in Sig /\ at \in SigNode /\ N[at] # SigFreed /\ N[at].next = G[sig]
    BY DEF ListInv, AtRight
  <1>2. H \in HeadTable /\ H[sig] = at /\ \A s \in Sig \ {sig} : H[s] = G[s]
    BY <1>1 DEF ListInv, HeadTable
  <1>3. \A n : Linked("idle", SigNil, N, n) <=> Linked("reg", at, N, n) \/ n = at
    BY <1>1 DEF Linked
  <1>4. ~Linked("reg", at, N, at) /\ at # SigNil
    BY <1>1, SignalAssumption DEF Linked
  <1>5. \A s : HeadInUse("idle", SigNil, s) /\ HeadInUse("reg", sig, s)
    BY DEF HeadInUse
  <1>6. \A s \in Sig : NilOrLinked("reg", at, N, G[s])
    BY <1>5 DEF ListInv, LinksLive
  <1>7. \A n \in SigNode : Linked("reg", at, N, n) => NilOrLinked("reg", at, N, N[n].next)
    BY DEF ListInv, LinksLive
  <1>8. LinksLive("idle", SigNil, SigNil, H, N)
    BY <1>1, <1>2, <1>3, <1>6, <1>7 DEF LinksLive, NilOrLinked
  <1>9. LinksOnce("idle", SigNil, SigNil, H, N)
    <2>1. \A s, u \in Sig : s # u /\ H[s] # SigNil => H[s] # H[u]
      BY <1>2, <1>4, <1>5, <1>6 DEF ListInv, LinksOnce, NilOrLinked
    <2>2. \A s \in Sig, n \in SigNode :
            Linked("idle", SigNil, N, n) /\ H[s] # SigNil => H[s] # N[n].next
      BY <1>1, <1>2, <1>3, <1>4, <1>5, <1>6, <1>7 DEF ListInv, LinksOnce, NilOrLinked
    <2>3. \A n, m \in SigNode :
            Linked("idle", SigNil, N, n) /\ Linked("idle", SigNil, N, m) /\ n # m /\ N[n].next # SigNil
              => N[n].next # N[m].next
      BY <1>1, <1>3, <1>5 DEF ListInv, LinksOnce
    <2> QED
      BY <2>1, <2>2, <2>3 DEF LinksOnce
  <1> QED
    BY <1>2, <1>8, <1>9 DEF ListInv, AtRight

\* The search starts at the head and goes from node to node.
LEMMA FindStep ==
  ASSUME NEW pc \in {"idle", "find"}, NEW at, NEW sig, NEW G, NEW N, ListInv(pc, at, sig, G, N),
         NEW s \in Sig, NEW bt, NilOrLinked(pc, at, N, bt)
  PROVE  ListInv("find", bt, s, G, N)
  <1>1. /\ \A n : Linked("find", bt, N, n) <=> Linked(pc, at, N, n)
        /\ \A u : HeadInUse(pc, sig, u) /\ HeadInUse("find", s, u)
    BY DEF Linked, HeadInUse
  <1>2. LinksLive("find", bt, s, G, N)
    BY <1>1 DEF ListInv, LinksLive, NilOrLinked
  <1>3. LinksOnce("find", bt, s, G, N)
    BY <1>1 DEF ListInv, LinksOnce
  <1> QED
    BY <1>1, <1>2, <1>3 DEF ListInv, AtRight, NilOrLinked

\* The head lets go of its node.
LEMMA UnlinkHead ==
  ASSUME NEW at, NEW sig, NEW G, NEW N, ListInv("find", at, sig, G, N),
         NEW n, n = G[sig], n # SigNil, NEW H, H = [G EXCEPT ![sig] = N[n].next]
  PROVE  ListInv("unreg", n, SigNil, H, N)
  <1>0. \A u : HeadInUse("find", sig, u) /\ HeadInUse("unreg", SigNil, u)
    BY DEF HeadInUse
  <1>1. /\ sig \in Sig /\ Linked("find", at, N, n) /\ n \in SigNode /\ N[n] # SigFreed
        /\ N[n].next \in SigNode \union {SigNil}
    BY <1>0 DEF ListInv, AtRight, LinksLive, NilOrLinked, Linked, NodeTable, NodeRec
  <1>2. /\ H \in HeadTable /\ H[sig] = N[n].next /\ \A s \in Sig \ {sig} : H[s] = G[s]
    BY <1>1 DEF ListInv, HeadTable
  <1>3. \A q : Linked("unreg", n, N, q) <=> Linked("find", at, N, q) /\ q # n
    BY DEF Linked
  <1>4. /\ \A s, u \in Sig : s # u /\ G[s] # SigNil => G[s] # G[u]
        /\ \A s \in Sig, q \in SigNode : Linked("find", at, N, q) /\ G[s] # SigNil => G[s] # N[q].next
        /\ \A q, m \in SigNode : Linked("find", at, N, q) /\ Linked("find", at, N, m) /\ q # m
                                 /\ N[q].next # SigNil => N[q].next # N[m].next
    BY <1>0 DEF ListInv, LinksOnce
  <1>5. /\ \A s \in Sig : NilOrLinked("find", at, N, G[s])
        /\ \A q \in SigNode : Linked("find", at, N, q) => NilOrLinked("find", at, N, N[q].next)
    BY <1>0 DEF ListInv, LinksLive
  <1>6. LinksLive("unreg", n, SigNil, H, N)
    BY <1>1, <1>2, <1>3, <1>4, <1>5 DEF LinksLive, NilOrLinked
  <1>7. LinksOnce("unreg", n, SigNil, H, N)
    BY <1>1, <1>2, <1>3, <1>4 DEF LinksOnce
  <1> QED
    BY <1>1, <1>2, <1>6, <1>7 DEF ListInv, AtRight

\* A link lets go of the node behind it.
LEMMA UnlinkBehind ==
  ASSUME NEW at \in SigNode, NEW sig, NEW G, NEW N, ListInv("find", at, sig, G, N),
         NEW n, n = N[at].next, n # SigNil, NEW nx, nx = N[n].next,
         NEW M, M = [N EXCEPT ![at].next = nx]
  PROVE  ListInv("unreg", n, SigNil, G, M)
  <1>0. \A u : HeadInUse("find", sig, u) /\ HeadInUse("unreg", SigNil, u)
    BY DEF HeadInUse
  <1>1. Linked("find", at, N, at) /\ Linked("find", at, N, n)
    BY SignalAssumption DEF ListInv, AtRight, LinksLive, NilOrLinked
  <1>2. /\ n \in SigNode /\ N[at] \in NodeRec /\ N[n] \in NodeRec
        /\ nx \in SigNode \union {SigNil}
    BY <1>1 DEF ListInv, Linked, NodeTable, NodeRec
  <1>3. PICK r : r = [N[at] EXCEPT !.next = nx]
    OBVIOUS
  <1>4. r \in NodeRec /\ r.next = nx /\ r # SigFreed
    BY <1>2, <1>3, SignalAssumption DEF NodeRec
  <1>5. M = [N EXCEPT ![at] = r]
    BY <1>3
  <1>6. M \in NodeTable /\ M[at] = r /\ \A q \in SigNode \ {at} : M[q] = N[q]
    BY <1>4, <1>5 DEF ListInv, NodeTable
  <1>7. \A q : Linked("unreg", n, M, q) <=> Linked("find", at, N, q) /\ q # n
    BY <1>1, <1>4, <1>6 DEF Linked
  <1>8. /\ \A s, u \in Sig : s # u /\ G[s] # SigNil => G[s] # G[u]
        /\ \A s \in Sig, q \in SigNode : Linked("find", at, N, q) /\ G[s] # SigNil => G[s] # N[q].next
        /\ \A q, m \in SigNode : Linked("find", at, N, q) /\ Linked("find", at, N, m) /\ q # m
                                 /\ N[q].next # SigNil => N[q].next # N[m].next
    BY <1>0 DEF ListInv, LinksOnce
  <1>9. /\ \A s \in Sig : NilOrLinked("find", at, N, G[s])
        /\ \A q \in SigNode : Linked("find", at, N, q) => NilOrLinked("find", at, N, N[q].next)
    BY <1>0 DEF ListInv, LinksLive
  <1>10. LinksLive("unreg", n, SigNil, G, M)
    <2>1. ASSUME NEW s \in Sig PROVE NilOrLinked("unreg", n, M, G[s])
      BY <1>1, <1>7, <1>8, <1>9 DEF NilOrLinked
    <2>2. ASSUME NEW q \in SigNode, Linked("unreg", n, M, q)
          PROVE  NilOrLinked("unreg", n, M, M[q].next)
      <3>1. CASE q = at
        <4>1. at # n
          BY <1>7, <2>2, <3>1
        <4>2. nx # SigNil => nx # n
          BY <1>1, <1>2, <1>8, <4>1
        <4> QED
          BY <1>1, <1>2, <1>4, <1>6, <1>7, <1>9, <3>1, <4>2 DEF NilOrLinked
      <3>2. CASE q # at
        <4>1. M[q] = N[q] /\ Linked("find", at, N, q)
          BY <1>6, <1>7, <2>2, <3>2
        <4>2. N[q].next # n
          BY <1>1, <1>8, <3>2, <4>1
        <4> QED
          BY <1>7, <1>9, <4>1, <4>2 DEF NilOrLinked
      <3> QED
        BY <3>1, <3>2
    <2> QED
      BY <2>1, <2>2 DEF LinksLive
  <1>11. LinksOnce("unreg", n, SigNil, G, M)
    <2>1. ASSUME NEW s \in Sig, NEW q \in SigNode, Linked("unreg", n, M, q), G[s] # SigNil
          PROVE  G[s] # M[q].next
      <3>1. Linked("find", at, N, q)
        BY <1>7, <2>1
      <3>2. CASE q = at
        <4>1. M[q].next = N[n].next
          BY <1>4, <1>6, <3>2
        <4> QED
          BY <1>1, <1>2, <1>8, <2>1, <4>1
      <3>3. CASE q # at
        <4>1. M[q].next = N[q].next
          BY <1>6, <3>3
        <4> QED
          BY <1>8, <2>1, <3>1, <4>1
      <3> QED
        BY <3>2, <3>3
    <2>2. ASSUME NEW q \in SigNode, NEW m \in SigNode, Linked("unreg", n, M, q),
                 Linked("unreg", n, M, m), q # m, M[q].next # SigNil
          PROVE  M[q].next # M[m].next
      <3>1. Linked("find", at, N, q) /\ Linked("find", at, N, m) /\ q # n /\ m # n
        BY <1>7, <2>2
      <3>2. CASE q = at
        BY <1>1, <1>2, <1>4, <1>6, <1>8, <2>2, <3>1, <3>2
      <3>3. CASE m = at
        BY <1>1, <1>2, <1>4, <1>6, <1>8, <2>2, <3>1, <3>3
      <3>4. CASE q # at /\ m # at
        BY <1>6, <1>8, <2>2, <3>1, <3>4
      <3> QED
        BY <3>2, <3>3, <3>4
    <2> QED
      BY <1>8, <2>1, <2>2 DEF LinksOnce
  <1> QED
    BY <1>2, <1>6, <1>10, <1>11 DEF ListInv, AtRight

\* The node that was let go is freed.
LEMMA FreeUnlinked ==
  ASSUME NEW at, NEW sig, NEW G, NEW N, ListInv("unreg", at, sig, G, N),
         NEW M, M = [N EXCEPT ![at] = SigFreed]
  PROVE  ListInv("idle", SigNil, SigNil, G, M)
  <1>0. \A u : HeadInUse("unreg", sig, u) /\ HeadInUse("idle", SigNil, u)
    BY DEF HeadInUse
  <1>1. at \in SigNode
    BY DEF ListInv, AtRight
  <1>2. M \in NodeTable /\ M[at] = SigFreed /\ \A n \in SigNode \ {at} : M[n] = N[n]
    BY <1>1 DEF ListInv, NodeTable
  <1>3. \A n : Linked("idle", SigNil, M, n) <=> Linked("unreg", at, N, n)
    BY <1>2 DEF Linked
  <1>4. \A n \in SigNode : Linked("unreg", at, N, n) => M[n] = N[n]
    BY <1>2 DEF Linked
  <1>5. LinksLive("idle", SigNil, SigNil, G, M)
    BY <1>0, <1>3, <1>4 DEF ListInv, LinksLive, NilOrLinked
  <1>6. LinksOnce("idle", SigNil, SigNil, G, M)
    <2>1. LinksOnce("unreg", at, sig, G, N)
      BY DEF ListInv
    <2>2. \A n \in SigNode :
            Linked("idle", SigNil, M, n) => Linked("unreg", at, N, n) /\ M[n].next = N[n].next
      BY <1>3, <1>4
    <2>3. ASSUME NEW s \in Sig, NEW u \in Sig, s # u, G[s] # SigNil
          PROVE  G[s] # G[u]
      BY <1>0, <2>1, <2>3 DEF LinksOnce
    <2>4. ASSUME NEW s \in Sig, NEW n \in SigNode, Linked("idle", SigNil, M, n), G[s] # SigNil
          PROVE  G[s] # M[n].next
      BY <1>0, <2>1, <2>2, <2>4 DEF LinksOnce
    <2>5. ASSUME NEW n \in SigNode, NEW m \in SigNode, Linked("idle", SigNil, M, n),
                 Linked("idle", SigNil, M, m), n # m, M[n].next # SigNil
          PROVE  M[n].next # M[m].next
      BY <2>1, <2>2, <2>5 DEF LinksOnce
    <2> QED
      BY <2>3, <2>4, <2>5 DEF LinksOnce
  <1> QED
    BY <1>2, <1>5, <1>6 DEF ListInv, AtRight

\* What is installed, and what fini will put back.
DispRight(T, D, O, S, on) ==
  /\ \A s \in Sig : D[s] \in {"ours", O[s]} /\ (D[s] = "ours" => S[s] = O[s])
  /\ on => \A s \in Sig : S[s] = O[s]
  /\ T.pc = "init" => ~on /\ \A s \in Sig : IF s \in T.todo THEN D[s] = O[s] ELSE S[s] = O[s]
  /\ T.pc \in {"fini", "free"} => on /\ \A s \in Sig \ T.todo : D[s] = O[s]
  /\ T.pc = "free" => T.sig \notin T.todo
  /\ T.pc \notin {"init", "fini", "free"} /\ ~on => \A s \in Sig : D[s] = O[s]

SigType(one) ==
  /\ original \in [Sig -> Disposition] /\ saved \in [Sig -> Disposition]
  /\ disposition \in [Sig -> Disposition \union {"ours"}] /\ g_signal_initialized \in BOOLEAN
  /\ sigTh \in [{one} -> SigRec] /\ sigWalk \in [{one} -> WalkRec]
SigLists(one) == ListInv(sigTh[one].pc, sigTh[one].at, sigTh[one].sig, g_user_handlers, sigNode)
SigDisp(one) == DispRight(sigTh[one], disposition, original, saved, g_signal_initialized)
\* An interrupting handler is at a node of a list, or at its end.
SigAtNode(one) ==
  sigWalk[one].pc = "walk" =>
    sigWalk[one].sig \in Sig /\ NilOrLinked(sigTh[one].pc, sigTh[one].at, sigNode, sigWalk[one].at)
SigInv(one) ==
  /\ SigType(one) /\ SigLists(one) /\ SigDisp(one) /\ SigAtNode(one)
  /\ sigDead \notin {"freed node", "endless chain"}

LEMMA SigStart == ASSUME NEW one, SigThread = {one}, SigInit PROVE SigInv(one)
  <1>1. SigIdle \in SigRec /\ NoWalk \in WalkRec
    BY DEF SigIdle, NoWalk, SigRec, WalkRec
  <1>2. sigTh[one] = SigIdle /\ sigWalk[one] = NoWalk /\ SigIdle.pc = "idle" /\ NoWalk.pc = "none"
    BY DEF SigInit, SigIdle, NoWalk
  <1>3. SigType(one)
    BY <1>1 DEF SigInit, SigType, Disposition
  <1>4. SigLists(one)
    <2>1. g_user_handlers \in HeadTable /\ sigNode \in NodeTable
      BY DEF SigInit, HeadTable, NodeTable
    <2>2. /\ \A s \in Sig : g_user_handlers[s] = SigNil
          /\ \A n \in SigNode : ~Linked("idle", sigTh[one].at, sigNode, n)
      BY DEF SigInit, Linked
    <2>3. LinksLive("idle", sigTh[one].at, sigTh[one].sig, g_user_handlers, sigNode)
      BY <2>2 DEF LinksLive, NilOrLinked
    <2>4. LinksOnce("idle", sigTh[one].at, sigTh[one].sig, g_user_handlers, sigNode)
      BY <2>2 DEF LinksOnce
    <2> QED
      BY <1>2, <2>1, <2>3, <2>4 DEF SigLists, ListInv, AtRight
  <1>5. SigDisp(one)
    BY <1>2 DEF SigInit, SigDisp, DispRight, Disposition
  <1> QED
    BY <1>2, <1>3, <1>4, <1>5 DEF SigInit, SigInv, SigAtNode

\* A step of the thread itself: no handler runs before or after it.
LEMMA SigOwnStep ==
  ASSUME NEW one, SigInv(one), CanRun(one), UNCHANGED <<original, sigWalk, sigDead>>,
         NEW T \in SigRec, sigTh' = [sigTh EXCEPT ![one] = T],
         saved' \in [Sig -> Disposition], disposition' \in [Sig -> Disposition \union {"ours"}],
         g_signal_initialized' \in BOOLEAN,
         ListInv(T.pc, T.at, T.sig, g_user_handlers', sigNode'),
         DispRight(T, disposition', original, saved', g_signal_initialized')
  PROVE  SigInv(one)'
  <1>1. sigTh' \in [{one} -> SigRec] /\ sigTh'[one] = T
    BY DEF SigInv, SigType
  <1>2. SigType(one)'
    BY <1>1 DEF SigInv, SigType
  <1>3. SigLists(one)'
    BY <1>1 DEF SigLists
  <1>4. SigDisp(one)'
    BY <1>1 DEF SigDisp
  <1>5. SigAtNode(one)'
    BY DEF CanRun, SigAtNode
  <1> QED
    BY <1>2, <1>3, <1>4, <1>5 DEF SigInv

\* Init and fini begin and end, and go from signal to signal.
LEMMA SigPhases ==
  ASSUME NEW one, SigInv(one),
         InitBegin(one) \/ InitOne(one) \/ InitEnd(one) \/ FiniBegin(one) \/ FiniEnd(one)
  PROVE  SigInv(one)'
  <1>0. /\ sigTh \in [{one} -> SigRec] /\ sigTh[one] \in SigRec
        /\ DispRight(sigTh[one], disposition, original, saved, g_signal_initialized)
        /\ ListInv(sigTh[one].pc, sigTh[one].at, sigTh[one].sig, g_user_handlers, sigNode)
        /\ saved \in [Sig -> Disposition] /\ disposition \in [Sig -> Disposition \union {"ours"}]
        /\ g_signal_initialized \in BOOLEAN /\ original \in [Sig -> Disposition]
    BY DEF SigInv, SigType, SigDisp, SigLists
  <1>i. SigIdle \in SigRec /\ SigIdle.pc = "idle"
    BY DEF SigIdle, SigRec
  <1>1. ASSUME NEW p \in {"init", "fini"}, sigTh[one].pc = "idle", CanRun(one),
               g_signal_initialized = (p = "fini"),
               sigTh' = [sigTh EXCEPT ![one] = [SigIdle EXCEPT !.pc = p, !.todo = Sig]],
               UNCHANGED <<disposition, original, saved, g_user_handlers, sigNode,
                           g_signal_initialized, sigWalk, sigDead>>
        PROVE  SigInv(one)'
    <2>1. PICK T : T = [SigIdle EXCEPT !.pc = p, !.todo = Sig]
      OBVIOUS
    <2>2. T \in SigRec /\ T.pc = p /\ T.todo = Sig
      BY <2>1 DEF SigIdle, SigRec
    <2>3. ListInv(T.pc, T.at, T.sig, g_user_handlers, sigNode)
      BY <1>0, <1>1, <2>2, Idles
    <2>4. DispRight(T, disposition, original, saved, g_signal_initialized)
      BY <1>0, <1>1, <2>2 DEF DispRight
    <2> QED
      BY <1>0, <1>1, <2>1, <2>2, <2>3, <2>4, SigOwnStep
  <1>2. ASSUME sigTh[one].pc \in {"init", "fini"}, sigTh[one].todo = {}, CanRun(one),
               g_signal_initialized' = (sigTh[one].pc = "init"),
               sigTh' = [sigTh EXCEPT ![one] = SigIdle],
               UNCHANGED <<disposition, original, saved, g_user_handlers, sigNode, sigWalk, sigDead>>
        PROVE  SigInv(one)'
    <2>1. ListInv(SigIdle.pc, SigIdle.at, SigIdle.sig, g_user_handlers, sigNode)
      BY <1>0, <1>i, <1>2, Idles
    <2>2. DispRight(SigIdle, disposition, original, saved, g_signal_initialized')
      BY <1>0, <1>i, <1>2 DEF DispRight
    <2>3. g_signal_initialized' \in BOOLEAN
      BY <1>2
    <2> QED
      BY <1>0, <1>i, <1>2, <2>1, <2>2, <2>3, SigOwnStep
  <1>3. CASE InitBegin(one)
    BY <1>0, <1>1, <1>3 DEF InitBegin, InitDue
  <1>4. CASE FiniBegin(one)
    BY <1>0, <1>1, <1>4 DEF FiniBegin
  <1>5. CASE InitEnd(one)
    BY <1>2, <1>5 DEF InitEnd
  <1>6. CASE FiniEnd(one)
    BY <1>2, <1>6 DEF FiniEnd
  <1>7. CASE InitOne(one)
    <2>1. PICK s \in sigTh[one].todo, ok \in BOOLEAN :
            /\ saved' = [saved EXCEPT ![s] = disposition[s]]
            /\ disposition' = [disposition EXCEPT ![s] = IF ok THEN "ours" ELSE @]
            /\ sigTh' = [sigTh EXCEPT ![one].todo = @ \ {s}]
      BY <1>7 DEF InitOne
    <2>2. PICK T : T = [sigTh[one] EXCEPT !.todo = sigTh[one].todo \ {s}]
      OBVIOUS
    <2>3. /\ T \in SigRec /\ T.pc = "init" /\ T.todo = sigTh[one].todo \ {s} /\ s \in Sig
          /\ sigTh[one].pc = "init" /\ T.at = sigTh[one].at /\ T.sig = sigTh[one].sig
      BY <1>0, <1>7, <2>2 DEF SigRec, InitOne
    <2>4. sigTh' = [sigTh EXCEPT ![one] = T]
      BY <1>0, <2>1, <2>2
    <2>5. disposition[s] = original[s] /\ original[s] \in Disposition
      BY <1>0, <2>3 DEF DispRight
    <2>6. /\ saved' \in [Sig -> Disposition] /\ saved'[s] = original[s]
          /\ \A u \in Sig \ {s} : saved'[u] = saved[u]
      BY <1>0, <2>1, <2>3, <2>5
    <2>7. /\ disposition' \in [Sig -> Disposition \union {"ours"}] /\ disposition'[s] \in {"ours", original[s]}
          /\ \A u \in Sig \ {s} : disposition'[u] = disposition[u]
      BY <1>0, <2>1, <2>3, <2>5
    <2>8. DispRight(T, disposition', original, saved', g_signal_initialized)
      BY <1>0, <2>3, <2>6, <2>7 DEF DispRight
    <2> QED
      BY <1>0, <1>7, <2>3, <2>4, <2>6, <2>7, <2>8, SigOwnStep DEF InitOne
  <1> QED
    BY <1>3, <1>4, <1>5, <1>6, <1>7

\* Fini restores a disposition, frees the nodes of the signal and clears its head.
LEMMA SigFini ==
  ASSUME NEW one, SigInv(one), FiniRestore(one) \/ FiniFree(one) \/ FiniClear(one)
  PROVE  SigInv(one)'
  <1>0. /\ sigTh \in [{one} -> SigRec] /\ sigTh[one] \in SigRec
        /\ DispRight(sigTh[one], disposition, original, saved, g_signal_initialized)
        /\ ListInv(sigTh[one].pc, sigTh[one].at, sigTh[one].sig, g_user_handlers, sigNode)
        /\ saved \in [Sig -> Disposition] /\ disposition \in [Sig -> Disposition \union {"ours"}]
        /\ g_signal_initialized \in BOOLEAN /\ original \in [Sig -> Disposition]
    BY DEF SigInv, SigType, SigDisp, SigLists
  <1>1. CASE FiniRestore(one)
    <2>1. PICK s \in sigTh[one].todo :
            /\ disposition' = [disposition EXCEPT ![s] = saved[s]]
            /\ sigTh' = [sigTh EXCEPT ![one] = [SigIdle EXCEPT !.pc = "free",
                         !.todo = sigTh[one].todo \ {s}, !.at = g_user_handlers[s], !.sig = s]]
      BY <1>1 DEF FiniRestore, Restored
    <2>2. PICK T : T = [SigIdle EXCEPT !.pc = "free",
                         !.todo = sigTh[one].todo \ {s}, !.at = g_user_handlers[s], !.sig = s]
      OBVIOUS
    <2>3. s \in Sig /\ sigTh[one].todo \subseteq Sig /\ sigTh[one].pc = "fini"
          /\ g_user_handlers[s] \in SigNode \union {SigNil}
      BY <1>0, <1>1 DEF SigRec, FiniRestore, ListInv, HeadTable
    <2>4. /\ T.pc = "free" /\ T.todo = sigTh[one].todo \ {s} /\ T.at = g_user_handlers[s] /\ T.sig = s
          /\ T \in SigRec
      BY <2>2, <2>3 DEF SigIdle, SigRec
    <2>5. ListInv("free", T.at, T.sig, g_user_handlers, sigNode)
      BY <1>0, <2>3, <2>4, FiniStart
    <2>6. saved[s] = original[s]
      BY <1>0, <2>3 DEF DispRight
    <2>7. /\ disposition' \in [Sig -> Disposition \union {"ours"}] /\ disposition'[s] = original[s]
          /\ \A u \in Sig \ {s} : disposition'[u] = disposition[u]
      BY <1>0, <2>1, <2>3, <2>6
    <2>8. DispRight(T, disposition', original, saved, g_signal_initialized)
      BY <1>0, <2>3, <2>4, <2>7 DEF DispRight
    <2> QED
      BY <1>0, <1>1, <2>1, <2>2, <2>4, <2>5, <2>7, <2>8, SigOwnStep DEF FiniRestore
  <1>2. CASE FiniFree(one)
    <2>1. /\ sigTh[one].pc = "free" /\ sigTh[one].at # SigNil /\ sigTh[one].at \in SigNode
          /\ sigNode[sigTh[one].at] # SigFreed
      BY <1>0, <1>2 DEF FiniFree, SigRec, ListInv, AtRight, NilOrLinked, Linked
    <2>2. sigNode[sigTh[one].at].next \in SigNode \union {SigNil}
      BY <1>0, <2>1 DEF ListInv, NodeTable, NodeRec
    <2>3. PICK T : T = [sigTh[one] EXCEPT !.at = sigNode[sigTh[one].at].next]
      OBVIOUS
    <2>4. /\ T \in SigRec /\ T.pc = "free" /\ T.at = sigNode[sigTh[one].at].next
          /\ T.sig = sigTh[one].sig /\ T.todo = sigTh[one].todo
      BY <1>0, <2>1, <2>2, <2>3 DEF SigRec
    <2>5. sigTh' = [sigTh EXCEPT ![one] = T]
      BY <1>0, <1>2, <2>1, <2>3 DEF FiniFree
    <2>6. sigNode' = [sigNode EXCEPT ![sigTh[one].at] = SigFreed] /\ g_user_handlers' = g_user_handlers
      BY <1>2 DEF FiniFree
    <2>7. ListInv("free", T.at, T.sig, g_user_handlers, sigNode')
      BY <1>0, <2>1, <2>4, <2>6, FreeStep
    <2>8. DispRight(T, disposition, original, saved, g_signal_initialized)
      BY <1>0, <2>1, <2>4 DEF DispRight
    <2> QED
      BY <1>0, <1>2, <2>4, <2>5, <2>6, <2>7, <2>8, SigOwnStep DEF FiniFree
  <1>3. CASE FiniClear(one)
    <2>1. sigTh[one].pc = "free" /\ sigTh[one].at = SigNil /\ sigTh[one].todo \subseteq Sig
      BY <1>0, <1>3 DEF FiniClear, SigRec
    <2>2. PICK T : T = [SigIdle EXCEPT !.pc = "fini", !.todo = sigTh[one].todo]
      OBVIOUS
    <2>3. /\ T \in SigRec /\ T.pc = "fini" /\ T.todo = sigTh[one].todo /\ T.at = SigNil /\ T.sig = SigNil
      BY <2>1, <2>2 DEF SigIdle, SigRec
    <2>4. g_user_handlers' = [g_user_handlers EXCEPT ![sigTh[one].sig] = SigNil]
      BY <1>3 DEF FiniClear
    <2>5. ListInv("fini", T.at, T.sig, g_user_handlers', sigNode)
      <3>1. ListInv("free", SigNil, sigTh[one].sig, g_user_handlers, sigNode)
        BY <1>0, <2>1
      <3>2. ListInv("fini", SigNil, SigNil, g_user_handlers', sigNode)
        BY <2>4, <3>1, FiniClears
      <3> QED
        BY <2>3, <3>2
    <2>6. DispRight(T, disposition, original, saved, g_signal_initialized)
      BY <1>0, <2>1, <2>3 DEF DispRight
    <2> QED
      BY <1>0, <1>3, <2>2, <2>3, <2>5, <2>6, SigOwnStep DEF FiniClear
  <1> QED
    BY <1>1, <1>2, <1>3

\* A handler is registered, searched for and removed.
LEMMA SigEdits ==
  ASSUME NEW one, SigInv(one),
         \/ \E s \in Sig, h \in Handler : RegisterNode(one, s, h) \/ FindBegin(one, s, h)
         \/ RegisterHead(one) \/ FindNext(one) \/ UnlinkNode(one) \/ FreeNode(one)
  PROVE  SigInv(one)'
  <1>0. /\ sigTh \in [{one} -> SigRec] /\ sigTh[one] \in SigRec
        /\ DispRight(sigTh[one], disposition, original, saved, g_signal_initialized)
        /\ ListInv(sigTh[one].pc, sigTh[one].at, sigTh[one].sig, g_user_handlers, sigNode)
        /\ saved \in [Sig -> Disposition] /\ disposition \in [Sig -> Disposition \union {"ours"}]
        /\ g_signal_initialized \in BOOLEAN
    BY DEF SigInv, SigType, SigDisp, SigLists
  <1>i. SigIdle \in SigRec /\ SigIdle.pc = "idle" /\ SigIdle.at = SigNil /\ SigIdle.sig = SigNil
    BY DEF SigIdle, SigRec
  <1>d. ASSUME NEW T, T.pc \in {"idle", "reg", "find", "unreg"},
               sigTh[one].pc \in {"idle", "reg", "find", "unreg"}
        PROVE  DispRight(T, disposition, original, saved, g_signal_initialized)
    BY <1>0, <1>d DEF DispRight
  <1>1. ASSUME NEW s \in Sig, NEW h \in Handler, RegisterNode(one, s, h) PROVE SigInv(one)'
    <2>1. PICK n \in SigNode :
            /\ sigNode[n] = SigFreed
            /\ sigNode' = [sigNode EXCEPT ![n] = [h |-> h, next |-> g_user_handlers[s]]]
            /\ sigTh' = [sigTh EXCEPT ![one] = [SigIdle EXCEPT !.pc = "reg", !.at = n, !.sig = s]]
      BY <1>1 DEF RegisterNode
    <2>2. PICK T : T = [SigIdle EXCEPT !.pc = "reg", !.at = n, !.sig = s]
      OBVIOUS
    <2>3. T \in SigRec /\ T.pc = "reg" /\ T.at = n /\ T.sig = s
      BY <2>2 DEF SigIdle, SigRec
    <2>4. sigTh[one].pc = "idle"
      BY <1>1 DEF RegisterNode
    <2>5. ListInv("reg", n, s, g_user_handlers, sigNode')
      <3>1. ListInv("idle", sigTh[one].at, sigTh[one].sig, g_user_handlers, sigNode)
        BY <1>0, <2>4
      <3> QED
        BY <2>1, <3>1, RegisterStart
    <2>6. DispRight(T, disposition, original, saved, g_signal_initialized)
      BY <1>d, <2>3, <2>4
    <2> QED
      BY <1>0, <1>1, <2>1, <2>2, <2>3, <2>5, <2>6, SigOwnStep DEF RegisterNode
  <1>2. ASSUME NEW s \in Sig, NEW h \in Handler, FindBegin(one, s, h) PROVE SigInv(one)'
    <2>1. PICK T : T = [SigIdle EXCEPT !.pc = "find", !.sig = s, !.h = h]
      OBVIOUS
    <2>2. T \in SigRec /\ T.pc = "find" /\ T.at = SigNil /\ T.sig = s
      BY <2>1 DEF SigIdle, SigRec
    <2>3. sigTh[one].pc = "idle"
      BY <1>2 DEF FindBegin
    <2>4. ListInv("find", SigNil, s, g_user_handlers, sigNode)
      BY <1>0, <2>3, FindStep DEF NilOrLinked
    <2>5. DispRight(T, disposition, original, saved, g_signal_initialized)
      BY <1>d, <2>2, <2>3
    <2> QED
      BY <1>0, <1>2, <2>1, <2>2, <2>4, <2>5, SigOwnStep DEF FindBegin
  <1>3. CASE RegisterHead(one)
    <2>1. ListInv("idle", SigNil, SigNil, g_user_handlers', sigNode)
      BY <1>0, <1>3, RegisterEnd DEF RegisterHead
    <2>2. DispRight(SigIdle, disposition, original, saved, g_signal_initialized)
      BY <1>d, <1>i, <1>3 DEF RegisterHead
    <2> QED
      BY <1>0, <1>i, <1>3, <2>1, <2>2, SigOwnStep DEF RegisterHead
  <1>4. CASE FreeNode(one)
    <2>1. ListInv("idle", SigNil, SigNil, g_user_handlers, sigNode')
      <3>1. ListInv("unreg", sigTh[one].at, sigTh[one].sig, g_user_handlers, sigNode)
        BY <1>0, <1>4 DEF FreeNode
      <3>2. sigNode' = [sigNode EXCEPT ![sigTh[one].at] = SigFreed]
        BY <1>4 DEF FreeNode
      <3> QED
        BY <3>1, <3>2, FreeUnlinked
    <2>2. DispRight(SigIdle, disposition, original, saved, g_signal_initialized)
      BY <1>d, <1>i, <1>4 DEF FreeNode
    <2> QED
      BY <1>0, <1>i, <1>4, <2>1, <2>2, SigOwnStep DEF FreeNode
  \* What pp points to is the head or the link of a linked node.
  <1>5. ASSUME sigTh[one].pc = "find"
        PROVE  /\ sigTh[one].sig \in Sig
               /\ NilOrLinked("find", sigTh[one].at, sigNode, Pointed(sigTh[one].sig, sigTh[one].at))
               /\ Pointed(sigTh[one].sig, sigTh[one].at) =
                    IF sigTh[one].at = SigNil THEN g_user_handlers[sigTh[one].sig]
                    ELSE sigNode[sigTh[one].at].next
               /\ sigTh[one].at # SigNil => sigTh[one].at \in SigNode
    BY <1>0, <1>5 DEF ListInv, AtRight, LinksLive, NilOrLinked, Linked, HeadInUse, Pointed
  <1>6. CASE FindNext(one)
    <2>0. sigTh[one].pc = "find"
      BY <1>6 DEF FindNext
    <2>1. PICK n : n = Pointed(sigTh[one].sig, sigTh[one].at)
      OBVIOUS
    <2>2. NilOrLinked("find", sigTh[one].at, sigNode, n) /\ sigTh[one].sig \in Sig
      BY <1>5, <2>0, <2>1
    <2>3. CASE ListEnds(n)
      <3>1. ListInv("idle", SigNil, SigNil, g_user_handlers, sigNode)
        BY <1>0, <2>0, Idles
      <3>2. DispRight(SigIdle, disposition, original, saved, g_signal_initialized)
        BY <1>d, <1>i, <2>0
      <3>3. sigTh' = [sigTh EXCEPT ![one] = SigIdle]
        BY <1>6, <2>1, <2>3 DEF FindNext
      <3> QED
        BY <1>0, <1>i, <1>6, <3>1, <3>2, <3>3, SigOwnStep DEF FindNext
    <2>4. CASE ~ListEnds(n)
      <3>1. PICK T : T = [sigTh[one] EXCEPT !.at = n]
        OBVIOUS
      <3>2. n \in SigNode
        BY <2>2, <2>4 DEF ListEnds, NilOrLinked, Linked
      <3>3. T \in SigRec /\ T.pc = "find" /\ T.at = n /\ T.sig = sigTh[one].sig
        BY <1>0, <2>0, <3>1, <3>2 DEF SigRec
      <3>4. sigTh' = [sigTh EXCEPT ![one] = T]
        BY <1>0, <1>6, <2>1, <2>4, <3>1 DEF FindNext
      <3>5. ListInv("find", T.at, T.sig, g_user_handlers, sigNode)
        BY <1>0, <2>0, <2>2, <3>3, FindStep
      <3>6. DispRight(T, disposition, original, saved, g_signal_initialized)
        BY <1>d, <2>0, <3>3
      <3> QED
        BY <1>0, <1>6, <3>3, <3>4, <3>5, <3>6, SigOwnStep DEF FindNext
    <2> QED
      BY <2>3, <2>4
  <1>7. CASE UnlinkNode(one)
    <2>0. sigTh[one].pc = "find"
      BY <1>7 DEF UnlinkNode
    <2>1. PICK n : n = Pointed(sigTh[one].sig, sigTh[one].at)
      OBVIOUS
    <2>2. n # SigNil /\ n \in SigNode
      BY <1>5, <1>7, <2>0, <2>1 DEF UnlinkNode, NodeFound, ListEnds, NilOrLinked, Linked
    <2>3. PICK T : T = [SigIdle EXCEPT !.pc = "unreg", !.at = n]
      OBVIOUS
    <2>4. T \in SigRec /\ T.pc = "unreg" /\ T.at = n /\ T.sig = SigNil
      BY <2>2, <2>3 DEF SigIdle, SigRec
    <2>5. sigTh' = [sigTh EXCEPT ![one] = T]
      BY <1>7, <2>1, <2>3 DEF UnlinkNode
    <2>6. DispRight(T, disposition, original, saved, g_signal_initialized)
      BY <1>d, <2>0, <2>4
    <2>7. CASE sigTh[one].at = SigNil
      <3>1. /\ n = g_user_handlers[sigTh[one].sig] /\ sigNode' = sigNode
            /\ g_user_handlers' = [g_user_handlers EXCEPT ![sigTh[one].sig] = sigNode[n].next]
        BY <1>5, <1>7, <2>0, <2>1, <2>7 DEF UnlinkNode
      <3>2. ListInv("unreg", n, SigNil, g_user_handlers', sigNode)
        BY <1>0, <2>0, <2>2, <3>1, UnlinkHead
      <3> QED
        BY <1>0, <1>7, <2>4, <2>5, <2>6, <3>1, <3>2, SigOwnStep DEF UnlinkNode
    <2>8. CASE sigTh[one].at # SigNil
      <3>1. /\ n = sigNode[sigTh[one].at].next /\ g_user_handlers' = g_user_handlers
            /\ sigNode' = [sigNode EXCEPT ![sigTh[one].at].next = sigNode[n].next]
            /\ sigTh[one].at \in SigNode
        BY <1>5, <1>7, <2>0, <2>1, <2>8 DEF UnlinkNode
      <3>2. ListInv("unreg", n, SigNil, g_user_handlers, sigNode')
        <4>1. ListInv("find", sigTh[one].at, sigTh[one].sig, g_user_handlers, sigNode)
          BY <1>0, <2>0
        <4> QED
          BY <2>2, <3>1, <4>1, UnlinkBehind
      <3> QED
        BY <1>0, <1>7, <2>4, <2>5, <2>6, <3>1, <3>2, SigOwnStep DEF UnlinkNode
    <2> QED
      BY <2>7, <2>8
  <1> QED
    BY <1>1, <1>2, <1>3, <1>4, <1>6, <1>7

\* A signal comes, between any two steps of the thread, and its handler walks the list.
LEMMA SigWalks ==
  ASSUME NEW one, SigInv(one),
         (\E s \in Sig : Deliver(one, s)) \/ CallHandler(one) \/ CallOriginal(one)
  PROVE  SigInv(one)'
  <1>0. /\ sigWalk \in [{one} -> WalkRec] /\ sigWalk[one] \in WalkRec
        /\ SigDisp(one) /\ SigLists(one) /\ SigAtNode(one)
        /\ sigDead \notin {"freed node", "endless chain"}
        /\ saved \in [Sig -> Disposition] /\ original \in [Sig -> Disposition]
    BY DEF SigInv, SigType
  <1>1. UNCHANGED <<disposition, original, saved, g_user_handlers, sigNode, g_signal_initialized, sigTh>>
    BY DEF Deliver, CallHandler, CallOriginal
  <1>2. SigLists(one)' /\ SigDisp(one)'
    BY <1>0, <1>1 DEF SigLists, SigDisp
  <1>3. ASSUME NEW W \in WalkRec, sigWalk' = [sigWalk EXCEPT ![one] = W], sigDead' = sigDead,
               W.pc = "walk" => W.sig \in Sig /\ NilOrLinked(sigTh[one].pc, sigTh[one].at, sigNode, W.at)
        PROVE  SigInv(one)'
    <2>1. sigWalk' \in [{one} -> WalkRec] /\ sigWalk'[one] = W
      BY <1>0, <1>3
    <2>2. SigType(one)'
      BY <1>1, <2>1 DEF SigInv, SigType
    <2>3. SigAtNode(one)'
      BY <1>1, <1>3, <2>1 DEF SigAtNode
    <2> QED
      BY <1>0, <1>2, <1>3, <2>2, <2>3 DEF SigInv
  <1>4. ASSUME sigWalk' = sigWalk, sigDead' \notin {"freed node", "endless chain"} PROVE SigInv(one)'
    <2>1. SigType(one)' /\ SigAtNode(one)'
      BY <1>1, <1>4 DEF SigInv, SigType, SigAtNode
    <2> QED
      BY <1>2, <1>4, <2>1 DEF SigInv
  <1>5. ASSUME NEW s \in Sig, Deliver(one, s) PROVE SigInv(one)'
    <2>1. CASE disposition[s] = "ours"
      <3>1. PICK inCodeCache \in BOOLEAN :
              sigWalk' = [sigWalk EXCEPT ![one] = [pc |-> "walk", sig |-> s, at |-> UserList(s, inCodeCache)]]
        BY <1>5, <2>1 DEF Deliver
      <3>2. HeadInUse(sigTh[one].pc, sigTh[one].sig, s)
        BY <1>0, <2>1 DEF SigDisp, DispRight, HeadInUse, Disposition
      <3>3. NilOrLinked(sigTh[one].pc, sigTh[one].at, sigNode, UserList(s, inCodeCache))
        BY <1>0, <3>2 DEF SigLists, ListInv, LinksLive, UserList, NilOrLinked
      <3>4. [pc |-> "walk", sig |-> s, at |-> UserList(s, inCodeCache)] \in WalkRec
        BY <3>3 DEF WalkRec, NilOrLinked, Linked
      <3>5. sigDead' = sigDead
        BY <1>5, <2>1 DEF Deliver
      <3> QED
        BY <1>3, <3>1, <3>3, <3>4, <3>5
    <2>2. CASE disposition[s] # "ours"
      BY <1>0, <1>4, <1>5, <2>2 DEF Deliver
    <2> QED
      BY <2>1, <2>2
  <1>6. CASE CallHandler(one)
    <2>1. /\ sigWalk[one].pc = "walk" /\ sigWalk[one].at # SigNil /\ sigWalk[one].sig \in Sig
          /\ Linked(sigTh[one].pc, sigTh[one].at, sigNode, sigWalk[one].at)
      BY <1>0, <1>6 DEF CallHandler, SigAtNode, NilOrLinked
    <2>2. sigNode[sigWalk[one].at] # SigFreed /\ sigWalk[one].at \in SigNode
      BY <2>1 DEF Linked
    <2>3. PICK W : W = [sigWalk[one] EXCEPT !.at = sigNode[sigWalk[one].at].next]
      OBVIOUS
    <2>4. NilOrLinked(sigTh[one].pc, sigTh[one].at, sigNode, sigNode[sigWalk[one].at].next)
      BY <1>0, <2>1, <2>2 DEF SigLists, ListInv, LinksLive
    <2>5. sigNode[sigWalk[one].at].next \in SigNode \union {SigNil}
      BY <2>4 DEF NilOrLinked, Linked
    <2>6. W \in WalkRec /\ W.sig = sigWalk[one].sig /\ W.at = sigNode[sigWalk[one].at].next
      BY <1>0, <2>3, <2>5 DEF WalkRec
    <2>7. sigWalk' = [sigWalk EXCEPT ![one] = W] /\ sigDead' = sigDead
      BY <1>0, <1>6, <2>2, <2>3 DEF CallHandler
    <2> QED
      BY <1>3, <2>1, <2>4, <2>6, <2>7
  <1>7. CASE CallOriginal(one)
    <2>1. sigWalk[one].sig \in Sig
      BY <1>0, <1>7 DEF CallOriginal, SigAtNode
    <2>2. saved[sigWalk[one].sig] \in {"default", "ignore", "function"}
      BY <1>0, <2>1 DEF Disposition
    <2>3. NoWalk \in WalkRec /\ NoWalk.pc # "walk"
      BY DEF NoWalk, WalkRec
    <2>4. CASE saved[sigWalk[one].sig] = "default"
      BY <1>4, <1>7, <2>4 DEF CallOriginal
    <2>5. CASE saved[sigWalk[one].sig] = "ignore"
      BY <1>4, <1>7, <2>5 DEF CallOriginal
    <2>6. CASE saved[sigWalk[one].sig] = "function"
      BY <1>3, <1>7, <2>3, <2>6 DEF CallOriginal
    <2> QED
      BY <2>2, <2>4, <2>5, <2>6
  <1> QED
    BY <1>5, <1>6, <1>7

LEMMA SigStep ==
  ASSUME NEW one, SigThread = {one}, SigInv(one), [SigNext]_sigVars
  PROVE  SigInv(one)'
  <1>1. CASE UNCHANGED sigVars
    BY <1>1 DEF sigVars, SigInv, SigType, SigLists, SigDisp, SigAtNode
  <1>2. CASE SigNext
    BY <1>2, SigPhases, SigFini, SigEdits, SigWalks DEF SigNext
  <1> QED
    BY <1>1, <1>2

\* Wherever a signal interrupts a thread in init, in fini, in a registration or in a
\* removal, the handler reads no freed node and chains to what the process had, and
\* fini gives the process its dispositions back.  The code takes no lock: with two
\* threads it is not so (signal_handler_init, signal_unregister_user_handler).
THEOREM HandlersKept == ASSUME NEW one, SigThread = {one} PROVE SigSpec => []HandlersSafe
  <1>1. SigInit => SigInv(one)
    BY SigStart
  <1>2. SigInv(one) /\ [SigNext]_sigVars => SigInv(one)'
    BY SigStep
  <1>3. SigInv(one) => HandlersSafe
    <2> SUFFICES ASSUME SigInv(one) PROVE HandlersSafe
      OBVIOUS
    <2>1. NoFreedNode
      BY DEF SigInv, NoFreedNode
    <2>2. NoSelfChain
      BY DEF SigInv, NoSelfChain, SigDisp, DispRight
    <2>3. ASSUME sigTh[one].pc \notin {"init", "fini", "free"}, ~g_signal_initialized
          PROVE  disposition = original
      <3>1. \A s \in Sig : disposition[s] = original[s]
        BY <2>3 DEF SigInv, SigDisp, DispRight
      <3> QED
        <4>1. disposition \in [Sig -> Disposition \union {"ours"}] /\ original \in [Sig -> Disposition]
          BY DEF SigInv, SigType
        <4>2. disposition = [s \in Sig |-> disposition[s]] /\ original = [s \in Sig |-> original[s]]
          BY <4>1
        <4> QED
          BY <3>1, <4>2
    <2>4. FiniRestores
      BY <2>3 DEF FiniRestores
    <2> QED
      BY <2>1, <2>2, <2>4 DEF HandlersSafe
  <1> QED
    BY <1>1, <1>2, <1>3, PTL DEF SigSpec

-----------------------------------------------------------------------------
(***************************************************************************)
(* The recorders.  The rings are read through positions modulo their size; *)
(* the invariants say which event of the history lies at each position.    *)
(***************************************************************************)
\* A position at most once around the ring.
LEMMA RingIndex ==
  ASSUME NEW r \in Nat \ {0}, NEW a \in Nat, a < 2 * r
  PROVE  a % r = IF a < r THEN a ELSE a - r
  <1>1. PICK q, m : q = a \div r /\ m = a % r
    OBVIOUS
  <1>2. q \in Int /\ m \in 0..(r - 1) /\ a = r * q + m
    BY <1>1
  <1>3. q <= 1
    <2>1. SUFFICES ASSUME q >= 2 PROVE FALSE
      BY <1>2
    <2>2. r * q >= r * 2
      BY <1>2, <2>1
    <2> QED
      BY <1>2, <2>2
  <1>4. q >= 0
    <2>1. SUFFICES ASSUME q <= 0 - 1 PROVE FALSE
      BY <1>2
    <2>2. r * q <= r * (0 - 1)
      BY <1>2, <2>1
    <2>3. r * (0 - 1) = 0 - r
      OBVIOUS
    <2> QED
      BY <1>2, <2>2, <2>3
  <1>5. q = 0 \/ q = 1
    BY <1>2, <1>3, <1>4
  <1>6. r * 0 = 0 /\ r * 1 = r
    OBVIOUS
  <1> QED
    BY <1>1, <1>2, <1>5, <1>6

\* The ring holds the newest events of the log, from position start_idx on.
RingHolds ==
  /\ start_idx \in 0..(RingMax - 1) /\ profCount \in 0..RingMax
  /\ profCount = IF Len(profLog) < RingMax THEN Len(profLog) ELSE RingMax
  /\ DOMAIN ring = 0..(RingMax - 1)
  /\ \E E : profLog \in Seq(E)
  /\ \A i \in 1..profCount :
       ring[(start_idx + i - 1) % RingMax] = profLog[Len(profLog) - profCount + i]

LEMMA RingInit ==
  ASSUME start_idx = 0, profCount = 0, profLog = <<>>, ring = [i \in 0 .. RingMax - 1 |-> Empty]
  PROVE  RingHolds
  <1>1. profLog \in Seq({})
    OBVIOUS
  <1> QED
    BY <1>1, ProfAssumption DEF RingHolds

\* Recording keeps it, whether the ring has room or the oldest event goes.
LEMMA RingStep ==
  ASSUME RingHolds, NEW type, NEW pc, NEW data, record_event(type, pc, data)
  PROVE  RingHolds'
  <1> USE ProfAssumption
  <1>1. PICK E : profLog \in Seq(E)
    BY DEF RingHolds
  <1>2. PICK e, first, kept, L :
          /\ e = [type |-> type, pc |-> pc, at |-> tick, data |-> data]
          /\ first = (IF profCount >= RingMax THEN FullStart ELSE start_idx)
          /\ kept = (IF profCount >= RingMax THEN profCount - 1 ELSE profCount) /\ L = Len(profLog)
    OBVIOUS
  <1>3. /\ start_idx' = first /\ ring' = [ring EXCEPT ![(first + kept) % RingMax] = e]
        /\ profCount' = kept + 1 /\ profLog' = Append(profLog, e)
    BY <1>2 DEF record_event
  <1>4. /\ start_idx \in 0..(RingMax - 1) /\ profCount \in 0..RingMax /\ L \in Nat
        /\ profCount = IF L < RingMax THEN L ELSE RingMax
        /\ DOMAIN ring = 0..(RingMax - 1)
    BY <1>1, <1>2 DEF RingHolds
  <1>5. /\ profLog \in Seq(E \cup {e}) /\ e \in E \cup {e}
    BY <1>1
  <1>6. /\ profLog' \in Seq(E \cup {e}) /\ Len(profLog') = L + 1 /\ profLog'[L + 1] = e
        /\ \A j \in 1..L : profLog'[j] = profLog[j]
    BY <1>2, <1>3, <1>5, AppendProperties
  <1>61. profCount >= RingMax =>
           first = IF start_idx + 1 < RingMax THEN start_idx + 1 ELSE (start_idx + 1) - RingMax
    <2>1. start_idx + 1 \in Nat /\ start_idx + 1 < 2 * RingMax
      BY <1>4
    <2>2. (start_idx + 1) % RingMax = IF start_idx + 1 < RingMax THEN start_idx + 1
                                      ELSE (start_idx + 1) - RingMax
      BY <2>1, RingIndex
    <2> QED
      BY <1>2, <2>2 DEF FullStart
  <1>7. first \in 0..(RingMax - 1) /\ kept \in 0..(RingMax - 1)
    BY <1>2, <1>4, <1>61
  <1>8. kept + 1 = IF L + 1 < RingMax THEN L + 1 ELSE RingMax
    BY <1>2, <1>4
  <1> DEFINE At(j) == IF first + j < RingMax THEN first + j ELSE (first + j) - RingMax
  <1>9. ASSUME NEW j \in 0..(RingMax - 1) PROVE (first + j) % RingMax = At(j) /\ At(j) \in 0..(RingMax - 1)
    <2>1. first + j \in Nat /\ first + j < 2 * RingMax
      BY <1>7
    <2>2. (first + j) % RingMax = IF first + j < RingMax THEN first + j ELSE (first + j) - RingMax
      BY <2>1, RingIndex
    <2> QED
      BY <1>7, <2>2
  <1>10. ASSUME NEW i \in 1..(kept + 1)
         PROVE  ring'[(first + i - 1) % RingMax] = profLog'[(L + 1) - (kept + 1) + i]
    <2>0. i - 1 \in 0..(RingMax - 1) /\ first + i - 1 = first + (i - 1)
      BY <1>7
    <2>1. /\ (first + i - 1) % RingMax = At(i - 1) /\ At(i - 1) \in 0..(RingMax - 1)
          /\ (first + kept) % RingMax = At(kept)
      BY <1>7, <1>9, <2>0
    <2>2. CASE i = kept + 1
      <3>1. (L + 1) - (kept + 1) + i = L + 1
        BY <1>4, <1>7, <2>2
      <3>2. ring'[At(kept)] = e
        BY <1>3, <1>4, <1>7, <1>9, <2>1
      <3>3. i - 1 = kept
        BY <1>7, <2>2
      <3> QED
        BY <1>6, <2>1, <3>1, <3>2, <3>3
    <2>3. CASE i # kept + 1
      <3>1. i \in 1..kept /\ At(i - 1) # At(kept)
        BY <1>7, <2>3
      <3>2. ring'[At(i - 1)] = ring[At(i - 1)]
        BY <1>3, <1>4, <2>1, <3>1
      <3>3. PICK k : k = IF profCount >= RingMax THEN i + 1 ELSE i
        OBVIOUS
      <3>4. k \in 1..profCount /\ L - profCount + k = (L + 1) - (kept + 1) + i /\ L - profCount + k \in 1..L
        <4>1. /\ k \in Nat
              /\ profCount >= RingMax => k = i + 1 /\ kept = profCount - 1
              /\ ~ (profCount >= RingMax) => k = i /\ kept = profCount
          BY <1>2, <1>4, <3>1, <3>3
        <4>2. profCount <= L /\ i <= kept /\ i >= 1
          BY <1>4, <1>7, <3>1
        <4>3. CASE profCount >= RingMax
          <5>1. k = i + 1 /\ kept = profCount - 1 /\ i \in Nat /\ profCount \in Nat /\ L \in Nat
            BY <1>4, <3>1, <4>1, <4>3
          <5> QED
            BY <4>2, <5>1
        <4>4. CASE ~ (profCount >= RingMax)
          BY <1>4, <1>7, <3>1, <4>1, <4>2, <4>4
        <4> QED
          BY <4>3, <4>4
      <3>5. (start_idx + k - 1) % RingMax = At(i - 1)
        <4>1. start_idx + k - 1 \in Nat /\ start_idx + k - 1 < 2 * RingMax
          BY <1>4, <3>4
        <4>2. (start_idx + k - 1) % RingMax = IF start_idx + k - 1 < RingMax THEN start_idx + k - 1
                                              ELSE (start_idx + k - 1) - RingMax
          BY <4>1, RingIndex
        <4> QED
          BY <1>2, <1>4, <1>61, <1>7, <3>1, <3>3, <4>2
      <3>6. ring[(start_idx + k - 1) % RingMax] = profLog[L - profCount + k]
        BY <1>2, <3>4 DEF RingHolds
      <3>7. profLog'[L - profCount + k] = profLog[L - profCount + k]
        BY <1>6, <3>4
      <3> QED
        BY <2>1, <3>2, <3>4, <3>5, <3>6, <3>7
    <2> QED
      BY <2>2, <2>3
  <1>11. DOMAIN ring' = 0..(RingMax - 1)
    BY <1>3, <1>4
  <1> QED
    BY <1>3, <1>6, <1>7, <1>8, <1>10, <1>11 DEF RingHolds

\* What the export walks is then the end of the log.
LEMMA RingExport == ASSUME RingHolds PROVE RingNewest
  <1> USE ProfAssumption
  <1>1. PICK L, c, w, E : /\ L = Len(profLog) /\ c = profCount /\ w = SubSeq(profLog, L - c + 1, L)
                          /\ profLog \in Seq(E)
    BY DEF RingHolds
  <1>2. L \in Nat /\ c \in 0..RingMax /\ c <= L
    BY <1>1 DEF RingHolds
  <1>3. \A i \in (L - c + 1)..L : profLog[i] \in E
    BY <1>1, <1>2
  <1>4. /\ w \in Seq(E) /\ Len(w) = IF L - c + 1 <= L THEN L - (L - c + 1) + 1 ELSE 0
        /\ \A i \in 1..(L - (L - c + 1) + 1) : w[i] = profLog[(L - c + 1) + i - 1]
    <2>1. PICK a : a = L - c + 1
      OBVIOUS
    <2>2. a \in Int /\ L \in Int
      BY <1>2, <2>1
    <2>3. \A i \in a..L : profLog[i] \in E
      BY <1>3, <2>1
    <2>4. /\ SubSeq(profLog, a, L) \in Seq(E)
          /\ Len(SubSeq(profLog, a, L)) = IF a <= L THEN L - a + 1 ELSE 0
          /\ \A i \in 1..(L - a + 1) : SubSeq(profLog, a, L)[i] = profLog[a + i - 1]
      BY <2>2, <2>3, SubSeqProperties
    <2> QED
      BY <1>1, <2>1, <2>4
  <1>5. Len(w) = c /\ \A i \in 1..c : w[i] = profLog[L - c + i]
    <2>1. L - (L - c + 1) + 1 = c
      BY <1>2
    <2>2. \A i \in 1..c : (L - c + 1) + i - 1 = L - c + i
      BY <1>2
    <2> QED
      BY <1>2, <1>4, <2>1, <2>2
  <1>6. w = [i \in 1..c |-> w[i]]
    BY <1>4, <1>5
  <1>7. \A i \in 1..c : Exported[i] = w[i]
    <2>1. ASSUME NEW i \in 1..c PROVE Exported[i] = w[i]
      <3>1. ring[(start_idx + i - 1) % RingMax] = profLog[L - c + i]
        BY <1>1 DEF RingHolds
      <3> QED
        BY <1>1, <1>5, <3>1 DEF Exported
    <2> QED
      BY <2>1
  <1>8. Exported = w
    BY <1>1, <1>6, <1>7 DEF Exported
  <1> QED
    BY <1>1, <1>8 DEF RingNewest, RingHolds

\* The counters: the longest duration bounds the sum of them, which a wrap
\* only makes smaller.
LEMMA Wrapped ==
  ASSUME NEW W \in Nat \ {0}, NEW x \in Int PROVE x % W \in Nat /\ (x \in Nat => x % W <= x)
  OBVIOUS
LEMMA SumBelow ==
  ASSUME NEW a \in Nat, NEW b \in Nat, NEW c \in Nat, NEW d \in Nat, NEW x \in Nat,
         a <= b * c, x >= b, x >= d
  PROVE  Added(a, d) \in Nat /\ Added(a, d) <= x * (c + 1)
  <1>1. b * c <= x * c
    OBVIOUS
  <1>2. x * (c + 1) = x * c + x
    OBVIOUS
  <1>3. PICK u, v : u = b * c /\ v = x * c
    OBVIOUS
  <1>4. u \in Nat /\ v \in Nat
    BY <1>3
  <1>5. a + d <= v + x /\ a + d \in Nat
    BY <1>1, <1>3, <1>4
  <1>6. PICK W, y : W = TimeWrap /\ y = a + d
    OBVIOUS
  <1>7. y % W \in Nat /\ y % W <= y
    <2>1. W \in Nat \ {0} /\ y \in Int /\ y \in Nat
      BY <1>5, <1>6, ProfAssumption
    <2> QED
      BY <2>1, Wrapped
  <1>8. PICK z : z = y % W
    OBVIOUS
  <1>9. z \in Nat /\ z <= v + x
    BY <1>4, <1>5, <1>6, <1>7, <1>8
  <1>10. Added(a, d) = z
    BY <1>6, <1>8 DEF Added
  <1> QED
    BY <1>2, <1>3, <1>9, <1>10
LEMMA DurationNat == ASSUME NEW from \in Nat, NEW to \in Nat PROVE Duration(from, to) \in Nat
  <1>1. PICK W, y : W = TimeWrap /\ y = to - from
    OBVIOUS
  <1>2. W \in Nat \ {0} /\ y \in Int
    BY <1>1, ProfAssumption
  <1>3. y % W \in Nat
    BY <1>2, Wrapped
  <1> QED
    BY <1>1, <1>3 DEF Duration

TotalsType == [tstart : Nat, tpc : {"none"} \cup ProfPc, ttotal : Nat, tcount : Nat, tmax : Nat, tmin : Nat,
               slowest : {"none"} \cup ProfPc, blocks : Nat, instrs : Nat, hits : Nat, misses : Nat,
               hot : Nat, signals : Nat]
TotalsInv ==
  /\ tick \in Nat /\ totals \in TotalsType
  /\ totals.ttotal <= totals.tmax * totals.tcount

LEMMA TotalsStart ==
  ASSUME tick \in Nat, totals = NoTotals PROVE TotalsInv
  <1>1. totals \in TotalsType
    BY DEF NoTotals, TotalsType
  <1>2. totals.ttotal = 0 /\ totals.tmax = 0 /\ totals.tcount = 0
    BY DEF NoTotals
  <1> QED
    BY <1>1, <1>2 DEF TotalsInv

LEMMA TalliedKeeps ==
  ASSUME TotalsInv, NEW e, e.at = tick, e.pc \in ProfPc, e.data \in Nat, NEW w, w = Tallied(totals, e)
  PROVE  w \in TotalsType /\ w.ttotal <= w.tmax * w.tcount
  <1>1. tick \in Nat /\ totals \in TotalsType /\ totals.ttotal <= totals.tmax * totals.tcount
    BY DEF TotalsInv
  <1>2. CASE e.type = "start"
    <2>1. w = [totals EXCEPT !.tstart = e.at, !.tpc = e.pc]
      BY <1>2 DEF Tallied
    <2>2. w \in TotalsType
      BY <1>1, <2>1 DEF TotalsType
    <2>3. w.ttotal = totals.ttotal /\ w.tmax = totals.tmax /\ w.tcount = totals.tcount
      BY <1>1, <2>1 DEF TotalsType
    <2> QED
      BY <1>1, <2>2, <2>3
  <1>3. CASE e.type = "end" /\ totals.tstart > 0
    <2>1. PICK d : d = Duration(totals.tstart, tick)
      OBVIOUS
    <2>2. d \in Nat /\ totals.tmax \in Nat /\ totals.tcount \in Nat /\ totals.ttotal \in Nat
      <3>1. totals.tstart \in Nat /\ totals.tmax \in Nat /\ totals.tcount \in Nat /\ totals.ttotal \in Nat
        BY <1>1 DEF TotalsType
      <3> QED
        BY <1>1, <2>1, <3>1, DurationNat
    <2>3. PICK x, y, z : /\ x = (IF d > totals.tmax THEN d ELSE totals.tmax)
                         /\ y = (IF d > totals.tmax THEN totals.tpc ELSE totals.slowest)
                         /\ z = (IF d < totals.tmin \/ totals.tmin = 0 THEN d ELSE totals.tmin)
      OBVIOUS
    <2>4. w = [totals EXCEPT !.ttotal = Added(@, d), !.tcount = @ + 1, !.tmax = x, !.slowest = y, !.tmin = z]
      BY <1>3, <2>1, <2>3 DEF Tallied
    <2>5. x \in Nat /\ y \in {"none"} \cup ProfPc /\ z \in Nat /\ x >= d /\ x >= totals.tmax
      BY <1>1, <2>2, <2>3 DEF TotalsType
    <2>5a. PICK y1 : y1 = Added(totals.ttotal, d)
      OBVIOUS
    <2>5b. y1 \in Nat /\ y1 <= x * (totals.tcount + 1)
      <3>1. PICK a, b, c : a = totals.ttotal /\ b = totals.tmax /\ c = totals.tcount
        OBVIOUS
      <3>2. a \in Nat /\ b \in Nat /\ c \in Nat /\ a <= b * c /\ x >= b /\ x \in Nat /\ x >= d /\ d \in Nat
        BY <1>1, <2>2, <2>5, <3>1
      <3>3. Added(a, d) \in Nat /\ Added(a, d) <= x * (c + 1)
        BY <3>2, SumBelow
      <3> QED
        BY <2>5a, <3>1, <3>3
    <2>5c. w = [totals EXCEPT !.ttotal = y1, !.tcount = @ + 1, !.tmax = x, !.slowest = y, !.tmin = z]
      BY <2>4, <2>5a
    <2>6. w \in TotalsType
      <3>1. PICK w1 : w1 = [totals EXCEPT !.ttotal = y1]
        OBVIOUS
      <3>2. w1 \in TotalsType
        BY <1>1, <2>5b, <3>1 DEF TotalsType
      <3>3. PICK w2 : w2 = [w1 EXCEPT !.tcount = @ + 1]
        OBVIOUS
      <3>4. w2 \in TotalsType
        BY <3>2, <3>3 DEF TotalsType
      <3>5. PICK w3 : w3 = [w2 EXCEPT !.tmax = x]
        OBVIOUS
      <3>6. w3 \in TotalsType
        BY <2>5, <3>4, <3>5 DEF TotalsType
      <3>7. PICK w4 : w4 = [w3 EXCEPT !.slowest = y]
        OBVIOUS
      <3>8. w4 \in TotalsType
        BY <2>5, <3>6, <3>7 DEF TotalsType
      <3>9. PICK w5 : w5 = [w4 EXCEPT !.tmin = z]
        OBVIOUS
      <3>10. w5 \in TotalsType
        BY <2>5, <3>8, <3>9 DEF TotalsType
      <3>11. w = w5
        BY <1>1, <2>5c, <3>1, <3>3, <3>5, <3>7, <3>9 DEF TotalsType
      <3> QED
        BY <3>10, <3>11
    <2>7. w.ttotal = y1 /\ w.tmax = x /\ w.tcount = totals.tcount + 1
      BY <1>1, <2>5c DEF TotalsType
    <2> QED
      BY <2>5b, <2>6, <2>7
  <1>4. CASE e.type = "block"
    <2>1. w = [totals EXCEPT !.blocks = @ + 1, !.instrs = @ + e.data]
      BY <1>4 DEF Tallied
    <2>2. w \in TotalsType
      <3>1. PICK w1 : w1 = [totals EXCEPT !.blocks = @ + 1]
        OBVIOUS
      <3>2. w1 \in TotalsType
        BY <1>1, <3>1 DEF TotalsType
      <3>3. PICK w2, n : n = w1.instrs + e.data /\ w2 = [w1 EXCEPT !.instrs = n]
        OBVIOUS
      <3>4. n \in Nat
        BY <3>2, <3>3 DEF TotalsType
      <3>5. w2 \in TotalsType
        BY <3>2, <3>3, <3>4 DEF TotalsType
      <3>6. w = w2
        BY <1>1, <2>1, <3>1, <3>3 DEF TotalsType
      <3> QED
        BY <3>5, <3>6
    <2>3. w.ttotal = totals.ttotal /\ w.tmax = totals.tmax /\ w.tcount = totals.tcount
      BY <1>1, <2>1 DEF TotalsType
    <2> QED
      BY <1>1, <2>2, <2>3
  <1>5. CASE e.type \in {"hit", "miss", "retranslate", "signal"}
    <2>1. \/ w = [totals EXCEPT !.hits = @ + 1] \/ w = [totals EXCEPT !.misses = @ + 1]
          \/ w = [totals EXCEPT !.hot = @ + 1] \/ w = [totals EXCEPT !.signals = @ + 1]
      BY <1>5 DEF Tallied
    <2>2. w \in TotalsType
      BY <1>1, <2>1 DEF TotalsType
    <2>3. w.ttotal = totals.ttotal /\ w.tmax = totals.tmax /\ w.tcount = totals.tcount
      BY <1>1, <2>1 DEF TotalsType
    <2> QED
      BY <1>1, <2>2, <2>3
  <1>6. CASE /\ e.type \notin {"start", "block", "hit", "miss", "retranslate", "signal"}
             /\ ~ (e.type = "end" /\ totals.tstart > 0)
    <2>1. w = totals
      BY <1>6 DEF Tallied
    <2> QED
      BY <1>1, <2>1
  <1> QED
    BY <1>2, <1>3, <1>4, <1>5, <1>6

RegionType == [name : {"none"} \cup RegionName, start : Nat, active : BOOLEAN, total : Nat, calls : Nat, max : Nat]
RegionBelow(r) == r.total <= r.max * r.calls
RegionsInv ==
  /\ tick \in Nat /\ regions \in Seq(RegionType)
  /\ \A i \in 1..Len(regions) : RegionBelow(regions[i])

LEMMA StartRegionKeeps ==
  ASSUME RegionsInv, NEW name \in RegionName, start_region(name) PROVE RegionsInv'
  <1>1. tick' = tick /\ tick \in Nat /\ regions \in Seq(RegionType)
    BY DEF start_region, RegionsInv
  <1>2. CASE Position(name) # {} /\ regions' = [i \in DOMAIN regions |->
               IF i \in Position(name) THEN [regions[i] EXCEPT !.start = tick, !.active = TRUE] ELSE regions[i]]
    <2>1. DOMAIN regions = 1..Len(regions) /\ Len(regions) \in Nat
      BY <1>1
    <2>2. ASSUME NEW i \in 1..Len(regions)
          PROVE  regions'[i] \in RegionType /\ RegionBelow(regions'[i])
      <3>1. PICK r : r = regions[i]
        OBVIOUS
      <3>2. r \in RegionType /\ RegionBelow(r)
        BY <3>1 DEF RegionsInv
      <3>3. PICK q : q = [r EXCEPT !.start = tick, !.active = TRUE]
        OBVIOUS
      <3>4. q \in RegionType /\ q.total = r.total /\ q.max = r.max /\ q.calls = r.calls
        BY <1>1, <3>2, <3>3 DEF RegionType
      <3>5. regions'[i] = q \/ regions'[i] = r
        BY <1>2, <2>1, <3>1, <3>3
      <3> QED
        BY <3>2, <3>4, <3>5 DEF RegionBelow
    <2>3. regions' \in Seq(RegionType) /\ Len(regions') = Len(regions)
      <3>1. PICK n \in Nat : n = Len(regions)
        BY <2>1
      <3>2. DOMAIN regions' = 1..n /\ regions' = [i \in 1..n |-> regions'[i]]
        BY <1>2, <2>1, <3>1
      <3>3. regions' \in [1..n -> RegionType]
        BY <2>2, <3>1, <3>2
      <3>4. regions' \in Seq(RegionType)
        BY <3>3, SeqDef
      <3> QED
        BY <3>1, <3>2, <3>4, LenProperties
    <2> QED
      BY <1>1, <2>2, <2>3 DEF RegionsInv
  <1>3. CASE regions' = Append(regions, [NoRegion EXCEPT !.name = name, !.start = tick, !.active = TRUE])
    <2>1. PICK r : r = [NoRegion EXCEPT !.name = name, !.start = tick, !.active = TRUE]
      OBVIOUS
    <2>2. r \in RegionType /\ r.total = 0 /\ r.max = 0 /\ r.calls = 0
      BY <1>1, <2>1 DEF NoRegion, RegionType
    <2>3. /\ regions' \in Seq(RegionType) /\ Len(regions') = Len(regions) + 1 /\ Len(regions) \in Nat
          /\ \A i \in 1..Len(regions) : regions'[i] = regions[i]
          /\ regions'[Len(regions) + 1] = r
      BY <1>1, <1>3, <2>1, <2>2, AppendProperties
    <2>4. ASSUME NEW i \in 1..Len(regions') PROVE RegionBelow(regions'[i])
      <3>1. CASE i \in 1..Len(regions)
        BY <2>3, <3>1 DEF RegionsInv
      <3>2. CASE i = Len(regions) + 1
        BY <2>2, <2>3, <3>2 DEF RegionBelow
      <3> QED
        BY <2>3, <3>1, <3>2
    <2> QED
      BY <1>1, <2>3, <2>4 DEF RegionsInv
  <1> QED
    BY <1>2, <1>3 DEF start_region

LEMMA EndRegionKeeps ==
  ASSUME RegionsInv, NEW name \in RegionName, end_region(name) PROVE RegionsInv'
  <1>1. tick' = tick /\ tick \in Nat /\ regions \in Seq(RegionType)
    BY DEF end_region, RegionsInv
  <1>2. PICK k \in Position(name) : regions[k].active /\ regions' = [regions EXCEPT ![k] = Ended(regions[k])]
    BY DEF end_region
  <1>3. k \in 1..Len(regions) /\ Len(regions) \in Nat
    BY <1>1 DEF Position
  <1>4. PICK r, d, x : r = regions[k] /\ d = Duration(r.start, tick) /\ x = (IF d > r.max THEN d ELSE r.max)
    OBVIOUS
  <1>5. r \in RegionType /\ RegionBelow(r)
    BY <1>3, <1>4 DEF RegionsInv
  <1>6. r.start \in Nat /\ r.total \in Nat /\ r.max \in Nat /\ r.calls \in Nat
    BY <1>5 DEF RegionType
  <1>7. d \in Nat /\ x \in Nat /\ x >= d /\ x >= r.max
    <2>1. d \in Nat
      BY <1>1, <1>4, <1>6, DurationNat
    <2> QED
      BY <1>4, <1>6, <2>1
  <1>8. PICK y : y = Added(r.total, d)
    OBVIOUS
  <1>9. y \in Nat /\ y <= x * (r.calls + 1)
    <2>1. PICK a, b, c : a = r.total /\ b = r.max /\ c = r.calls
      OBVIOUS
    <2>2. a \in Nat /\ b \in Nat /\ c \in Nat /\ a <= b * c /\ x >= b
      BY <1>5, <1>6, <1>7, <2>1 DEF RegionBelow
    <2>3. Added(a, d) \in Nat /\ Added(a, d) <= x * (c + 1)
      BY <1>7, <2>2, SumBelow
    <2> QED
      BY <1>8, <2>1, <2>3
  <1>10. PICK q : q = Ended(r)
    OBVIOUS
  <1>10a. q = [name |-> r.name, start |-> r.start, active |-> FALSE, total |-> y,
               calls |-> r.calls + 1, max |-> x]
    <2>1. q = [r EXCEPT !.total = y, !.calls = @ + 1, !.active = FALSE, !.max = x]
      BY <1>4, <1>8, <1>10 DEF Ended
    <2> QED
      BY <1>5, <2>1 DEF RegionType
  <1>10b. q \in RegionType /\ RegionBelow(q)
    <2>1. q \in RegionType
      BY <1>5, <1>6, <1>7, <1>9, <1>10a DEF RegionType
    <2>2. q.total = y /\ q.max = x /\ q.calls = r.calls + 1
      BY <1>10a
    <2> QED
      BY <1>9, <2>1, <2>2 DEF RegionBelow
  <1>11. regions' = [regions EXCEPT ![k] = q]
    BY <1>2, <1>4, <1>10
  <1>12. regions' \in Seq(RegionType) /\ Len(regions') = Len(regions)
    BY <1>1, <1>3, <1>10b, <1>11
  <1>13. \A i \in 1..Len(regions) : regions'[i] = IF i = k THEN q ELSE regions[i]
    BY <1>1, <1>3, <1>11
  <1>14. ASSUME NEW i \in 1..Len(regions') PROVE RegionBelow(regions'[i])
    <2>1. CASE i = k
      BY <1>10b, <1>12, <1>13, <2>1
    <2>2. CASE i # k
      BY <1>12, <1>13, <2>2 DEF RegionsInv
    <2> QED
      BY <2>1, <2>2
  <1> QED
    BY <1>1, <1>12, <1>14 DEF RegionsInv

ProfInv == RingHolds /\ TotalsInv /\ RegionsInv

LEMMA ProfInductive == ProfSpec => []ProfInv
  <1>1. ASSUME tick \in Nat, regions = <<>> PROVE RegionsInv
    BY <1>1 DEF RegionsInv
  <1>2. ProfInit => ProfInv
    BY <1>1, RingInit, TotalsStart DEF ProfInit, ProfInv
  <1>3. ProfInv /\ [ProfNext]_profVars => ProfInv'
    <2> SUFFICES ASSUME ProfInv, [ProfNext]_profVars PROVE ProfInv'
      OBVIOUS
    <2>1. RingHolds /\ TotalsInv /\ RegionsInv /\ tick \in Nat
      BY DEF ProfInv, TotalsInv
    <2>2. CASE UNCHANGED profVars
      BY <2>1, <2>2 DEF profVars, ProfInv, RingHolds, TotalsInv, RegionsInv
    <2>3. CASE profiler_init \/ profiler_destroy
      <3>1. /\ start_idx' = 0 /\ profCount' = 0 /\ profLog' = <<>> /\ ring' = [i \in 0 .. RingMax - 1 |-> Empty]
            /\ totals' = NoTotals /\ regions' = <<>> /\ tick' \in Nat
        BY <2>1, <2>3 DEF profiler_init, profiler_destroy, Cleared
      <3>2. RingHolds'
        <4>1. profLog' \in Seq({})
          BY <3>1
        <4> QED
          BY <3>1, <4>1, ProfAssumption DEF RingHolds
      <3>3. TotalsInv'
        <4>1. totals' \in TotalsType
          BY <3>1 DEF NoTotals, TotalsType
        <4>2. totals'.ttotal = 0 /\ totals'.tmax = 0 /\ totals'.tcount = 0
          BY <3>1 DEF NoTotals
        <4> QED
          BY <3>1, <4>1, <4>2 DEF TotalsInv
      <3>4. RegionsInv'
        BY <3>1 DEF RegionsInv
      <3> QED
        BY <3>2, <3>3, <3>4 DEF ProfInv
    <2>4. CASE ProfTick
      <3>1. tick' \in Nat /\ UNCHANGED <<ring, start_idx, profCount, totals, regions, profLog>>
        BY <2>4, ProfAssumption DEF ProfTick
      <3>2. RingHolds'
        BY <2>1, <3>1 DEF RingHolds
      <3>3. TotalsInv'
        BY <2>1, <3>1 DEF TotalsInv
      <3>4. RegionsInv'
        BY <2>1, <3>1 DEF RegionsInv
      <3> QED
        BY <3>2, <3>3, <3>4 DEF ProfInv
    <2>5. ASSUME NEW type \in EventType, NEW pc \in ProfPc, NEW data \in Nat, record_event(type, pc, data)
          PROVE  ProfInv'
      <3>1. PICK e : e = [type |-> type, pc |-> pc, at |-> tick, data |-> data]
        OBVIOUS
      <3>2. totals' = Tallied(totals, e) /\ UNCHANGED <<tick, regions>>
        BY <2>5, <3>1 DEF record_event
      <3>3. PICK w : w = Tallied(totals, e)
        OBVIOUS
      <3>4. e.at = tick /\ e.pc \in ProfPc /\ e.data \in Nat
        BY <3>1
      <3>5. w \in TotalsType /\ w.ttotal <= w.tmax * w.tcount
        BY <2>1, <3>3, <3>4, TalliedKeeps
      <3>6. TotalsInv'
        BY <2>1, <3>2, <3>3, <3>5 DEF TotalsInv
      <3>7. RingHolds'
        BY <2>1, <2>5, RingStep
      <3>8. RegionsInv'
        BY <2>1, <3>2 DEF RegionsInv
      <3> QED
        BY <3>6, <3>7, <3>8 DEF ProfInv
    <2>6. ASSUME NEW name \in RegionName, start_region(name) \/ end_region(name) PROVE ProfInv'
      <3>1. UNCHANGED <<ring, start_idx, profCount, totals, tick, profLog>>
        BY <2>6 DEF start_region, end_region
      <3>2. RingHolds' /\ TotalsInv'
        BY <2>1, <3>1 DEF RingHolds, TotalsInv
      <3>3. RegionsInv'
        BY <2>1, <2>6, StartRegionKeeps, EndRegionKeeps
      <3> QED
        BY <3>2, <3>3 DEF ProfInv
    <2>7. CASE \E type \in EventType, pc \in ProfPc : record_event(type, pc, IF type = "block" THEN 2 ELSE 0)
      <3>1. PICK type \in EventType, pc \in ProfPc : record_event(type, pc, IF type = "block" THEN 2 ELSE 0)
        BY <2>7
      <3>2. PICK data : data = IF type = "block" THEN 2 ELSE 0
        OBVIOUS
      <3>3. data \in Nat /\ record_event(type, pc, data)
        BY <3>1, <3>2
      <3> QED
        BY <2>5, <3>3
    <2> QED
      BY <2>2, <2>3, <2>4, <2>6, <2>7 DEF ProfNext
  <1> QED
    BY <1>2, <1>3, PTL DEF ProfSpec

\* From the head on, the slots of the trace ring are the unused ones and then
\* the newest events of its log, oldest first; a file is what they were.
TraceHolds ==
  /\ head \in 0..(TraceMax - 1)
  /\ traceCount = IF Len(traceLog) < TraceMax THEN Len(traceLog) ELSE TraceMax
  /\ DOMAIN slots = 0..(TraceMax - 1)
  /\ \E E : traceLog \in Seq(E)
  /\ \A i \in 1..TraceMax : slots[(head + i - 1) % TraceMax] = SlotOf(traceLog, i)
FileHolds == DOMAIN file = {"header", "entries", "log"} /\ ExportNewest

TraceInv == TraceHolds /\ FileHolds

LEMMA TraceStep ==
  ASSUME TraceHolds, NEW e, trace_record(e) PROVE TraceHolds'
  <1> USE TraceAssumption
  <1>1. PICK E : traceLog \in Seq(E)
    BY DEF TraceHolds
  <1>2. PICK L, h, M : L = Len(traceLog) /\ h = head /\ M = TraceMax
    OBVIOUS
  <1>3. /\ head' = (h + 1) % M /\ slots' = [slots EXCEPT ![h] = e]
        /\ traceCount' = (IF traceCount < M THEN traceCount + 1 ELSE traceCount) /\ traceLog' = Append(traceLog, e)
    BY <1>2 DEF trace_record, NextHead
  <1>4. /\ M \in Nat \ {0} /\ h \in 0..(M - 1) /\ L \in Nat /\ DOMAIN slots = 0..(M - 1)
        /\ traceCount = IF L < M THEN L ELSE M
    BY <1>1, <1>2 DEF TraceHolds
  <1>5. traceLog \in Seq(E \cup {e}) /\ e \in E \cup {e}
    BY <1>1
  <1>6. /\ traceLog' \in Seq(E \cup {e}) /\ Len(traceLog') = L + 1 /\ traceLog'[L + 1] = e
        /\ \A j \in 1..L : traceLog'[j] = traceLog[j]
    BY <1>2, <1>3, <1>5, AppendProperties
  <1>7. PICK g : g = (h + 1) % M
    OBVIOUS
  <1>8. g = IF h + 1 < M THEN h + 1 ELSE 0
    <2>1. h + 1 \in Nat /\ h + 1 < 2 * M
      BY <1>4
    <2>2. (h + 1) % M = IF h + 1 < M THEN h + 1 ELSE (h + 1) - M
      BY <1>4, <2>1, RingIndex
    <2> QED
      BY <1>4, <1>7, <2>2
  <1>9. g \in 0..(M - 1)
    BY <1>4, <1>8
  <1>10. ASSUME NEW i \in 1..M PROVE slots'[(g + i - 1) % M] = SlotOf(traceLog', i)
    <2>1. PICK a, b : a = g + i - 1 /\ b = h + i
      OBVIOUS
    <2>2. a \in Nat /\ a < 2 * M /\ b \in Nat /\ b < 2 * M
      BY <1>4, <1>9, <2>1
    <2>3. /\ a % M = IF a < M THEN a ELSE a - M
          /\ b % M = IF b < M THEN b ELSE b - M
      BY <1>4, <2>2, RingIndex
    \* The head moved on by one, and the slot counted from it with it.
    <2>4. a % M = b % M
      <3>1. CASE h + 1 < M
        <4>1. a = b
          BY <1>4, <1>8, <2>1, <3>1
        <4> QED
          BY <4>1
      <3>2. CASE ~ (h + 1 < M)
        <4>1. h = M - 1 /\ a = i - 1 /\ b = M + i - 1
          BY <1>4, <1>8, <2>1, <3>2
        <4> QED
          BY <1>4, <2>2, <2>3, <4>1
      <3> QED
        BY <3>1, <3>2
    <2>5. CASE i = M
      <3>1. b % M = h
        BY <1>4, <2>1, <2>2, <2>3, <2>5
      <3>2. slots'[b % M] = e
        BY <1>3, <1>4, <3>1
      <3>3. SlotOf(traceLog', i) = e
        <4>1. (L + 1) + i - M = L + 1 /\ ~ ((L + 1) + i <= M)
          BY <1>4, <2>5
        <4> QED
          BY <1>2, <1>6, <4>1 DEF SlotOf
      <3> QED
        BY <2>1, <2>4, <3>2, <3>3
    <2>6. CASE i # M
      <3>1. i + 1 \in 1..M /\ h + (i + 1) - 1 = b
        BY <1>4, <2>1, <2>6
      <3>2. slots[b % M] = SlotOf(traceLog, i + 1)
        <4>1. PICK k : k = i + 1
          OBVIOUS
        <4>2. k \in 1..M /\ h + k - 1 = b
          BY <3>1, <4>1
        <4>3. \A j \in 1..M : slots[(h + j - 1) % M] = SlotOf(traceLog, j)
          BY <1>2 DEF TraceHolds
        <4>4. slots[(h + k - 1) % M] = SlotOf(traceLog, k)
          BY <4>2, <4>3
        <4> QED
          BY <4>1, <4>2, <4>4, Zenon
      <3>3. b % M # h /\ b % M \in 0..(M - 1)
        <4>1. PICK r : r = b % M
          OBVIOUS
        <4>2. r = IF b < M THEN b ELSE b - M
          BY <2>3, <4>1
        <4>3. i \in Nat /\ i >= 1 /\ i < M /\ b = h + i
          BY <1>4, <2>1, <2>6
        <4>4. r # h /\ r \in 0..(M - 1)
          BY <1>4, <4>2, <4>3
        <4> QED
          BY <4>1, <4>4
      <3>4. slots'[b % M] = slots[b % M]
        BY <1>3, <1>4, <3>3
      <3>5. SlotOf(traceLog', i) = SlotOf(traceLog, i + 1)
        <4>1. (L + 1) + i = L + (i + 1) /\ i \in Nat
          BY <1>4
        <4>2. CASE L + (i + 1) <= M
          BY <1>2, <1>6, <4>1, <4>2 DEF SlotOf
        <4>3. CASE ~ (L + (i + 1) <= M)
          <5>1. PICK j : j = L + (i + 1) - M
            OBVIOUS
          <5>2. j \in 1..L
            BY <1>4, <2>6, <4>3, <5>1
          <5>3. SlotOf(traceLog, i + 1) = traceLog[j] /\ SlotOf(traceLog', i) = traceLog'[j]
            BY <1>2, <1>6, <4>1, <4>3, <5>1 DEF SlotOf
          <5> QED
            BY <1>6, <5>2, <5>3
        <4> QED
          BY <4>2, <4>3
      <3> QED
        BY <2>1, <2>4, <3>2, <3>4, <3>5
    <2> QED
      BY <2>5, <2>6
  <1>11. DOMAIN slots' = 0..(M - 1)
    BY <1>3, <1>4
  <1>12. head' = g /\ M = TraceMax
    BY <1>2, <1>3, <1>7
  <1>13. traceCount' = IF L + 1 < M THEN L + 1 ELSE M
    BY <1>3, <1>4
  <1> QED
    BY <1>6, <1>9, <1>10, <1>11, <1>12, <1>13 DEF TraceHolds

LEMMA FileStep ==
  ASSUME TraceHolds, FileHolds, export_entries PROVE FileHolds'
  <1> USE TraceAssumption
  <1>1. file' = [file EXCEPT !.entries = Visited, !.log = traceLog] /\ DOMAIN file = {"header", "entries", "log"}
    BY DEF export_entries, FileHolds
  <1>2. DOMAIN file' = {"header", "entries", "log"} /\ file'.entries = Visited /\ file'.log = traceLog
    BY <1>1
  <1>3. PICK c : c = traceCount
    OBVIOUS
  <1>4. c = (IF Len(traceLog) < TraceMax THEN Len(traceLog) ELSE TraceMax) /\ \A i \in 1..c : i \in 1..TraceMax
    <2>1. Len(traceLog) \in Nat
      BY DEF TraceHolds
    <2> QED
      BY <1>3, <2>1 DEF TraceHolds
  <1>5. \A i \in 1..c : Visited[i] = SlotOf(traceLog, i)
    BY <1>3, <1>4 DEF Visited, TraceHolds
  <1>6. Visited = [i \in 1..c |-> SlotOf(traceLog, i)]
    BY <1>3, <1>5 DEF Visited
  <1>7. ExportNewest'
    BY <1>2, <1>4, <1>6 DEF ExportNewest
  <1> QED
    BY <1>2, <1>7 DEF FileHolds

LEMMA BlankSlots ==
  ASSUME NEW f, NEW log \in Seq({}), f = [i \in 0 .. TraceMax - 1 |-> Blank]
  PROVE  /\ \A i \in 1..TraceMax : f[(0 + i - 1) % TraceMax] = Blank /\ SlotOf(log, i) = Blank
         /\ DOMAIN f = 0..(TraceMax - 1)
  <1> USE TraceAssumption
  <1>1. Len(log) = 0
    OBVIOUS
  <1>2. ASSUME NEW i \in 1..TraceMax PROVE f[(0 + i - 1) % TraceMax] = Blank /\ SlotOf(log, i) = Blank
    <2>1. 0 + i - 1 \in Nat /\ 0 + i - 1 < 2 * TraceMax /\ 0 + i - 1 \in 0..(TraceMax - 1)
      OBVIOUS
    <2>2. PICK a, M : a = 0 + i - 1 /\ M = TraceMax
      OBVIOUS
    <2>3. a \in Nat /\ M \in Nat \ {0} /\ a < M /\ a < 2 * M
      BY <2>1, <2>2
    <2>4. a % M = a
      BY <2>3, RingIndex
    <2> QED
      BY <1>1, <2>1, <2>2, <2>4 DEF SlotOf
  <1> QED
    BY <1>2

LEMMA NoFileHolds == ASSUME file = NoFile PROVE FileHolds
  <1>1. file.entries = <<>> /\ file.log = <<>> /\ DOMAIN file = {"header", "entries", "log"}
    BY DEF NoFile
  <1> QED
    BY <1>1, TraceAssumption DEF FileHolds, ExportNewest

LEMMA BlankHolds ==
  ASSUME traceLog \in Seq({}), head = 0, traceCount = 0, Len(traceLog) = 0,
         slots = [i \in 0 .. TraceMax - 1 |-> Blank]
  PROVE  TraceHolds
  <1>1. /\ \A i \in 1..TraceMax : slots[(0 + i - 1) % TraceMax] = Blank /\ SlotOf(traceLog, i) = Blank
        /\ DOMAIN slots = 0..(TraceMax - 1)
    BY BlankSlots
  <1> QED
    BY <1>1, TraceAssumption DEF TraceHolds

LEMMA TraceInductive == TraceSpec => []TraceInv
  <1> USE TraceAssumption
  <1>1. TraceInit => TraceInv
    <2> SUFFICES ASSUME TraceInit PROVE TraceInv
      OBVIOUS
    <2>1. /\ traceLog \in Seq({}) /\ head = 0 /\ traceCount = 0 /\ Len(traceLog) = 0
          /\ slots = [i \in 0 .. TraceMax - 1 |-> Blank] /\ file = NoFile
      BY DEF TraceInit
    <2> QED
      BY <2>1, BlankHolds, NoFileHolds DEF TraceInv
  <1>2. TraceInv /\ [TraceNext]_traceVars => TraceInv'
    <2> SUFFICES ASSUME TraceInv, [TraceNext]_traceVars PROVE TraceInv'
      OBVIOUS
    <2>1. TraceHolds /\ FileHolds
      BY DEF TraceInv
    <2>2. ASSUME UNCHANGED <<slots, head, traceCount, traceLog>> PROVE TraceHolds'
      BY <2>1, <2>2 DEF TraceHolds
    <2>3. ASSUME UNCHANGED file PROVE FileHolds'
      BY <2>1, <2>3 DEF FileHolds, ExportNewest
    <2>4. CASE UNCHANGED traceVars \/ trace_enable
      BY <2>2, <2>3, <2>4 DEF traceVars, trace_enable, TraceInv
    <2>5. CASE \E e \in TraceEvent : trace_record(e)
      <3>1. PICK e \in TraceEvent : trace_record(e)
        BY <2>5
      <3>2. UNCHANGED file
        BY <3>1 DEF trace_record
      <3> QED
        BY <2>1, <2>3, <3>1, <3>2, TraceStep DEF TraceInv
    <2>6. CASE trace_clear
      <3>1. /\ traceLog' \in Seq({}) /\ head' = 0 /\ traceCount' = 0 /\ Len(traceLog') = 0
            /\ slots' = [i \in 0 .. TraceMax - 1 |-> Blank] /\ UNCHANGED file
        BY <2>6 DEF trace_clear
      <3>2. TraceHolds'
        <4>1. /\ \A i \in 1..TraceMax : slots'[(0 + i - 1) % TraceMax] = Blank /\ SlotOf(traceLog', i) = Blank
              /\ DOMAIN slots' = 0..(TraceMax - 1)
          BY <3>1, BlankSlots
        <4> QED
          BY <3>1, <4>1 DEF TraceHolds
      <3> QED
        BY <2>3, <3>1, <3>2 DEF TraceInv
    <2>7. CASE export_header
      <3>1. file' = [NoFile EXCEPT !.header = traceCount] /\ UNCHANGED <<slots, head, traceCount, traceLog>>
        BY <2>7 DEF export_header
      <3>2. DOMAIN file' = {"header", "entries", "log"} /\ file'.entries = <<>> /\ file'.log = <<>>
        BY <3>1 DEF NoFile
      <3>3. ExportNewest'
        BY <3>2 DEF ExportNewest
      <3> QED
        BY <2>2, <3>1, <3>2, <3>3 DEF TraceInv, FileHolds
    <2>8. CASE export_entries
      <3>1. UNCHANGED <<slots, head, traceCount, traceLog>>
        BY <2>8 DEF export_entries
      <3> QED
        BY <2>1, <2>2, <2>8, <3>1, FileStep DEF TraceInv
    <2> QED
      BY <2>4, <2>5, <2>6, <2>7, <2>8 DEF TraceNext
  <1> QED
    BY <1>1, <1>2, PTL DEF TraceSpec

\* The counters of every thread: an access is counted once as cached or not and
\* once in a class, a block once as hot or cold, and a reset clears them together.
CountsOf(s) ==
  /\ DOMAIN s = {"translations", "arm", "x86", "time", "timed", "maxBlock", "executions", "cached", "uncached",
                 "class", "blocks", "hot", "cold", "current", "peak"}
  /\ s.cached \in Nat /\ s.uncached \in Nat /\ s.hot \in Nat /\ s.cold \in Nat /\ s.blocks = s.hot + s.cold
  /\ s.class \in [InstrClass -> Nat]
  /\ \A c \in InstrClass : s.class[c] <= s.cached + s.uncached
PerfInv ==
  /\ perf = [t \in PerfThread |-> perf[t]]
  /\ \A t \in PerfThread : CountsOf(perf[t])

LEMMA ZeroCounts == CountsOf(Zero)
  BY DEF CountsOf, Zero

LEMMA KeptCounts == ASSUME NEW s, NEW w, w = Kept(s) PROVE CountsOf(w)
  <1>1. /\ DOMAIN w = DOMAIN Zero /\ w.cached = 0 /\ w.uncached = 0 /\ w.hot = 0 /\ w.cold = 0
        /\ w.blocks = 0 /\ w.class = Zero.class
    BY DEF Kept, Zero
  <1> QED
    BY <1>1, ZeroCounts DEF CountsOf, Zero

\* What one call makes of the counters of its thread.
LEMMA DoKeeps ==
  ASSUME PerfInv, NEW t \in PerfThread, NEW s, CountsOf(s), Do(t, s) PROVE PerfInv'
  <1>1. perf' = [perf EXCEPT ![t] = s]
    BY DEF Do
  <1>2. perf' = [u \in PerfThread |-> IF u = t THEN s ELSE perf[u]]
    BY <1>1 DEF PerfInv
  <1> QED
    BY <1>2 DEF PerfInv

LEMMA PerfInductive == PerfSpec => []PerfInv
  <1>1. PerfInit => PerfInv
    BY ZeroCounts DEF PerfInit, PerfInv
  <1>2. PerfInv /\ [PerfNext]_perfVars => PerfInv'
    <2> SUFFICES ASSUME PerfInv, [PerfNext]_perfVars PROVE PerfInv'
      OBVIOUS
    <2>1. CASE UNCHANGED perfVars
      BY <2>1 DEF perfVars, PerfInv
    <2>2. CASE PerfNext
      <3>1. PICK t \in PerfThread :
              \/ perf_init(t) \/ perf_reset(t)
              \/ \E x \in PerfSize : record_translation(t, x)
              \/ \E cached \in BOOLEAN, c \in InstrClass : record_execution(t, cached, c)
              \/ \E x \in PerfSize, y \in PerfSize : x <= y /\ record_memory(t, x, y)
              \/ \E is_hot \in BOOLEAN : record_block(t, is_hot)
        BY <2>2 DEF PerfNext
      <3>2. PICK p : p = perf[t]
        OBVIOUS
      <3>3. CountsOf(p)
        BY <3>2 DEF PerfInv
      <3>4. CASE perf_init(t)
        BY <3>4, ZeroCounts, DoKeeps DEF perf_init
      <3>5. CASE perf_reset(t)
        <4>1. PICK s : s = IF perfReady[t] THEN Kept(perf[t]) ELSE Zero
          OBVIOUS
        <4>2. CountsOf(s)
          BY <4>1, ZeroCounts, KeptCounts
        <4> QED
          BY <3>5, <4>1, <4>2, DoKeeps DEF perf_reset
      <3>6. ASSUME NEW x \in PerfSize, record_translation(t, x) PROVE PerfInv'
        <4>1. PICK s : s = [p EXCEPT !.translations = @ + 1, !.arm = @ + 4, !.x86 = @ + x, !.time = @ + 1,
                                     !.timed = @ + 1, !.maxBlock = IF x > @ THEN x ELSE @]
          OBVIOUS
        <4>2. /\ DOMAIN s = DOMAIN p /\ s.cached = p.cached /\ s.uncached = p.uncached /\ s.hot = p.hot
              /\ s.cold = p.cold /\ s.blocks = p.blocks /\ s.class = p.class
          BY <3>3, <4>1 DEF CountsOf
        <4>3. CountsOf(s)
          BY <3>3, <4>2 DEF CountsOf
        <4> QED
          BY <3>2, <3>6, <4>1, <4>3, DoKeeps DEF record_translation
      <3>7. ASSUME NEW cached \in BOOLEAN, NEW c \in InstrClass, record_execution(t, cached, c) PROVE PerfInv'
        <4>1. PICK s : s = [p EXCEPT !.executions = @ + 1, !.cached = IF cached THEN @ + 1 ELSE @,
                                     !.uncached = IF cached THEN @ ELSE @ + 1, !.class[c] = @ + 1]
          OBVIOUS
        <4>2. /\ DOMAIN s = DOMAIN p /\ s.hot = p.hot /\ s.cold = p.cold /\ s.blocks = p.blocks
              /\ s.cached = (IF cached THEN p.cached + 1 ELSE p.cached)
              /\ s.uncached = (IF cached THEN p.uncached ELSE p.uncached + 1)
              /\ s.class = [p.class EXCEPT ![c] = @ + 1]
          BY <3>3, <4>1 DEF CountsOf
        <4>3. s.cached \in Nat /\ s.uncached \in Nat /\ s.cached + s.uncached = p.cached + p.uncached + 1
          BY <3>3, <4>2 DEF CountsOf
        <4>4. s.class \in [InstrClass -> Nat] /\ \A k \in InstrClass : s.class[k] <= p.class[k] + 1
          BY <3>3, <4>2 DEF CountsOf
        <4>5. \A k \in InstrClass : p.class[k] \in Nat /\ p.class[k] <= p.cached + p.uncached
          BY <3>3 DEF CountsOf
        <4>6. \A k \in InstrClass : s.class[k] <= s.cached + s.uncached
          BY <3>3, <4>3, <4>4, <4>5 DEF CountsOf
        <4>7. CountsOf(s)
          BY <3>3, <4>2, <4>3, <4>4, <4>6 DEF CountsOf
        <4> QED
          BY <3>2, <3>7, <4>1, <4>7, DoKeeps DEF record_execution
      <3>8. ASSUME NEW x, NEW y, record_memory(t, x, y) PROVE PerfInv'
        <4>1. PICK s : s = [p EXCEPT !.current = x, !.peak = IF y > @ THEN y ELSE @]
          OBVIOUS
        <4>2. /\ DOMAIN s = DOMAIN p /\ s.cached = p.cached /\ s.uncached = p.uncached /\ s.hot = p.hot
              /\ s.cold = p.cold /\ s.blocks = p.blocks /\ s.class = p.class
          BY <3>3, <4>1 DEF CountsOf
        <4>3. CountsOf(s)
          BY <3>3, <4>2 DEF CountsOf
        <4> QED
          BY <3>2, <3>8, <4>1, <4>3, DoKeeps DEF record_memory
      <3>9. ASSUME NEW is_hot \in BOOLEAN, record_block(t, is_hot) PROVE PerfInv'
        <4>1. PICK s : s = [p EXCEPT !.blocks = @ + 1, !.hot = IF is_hot THEN @ + 1 ELSE @,
                                     !.cold = IF is_hot THEN @ ELSE @ + 1]
          OBVIOUS
        <4>2. /\ DOMAIN s = DOMAIN p /\ s.cached = p.cached /\ s.uncached = p.uncached /\ s.class = p.class
              /\ s.blocks = p.blocks + 1 /\ s.hot = (IF is_hot THEN p.hot + 1 ELSE p.hot)
              /\ s.cold = (IF is_hot THEN p.cold ELSE p.cold + 1)
          BY <3>3, <4>1 DEF CountsOf
        <4>3. CountsOf(s)
          BY <3>3, <4>2 DEF CountsOf
        <4> QED
          BY <3>2, <3>9, <4>1, <4>3, DoKeeps DEF record_block
      <3> QED
        BY <3>1, <3>4, <3>5, <3>6, <3>7, <3>8, <3>9
    <2> QED
      BY <2>1, <2>2
  <1> QED
    BY <1>1, <1>2, PTL DEF PerfSpec

LEMMA CountsBounded == ASSUME PerfInv PROVE SharesBounded
  <1>1. ASSUME NEW t \in PerfThread, NEW r \in Shares(perf[t]) PROVE r[1] <= r[2]
    <2>1. PICK s : s = perf[t]
      OBVIOUS
    <2>2. CountsOf(s)
      BY <2>1 DEF PerfInv
    <2>3. /\ s.cached \in Nat /\ s.uncached \in Nat /\ s.hot \in Nat /\ s.cold \in Nat
          /\ s.blocks = s.hot + s.cold /\ \A c \in InstrClass : s.class[c] <= s.cached + s.uncached
      BY <2>2 DEF CountsOf
    <2>4. \/ r = <<s.cached, Accesses(s)>> \/ r = <<s.hot, s.blocks>> \/ r = <<s.cold, s.blocks>>
          \/ \E c \in InstrClass : r = <<s.class[c], Accesses(s)>>
      BY <2>1 DEF Shares
    <2> QED
      BY <2>3, <2>4 DEF Accesses
  <1> QED
    BY <1>1 DEF SharesBounded

\* For rings of every size and any number of threads, events, wraps, resets and
\* settings of the clock: an export of the profiler is the newest events in
\* order, one of the trace the slots from the oldest on, the slowest translation
\* and the longest call of a region bound the averages, and no share exceeds the
\* whole (arm2x86_profiler_record_event, arm2x86_trace_record,
\* arm2x86_perf_reset).
THEOREM RecordingKept == RecorderSpec => []RecordingRight
  <1>1. ProfInv => RingNewest /\ AverageBelowMax
    <2>1. ProfInv => AverageBelowMax
      <3> SUFFICES ASSUME ProfInv PROVE AverageBelowMax
        OBVIOUS
      <3>1. totals.ttotal <= totals.tmax * totals.tcount
        BY DEF ProfInv, TotalsInv
      <3>2. DOMAIN regions = 1..Len(regions) /\ \A i \in 1..Len(regions) : RegionBelow(regions[i])
        BY DEF ProfInv, RegionsInv
      <3> QED
        BY <3>1, <3>2 DEF AverageBelowMax, RegionBelow
    <2> QED
      BY <2>1, RingExport DEF ProfInv
  <1>2. TraceInv => ExportNewest
    BY DEF TraceInv, FileHolds
  <1>3. ProfInv /\ TraceInv /\ PerfInv => RecordingRight
    BY <1>1, <1>2, CountsBounded DEF RecordingRight
  <1> QED
    BY <1>3, ProfInductive, TraceInductive, PerfInductive, PTL DEF RecorderSpec

-----------------------------------------------------------------------------
(***************************************************************************)
(* Page protection.  The tables that fit the array, have one record per    *)
(* page and record the pages of W as writable are closed under recording a *)
(* page that is not of W, hence under recording a range of such pages,     *)
(* which is a recursion over them.                                         *)
(***************************************************************************)
PageRecord == [page_addr : PpPage, prot : SUBSET {"r", "w", "x"}]
PageTables(W) ==
  {s \in Seq(PageRecord) :
     /\ Len(s) <= TrackMax
     /\ \A i, j \in 1..Len(s) : i # j => s[i].page_addr # s[j].page_addr
     /\ \A i \in 1..Len(s) : s[i].page_addr \in W => "w" \in s[i].prot}

LEMMA AddPageIn ==
  ASSUME NEW W, NEW s \in PageTables(W), NEW p \in PpPage, p \notin W, NEW prot \in SUBSET {"r", "w", "x"}
  PROVE  AddPage(s, p, prot) \in PageTables(W)
  <1>0. TrackMax \in Nat
    BY PageProtAssumption
  <1>1. /\ s \in Seq(PageRecord) /\ Len(s) \in Nat /\ Len(s) <= TrackMax /\ DOMAIN s = 1..Len(s)
        /\ \A i, j \in 1..Len(s) : i # j => s[i].page_addr # s[j].page_addr
        /\ \A i \in 1..Len(s) : s[i].page_addr \in W => "w" \in s[i].prot
    BY DEF PageTables
  <1>2. PICK w, n : w = AddPage(s, p, prot) /\ n = Len(s)
    OBVIOUS
  <1>3. CASE \E i \in DOMAIN s : s[i].page_addr = p
    <2>1. w = [i \in 1..n |-> IF s[i].page_addr = p THEN [s[i] EXCEPT !.prot = prot] ELSE s[i]]
      BY <1>1, <1>2, <1>3 DEF AddPage
    <2>2. ASSUME NEW i \in 1..n PROVE w[i] \in PageRecord /\ w[i].page_addr = s[i].page_addr
      <3>1. s[i] \in PageRecord
        BY <1>1, <1>2
      <3>2. [s[i] EXCEPT !.prot = prot] \in PageRecord /\ [s[i] EXCEPT !.prot = prot].page_addr = s[i].page_addr
        BY <3>1 DEF PageRecord
      <3> QED
        BY <2>1, <3>1, <3>2
    <2>3. n \in Nat /\ w \in [1..n -> PageRecord]
      BY <1>1, <1>2, <2>1, <2>2
    <2>4. w \in Seq(PageRecord) /\ Len(w) = n
      BY <2>3, SeqDef, LenProperties
    <2>5. ASSUME NEW i \in 1..n, NEW j \in 1..n, i # j PROVE w[i].page_addr # w[j].page_addr
      BY <1>1, <1>2, <2>2, <2>5
    <2>6. ASSUME NEW i \in 1..n, w[i].page_addr \in W PROVE "w" \in w[i].prot
      <3>1. s[i].page_addr # p /\ s[i].page_addr \in W
        BY <2>2, <2>6
      <3>2. w[i] = s[i]
        BY <2>1, <3>1
      <3> QED
        BY <1>1, <1>2, <3>1, <3>2
    <2> QED
      BY <1>1, <1>2, <2>4, <2>5, <2>6 DEF PageTables
  <1>4. CASE /\ ~ \E i \in DOMAIN s : s[i].page_addr = p
             /\ Len(s) < TrackMax
    <2>1. PICK e : e = [page_addr |-> p, prot |-> prot]
      OBVIOUS
    <2>2. e \in PageRecord /\ e.page_addr = p
      BY <2>1 DEF PageRecord
    <2>3. w = Append(s, e)
      BY <1>0, <1>1, <1>2, <1>4, <2>1 DEF AddPage
    <2>4. s \in Seq(PageRecord)
      BY <1>1
    <2>5. /\ w \in Seq(PageRecord) /\ Len(w) = n + 1 /\ w[n + 1] = e
          /\ \A i \in 1..n : w[i] = s[i]
      BY <1>2, <2>2, <2>3, <2>4, AppendProperties
    <2>6. ASSUME NEW i \in 1..(n + 1), NEW j \in 1..(n + 1), i # j PROVE w[i].page_addr # w[j].page_addr
      <3>1. ASSUME NEW k \in 1..n PROVE w[k].page_addr # p
        BY <1>1, <1>2, <1>4, <2>5
      <3>2. n \in Nat
        BY <1>1, <1>2
      <3>3. CASE i \in 1..n /\ j \in 1..n
        BY <1>1, <1>2, <2>5, <2>6, <3>3
      <3>4. CASE i = n + 1 /\ j \in 1..n
        BY <2>2, <2>5, <3>1, <3>4
      <3>5. CASE j = n + 1 /\ i \in 1..n
        BY <2>2, <2>5, <3>1, <3>5
      <3> QED
        BY <2>6, <3>2, <3>3, <3>4, <3>5
    <2>7. n + 1 <= TrackMax
      BY <1>0, <1>1, <1>2, <1>4
    <2>8. ASSUME NEW i \in 1..(n + 1), w[i].page_addr \in W PROVE "w" \in w[i].prot
      <3>1. n \in Nat /\ i # n + 1
        BY <1>1, <1>2, <2>2, <2>5, <2>8
      <3>2. i \in 1..n
        BY <3>1
      <3> QED
        BY <1>1, <1>2, <2>5, <2>8, <3>2
    <2> QED
      BY <1>2, <2>5, <2>6, <2>7, <2>8 DEF PageTables
  <1>5. CASE /\ ~ \E i \in DOMAIN s : s[i].page_addr = p
             /\ ~ (Len(s) < TrackMax)
    <2>1. Len(s) >= TrackMax
      BY <1>0, <1>1, <1>5
    <2>2. w = s
      BY <1>2, <1>5, <2>1 DEF AddPage
    <2> QED
      BY <1>2, <2>2
  <1> QED
    BY <1>3, <1>4, <1>5

\* f gives the table after each page of a range, as page_protect_add's loop does.
IsAdding(s, p, n, prot, f) ==
  f = [k \in 0 .. n |->
         IF k = 0 THEN s
         ELSE IF Len(f[k - 1]) >= TrackMax THEN f[k - 1]
         ELSE AddPage(f[k - 1], p + k - 1, prot)]

LEMMA AddRangeIn ==
  ASSUME NEW W, NEW s \in PageTables(W), NEW p \in PpPage, NEW n \in Nat, Span(p, n) \subseteq PpPage,
         Span(p, n) \cap W = {},
         NEW prot \in SUBSET {"r", "w", "x"}
  PROVE  AddRange(s, p, n, prot) \in PageTables(W)
  <1>1. PICK g : g = CHOOSE f : IsAdding(s, p, n, prot, f)
    OBVIOUS
  <1>2. AddRange(s, p, n, prot) = g[n]
    BY <1>1 DEF AddRange, IsAdding
  <1>3. p \in Nat
    BY PageProtAssumption
  <1>4. PICK G : G = [k \in 1..n |-> [x \in PageTables(W) |-> IF Len(x) >= TrackMax THEN x ELSE AddPage(x, p + k - 1, prot)]]
    OBVIOUS
  <1>5. ASSUME NEW k \in 1..n PROVE p + k - 1 \in PpPage /\ p + k - 1 \notin W
    <2>1. p + k - 1 \in Span(p, n)
      BY <1>3 DEF Span
    <2> QED
      BY <2>1
  <1>6. ASSUME NEW k \in 1..n, NEW x \in PageTables(W)
        PROVE  /\ G[k][x] = IF Len(x) >= TrackMax THEN x ELSE AddPage(x, p + k - 1, prot)
               /\ G[k][x] \in PageTables(W)
    <2>1. G[k][x] = IF Len(x) >= TrackMax THEN x ELSE AddPage(x, p + k - 1, prot)
      BY <1>4
    <2>2. AddPage(x, p + k - 1, prot) \in PageTables(W)
      BY <1>5, AddPageIn
    <2> QED
      BY <2>1, <2>2
  <1>7. \E f \in [0..n -> PageTables(W)] : f[0] = s /\ \A k \in 1..n : f[k] = G[k][f[k - 1]]
    <2>1. \A k \in 1..n : \A x \in PageTables(W) : G[k][x] \in PageTables(W)
      BY <1>6
    <2>2. StaysIn(PageTables(W), n, G)
      BY <2>1 DEF StaysIn
    <2>3. PICK f : IsRun(PageTables(W), s, n, G, f)
      BY <2>2, NatRun
    <2> QED
      BY <2>3 DEF IsRun
  <1>8. PICK f \in [0..n -> PageTables(W)] : f[0] = s /\ \A k \in 1..n : f[k] = G[k][f[k - 1]]
    BY <1>7
  <1>9. ASSUME NEW k \in 0..n
        PROVE  f[k] = IF k = 0 THEN s ELSE IF Len(f[k - 1]) >= TrackMax THEN f[k - 1]
                      ELSE AddPage(f[k - 1], p + k - 1, prot)
    <2>1. CASE k = 0
      BY <1>8, <2>1
    <2>2. CASE k # 0
      <3>1. k \in 1..n /\ k - 1 \in 0..n
        BY <2>2
      <3>2. f[k - 1] \in PageTables(W)
        BY <3>1
      <3> QED
        BY <1>6, <1>8, <2>2, <3>1, <3>2
    <2> QED
      BY <2>1, <2>2
  <1>10. f = [k \in 0..n |-> f[k]]
    OBVIOUS
  <1>11. IsAdding(s, p, n, prot, f)
    BY <1>9, <1>10 DEF IsAdding
  <1>12. IsAdding(s, p, n, prot, g)
    BY <1>1, <1>11
  <1>13. \A k \in 0..n : g[k] = IF k = 0 THEN s ELSE IF Len(g[k - 1]) >= TrackMax THEN g[k - 1]
                                ELSE AddPage(g[k - 1], p + k - 1, prot)
    BY <1>12 DEF IsAdding
  <1> DEFINE N == {k \in Nat : k <= n => g[k] \in PageTables(W)}
  <1>14. 0 \in N
    BY <1>13
  <1>15. ASSUME NEW k \in N PROVE k + 1 \in N
    <2>1. k \in Nat
      OBVIOUS
    <2>2. ASSUME k + 1 <= n PROVE g[k + 1] \in PageTables(W)
      <3>1. k <= n /\ k + 1 \in 0..n /\ k + 1 # 0 /\ (k + 1) - 1 = k /\ k + 1 \in 1..n
        BY <2>1, <2>2
      <3>2. g[k] \in PageTables(W)
        BY <3>1
      <3>3. g[k + 1] = IF Len(g[(k + 1) - 1]) >= TrackMax THEN g[(k + 1) - 1]
                       ELSE AddPage(g[(k + 1) - 1], p + (k + 1) - 1, prot)
        BY <1>13, <3>1
      <3>4. AddPage(g[k], p + (k + 1) - 1, prot) \in PageTables(W)
        BY <1>5, <3>1, <3>2, AddPageIn
      <3> QED
        BY <3>1, <3>2, <3>3, <3>4
    <2> QED
      BY <2>1, <2>2
  <1>16. N = Nat
    <2> HIDE DEF N
    <2>1. N \in SUBSET Nat
      BY DEF N
    <2> QED
      BY <1>14, <1>15, <2>1, NatSteps
  <1>17. g[n] \in PageTables(W)
    <2>1. n \in N
      BY <1>16
    <2> QED
      BY <2>1
  <1> QED
    BY <1>2, <1>17

\* The pages reported as handled and not set since are recorded as writable.
Unset == {p \in PpPage : handled[p] >= 1}
PagesInv ==
  /\ real \in [PpPage -> SUBSET {"r", "w", "x"}] /\ handled \in [PpPage -> {0, 1}]
  /\ pages \in PageTables(Unset)

LEMMA ReprotectedIn ==
  ASSUME real \in [PpPage -> SUBSET {"r", "w", "x"}], NEW S, NEW prot \in SUBSET {"r", "w", "x"}
  PROVE  Reprotected(S, prot) \subseteq [PpPage -> SUBSET {"r", "w", "x"}]
  <1>1. [q \in PpPage |-> IF q \in S THEN prot ELSE real[q]] \in [PpPage -> SUBSET {"r", "w", "x"}]
    OBVIOUS
  <1> QED
    BY <1>1 DEF Reprotected

\* Through overlapping mappings, changes of pages the table does not know,
\* faults and calls of mprotect that fail, the table has one record per page
\* within its array, and no page is reported as handled twice without being set
\* in between (page_protect_add, page_protect_handle_fault).
THEOREM PagesKept == PpSpec => []PagesRight
  <1>1. PpInit => PagesInv
    <2> SUFFICES ASSUME PpInit PROVE PagesInv
      OBVIOUS
    <2>1. <<>> \in PageTables(Unset)
      BY PageProtAssumption DEF PageTables
    <2> QED
      BY <2>1 DEF PpInit, PagesInv
  <1>2. PagesInv /\ [PpNext]_ppVars => PagesInv'
    <2> SUFFICES ASSUME PagesInv, [PpNext]_ppVars PROVE PagesInv'
      OBVIOUS
    <2>0. /\ real \in [PpPage -> SUBSET {"r", "w", "x"}] /\ handled \in [PpPage -> {0, 1}]
          /\ pages \in PageTables(Unset)
      BY DEF PagesInv
    <2>1. CASE UNCHANGED ppVars
      <3>1. pages' = pages /\ real' = real /\ handled' = handled /\ Unset' = Unset
        BY <2>1 DEF ppVars, Unset
      <3> QED
        BY <2>0, <3>1 DEF PagesInv
    <2>2. ASSUME NEW p \in PpPage, NEW n \in 1..MaxSpan, NEW prot \in Prots,
                 page_protect_mmap(p, n, prot) \/ page_protect_mprotect(p, n, prot)
          PROVE  PagesInv'
      <3>1. prot \in SUBSET {"r", "w", "x"} /\ n \in Nat /\ 1 \in Nat /\ p \in Nat
        BY PageProtAssumption
      <3>2. Span(p, n) \subseteq PpPage /\ handled' = Forgotten(Span(p, n)) /\ p \in Span(p, n)
        BY <2>2, <3>1 DEF page_protect_mmap, page_protect_mprotect, Span
      <3>3. handled' \in [PpPage -> {0, 1}] /\ Unset' = Unset \ Span(p, n)
        BY <2>0, <3>2 DEF Forgotten, Unset
      <3>4. PICK U : U = Unset'
        OBVIOUS
      <3>5. U \subseteq Unset /\ Span(p, n) \cap U = {} /\ p \notin U
        BY <3>2, <3>3, <3>4
      <3>6. pages \in PageTables(U)
        BY <2>0, <3>5 DEF PageTables
      <3>7. real' \in [PpPage -> SUBSET {"r", "w", "x"}] /\ pages' \in PageTables(U)
        <4>1. CASE page_protect_mmap(p, n, prot)
          <5>1. real' \in [PpPage -> SUBSET {"r", "w", "x"}]
            BY <2>0, <3>1, <4>1 DEF page_protect_mmap
          <5>2. AddRange(pages, p, n, prot) \in PageTables(U)
            BY <3>1, <3>2, <3>5, <3>6, AddRangeIn
          <5> QED
            BY <4>1, <5>1, <5>2 DEF page_protect_mmap
        <4>2. CASE page_protect_mprotect(p, n, prot)
          <5>1. real' \in [PpPage -> SUBSET {"r", "w", "x"}]
            BY <2>0, <3>1, <4>2, ReprotectedIn DEF page_protect_mprotect
          <5>2. AddPage(pages, p, prot) \in PageTables(U)
            BY <3>1, <3>5, <3>6, AddPageIn
          <5>3. Modified(p, prot) \in PageTables(U)
            <6>1. Span(p, 1) \subseteq PpPage /\ Span(p, 1) \cap U = {}
              BY <3>1, <3>5 DEF Span
            <6> QED
              BY <3>1, <3>6, <6>1, AddRangeIn DEF Modified
          <5>4. pages' = AddPage(pages, p, prot) \/ pages' = Modified(p, prot)
            BY <4>2 DEF page_protect_mprotect
          <5> QED
            BY <5>1, <5>2, <5>3, <5>4
        <4> QED
          BY <2>2, <4>1, <4>2
      <3> QED
        BY <3>3, <3>4, <3>7 DEF PagesInv
    <2>3. ASSUME NEW p \in PpPage, page_protect_handle_fault(p) PROVE PagesInv'
      <3>1. PICK n : n = Len(pages)
        OBVIOUS
      <3>2. /\ pages \in Seq(PageRecord) /\ n \in Nat /\ n <= TrackMax /\ DOMAIN pages = 1..n
            /\ \A i, j \in 1..n : i # j => pages[i].page_addr # pages[j].page_addr
            /\ \A i \in 1..n : pages[i].page_addr \in Unset => "w" \in pages[i].prot
        BY <2>0, <3>1 DEF PageTables
      <3>3. pages' = [i \in 1..n |-> IF pages[i].page_addr = p
                        THEN [pages[i] EXCEPT !.prot = AfterFault(@)] ELSE pages[i]]
        BY <2>3, <3>2 DEF page_protect_handle_fault
      <3>4. ASSUME NEW i \in 1..n
            PROVE  /\ pages'[i] \in PageRecord /\ pages'[i].page_addr = pages[i].page_addr
                   /\ pages[i].page_addr = p => "w" \in pages'[i].prot
                   /\ pages[i].page_addr # p => pages'[i] = pages[i]
        <4>1. pages[i] \in PageRecord
          BY <3>1, <3>2
        <4>2. PICK r : r = [pages[i] EXCEPT !.prot = AfterFault(@)]
          OBVIOUS
        <4>3. r \in PageRecord /\ r.page_addr = pages[i].page_addr /\ "w" \in r.prot
          BY <4>1, <4>2 DEF PageRecord, AfterFault
        <4>4. CASE pages[i].page_addr = p
          BY <3>3, <4>2, <4>3, <4>4
        <4>5. CASE pages[i].page_addr # p
          BY <3>3, <4>1, <4>5
        <4> QED
          BY <4>4, <4>5
      <3>5. pages' \in [1..n -> PageRecord]
        BY <3>3, <3>4
      <3>6. pages' \in Seq(PageRecord) /\ Len(pages') = n
        BY <3>2, <3>5, SeqDef, LenProperties
      <3>7. ASSUME NEW i \in 1..n, NEW j \in 1..n, i # j PROVE pages'[i].page_addr # pages'[j].page_addr
        BY <3>2, <3>4, <3>7
      <3>8. p \notin Unset
        <4>1. TrackedAt(p) # {} /\ "w" \notin Recorded(p)
          BY <2>3 DEF page_protect_handle_fault, FaultHandled
        <4>2. PICK i : i = CHOOSE k \in TrackedAt(p) : TRUE
          OBVIOUS
        <4>3. i \in 1..n /\ pages[i].page_addr = p /\ Recorded(p) = pages[i].prot
          BY <3>2, <4>1, <4>2 DEF TrackedAt, Recorded
        <4> QED
          BY <3>2, <4>1, <4>3
      <3>9. handled' \in [PpPage -> {0, 1}] /\ Unset' = Unset \cup {p}
        <4>1. handled[p] = 0
          BY <2>0, <3>8 DEF Unset
        <4>2. handled' = [handled EXCEPT ![p] = 1]
          BY <2>3, <4>1 DEF page_protect_handle_fault
        <4> QED
          BY <2>0, <4>2 DEF Unset
      <3>10. PICK U : U = Unset'
        OBVIOUS
      <3>11. ASSUME NEW i \in 1..n, pages'[i].page_addr \in U PROVE "w" \in pages'[i].prot
        BY <3>2, <3>4, <3>9, <3>10, <3>11
      <3>12. pages' \in PageTables(U)
        BY <3>2, <3>6, <3>7, <3>11 DEF PageTables
      <3>13. real' \in [PpPage -> SUBSET {"r", "w", "x"}]
        <4>1. Opened \in SUBSET {"r", "w", "x"}
          BY DEF Opened
        <4> QED
          BY <2>0, <2>3, <4>1, ReprotectedIn DEF page_protect_handle_fault
      <3> QED
        BY <3>9, <3>10, <3>12, <3>13 DEF PagesInv
    <2> QED
      BY <2>1, <2>2, <2>3 DEF PpNext
  <1>3. PagesInv => PagesRight
    <2> SUFFICES ASSUME PagesInv PROVE PagesRight
      OBVIOUS
    <2>1. pages \in PageTables(Unset) /\ handled \in [PpPage -> {0, 1}]
      BY DEF PagesInv
    <2>2. DOMAIN pages = 1..Len(pages)
      BY <2>1 DEF PageTables
    <2>3. TrackedOnce
      BY <2>1, <2>2 DEF TrackedOnce, PageTables
    <2>4. HandledOnce
      BY <2>1 DEF HandledOnce
    <2> QED
      BY <2>3, <2>4 DEF PagesRight
  <1> QED
    BY <1>1, <1>2, <1>3, PTL DEF PpSpec

-----------------------------------------------------------------------------
(***************************************************************************)
(* HotPasses.  The inductive invariant: what a running pass has written is *)
(* at most a constant factor of what it has read (one for dead code and    *)
(* fusion, 10/3 for constant propagation, nine for unrolling), and it has  *)
(* read at most twelve bytes behind its input; the code it reads is within *)
(* what the passes before it can have made of the window.                  *)
(***************************************************************************)
Factor(k) == IF k = 2 THEN 10 ELSE IF k = 4 THEN 27 ELSE 3
Grown(k) ==
  CASE k = 1 -> 3 * Window
    [] k = 2 -> 3 * Window + 36
    [] k = 3 -> 10 * Window + 240
    [] k = 4 -> 10 * Window + 276
    [] OTHER -> 90 * Window + 2808
Vals == [0..7 -> {<<>>} \union [1..8 -> Byte]]
PassTypes ==
  /\ passNo \in 1..5 /\ passSrc \in Nat /\ passCode \in Seq(Byte) /\ passOut \in Seq(Byte)
  /\ passBehind \in [1..9 -> Byte] /\ passVal \in Vals
PassInv ==
  /\ PassTypes /\ (passSrc > 0 => passNo <= 4)
  /\ 3 * Len(passCode) <= Grown(passNo)
  /\ passSrc <= Len(passCode) + 13
  /\ passSrc = 0 => Len(passOut) = 0
  /\ passSrc > 0 => 3 * Len(passOut) <= Factor(passNo) * (passSrc - 1)
Scanning == PassTypes /\ passSrc > 0 /\ passSrc <= Len(passCode)
StepIn(s, f) ==
  /\ s.out \in Seq(Byte) /\ s.val \in Vals /\ s.len \in Nat
  /\ 3 * Len(s.out) <= f * s.len /\ passSrc + s.len <= Len(passCode) + 13

\* n bytes are a sequence of length n.
LEMMA LineOf ==
  ASSUME NEW n \in Nat, NEW s \in [1..n -> Byte] PROVE s \in Seq(Byte) /\ Len(s) = n
  OBVIOUS

\* A step that reads len bytes and writes k of them.
LEMMA TookFits ==
  ASSUME NEW len \in Nat, NEW k \in Nat, NEW out \in [1..k -> Byte], NEW n, NEW val \in Vals,
         NEW f \in Nat, 3 * k <= f * len, passSrc + len <= Len(passCode) + 13
  PROVE  StepIn(Took(len, out, n, val), f)
  <1>1. out \in Seq(Byte) /\ Len(out) = k
    BY LineOf
  <1> QED
    BY <1>1 DEF StepIn, Took

\* Up to nine bytes behind the code, what is read are bytes.
LEMMA ByteIn ==
  ASSUME Scanning, NEW j \in Nat, passSrc + j <= Len(passCode) + 9 PROVE ByteAt(j) \in Byte
  <1>1. passSrc \in Nat /\ passSrc > 0 /\ passCode \in Seq(Byte) /\ Len(passCode) \in Nat
    BY DEF Scanning, PassTypes
  <1>2. CASE passSrc + j <= Len(passCode)
    <2>1. passSrc + j \in 1..Len(passCode)
      BY <1>1, <1>2
    <2> QED
      BY <1>1, <1>2, <2>1 DEF ByteAt
  <1>3. CASE ~(passSrc + j <= Len(passCode))
    <2>1. passSrc + j - Len(passCode) \in 1..9
      BY <1>1, <1>3
    <2>2. passBehind \in [1..9 -> Byte]
      BY DEF Scanning, PassTypes
    <2> QED
      BY <1>3, <2>1, <2>2 DEF ByteAt
  <1> QED
    BY <1>2, <1>3

LEMMA BytesIn ==
  ASSUME Scanning, NEW j \in Nat, NEW k \in Nat, j <= k, passSrc + k <= Len(passCode) + 9
  PROVE  Bytes(j, k) \in [1..k - j + 1 -> Byte]
  <1>1. \A i \in 1..k - j + 1 : ByteAt(j + i - 1) \in Byte
    <2> SUFFICES ASSUME NEW i \in 1..k - j + 1 PROVE ByteAt(j + i - 1) \in Byte
      OBVIOUS
    <2>1. j + i - 1 \in Nat /\ j + i - 1 <= k
      OBVIOUS
    <2>2. passSrc + (j + i - 1) <= Len(passCode) + 9
      BY <2>1 DEF Scanning, PassTypes
    <2> QED
      BY <2>1, <2>2, ByteIn
  <1> QED
    BY <1>1 DEF Bytes

\* The first ten bytes, and those of one byte, of eight and of ten.
LEMMA FirstBytes ==
  ASSUME Scanning
  PROVE  /\ \A j \in 0..9 : ByteAt(j) \in Byte
         /\ Bytes(0, 0) \in [1..1 -> Byte] /\ Bytes(0, 9) \in [1..10 -> Byte] /\ Bytes(2, 9) \in [1..8 -> Byte]
  <1>1. passSrc \in Nat /\ Len(passCode) \in Nat /\ passSrc <= Len(passCode)
    BY DEF Scanning, PassTypes
  <1>2. \A j \in 0..9 : ByteAt(j) \in Byte
    BY <1>1, ByteIn
  <1>3. ASSUME NEW j \in 0..9, NEW k \in 0..9, j <= k PROVE Bytes(j, k) \in [1..k - j + 1 -> Byte]
    <2>1. j \in Nat /\ k \in Nat /\ passSrc + k <= Len(passCode) + 9
      BY <1>1
    <2> QED
      BY <1>3, <2>1, BytesIn
  <1>4. Bytes(0, 0) \in [1..0 - 0 + 1 -> Byte] /\ Bytes(0, 9) \in [1..9 - 0 + 1 -> Byte]
    BY <1>3
  <1>5. Bytes(2, 9) \in [1..9 - 2 + 1 -> Byte]
    BY <1>3
  <1>6. 0 - 0 + 1 = 1 /\ 9 - 0 + 1 = 10 /\ 9 - 2 + 1 = 8
    OBVIOUS
  <1> QED
    BY <1>2, <1>4, <1>5, <1>6

\* A byte copied fits every pass.
LEMMA CopiedFits == ASSUME Scanning, NEW f \in Nat, f >= 3 PROVE StepIn(Copied, f)
  <1>1. /\ passSrc \in Nat /\ Len(passCode) \in Nat /\ passSrc <= Len(passCode) /\ passVal \in Vals
    BY DEF Scanning, PassTypes
  <1>2. Bytes(0, 0) \in [1..1 -> Byte]
    BY FirstBytes
  <1>3. 3 * 1 <= f * 1 /\ passSrc + 1 <= Len(passCode) + 13
    BY <1>1
  <1> QED
    BY <1>1, <1>2, <1>3, TookFits DEF Copied

\* optimize_dead_code_elimination writes no more than it reads.
LEMMA DeadFits == ASSUME Scanning PROVE StepIn(DeadStep, 3)
  <1>0. /\ passSrc \in Nat /\ Len(passCode) \in Nat /\ passSrc <= Len(passCode) /\ passVal \in Vals
    BY DEF Scanning, PassTypes
  <1>1. DeadLength \in {0, 1, 3, 4}
    BY DEF DeadLength
  <1>2. CASE DeadLength > 0
    <2> PICK l \in {1, 3, 4} : l = DeadLength
      BY <1>1, <1>2
    <2>1. <<>> \in [1..0 -> Byte]
      OBVIOUS
    <2>a. l \in Nat /\ 3 * 0 <= 3 * l /\ passSrc + l <= Len(passCode) + 13
      BY <1>0
    <2>2. StepIn(Took(l, <<>>, 1, passVal), 3)
      BY <1>0, <2>1, <2>a, TookFits
    <2> QED
      BY <1>2, <2>2 DEF DeadStep
  <1>3. CASE ~(DeadLength > 0)
    BY <1>3, CopiedFits DEF DeadStep
  <1> QED
    BY <1>2, <1>3

\* The sum and the conjunction of constants are constants.
LEMMA ConstantsIn ==
  ASSUME Scanning, NEW a \in [1..8 -> Byte], NEW b \in [1..8 -> Byte]
  PROVE  SumBytes(a, b) \in [1..8 -> Byte] /\ Masked(a) \in [1..8 -> Byte]
  <1>1. \A k \in 1..8 : Carry(a, b, k) \in {0, 1}
    BY DEF Carry
  <1>2. \A k \in 1..8 : (a[k] + b[k] + Carry(a, b, k)) % 256 \in Byte
    <2> SUFFICES ASSUME NEW k \in 1..8 PROVE (a[k] + b[k] + Carry(a, b, k)) % 256 \in Byte
      OBVIOUS
    <2> PICK c \in {0, 1} : c = Carry(a, b, k)
      BY <1>1
    <2>0. a[k] \in Byte /\ b[k] \in Byte
      OBVIOUS
    <2>1. a[k] \in Nat /\ b[k] \in Nat
      BY <2>0 DEF Byte
    <2>2. (a[k] + b[k] + c) % 256 \in 0..255
      BY <2>1
    <2> QED
      BY <2>2 DEF Byte
  <1>3. \A x, y : AndByte(x, y) \in Byte
    <2> SUFFICES ASSUME NEW x, NEW y PROVE AndByte(x, y) \in Byte
      OBVIOUS
    <2>1. /\ BothSet(x, y, 1) \in {0, 1} /\ BothSet(x, y, 2) \in {0, 2} /\ BothSet(x, y, 4) \in {0, 4}
          /\ BothSet(x, y, 8) \in {0, 8} /\ BothSet(x, y, 16) \in {0, 16} /\ BothSet(x, y, 32) \in {0, 32}
          /\ BothSet(x, y, 64) \in {0, 64} /\ BothSet(x, y, 128) \in {0, 128}
      BY Zenon DEF BothSet
    <2> QED
      BY <2>1 DEF AndByte, Byte
  <1>4. SumBytes(a, b) \in [1..8 -> Byte]
    BY <1>2 DEF SumBytes
  <1>5. Masked(a) \in [1..8 -> Byte]
    <2>1. 0 \in Byte
      BY DEF Byte
    <2> QED
      BY <1>3, <2>1 DEF Masked
  <1> QED
    BY <1>4, <1>5

\* optimize_constant_propagation writes at most ten bytes for three.
LEMMA PropFits == ASSUME Scanning PROVE StepIn(PropStep, 10)
  <1>0. /\ passSrc \in Nat /\ Len(passCode) \in Nat /\ passSrc <= Len(passCode) /\ passVal \in Vals
    BY DEF Scanning, PassTypes
  <1>1. ASSUME NEW len \in {3, 7}, NEW reg \in 0..7, NEW v \in [1..8 -> Byte]
        PROVE  StepIn(Moved(len, reg, v), 10)
    <2> DEFINE o == [i \in 1..10 |-> IF i = 1 THEN 72 ELSE IF i = 2 THEN 184 + reg ELSE v[i - 2]]
    <2>1. o \in [1..10 -> Byte]
      <3>1. 72 \in Byte /\ 184 + reg \in Byte
        BY DEF Byte
      <3>2. \A i \in 1..10 : i # 1 /\ i # 2 => i - 2 \in 1..8
        OBVIOUS
      <3> QED
        BY <3>1, <3>2
    <2> HIDE DEF o
    <2>2. [passVal EXCEPT ![reg] = v] \in Vals
      BY <1>0 DEF Vals
    <2>a. len \in Nat /\ 3 * 10 <= 10 * len /\ passSrc + len <= Len(passCode) + 13
      BY <1>0
    <2>3. StepIn(Took(len, o, 1, [passVal EXCEPT ![reg] = v]), 10)
      BY <2>1, <2>2, <2>a, TookFits
    <2> QED
      BY <2>3 DEF Moved, o
  <1>2. /\ \A j \in 0..9 : ByteAt(j) \in Byte
        /\ Bytes(0, 0) \in [1..1 -> Byte] /\ Bytes(0, 9) \in [1..10 -> Byte] /\ Bytes(2, 9) \in [1..8 -> Byte]
    BY FirstBytes
  <1>3. PICK m \in Byte : m = ByteAt(2)
    BY <1>2
  <1>4. m % 8 \in 0..7 /\ (m \div 8) % 8 \in 0..7
    BY DEF Byte
  <1>5. ASSUME MovImm
        PROVE  StepIn(Took(10, Bytes(0, 9), 1, [passVal EXCEPT ![ByteAt(1) - 184] = Bytes(2, 9)]), 10)
    <2> PICK r \in 0..7 : r = ByteAt(1) - 184
      BY <1>2, <1>5 DEF MovImm
    <2> PICK b \in [1..8 -> Byte] : b = Bytes(2, 9)
      BY <1>2
    <2>2. [passVal EXCEPT ![r] = b] \in Vals
      BY <1>0 DEF Vals
    <2>3. 3 * 10 <= 10 * 10 /\ passSrc + 10 <= Len(passCode) + 13
      BY <1>0
    <2>4. StepIn(Took(10, Bytes(0, 9), 1, [passVal EXCEPT ![r] = b]), 10)
      BY <1>2, <2>2, <2>3, TookFits
    <2> QED
      BY <2>4
  <1>6. StepIn(Took(1, Bytes(0, 0), 1, [passVal EXCEPT ![m % 8] = ZeroBytes]), 10)
    <2>1. ZeroBytes \in [1..8 -> Byte]
      BY DEF ZeroBytes, Byte
    <2> PICK q \in 0..7 : q = m % 8
      BY <1>4
    <2>2. [passVal EXCEPT ![q] = ZeroBytes] \in Vals
      BY <1>0, <2>1 DEF Vals
    <2>3. 3 * 1 <= 10 * 1 /\ passSrc + 1 <= Len(passCode) + 13
      BY <1>0
    <2>4. StepIn(Took(1, Bytes(0, 0), 1, [passVal EXCEPT ![q] = ZeroBytes]), 10)
      BY <1>2, <2>2, <2>3, TookFits
    <2> QED
      BY <2>4
  <1>7. \A r \in 0..7 : passVal[r] # <<>> => passVal[r] \in [1..8 -> Byte]
    BY <1>0 DEF Vals
  <1>8. ASSUME AddKnown
        PROVE  StepIn(Moved(AddLength, (m \div 8) % 8, SumBytes(passVal[(m \div 8) % 8], passVal[m % 8])), 10)
    <2> PICK r \in 0..7 : r = (m \div 8) % 8
      BY <1>4
    <2> PICK q \in 0..7 : q = m % 8
      BY <1>4
    <2>1. passVal[r] \in [1..8 -> Byte] /\ passVal[q] \in [1..8 -> Byte]
      BY <1>3, <1>7, <1>8 DEF AddKnown
    <2>2. SumBytes(passVal[r], passVal[q]) \in [1..8 -> Byte]
      BY <2>1, ConstantsIn
    <2>3. StepIn(Moved(3, r, SumBytes(passVal[r], passVal[q])), 10)
      BY <1>1, <2>2
    <2> QED
      BY <2>3 DEF AddLength
  <1>9. ASSUME AndKnown PROVE StepIn(Moved(7, m % 8, Masked(passVal[m % 8])), 10)
    <2> PICK q \in 0..7 : q = m % 8
      BY <1>4
    <2>1. passVal[q] \in [1..8 -> Byte]
      BY <1>3, <1>7, <1>9 DEF AndKnown
    <2>2. Masked(passVal[q]) \in [1..8 -> Byte]
      BY <2>1, ConstantsIn
    <2> QED
      BY <1>1, <2>2
  <1>10. StepIn(Copied, 10)
    BY CopiedFits
  <1>11. \/ MovImm /\ PropStep = Took(10, Bytes(0, 9), 1, [passVal EXCEPT ![ByteAt(1) - 184] = Bytes(2, 9)])
         \/ PropStep = Took(1, Bytes(0, 0), 1, [passVal EXCEPT ![m % 8] = ZeroBytes])
         \/ AddKnown /\ PropStep = Moved(AddLength, (m \div 8) % 8, SumBytes(passVal[(m \div 8) % 8], passVal[m % 8]))
         \/ AndKnown /\ PropStep = Moved(7, m % 8, Masked(passVal[m % 8]))
         \/ PropStep = Copied
    BY <1>3 DEF PropStep
  <1> QED
    BY <1>5, <1>6, <1>8, <1>9, <1>10, <1>11

\* optimize_instruction_fusion writes no more than it reads.
LEMMA FuseFits == ASSUME Scanning PROVE StepIn(FuseStep, 3)
  <1>0. /\ passSrc \in Nat /\ Len(passCode) \in Nat /\ passSrc <= Len(passCode) /\ passVal \in Vals
    BY DEF Scanning, PassTypes
  <1>1. StepIn(Copied, 3)
    BY CopiedFits
  <1>2. ASSUME Room(5), NEW out \in [1..6 -> Byte] PROVE StepIn(Took(6, out, 1, passVal), 3)
    <2>1. 3 * 6 <= 3 * 6 /\ passSrc + 6 <= Len(passCode) + 13
      BY <1>0
    <2> QED
      BY <1>0, <2>1, TookFits
  <1>3. ASSUME Room(7), NEW k \in {9, 13}, NEW out \in [1..k -> Byte]
        PROVE  StepIn(Took(13, out, 1, passVal), 3)
    <2>1. k \in Nat /\ 3 * k <= 3 * 13 /\ passSrc + 13 <= Len(passCode) + 13
      BY <1>0
    <2> QED
      BY <1>0, <2>1, TookFits
  <1>4. Bytes(0, 5) \in [1..6 -> Byte]
    <2>1. passSrc + 5 <= Len(passCode) + 9 /\ 5 - 0 + 1 = 6 /\ 0 \in Nat /\ 5 \in Nat /\ 0 <= 5
      BY <1>0
    <2>2. Bytes(0, 5) \in [1..5 - 0 + 1 -> Byte]
      BY <2>1, BytesIn
    <2> QED
      BY <2>1, <2>2
  <1>5. ASSUME Room(7) PROVE Bytes(0, 12) \in [1..13 -> Byte]
    <2>1. passSrc + 12 <= Len(passCode) + 9 /\ 12 - 0 + 1 = 13 /\ 0 \in Nat /\ 12 \in Nat /\ 0 <= 12
      BY <1>0, <1>5 DEF Room
    <2>2. Bytes(0, 12) \in [1..12 - 0 + 1 -> Byte]
      BY <2>1, BytesIn
    <2> QED
      BY <2>1, <2>2
  <1>6. ASSUME Room(7)
        PROVE  StepIn(Took(13, [i \in 1..9 |-> IF i <= 3 THEN Test[i] ELSE ByteAt(i + 3)], 1, passVal), 3)
    <2> DEFINE o == [i \in 1..9 |-> IF i <= 3 THEN Test[i] ELSE ByteAt(i + 3)]
    <2>1. \A i \in 1..9 : i <= 3 => Test[i] \in Byte
      BY DEF Test, Byte
    <2>2. \A i \in 1..9 : ByteAt(i + 3) \in Byte
      <3> SUFFICES ASSUME NEW i \in 1..9 PROVE ByteAt(i + 3) \in Byte
        OBVIOUS
      <3>1. i + 3 \in Nat /\ passSrc + (i + 3) <= Len(passCode) + 9
        BY <1>0, <1>6 DEF Room
      <3> QED
        BY <3>1, ByteIn
    <2>3. o \in [1..9 -> Byte]
      BY <2>1, <2>2
    <2> HIDE DEF o
    <2>4. StepIn(Took(13, o, 1, passVal), 3)
      BY <1>3, <1>6, <2>3
    <2> QED
      BY <2>4 DEF o
  <1>7. ASSUME Room(5) PROVE /\ StepIn(Took(6, [Bytes(0, 5) EXCEPT ![2] = 49], 1, passVal), 3)
                             /\ StepIn(Took(6, Bytes(0, 5), 1, passVal), 3)
    <2> PICK b \in [1..6 -> Byte] : b = Bytes(0, 5)
      BY <1>4
    <2>1. [b EXCEPT ![2] = 49] \in [1..6 -> Byte]
      BY DEF Byte
    <2>2. StepIn(Took(6, [b EXCEPT ![2] = 49], 1, passVal), 3) /\ StepIn(Took(6, b, 1, passVal), 3)
      BY <1>2, <1>7, <2>1
    <2> QED
      BY <2>2
  <1>8. ASSUME Room(7)
        PROVE  StepIn(Took(13, [Bytes(0, 12) EXCEPT ![2] = 247, ![3] = 192 + (ByteAt(2) % 8)], 1, passVal), 3)
    <2> PICK b \in [1..13 -> Byte] : b = Bytes(0, 12)
      BY <1>5, <1>8
    <2> PICK m \in Byte : m = ByteAt(2)
      BY FirstBytes
    <2> PICK x \in Byte : x = 192 + (m % 8)
      BY DEF Byte
    <2>0. 247 \in Byte
      BY DEF Byte
    <2>1. [b EXCEPT ![2] = 247, ![3] = x] \in [1..13 -> Byte]
      BY <2>0
    <2>2. StepIn(Took(13, [b EXCEPT ![2] = 247, ![3] = x], 1, passVal), 3)
      BY <1>3, <1>8, <2>1
    <2> QED
      BY <2>2
  <1>9. (CmpJe => Room(7)) /\ (AndJcc => Room(7))
    BY DEF CmpJe, AndJcc
  <1>10. \/ FuseStep = Copied
         \/ CmpJe /\ FuseStep = Took(13, [i \in 1..9 |-> IF i <= 3 THEN Test[i] ELSE ByteAt(i + 3)], 1, passVal)
         \/ Room(5) /\ FuseStep = Took(6, [Bytes(0, 5) EXCEPT ![2] = 49], 1, passVal)
         \/ AndJcc /\ FuseStep = Took(13, [Bytes(0, 12) EXCEPT ![2] = 247, ![3] = 192 + (ByteAt(2) % 8)], 1, passVal)
         \/ Room(5) /\ FuseStep = Took(6, Bytes(0, 5), 1, passVal)
    BY DEF FuseStep
  <1> QED
    BY <1>1, <1>6, <1>7, <1>8, <1>9, <1>10

\* The bytes a remainder gives are those of the body.
LEMMA Remainder == ASSUME NEW x \in Nat, NEW z \in Nat \ {0} PROVE (x % z) + 1 \in 1..z
  <1>1. x % z \in 0..z - 1
    OBVIOUS
  <1> PICK y \in 0..z - 1 : y = x % z
    BY <1>1
  <1> QED
    OBVIOUS

\* Up to eight copies of a body.
LEMMA TimesIn ==
  ASSUME NEW b \in Seq(Byte), NEW k \in 0..8 PROVE Times(b, k) \in Seq(Byte) /\ Len(Times(b, k)) = k * Len(b)
  <1> PICK z \in Nat : z = Len(b)
    OBVIOUS
  <1>1. k * z \in Nat
    OBVIOUS
  <1>2. ASSUME NEW i \in 1..k * z PROVE b[((i - 1) % z) + 1] \in Byte
    <2>1. z # 0
      BY <1>1
    <2>2. ((i - 1) % z) + 1 \in 1..z
      BY <1>1, <2>1, Remainder
    <2> QED
      BY <2>2
  <1>3. Times(b, k) \in [1..k * z -> Byte]
    BY <1>2 DEF Times
  <1> QED
    BY <1>1, <1>3, LineOf

\* A number taken modulo 256 is a byte.
LEMMA ByteModulo == ASSUME NEW x \in Int PROVE x % 256 \in Byte
  BY DEF Byte

\* The loop around the ninth copy.
LEMMA RestIn ==
  ASSUME NEW mov \in BOOLEAN, NEW b \in Seq(Byte), NEW rest \in Byte
  PROVE  RestLoop(mov, b, rest) \in Seq(Byte) /\ Len(RestLoop(mov, b, rest)) = Len(b) + 7
  <1> DEFINE h == IF mov THEN <<185, rest, 0, 0, 0>> ELSE <<176, rest, 15, 182, 200>>
             x == (0 - (Len(b) + (IF mov THEN 5 ELSE 8))) % 256
  <1>1. x \in Byte
    <2>1. 0 - (Len(b) + (IF mov THEN 5 ELSE 8)) \in Int
      OBVIOUS
    <2> QED
      BY <2>1, ByteModulo
  <1>2. RestLoop(mov, b, rest) = (h \o b) \o <<226, x>>
    BY DEF RestLoop
  <1> HIDE DEF x
  <1>3. 185 \in Byte /\ 176 \in Byte /\ 15 \in Byte /\ 182 \in Byte /\ 200 \in Byte /\ 226 \in Byte /\ 0 \in Byte
    BY DEF Byte
  <1>4. h \in Seq(Byte) /\ Len(h) = 5
    BY <1>3
  <1> HIDE DEF h
  <1>5. <<226, x>> \in Seq(Byte) /\ Len(<<226, x>>) = 2
    BY <1>1, <1>3
  <1>a. h \o b \in Seq(Byte) /\ Len(h \o b) = Len(h) + Len(b)
    BY <1>4, ConcatProperties
  <1>6. h \o b \in Seq(Byte) /\ Len(h \o b) = 5 + Len(b)
    BY <1>4, <1>a
  <1> PICK hb : hb = h \o b
    OBVIOUS
  <1> PICK e : e = <<226, x>>
    OBVIOUS
  <1>7. hb \o e \in Seq(Byte) /\ Len(hb \o e) = Len(hb) + Len(e)
    BY <1>5, <1>6, ConcatProperties
  <1>8. Len(b) \in Nat
    OBVIOUS
  <1>9. Len(hb \o e) = Len(b) + 7
    BY <1>5, <1>6, <1>7, <1>8
  <1> QED
    BY <1>2, <1>7, <1>9

\* Eight copies of a body at most, and a loop around a ninth.
LEMMA UnrolledIn ==
  ASSUME NEW mov \in BOOLEAN, NEW b \in Seq(Byte), NEW n \in Byte
  PROVE  Unrolled(mov, b, n) \in Seq(Byte) /\ Len(Unrolled(mov, b, n)) <= 9 * Len(b) + 7
  <1> PICK z \in Nat : z = Len(b)
    OBVIOUS
  <1>1. CopiesOf(n) \in 0..8 /\ n \in Nat /\ (n > 8 => n - CopiesOf(n) \in Byte)
    BY DEF CopiesOf, Byte
  <1>2. CASE n <= 8
    <2>1. n \in 0..8 /\ Unrolled(mov, b, n) = Times(b, n)
      BY <1>1, <1>2 DEF Unrolled
    <2>2. Times(b, n) \in Seq(Byte) /\ Len(Times(b, n)) = n * z
      BY <2>1, TimesIn
    <2>3. n * z <= 9 * z + 7
      BY <2>1
    <2> QED
      BY <2>1, <2>2, <2>3
  <1>3. CASE ~(n <= 8)
    <2> PICK k \in 0..8 : k = CopiesOf(n)
      BY <1>1
    <2>0. n - k \in Byte
      BY <1>1, <1>3
    <2> PICK r : r = RestLoop(mov, b, n - k)
      OBVIOUS
    <2> PICK t : t = Times(b, k)
      OBVIOUS
    <2>1. Unrolled(mov, b, n) = t \o r
      BY <1>3 DEF Unrolled
    <2>2. t \in Seq(Byte) /\ Len(t) = k * z
      BY TimesIn
    <2>3. r \in Seq(Byte) /\ Len(r) = z + 7
      BY <2>0, RestIn
    <2>4. t \o r \in Seq(Byte) /\ Len(t \o r) = Len(t) + Len(r)
      BY <2>2, <2>3, ConcatProperties
    <2>5. k * z <= 8 * z /\ k * z \in Nat
      OBVIOUS
    <2>6. Len(t \o r) <= 9 * z + 7
      BY <2>2, <2>3, <2>4, <2>5
    <2> QED
      BY <2>1, <2>4, <2>6
  <1> QED
    BY <1>2, <1>3

\* What lies between the start of a body and the byte E2 behind it.
LEMMA BodyIn ==
  ASSUME NEW c \in Seq(Byte), NEW start \in Nat \ {0}, NEW j \in start..Len(c) - 2
  PROVE  SubSeq(c, start, j - 1) \in Seq(Byte) /\ Len(SubSeq(c, start, j - 1)) = j - start
  <1> PICK z \in Nat : z = j - start
    OBVIOUS
  <1>1. SubSeq(c, start, j - 1) = [i \in 1..z |-> c[i + start - 1]]
    OBVIOUS
  <1>2. \A i \in 1..z : i + start - 1 \in 1..Len(c)
    OBVIOUS
  <1>a. \A i \in 1..Len(c) : c[i] \in Byte
    OBVIOUS
  <1>b. \A i \in 1..z : c[i + start - 1] \in Byte
    BY <1>2, <1>a, Zenon
  <1>3. SubSeq(c, start, j - 1) \in [1..z -> Byte]
    BY <1>1, <1>b
  <1> QED
    BY <1>3, LineOf

\* optimize_loop_unrolling writes at most nine bytes for one.
LEMMA UnrollAtFits ==
  ASSUME Scanning, NEW mov \in BOOLEAN, NEW d \in {4, 5}, NEW n \in Byte, NEW max
  PROVE  StepIn(UnrollAt(mov, passSrc + d, n, max), 27)
  <1> PICK start : start = passSrc + d
    OBVIOUS
  <1>0. /\ passSrc \in Nat /\ Len(passCode) \in Nat /\ passSrc <= Len(passCode) /\ passVal \in Vals
        /\ passCode \in Seq(Byte)
    BY DEF Scanning, PassTypes
  <1>1. start \in Nat \ {0} /\ start >= passSrc + 4
    BY <1>0
  <1>2. StepIn(Copied, 27)
    BY CopiedFits
  <1>3. CASE LoopFrom(start) = {}
    BY <1>2, <1>3 DEF UnrollAt
  <1>4. CASE LoopFrom(start) # {}
    <2> PICK j : j = CHOOSE i \in LoopFrom(start) : TRUE
      OBVIOUS
    <2>1. j \in LoopFrom(start)
      BY <1>4
    <2>2. j \in start..Len(passCode) - 2
      BY <2>1 DEF LoopFrom
    <2> PICK len : len = j + 2 - passSrc
      OBVIOUS
    <2>3. len \in Nat /\ len >= (j - start) + 6 /\ passSrc + len <= Len(passCode) + 13 /\ j - start \in Nat
      BY <1>0, <1>1, <2>2
    <2> PICK b : b = SubSeq(passCode, start, j - 1)
      OBVIOUS
    <2>4. b \in Seq(Byte) /\ Len(b) = j - start
      BY <1>0, <1>1, <2>2, BodyIn
    <2>5. Unrolled(mov, b, n) \in Seq(Byte) /\ Len(Unrolled(mov, b, n)) <= 9 * (j - start) + 7
      BY <2>4, UnrolledIn
    <2>6. ASSUME NEW out \in Seq(Byte), Len(out) <= 9 * (j - start) + 7 PROVE StepIn(Took(len, out, 1, passVal), 27)
      <3>1. Len(out) \in Nat
        OBVIOUS
      <3>2. 3 * Len(out) <= 27 * len
        BY <2>3, <2>6, <3>1
      <3> QED
        BY <1>0, <2>3, <3>2 DEF StepIn, Took
    <2>7. <<>> \in Seq(Byte) /\ Len(<<>>) <= 9 * (j - start) + 7
      BY <2>3
    <2>8. StepIn(Took(len, <<>>, 1, passVal), 27) /\ StepIn(Took(len, Unrolled(mov, b, n), 1, passVal), 27)
      BY <2>5, <2>6, <2>7
    <2>9. \/ UnrollAt(mov, start, n, max) = Took(len, <<>>, 1, passVal)
          \/ UnrollAt(mov, start, n, max) = Took(len, Unrolled(mov, b, n), 1, passVal)
          \/ UnrollAt(mov, start, n, max) = Copied
      BY <1>4 DEF UnrollAt
    <2> QED
      BY <1>2, <2>8, <2>9
  <1> QED
    BY <1>3, <1>4

LEMMA UnrollFits == ASSUME Scanning PROVE StepIn(UnrollStep, 27)
  <1>1. StepIn(Copied, 27)
    BY CopiedFits
  <1>2. \A j \in 0..9 : ByteAt(j) \in Byte
    BY FirstBytes
  <1>3. MovCount \in Byte
    BY <1>2 DEF MovCount, Large, Byte
  <1>4. StepIn(UnrollAt(TRUE, passSrc + 5, MovCount, 64), 27)
    BY <1>3, UnrollAtFits
  <1>5. ByteAt(3) \in Byte
    BY <1>2
  <1>6. StepIn(UnrollAt(FALSE, passSrc + 4, ByteAt(3), 32), 27)
    BY <1>5, UnrollAtFits
  <1> QED
    BY <1>1, <1>4, <1>6 DEF UnrollStep

\* What a step of the running pass writes is within its factor.
LEMMA StepFits == ASSUME Scanning, passNo <= 4 PROVE StepIn(PassStep, Factor(passNo))
  <1>1. passNo \in 1..4
    BY DEF Scanning, PassTypes
  <1>2. CASE passNo = 1
    BY <1>2, DeadFits DEF PassStep, Factor
  <1>3. CASE passNo = 2
    BY <1>3, PropFits DEF PassStep, Factor
  <1>4. CASE passNo = 3
    BY <1>4, FuseFits DEF PassStep, Factor
  <1>5. CASE passNo = 4
    BY <1>5, UnrollFits DEF PassStep, Factor
  <1> QED
    BY <1>1, <1>2, <1>3, <1>4, <1>5

\* What is within a factor stays so when both grow.
LEMMA FactorAdds ==
  ASSUME NEW f \in {3, 10, 27}, NEW l \in Nat, NEW o \in Nat, NEW q \in Nat, NEW p \in Nat, p > 0,
         3 * o <= f * l, 3 * q <= f * (p - 1)
  PROVE  3 * (q + o) <= f * (p + l - 1) /\ p + l \in Nat /\ p + l > 0
  <1>1. CASE f = 3
    BY <1>1
  <1>2. CASE f = 10
    BY <1>2
  <1>3. CASE f = 27
    BY <1>3
  <1> QED
    BY <1>1, <1>2, <1>3

LEMMA ScanKeeps == ASSUME PassInv, ScanStep PROVE PassInv'
  <1>1. Scanning /\ passNo <= 4 /\ passNo \in 1..5
    BY DEF PassInv, ScanStep, Scanning, PassTypes
  <1> PICK s : s = PassStep
    OBVIOUS
  <1> PICK f \in {3, 10, 27} : f = Factor(passNo)
    BY DEF Factor
  <1>2. StepIn(s, f)
    BY <1>1, StepFits
  <1>3. /\ passSrc' = passSrc + s.len /\ passOut' = passOut \o s.out /\ passVal' = s.val
        /\ passCode' = passCode /\ passNo' = passNo /\ passBehind' = passBehind
    BY DEF ScanStep
  <1>4. /\ passOut \in Seq(Byte) /\ passSrc \in Nat /\ passSrc > 0 /\ 3 * Len(passOut) <= f * (passSrc - 1)
    BY <1>1 DEF PassInv, PassTypes, Scanning
  <1>5. passOut' \in Seq(Byte) /\ Len(passOut') = Len(passOut) + Len(s.out)
    BY <1>2, <1>3, <1>4, ConcatProperties DEF StepIn
  <1>6. /\ s.len \in Nat /\ Len(s.out) \in Nat /\ Len(passOut) \in Nat /\ 3 * Len(s.out) <= f * s.len
    BY <1>2, <1>4 DEF StepIn
  <1>7. passSrc' \in Nat /\ passSrc' > 0 /\ 3 * Len(passOut') <= f * (passSrc' - 1)
    <2> PICK l \in Nat : l = s.len
      BY <1>6
    <2> PICK o \in Nat : o = Len(s.out)
      BY <1>6
    <2> PICK q \in Nat : q = Len(passOut)
      BY <1>6
    <2> PICK p \in Nat : p = passSrc
      BY <1>4
    <2>1. 3 * o <= f * l /\ 3 * q <= f * (p - 1) /\ p > 0
      BY <1>4, <1>6
    <2>2. 3 * (q + o) <= f * (p + l - 1) /\ p + l \in Nat /\ p + l > 0
      BY <2>1, FactorAdds
    <2> QED
      BY <1>3, <1>5, <2>2
  <1>8. PassTypes'
    BY <1>1, <1>2, <1>3, <1>5, <1>7 DEF PassInv, PassTypes, StepIn
  <1>9. Factor(passNo)' = f /\ Grown(passNo)' = Grown(passNo)
    BY <1>3 DEF Factor, Grown
  <1> QED
    BY <1>1, <1>2, <1>3, <1>7, <1>8, <1>9 DEF PassInv, StepIn

\* What a pass leaves is within what the next may read.
LEMMA EndKeeps == ASSUME PassInv, EndPass PROVE PassInv'
  <1>1. /\ passNo \in 1..4 /\ passSrc \in Nat /\ passSrc > 0
        /\ passCode \in Seq(Byte) /\ passOut \in Seq(Byte) /\ passBehind \in [1..9 -> Byte]
        /\ 3 * Len(passOut) <= Factor(passNo) * (passSrc - 1) /\ passSrc <= Len(passCode) + 13
        /\ 3 * Len(passCode) <= Grown(passNo)
    BY DEF EndPass, PassInv, PassTypes
  <1>2. /\ passNo' = passNo + 1 /\ passSrc' = 0 /\ passOut' = <<>> /\ passVal' = NoConstants
        /\ (passCode' = passOut \/ passCode' = passCode) /\ (passBehind' \in Behind \/ passBehind' = passBehind)
    BY DEF EndPass
  <1>3. Len(passCode) \in Nat /\ Len(passOut) \in Nat /\ Window \in Nat
    BY <1>1, PassAssumption
  <1>4. 3 * Len(passOut) <= Grown(passNo + 1) /\ 3 * Len(passCode) <= Grown(passNo + 1)
    <2>1. CASE passNo = 1
      <3>1. Factor(passNo) = 3 /\ Grown(passNo) = 3 * Window /\ Grown(passNo + 1) = 3 * Window + 36
        BY <2>1 DEF Factor, Grown
      <3> QED
        BY <1>1, <1>3, <3>1
    <2>2. CASE passNo = 2
      <3>1. Factor(passNo) = 10 /\ Grown(passNo) = 3 * Window + 36 /\ Grown(passNo + 1) = 10 * Window + 240
        BY <2>2 DEF Factor, Grown
      <3> QED
        BY <1>1, <1>3, <3>1
    <2>3. CASE passNo = 3
      <3>1. Factor(passNo) = 3 /\ Grown(passNo) = 10 * Window + 240 /\ Grown(passNo + 1) = 10 * Window + 276
        BY <2>3 DEF Factor, Grown
      <3> QED
        BY <1>1, <1>3, <3>1
    <2>4. CASE passNo = 4
      <3>1. Factor(passNo) = 27 /\ Grown(passNo) = 10 * Window + 276 /\ Grown(passNo + 1) = 90 * Window + 2808
        BY <2>4 DEF Factor, Grown
      <3> QED
        BY <1>1, <1>3, <3>1
    <2> QED
      BY <1>1, <2>1, <2>2, <2>3, <2>4
  <1>5. PassTypes'
    <2>1. NoConstants \in Vals /\ <<>> \in Seq(Byte)
      BY DEF NoConstants, Vals
    <2>2. passBehind' \in [1..9 -> Byte]
      BY <1>1, <1>2, PassAssumption
    <2> QED
      BY <1>1, <1>2, <2>1, <2>2 DEF PassTypes
  <1>6. 3 * Len(passCode') <= Grown(passNo)'
    BY <1>2, <1>4 DEF Grown
  <1>7. Len(passCode') \in Nat
    BY <1>1, <1>2
  <1> QED
    BY <1>2, <1>5, <1>6, <1>7 DEF PassInv

LEMMA StartKeeps == ASSUME PassInv, StartPass \/ SkipPass PROVE PassInv'
  <1>1. /\ passNo \in 1..4 /\ passSrc = 0 /\ PassTypes /\ Len(passOut) = 0 /\ Len(passCode) \in Nat
        /\ 3 * Len(passCode) <= Grown(passNo)
    BY DEF StartPass, SkipPass, PassInv, PassTypes
  <1>2. passCode' = passCode /\ passOut' = passOut /\ passVal' = passVal /\ passBehind' = passBehind
    BY DEF StartPass, SkipPass
  <1>3. CASE StartPass
    <2>1. passSrc' = 1 /\ passNo' = passNo
      BY <1>3 DEF StartPass
    <2>2. PassTypes'
      BY <1>1, <1>2, <2>1 DEF PassTypes
    <2>3. Grown(passNo)' = Grown(passNo) /\ Factor(passNo)' \in {3, 10, 27}
      BY <2>1 DEF Grown, Factor
    <2>4. 3 * 0 <= Factor(passNo)' * (1 - 1)
      BY <2>3
    <2> QED
      BY <1>1, <1>2, <2>1, <2>2, <2>3, <2>4 DEF PassInv
  <1>4. CASE SkipPass
    <2>1. passSrc' = 0 /\ passNo' = passNo + 1
      BY <1>1, <1>4 DEF SkipPass
    <2>2. PassTypes'
      BY <1>1, <1>2, <2>1 DEF PassTypes
    <2>3. Grown(passNo) <= Grown(passNo + 1) /\ Grown(passNo) \in Nat /\ Grown(passNo + 1) \in Nat
      <3>0. Window \in Nat
        BY PassAssumption
      <3>1. CASE passNo = 1
        BY <3>0, <3>1 DEF Grown
      <3>2. CASE passNo = 2
        BY <3>0, <3>2 DEF Grown
      <3>3. CASE passNo = 3
        BY <3>0, <3>3 DEF Grown
      <3>4. CASE passNo = 4
        BY <3>0, <3>4 DEF Grown
      <3> QED
        BY <1>1, <3>1, <3>2, <3>3, <3>4
    <2>4. 3 * Len(passCode') <= Grown(passNo)'
      <3>1. Grown(passNo)' = Grown(passNo + 1)
        BY <2>1 DEF Grown
      <3> QED
        BY <1>1, <1>2, <2>3, <3>1
    <2> QED
      BY <1>1, <1>2, <2>1, <2>2, <2>4 DEF PassInv
  <1> QED
    BY <1>3, <1>4

\* The most a running pass can have written is less than its buffer.
LEMMA PassesFitBuffer == ASSUME PassInv PROVE OutputFits
  <1>1. /\ passNo \in 1..5 /\ passSrc \in Nat /\ Len(passOut) \in Nat /\ Len(passCode) \in Nat
        /\ Window \in Nat /\ Window >= 32
    BY PassAssumption DEF PassInv, PassTypes
  <1>2. CASE passSrc = 0
    BY <1>1, <1>2 DEF PassInv, OutputFits, buffer_size
  <1>3. CASE passSrc > 0
    <2>1. /\ 3 * Len(passOut) <= Factor(passNo) * (passSrc - 1) /\ passSrc <= Len(passCode) + 13
          /\ 3 * Len(passCode) <= Grown(passNo) /\ passNo <= 4
      BY <1>3 DEF PassInv
    <2>2. Factor(passNo) \in {3, 10, 27} /\ (Factor(passNo) = 27 => Grown(passNo) = 10 * Window + 276)
      BY DEF Factor, Grown
    <2>3. Grown(passNo) <= 10 * Window + 276 /\ Grown(passNo) \in Nat
      <3>1. CASE passNo = 1
        BY <1>1, <3>1 DEF Grown
      <3>2. CASE passNo = 2
        BY <1>1, <3>2 DEF Grown
      <3>3. CASE passNo = 3
        BY <1>1, <3>3 DEF Grown
      <3>4. CASE passNo = 4
        BY <1>1, <3>4 DEF Grown
      <3> QED
        BY <1>1, <2>1, <3>1, <3>2, <3>3, <3>4
    <2>4. 3 * Len(passOut) <= 27 * (passSrc - 1)
      <3> PICK g \in {3, 10, 27} : g = Factor(passNo)
        BY <2>2
      <3>1. passSrc - 1 \in Nat /\ 3 * Len(passOut) <= g * (passSrc - 1)
        BY <1>1, <1>3, <2>1
      <3> QED
        BY <1>1, <3>1
    <2>5. 3 * (passSrc - 1) <= 10 * Window + 276 + 36
      BY <1>1, <2>1, <2>3
    <2>6. Len(passOut) <= 64 * Window
      BY <1>1, <2>4, <2>5
    <2> QED
      BY <2>6 DEF OutputFits, buffer_size
  <1> QED
    BY <1>1, <1>2, <1>3

\* Whatever bytes lie at the entry of a hot block, whatever the patterns take
\* them for, and whichever of the buffers cannot be allocated: no pass writes
\* behind its buffer (hotblock_apply_optimizations).
THEOREM PassesFit == PassSpec => []OutputFits
  <1>1. PassInit => PassInv
    <2> SUFFICES ASSUME PassInit PROVE PassInv
      OBVIOUS
    <2>1. passCode \in [1..Window -> Byte] /\ Window \in Nat /\ passBehind \in [1..9 -> Byte]
      BY PassAssumption DEF PassInit
    <2>2. passCode \in Seq(Byte) /\ Len(passCode) = Window
      BY <2>1, LineOf
    <2>3. passVal \in Vals /\ passOut \in Seq(Byte) /\ Len(passOut) = 0 /\ passNo = 1 /\ passSrc = 0
      BY DEF PassInit, NoConstants, Vals
    <2>4. Grown(passNo) = 3 * Window
      BY <2>3 DEF Grown
    <2> QED
      BY <2>1, <2>2, <2>3, <2>4 DEF PassInv, PassTypes
  <1>2. PassInv /\ [PassNext]_passVars => PassInv'
    <2> SUFFICES ASSUME PassInv, [PassNext]_passVars PROVE PassInv'
      OBVIOUS
    <2>1. CASE UNCHANGED passVars
      BY <2>1 DEF passVars, PassInv, PassTypes, Grown, Factor
    <2> QED
      BY <2>1, StartKeeps, ScanKeeps, EndKeeps DEF PassNext
  <1> QED
    BY <1>1, <1>2, PassesFitBuffer, PTL DEF PassSpec
=============================================================================
