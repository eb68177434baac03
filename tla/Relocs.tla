------------------------------- MODULE Relocs -------------------------------
(***************************************************************************)
(* Relocation of a loaded library: ElfRelocate and ElfRelocate32           *)
(* (modules/arm2x86_elf.c), apply_relr_relocations and                     *)
(* apply_android_packed_relocs with its LEB128 decoders                    *)
(* (modules/arm2x86_syscall.c).  The image is a memory of units, of which  *)
(* a word has W; one entry of a table is handled per step.  A unit holds a *)
(* hexadecimal digit, a bitmap of the RELR format has Bits bits, and a     *)
(* byte of a packed stream carries 2 bits beside the continuation bit.     *)
(***************************************************************************)
EXTENDS Integers, Sequences, FiniteSets

CONSTANTS
  Bias,          \* load_bias, the p_vaddr of the first PT_LOAD
  ImageSize,     \* the units mapped (mapped_size)
  W, Bits,
  Symbols,       \* the symbol table has the indices 0..Symbols - 1
  Resolved,      \* the symbols dlsym finds
  RelInputs      \* the tables: [how, size, table, plt, stream, count]

VARIABLES
  relIn,         \* the tables of the library being relocated
  image,         \* the value of each unit, of those behind the image too
  relAt,         \* the next entry of the table, or the next byte of the stream
  relRun,        \* RELR: base address and bit offset; packed: the group
  relDone,       \* the tables have been handled
  outside        \* the units outside the image that have been written

relVars == <<relIn, image, relAt, relRun, relDone, outside>>

-----------------------------------------------------------------------------
Digit == 16
Mapped == Bias .. Bias + ImageSize - 1
Reach == Bias .. Bias + ImageSize + 2 * W
Load(mem, addr) ==
  LET part[k \in 0..W] == IF k = 0 THEN 0 ELSE part[k - 1] + mem[addr + k - 1] * Digit^(k - 1)
  IN part[W]
Store(mem, addr, v) ==
  [u \in Reach |-> IF u \in addr .. addr + W - 1 THEN (v \div Digit^(u - addr)) % Digit ELSE mem[u]]
(* The address dlsym returns.                                               *)
AddressOf(sym) == 64 + sym
(* A store to the word at addr, some of whose units may be behind the image.*)
Write(addr, v) ==
  /\ image' = Store(image, addr, v)
  /\ outside' = outside \union ((addr .. addr + W - 1) \ Mapped)
Add(addr, n) == Write(addr, Load(image, addr) + n)
NoWrite == UNCHANGED <<image, outside>>
(* The start of the word is compared with mapped_size or with size, which   *)
(* is that of the file.                                                     *)
InMapped(addr) == Bias <= addr /\ addr < Bias + ImageSize
InFile(addr) == Bias <= addr /\ addr < Bias + relIn.size
InLow(addr) == Bias <= addr /\ addr < relIn.size
Finish == relDone' = TRUE /\ UNCHANGED <<relIn, image, relAt, relRun, outside>>

-----------------------------------------------------------------------------
(* An entry of DT_RELA: [type, off, sym, addend].                           *)
Rela(e) ==
  IF ~InMapped(e.off) THEN NoWrite
  ELSE IF e.type = "relative" THEN Write(e.off, Bias + e.addend)
  ELSE IF e.type \in {"glob_dat", "abs"} /\ e.sym < Symbols /\ e.sym \in Resolved
       THEN Write(e.off, AddressOf(e.sym) + e.addend)
  ELSE IF e.type = "jump_slot" /\ e.sym < Symbols /\ e.sym \in Resolved
       THEN Write(e.off, AddressOf(e.sym))
  ELSE NoWrite
(* An entry of DT_JMPREL: only jump slots.                                  *)
Plt(e) ==
  IF e.type = "jump_slot" /\ e.sym < Symbols /\ e.sym \in Resolved /\ InMapped(e.off)
  THEN Write(e.off, AddressOf(e.sym))
  ELSE NoWrite
(* DT_RELA first, then DT_JMPREL, as one sequence of entries.               *)
ElfRelocate ==
  /\ relIn.how = "rela" /\ ~relDone
  /\ LET n == Len(relIn.table)
     IN \/ /\ relAt <= n /\ Rela(relIn.table[relAt])
           /\ relAt' = relAt + 1 /\ UNCHANGED <<relIn, relRun, relDone>>
        \/ /\ relAt > n /\ relAt <= n + Len(relIn.plt) /\ Plt(relIn.plt[relAt - n])
           /\ relAt' = relAt + 1 /\ UNCHANGED <<relIn, relRun, relDone>>
        \/ relAt > n + Len(relIn.plt) /\ Finish

(* DT_REL of a 32-bit library: the addend is in the word, and the offset is *)
(* compared with the size alone.  Symbols are looked up with the handle of  *)
(* the module, which ElfLoad leaves NULL: none is found.                    *)
Rel(e) ==
  IF InLow(e.off) /\ e.type = "relative" THEN Add(e.off, Bias) ELSE NoWrite
ElfRelocate32 ==
  /\ relIn.how = "rel" /\ ~relDone
  /\ \/ /\ relAt <= Len(relIn.table) /\ Rel(relIn.table[relAt])
        /\ relAt' = relAt + 1 /\ UNCHANGED <<relIn, relRun, relDone>>
     \/ relAt > Len(relIn.table) /\ Finish

-----------------------------------------------------------------------------
(* RELR.  relRun: addr, and bit >= 0 while a bitmap follows.                *)
RelrOne(addr) == IF InFile(addr) THEN Add(addr, Bias) ELSE NoWrite
(* The words of the bits set in a bitmap, all in one step.                  *)
BitSet(bitmap, b) == (bitmap \div 2^b) % 2 = 1
RelrBitmap(addr, bit, bitmap) ==
  LET at(b) == addr + (bit + b) * W
      hit == {b \in 0..Bits - 1 : BitSet(bitmap, b) /\ InFile(at(b))}
      after[b \in 0..Bits] ==
        IF b = 0 THEN image
        ELSE IF b - 1 \in hit
             THEN Store(after[b - 1], at(b - 1), Load(after[b - 1], at(b - 1)) + Bias)
        ELSE after[b - 1]
  IN /\ image' = after[Bits]
     /\ outside' = outside \union (UNION {at(b) .. at(b) + W - 1 : b \in hit} \ Mapped)
(* After a bitmap the run goes on only over zero entries.                   *)
RunEnds(i) == i <= Len(relIn.table) /\ relIn.table[i] # 0
RelrFirst ==
  /\ relAt = 1 /\ relIn.table # <<>>
  /\ RelrOne(relIn.table[1])
  /\ relRun' = [addr |-> relIn.table[1], bit |-> -1]
RelrEntry ==
  LET e == relIn.table[relAt]
  IN /\ relAt > 1 /\ relAt <= Len(relIn.table)
     /\ \/ /\ relRun.bit < 0 /\ e % 2 = 1
           /\ RelrOne(relRun.addr + W)
           /\ relRun' = [relRun EXCEPT !.addr = @ + W]
        \/ /\ relRun.bit < 0 /\ e = 0 /\ NoWrite /\ UNCHANGED relRun
        \/ /\ relRun.bit < 0 /\ e % 2 = 0 /\ e # 0 /\ NoWrite
           /\ relRun' = [addr |-> e, bit |-> 0]
        \/ /\ relRun.bit >= 0
           /\ RelrBitmap(relRun.addr, relRun.bit, e)
           /\ relRun' = [relRun EXCEPT !.bit = IF RunEnds(relAt + 1) THEN -1 ELSE @ + Bits]
apply_relr_relocations ==
  /\ relIn.how = "relr" /\ ~relDone
  /\ \/ /\ RelrFirst \/ RelrEntry
        /\ relAt' = relAt + 1 /\ UNCHANGED <<relIn, relDone>>
     \/ relAt > Len(relIn.table) /\ Finish

-----------------------------------------------------------------------------
(* LEB128 over bytes of 3 bits.  The index behind a number that starts at p *)
(* and its value; the decoders do not look at the end of the data.          *)
LebEnd(s, p) == CHOOSE q \in p..Len(s) : s[q] < 4 /\ \A k \in p..q - 1 : s[k] >= 4
LebPast(s, p) == LebEnd(s, p) + 1
decode_uleb128(s, p) ==
  LET q == LebEnd(s, p)
      val[k \in p..q] == (s[k] % 4) + (IF k = q THEN 0 ELSE 4 * val[k + 1])
  IN val[p]
SlebUnsigned(s, p) == decode_uleb128(s, p)
decode_sleb128(s, p) ==
  LET q == LebEnd(s, p)
      u == decode_uleb128(s, p)
  IN IF s[q] % 4 >= 2 THEN u - 4^(q - p + 1) ELSE u

(* relRun: the relocations left in the group, its type and addend, the      *)
(* offset so far and how many relocations have been processed.              *)
PackedStart ==
  LET s == relIn.stream
      p == LebPast(s, 1)
  IN /\ relAt = 1
     /\ relRun' = [left |-> 0, type |-> 0, addend |-> 0, off |-> 0, done |-> 0,
                   count |-> decode_uleb128(s, 1)]
     /\ relAt' = LebPast(s, p)
     /\ relDone' = (decode_uleb128(s, 1) = 0 \/ LebPast(s, p) > Len(s))
     /\ NoWrite
(* A group's count, type and addend; the loop ends at a count of zero and   *)
(* when the data end before the first offset.                               *)
PackedGroup ==
  LET s == relIn.stream
      p == LebPast(s, relAt)
      r == LebPast(s, p)
      ends == decode_uleb128(s, relAt) = 0 \/ p > Len(s) \/ r > Len(s) \/ LebPast(s, r) > Len(s)
  IN /\ relAt > 1 /\ relRun.left = 0 /\ relAt <= Len(s) /\ relRun.done < relRun.count
     /\ \/ /\ ~ends
           /\ relRun' = [relRun EXCEPT !.left = decode_uleb128(s, relAt),
                                       !.type = decode_uleb128(s, p),
                                       !.addend = decode_sleb128(s, r)]
           /\ relAt' = LebPast(s, r) /\ UNCHANGED relDone
        \/ ends /\ relDone' = TRUE /\ UNCHANGED <<relRun, relAt>>
     /\ NoWrite
PackedFromBase(s) == decode_uleb128(s, relAt)
(* The offset of a relocation: a delta from the one before, also across     *)
(* groups.                                                                  *)
PackedOffset(s) == relRun.off + decode_uleb128(s, relAt)
(* What a relocation leaves in its word.  Types: 1 ABS64 or ABS32, 2        *)
(* GLOB_DAT or JUMP_SLOT, any other is handled as relative.  No symbol is   *)
(* found with the NULL handle: that leaves the word alone in a 64-bit       *)
(* GLOB_DAT or JUMP_SLOT.  A 32-bit library adds to the word.               *)
PackedValue(type, addend, old) ==
  IF relIn.how = "packed32" THEN old + Bias + addend
  ELSE IF type = 2 THEN old ELSE Bias + addend
PackedOne ==
  LET off == PackedOffset(relIn.stream)
  IN /\ relAt > 1 /\ relRun.left > 0 /\ relAt <= Len(relIn.stream) /\ relRun.done < relRun.count
     /\ IF InFile(off)
          THEN Write(off, PackedValue(relRun.type, relRun.addend, Load(image, off)))
          ELSE NoWrite
     /\ relRun' = [relRun EXCEPT !.left = @ - 1, !.off = off, !.done = @ + 1]
     /\ relAt' = LebPast(relIn.stream, relAt)
     /\ UNCHANGED relDone
apply_android_packed_relocs ==
  /\ relIn.how \in {"packed", "packed32"} /\ ~relDone
  /\ \/ (PackedStart \/ PackedGroup \/ PackedOne) /\ UNCHANGED relIn
     \/ relAt > 1 /\ (relAt > Len(relIn.stream) \/ relRun.done >= relRun.count) /\ Finish

RelInit ==
  /\ relIn \in RelInputs
  /\ image = [u \in Reach |-> 0]
  /\ relAt = 1 /\ relRun = [none |-> 0] /\ relDone = FALSE /\ outside = {}

RelNext ==
  ElfRelocate \/ ElfRelocate32 \/ apply_relr_relocations \/ apply_android_packed_relocs

-----------------------------------------------------------------------------
(* What the tables mean, against which the loops are compared.              *)
EncodeRel(v) ==
  LET enc[k \in 0..3] ==
        LET rest == v \div 4^k
        IN IF rest < 4 THEN <<rest>> ELSE <<4 + (rest % 4)>> \o enc[k + 1]
  IN enc[0]
EncodeSigned(v) ==
  LET enc[k \in 0..4] ==
        LET rest == v \div 4^k
        IN IF rest \in -2..1 THEN <<rest % 4>> ELSE <<4 + (rest % 4)>> \o enc[k + 1]
  IN enc[0]
(* A packed stream for groups [type, addend, deltas].                       *)
EncodeGroup(g) ==
  LET tail[k \in 0..Len(g.deltas)] ==
        IF k = 0 THEN <<>> ELSE tail[k - 1] \o EncodeRel(g.deltas[k])
  IN EncodeRel(Len(g.deltas)) \o EncodeRel(g.type) \o EncodeSigned(g.addend) \o tail[Len(g.deltas)]
EncodePacked(count, groups) ==
  LET all[k \in 0..Len(groups)] ==
        IF k = 0 THEN EncodeRel(count) \o EncodeRel(W) ELSE all[k - 1] \o EncodeGroup(groups[k])
  IN all[Len(groups)]
(* The relocations of the groups in order, offset, type and addend, up to   *)
(* an empty group, which ends the stream.                                   *)
Flat(groups) ==
  LET one(g, base) ==
        LET off[k \in 0..Len(g.deltas)] == IF k = 0 THEN base ELSE off[k - 1] + g.deltas[k]
        IN [k \in DOMAIN g.deltas |-> [off |-> off[k], type |-> g.type, addend |-> g.addend]]
      all[k \in 0..Len(groups)] ==
        IF k = 0 THEN <<>>
        ELSE LET before == all[k - 1]
             IN IF \E j \in 1..k : groups[j].deltas = <<>> THEN before
                ELSE before \o one(groups[k], IF before = <<>> THEN 0 ELSE before[Len(before)].off)
  IN all[Len(groups)]

(* The memory after the relocations of a packed stream that the header      *)
(* counts and that are in Range, in order.                                  *)
PackedMeaning(Range(_)) ==
  LET flat == Flat(relIn.table)
      counted == IF Len(flat) < relIn.count THEN Len(flat) ELSE relIn.count
      after[k \in 0..counted] ==
        IF k = 0 THEN [u \in Reach |-> 0]
        ELSE LET e == flat[k]
                 old == after[k - 1]
             IN IF Range(e.off) THEN Store(old, e.off, PackedValue(e.type, e.addend, Load(old, e.off)))
                ELSE old
  IN after[counted]

(* Every relocation of a packed stream that the header counts and that is   *)
(* in the first size bytes is applied, in order, at the sum of the deltas   *)
(* before it, with the type and addend of its group, and no other byte      *)
(* changes (apply_android_packed_relocs and the LEB128 decoders).           *)
PackedRight ==
  relIn.how \in {"packed", "packed32"} /\ relDone => image = PackedMeaning(InFile)

(* Whatever the table says, nothing before the image is written, and behind *)
(* the size that the loop compares with only the rest of a word that starts *)
(* in it (the range checks of the four relocation loops).                   *)
Checked == IF relIn.how = "rela" THEN ImageSize ELSE relIn.size
WithinReach == outside \subseteq Bias + ImageSize .. Bias + Checked + W - 2

(* Packed relocations change the words they name, as they say, and no      *)
(* relocation reaches further than a word that starts in range.            *)
RelocsRight == PackedRight /\ WithinReach

(* Not true of the code; see the README: no store leaves the image.         *)
WithinImage == outside = {}
(* A packed relocation of a word of the image behind the end of the file    *)
(* (in .bss) is applied, too.                                               *)
PackedAll == relIn.how = "packed" /\ relDone => image = PackedMeaning(InMapped)
(* An odd entry of a RELR table is a bitmap for the words behind the last   *)
(* address, and an even one is itself relocated.                            *)
RelrMeaning(t) ==
  LET run[k \in 0..Len(t)] ==
        IF k = 0 THEN [base |-> 0, hit |-> {}]
        ELSE LET p == run[k - 1]
             IN IF t[k] % 2 = 0 THEN [base |-> t[k] + W, hit |-> p.hit \union {t[k]}]
                ELSE [base |-> p.base + W * (Bits - 1),
                      hit |-> p.hit \union {p.base + W * (b - 1) : b \in {c \in 1..Bits - 1 : BitSet(t[k], c)}}]
  IN run[Len(t)].hit
RelrRight ==
  relIn.how = "relr" /\ relDone =>
    \A k \in 0 .. (ImageSize \div W) - 1 :
      Load(image, Bias + k * W) = IF Bias + k * W \in RelrMeaning(relIn.table) THEN Bias ELSE 0
=============================================================================
