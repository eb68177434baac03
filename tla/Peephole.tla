------------------------------ MODULE Peephole ------------------------------
(***************************************************************************)
(* arm2x86_peephole_optimize (modules/arm2x86_peephole.c), on the bytes it *)
(* scans and moves.  The patterns change a copy of the size pointer, never *)
(* the size: the loop walks on over the bytes that the moves leave behind, *)
(* and a pattern may read past the end of the code.  No caller is compiled *)
(* in (translate64.c:4653 is a comment).                                   *)
(***************************************************************************)
EXTENDS Integers, Sequences, SequencesExt

CONSTANTS
  PeepInstr,    \* encodings, byte sequences, that programs are made of
  PeepBehind,   \* bytes that may follow the code
  MaxPeep,      \* bound: instructions of a program before its RET
  MaxRewrite    \* bound: rewrites followed

VARIABLES
  peepProgram,  \* the instructions given
  peepBehind,   \* the byte behind the code
  peepCode,     \* the bytes, rewritten in place
  peepIdx,      \* idx, from 1
  rewrites,     \* optimized
  zeroMoved,    \* optimize_mov_zero applied
  peepAt        \* "scan", "end", or "fault": memmove of a negative length
peepVars == <<peepProgram, peepBehind, peepCode, peepIdx, rewrites, zeroMoved, peepAt>>

PeepRet == <<195>>
CodeByte(c, p) == IF p <= Len(c) THEN c[p] ELSE peepBehind
RexW(c, p) == CodeByte(c, p) = 72
Zeros(c, from, n) == \A k \in 0 .. n - 1 : CodeByte(c, from + k) = 0

(* A ModRM byte in register mode naming one register twice, or the group   *)
(* g of an immediate instruction.                                          *)
RegTwice(m) == m >= 192 /\ m % 8 = (m \div 8) % 8
OfGroup(m, g) == m \div 8 = 24 + g
IsMov(b) == b \div 8 = 23

is_xor_zero(c, p) ==
  LET q == IF RexW(c, p) THEN p + 1 ELSE p
  IN  CodeByte(c, q) = 49 /\ RegTwice(CodeByte(c, q + 1))
is_mov_imm64(c, p) == RexW(c, p) /\ IsMov(CodeByte(c, p + 1))
is_mov_zero(c, p) ==
  \/ is_xor_zero(c, p)
  \/ is_mov_imm64(c, p) /\ Zeros(c, p + 2, 8)
  \/ IsMov(CodeByte(c, p)) /\ Zeros(c, p + 1, 4)
(* The register of the zero move: the low bits of ModRM or of the opcode.  *)
ZeroReg(c, p) ==
  CodeByte(c, p + (IF RexW(c, p) THEN 1 ELSE 0) + (IF is_xor_zero(c, p) THEN 1 ELSE 0)) % 8

(* Position of the ModRM byte of a group 83 instruction with immediate.    *)
Modrm83(c, p) == IF RexW(c, p) THEN p + 2 ELSE p + 1
is_add_imm8(c, p) == CodeByte(c, Modrm83(c, p) - 1) = 131 /\ OfGroup(CodeByte(c, Modrm83(c, p)), 0)
AddReg(c, p) == CodeByte(c, Modrm83(c, p)) % 8
AddImm(c, p) == CodeByte(c, Modrm83(c, p) + 1)

(* is_mov_reg with dest = src: REX.R counts for dest and REX.B for src.    *)
SelfMove(c, p) ==
  \/ CodeByte(c, p) \in {72, 77} /\ CodeByte(c, p + 1) = 137 /\ RegTwice(CodeByte(c, p + 2))
  \/ CodeByte(c, p) = 137 /\ RegTwice(CodeByte(c, p + 1))

get_instr_len(c, p) ==
  LET b == CodeByte(c, p)
      o == CodeByte(c, p + 1)
      rex == b \in {72, 73, 76, 77}
  IN  CASE rex /\ IsMov(o) -> 10
        [] rex /\ o \in {137, 139, 1, 41, 33, 9, 49, 51, 57, 59, 133} -> 3 + (b % 2)
        [] rex /\ o = 131 -> 4
        [] rex /\ o = 129 -> 7
        [] IsMov(b) -> 5
        [] b \div 8 = 22 -> 2
        [] b = 15 -> IF o >= 128 THEN 6 ELSE 2
        [] b \in {233, 232} -> 5
        [] b = 235 -> 2
        [] b = 199 -> 7
        [] OTHER -> 1

(* Eight bytes, the lowest first, plus eight bytes and a carry; an         *)
(* immediate byte with its sign in the seven above.                        *)
Plus(a, b, c0) ==
  LET carry[k \in 0 .. 8] == IF k = 0 THEN c0 ELSE (a[k] + b[k] + carry[k - 1]) \div 256
  IN  [k \in 1 .. 8 |-> (a[k] + b[k] + carry[k - 1]) % 256]
Signed(b) == <<b>> \o [k \in 1 .. 7 |-> IF b < 128 THEN 0 ELSE 255]
Word(c, p) == [k \in 1 .. 8 |-> CodeByte(c, p + k - 1)]

(* The first pattern that matches: the bytes written and how many they     *)
(* stand for.  optimize_xor_mov never gets its turn: what it looks for     *)
(* matches optimize_mov_zero.  XOR and TEST are written with (E)AX as      *)
(* their second register and without REX.W.                                *)
Ways(c, p) ==
  CASE is_mov_zero(c, p) -> {[new |-> <<49, 192 + ZeroReg(c, p)>>, old |-> IF RexW(c, p) THEN 10 ELSE 5]}
    [] ~is_mov_zero(c, p) /\ is_add_imm8(c, p) /\ AddImm(c, p) = 0 -> {[new |-> <<>>, old |-> 4]}
    [] RexW(c, p) /\ CodeByte(c, p + 1) = 131 /\ OfGroup(CodeByte(c, p + 2), 5) /\ CodeByte(c, p + 3) = 0
         -> {[new |-> <<>>, old |-> 4]}
    [] RexW(c, p) /\ CodeByte(c, p + 1) = 129 /\ OfGroup(CodeByte(c, p + 2), 7) /\ Zeros(c, p + 3, 4)
         -> {[new |-> <<133, 192 + (CodeByte(c, p + 2) % 8)>>, old |-> 7]}
    [] SelfMove(c, p) -> {[new |-> <<>>, old |-> IF RexW(c, p) THEN 3 ELSE 2]}
    [] /\ is_mov_imm64(c, p) /\ ~is_mov_zero(c, p)
       /\ is_add_imm8(c, p + 10) /\ AddReg(c, p + 10) = CodeByte(c, p + 1) % 8
         -> {[new |-> <<72, CodeByte(c, p + 1)>> \o Plus(Word(c, p + 2), Signed(AddImm(c, p + 10)), 0), old |-> 14]}
    [] OTHER -> {}
(* A mutant that drops one byte too many with an addition of zero. *)
PatternsGreedy(c, p) ==
  IF is_add_imm8(c, p) /\ AddImm(c, p) = 0 THEN {[new |-> <<>>, old |-> 5]} ELSE Ways(c, p)
Patterns(c, p) == Ways(c, p)

(* The new bytes, and memmove of the ones behind the old to behind them.   *)
Replace(c, p, new, old) ==
  [q \in DOMAIN c |->
     IF q < p THEN c[q]
     ELSE IF q < p + Len(new) THEN new[q - p + 1]
     ELSE IF q + old - Len(new) \in DOMAIN c THEN c[q + old - Len(new)]
     ELSE c[q]]

PeepInit ==
  /\ peepProgram \in {Append(p, PeepRet) : p \in UNION {[1 .. n -> PeepInstr] : n \in 0 .. MaxPeep}}
  /\ peepBehind \in PeepBehind
  /\ peepCode = FlattenSeq(peepProgram) /\ peepIdx = 1
  /\ rewrites = 0 /\ zeroMoved = FALSE /\ peepAt = "scan"

(* One turn of the loop: the index stays when a pattern applied; a length  *)
(* below zero is a huge one to memmove.                                    *)
PeepRewrite ==
  /\ peepAt = "scan" /\ peepIdx <= Len(peepCode) /\ rewrites < MaxRewrite
  /\ \E w \in Patterns(peepCode, peepIdx) :
       /\ peepIdx + w.old - 1 <= Len(peepCode)
       /\ peepCode' = Replace(peepCode, peepIdx, w.new, w.old)
  /\ zeroMoved' = (zeroMoved \/ is_mov_zero(peepCode, peepIdx))
  /\ rewrites' = rewrites + 1
  /\ UNCHANGED <<peepProgram, peepBehind, peepIdx, peepAt>>
PeepFault ==
  /\ peepAt = "scan" /\ peepIdx <= Len(peepCode)
  /\ \E w \in Patterns(peepCode, peepIdx) : peepIdx + w.old - 1 > Len(peepCode)
  /\ peepAt' = "fault"
  /\ UNCHANGED <<peepProgram, peepBehind, peepCode, peepIdx, rewrites, zeroMoved>>
PeepAdvance ==
  /\ peepAt = "scan" /\ peepIdx <= Len(peepCode) /\ Patterns(peepCode, peepIdx) = {}
  /\ peepIdx' = peepIdx + get_instr_len(peepCode, peepIdx)
  /\ UNCHANGED <<peepProgram, peepBehind, peepCode, rewrites, zeroMoved, peepAt>>
PeepEnd ==
  /\ peepAt = "scan" /\ peepIdx > Len(peepCode) /\ peepAt' = "end"
  /\ UNCHANGED <<peepProgram, peepBehind, peepCode, peepIdx, rewrites, zeroMoved>>
PeepNext == PeepRewrite \/ PeepFault \/ PeepAdvance \/ PeepEnd
PeepSpec == PeepInit /\ [][PeepNext]_peepVars
-----------------------------------------------------------------------------
(* What the REX.W forms, TEST and XOR EAX, EAX do up to the first RET:     *)
(* registers are eight bytes, zf the zero flag.  Anything else, half an    *)
(* instruction too, is Torn.                                               *)
Torn == [x |-> <<>>, zf |-> FALSE]
Complement(a) == [k \in 1 .. 8 |-> 255 - a[k]]
Disjoint(a, b) == \A j \in 0 .. 7 : (a \div 2^j) % 2 = 0 \/ (b \div 2^j) % 2 = 0
IsZero(a) == \A k \in 1 .. 8 : a[k] = 0
RECURSIVE Meaning(_, _, _)
Meaning(c, p, st) ==
  LET b == CodeByte(c, p)
      o == CodeByte(c, p + 1)
      m == CodeByte(c, p + 2)
      x == st.x
      dst == m % 8
      src == x[(m \div 8) % 8]
      imm == Signed(CodeByte(c, p + 3))
      next(s) == Meaning(c, p + get_instr_len(c, p), s)
      put(r, v) == [st EXCEPT !.x[r] = v, !.zf = IsZero(v)]
  IN  CASE b = 195 -> st
        [] b = 144 -> next(st)
        [] b = 72 /\ IsMov(o) -> next([st EXCEPT !.x[o % 8] = Word(c, p + 2)])
        [] b = 72 /\ o = 137 /\ m >= 192 -> next([st EXCEPT !.x[dst] = src])
        [] b = 72 /\ o = 1 /\ m >= 192 -> next(put(dst, Plus(x[dst], src, 0)))
        [] b = 72 /\ o = 131 /\ OfGroup(m, 0) -> next(put(dst, Plus(x[dst], imm, 0)))
        [] b = 72 /\ o = 131 /\ OfGroup(m, 5) -> next(put(dst, Plus(x[dst], Complement(imm), 1)))
        [] b = 72 /\ o = 129 /\ OfGroup(m, 7) ->
             next([st EXCEPT !.zf = x[dst] = [k \in 1 .. 8 |-> IF k <= 4 THEN CodeByte(c, p + 2 + k) ELSE 0]])
        [] b = 72 /\ o = 49 /\ RegTwice(m) -> next(put(dst, Signed(0)))
        [] b = 49 /\ o = 192 -> Meaning(c, p + 2, put(0, Signed(0)))
        [] b = 133 /\ o >= 192 ->
             Meaning(c, p + 2, [st EXCEPT !.zf = \A k \in 1 .. 4 : Disjoint(x[o % 8][k], x[0][k])])
        [] OTHER -> Torn
PeepStart == [x |-> [r \in 0 .. 7 |-> Signed(r + 1)], zf |-> FALSE]
Before == Meaning(FlattenSeq(peepProgram), 1, PeepStart)
After == Meaning(peepCode, 1, PeepStart)

(* Instructions in 64 bits, whose lengths the patterns know.               *)
Wide == \A i \in DOMAIN peepProgram : peepProgram[i][1] \in {72, 144, 195}

(* As long as no move of zero has been replaced, 64-bit code leaves every  *)
(* register as the code given did, after each of the rewrites, whatever    *)
(* the moves leave behind its RET.  Not so for the zero flag (FlagsKept),  *)
(* for 32-bit forms, and once a zero was moved (RegistersKept).            *)
PeepholeRight == Wide /\ ~zeroMoved => After.x = Before.x

(* Not so: the flags of a dropped addition are dropped with it, and CMP    *)
(* with zero becomes a 32-bit TEST with EAX (arm2x86_peephole.c:357).      *)
FlagsKept == Wide /\ ~zeroMoved => After = Before
(* Not so: the XOR that replaces a zero move is taken for a zero move of   *)
(* five bytes again (arm2x86_peephole.c:146, 221).                         *)
RegistersKept == Wide => After.x = Before.x
(* Not so: what a move leaves behind matches again, and is moved by zero   *)
(* bytes for ever (arm2x86_peephole.c:413).                                *)
RewritesBounded == rewrites <= Len(peepCode)
(* Not so: the rest of the code may be shorter than the lengths of the     *)
(* patterns (arm2x86_peephole.c:235).                                      *)
MoveInBounds == peepAt # "fault"
(* "size: updated if size changes" (arm2x86_peephole.h:19).  Not so: the   *)
(* size stays.                                                             *)
SizeUpdated == peepAt = "end" /\ rewrites > 0 => Len(peepCode) < Len(FlattenSeq(peepProgram))
=============================================================================
