---------------------------- MODULE Translate64 ----------------------------
(***************************************************************************)
(* modules/arm2x86_translate64.c: the translation of single ARM64          *)
(* instructions that work on register homes.  A translator reads the       *)
(* fields of the opcode and emits a short sequence of x86 instructions;    *)
(* here it is the sequence, and the machine of X86 executes it one         *)
(* instruction per step.  At the end the homes are compared with what the  *)
(* ARM architecture says.                                                  *)
(*                                                                         *)
(* An opcode is the record of its fields: rd (bits 0-4), rn (5-9), rm      *)
(* (16-20), ra (10-14), cond, sf (the bit the translator takes for the     *)
(* operand size), immr, imms, imm.  Blocks and the register allocator are  *)
(* in Block64.                                                             *)
(***************************************************************************)
EXTENDS Emit

CONSTANTS
  Ops,       \* the instructions translated, in both operand sizes
  Claimed64, \* those whose result ResultRight compares, by operand size
  Claimed32,
  Apart,     \* those compared only when rd is not also rn
  EncoderNames, \* the encoders called
  Sparing,   \* the instructions OthersKept looks at
  Regs,      \* the <<rd, rn, rm>> used
  Value,     \* the values the homes start with
  Conds,     \* the condition fields used
  Shifts,    \* the <<immr, imms>> used
  Pairs,     \* the <<dest, src>> encoders are called with
  FlagOps,   \* the instructions whose flags are compared
  FlagConds  \* the conditions the flags are compared by

VARIABLES
  arm,       \* the instruction translated
  code,      \* the x86 code emitted for it
  ip,        \* the next instruction of it to execute
  m, m0      \* the machine, and the machine when the code was entered

tvars == <<arm, code, ip, m, m0>>

-----------------------------------------------------------------------------
cond_ge_lt_swapped ==
  [c \in 0..15 |-> <<132, 133, 131, 130, 136, 137, 128, 129,
                     135, 134, 140, 141, 143, 142, 0, 0>>[c + 1]]
arm64_to_x86_cond ==
  [c \in 0..15 |-> <<132, 133, 131, 130, 136, 137, 128, 129,
                     135, 134, 141, 140, 143, 142, 0, 0>>[c + 1]]
W(is64) == IF is64 THEN 64 ELSE 32

emit_load_arm_reg(a, x, is64) ==
  X("load", W(is64), R(IF is64 THEN x ELSE x % 8), Home(a, 0))

(* A 64-bit store of R8 to R15 sets REX.B, which extends the base RBP to    *)
(* R13 and leaves the source in the low registers.                          *)
emit_store_arm_reg(x, a, is64) ==
  IF is64 /\ x >= 8 THEN X("wild", 64, None, R(x % 8))
  ELSE X("store", W(is64), Home(a, 0), R(x % 8))

Load(a, x, i) == <<emit_load_arm_reg(a, x, i.sf)>>
Both(i) == Load(i.rn, RAX, i) \o Load(i.rm, R11, i)
Store(x, i) == <<emit_store_arm_reg(x, i.rd, i.sf)>>
(* "if (is_64bit) rex_rm(0, RAX >> 3)": a prefix without W.                 *)
Unary(op, x) == Digit(op, rex_rm(0, x \div 8), x, 0)
Skip(cc, body) == <<Jcc(cc, Len(body))>> \o body

translate_cmp(i) == Both(i) \o <<cmp_r64_r64(RAX, R11)>>
translate_tst(i) == Both(i) \o <<test_r64_r64(RAX, R11)>>
translate_cmn(i) == Both(i) \o <<add_r64_r64(RAX, R11)>>
translate_mul(i) == Both(i) \o <<imul_r64_r64(RAX, R11)>> \o Store(RAX, i)
translate_adc(i) == Both(i) \o <<ToRm("adc", rex_r(RAX, R11), RAX, R11)>> \o Store(RAX, i)
translate_sbc(i) == Both(i) \o <<ToRm("sbb", rex_r(RAX, R11), RAX, R11)>> \o Store(RAX, i)
translate_rsb(i) ==
  Load(i.rm, RAX, i) \o Load(i.rn, R11, i) \o <<sub_r64_r64(RAX, R11)>> \o Store(RAX, i)
translate_neg(i) == Load(i.rn, RAX, i) \o <<Unary("neg", RAX)>> \o Store(RAX, i)
translate_mvn(i) == Load(i.rm, RAX, i) \o <<Unary("not", RAX)>> \o Store(RAX, i)
translate_orn(i) ==
  Both(i) \o <<Unary("not", R11), or_r64_r64(RAX, R11)>> \o Store(RAX, i)
translate_mov_reg(i) == Load(i.rn, RAX, i) \o Store(RAX, i)

(* patch_rel32 is given the address emit_jmp returned, which is that of the *)
(* jump's opcode: the path with a divisor ends in the bytes of an offset.   *)
translate_div(i) ==
  LET zero == <<xor_r64_r64(RAX, RAX)>> \o Store(RAX, i)
      body == <<IF i.op = "sdiv" THEN emit_cqo ELSE xor_r64_r64(RDX, RDX),
                IF i.op = "sdiv" THEN idiv_r64(R11) ELSE div_r64(R11)>> \o Store(RAX, i)
              \o <<emit_jmp_patched(Len(zero))>>
  IN  Both(i) \o <<test_r64_r64(R11, R11), emit_jcc_patched(132, Len(body))>> \o body \o zero

translate_madd(i) ==
  Both(i) \o <<imul_r64_r64(RAX, R11)>> \o Load(i.ra, R11, i) \o <<add_r64_r64(RAX, R11)>>
  \o Store(RAX, i)
translate_msub(i) ==
  Load(i.ra, RAX, i) \o Load(i.rn, R11, i) \o Load(i.rm, RCX, i)
  \o <<imul_r64_r64(R11, RCX), sub_r64_r64(RAX, R11)>> \o Store(RAX, i)
translate_mulh(i) ==
  LET j == [i EXCEPT !.sf = TRUE]
  IN  Both(j) \o <<One(IF i.op = "smulh" THEN "imul1" ELSE "mul", rex_rm(0, R11 \div 8), R11)>>
      \o Store(RDX, j)

(* Shifts and bit fields.  The size is the opcode's N.                      *)
translate_shift(i) ==
  Load(i.rn, RAX, i)
  \o (CASE i.op = "asr" /\ i.sf -> <<sar_r64_imm8(RAX, i.immr)>>
        [] i.op = "lsr" -> <<shr_r64_imm8(RAX, i.immr)>>
        [] i.op = "asr" /\ ~i.sf -> <<shl_r64_imm8(RAX, i.immr)>>)
  \o Store(RAX, i)
translate_ror_imm(i) ==
  Load(i.rn, RAX, i) \o <<Digit("ror", rex_rm(0, RAX \div 8), RAX, i.immr)>> \o Store(RAX, i)
translate_extr(i) ==
  IF i.rn = i.rm THEN translate_ror_imm([i EXCEPT !.immr = i.imms])
  ELSE Load(i.rn, RAX, i) \o <<shr_r64_imm8(RAX, i.imms)>> \o Load(i.rm, R11, i)
       \o <<shl_r64_imm8(R11, 64 \div Scale - i.imms), or_r64_r64(RAX, R11)>> \o Store(RAX, i)
Mask(width) == 2 ^ width - 1
translate_bfm(i) ==
  Load(i.rn, RAX, i)
  \o (IF i.imms < i.immr
      THEN <<IF i.op = "sbfm" THEN emit_movsx(IF i.sf THEN 16 ELSE 8, RAX, RAX)
             ELSE emit_movzx(IF i.sf THEN 16 ELSE 8, RAX, RAX)>>
      ELSE <<IF i.op = "sbfm" THEN sar_r64_imm8(RAX, i.immr) ELSE shr_r64_imm8(RAX, i.immr),
             mov_r64_imm(R11, Mask(i.imms + 1)), and_r64_r64(RAX, R11)>>)
  \o Store(RAX, i)
Insert(i, mask, into) ==
  Load(i.rd, RAX, i) \o <<mov_r64_imm(R11, P(64) - 1 - mask), and_r64_r64(RAX, R11)>>
  \o Load(i.rn, R11, i) \o <<into, mov_r64_imm(RCX, mask), and_r64_r64(R11, RCX), or_r64_r64(RAX, R11)>>
  \o Store(RAX, i)
translate_bfi(i) ==
  IF i.imms < i.immr THEN <<>> ELSE
  Insert(i, Mask(i.imms - i.immr + 1) * 2 ^ i.immr, shl_r64_imm8(R11, i.immr))
translate_bfxil(i) ==
  IF i.imms < i.immr THEN <<>> ELSE Insert(i, Mask(i.imms - i.immr + 1), shr_r64_imm8(R11, i.immr))
translate_bfc(i) ==
  Load(i.rd, RAX, i)
  \o <<mov_r64_imm(R11, P(64) - 1 - Mask(i.imms - i.immr + 1) * 2 ^ i.immr), and_r64_r64(RAX, R11)>>
  \o Store(RAX, i)

translate_extend(i) ==
  Load(i.rn, RAX, i)
  \o <<CASE i.op = "sxtb" -> emit_movsx(8, RAX, RAX)
         [] i.op = "sxth" -> emit_movsx(16, RAX, RAX)
         [] i.op = "uxtb" -> emit_movzx(8, RAX, RAX)
         [] i.op = "uxth" -> emit_movzx(16, RAX, RAX)>>
  \o Store(RAX, i)
translate_sxtw(i) ==
  <<emit_load_arm_reg(i.rn, RAX, FALSE), emit_movsxd(RAX, RAX), emit_store_arm_reg(RAX, i.rd, TRUE)>>
translate_uxtw(i) ==
  <<emit_load_arm_reg(i.rn, RAX, FALSE), emit_store_arm_reg(RAX, i.rd, TRUE)>>
translate_rev(i) == Load(i.rn, RAX, i) \o <<emit_bswap(RAX)>> \o Store(RAX, i)

(* REX stands before the F3 prefix and is ignored; the jump over the zero   *)
(* case is patched at its opcode.                                           *)
translate_clz(i) ==
  Load(i.rn, RAX, i)
  \o <<test_r64_r64(RAX, RAX), Jcc(132, 2), X("lzcnt", 32, R(RAX), R(RAX)), emit_jmp_patched(1),
       mov_r64_imm(RAX, W(i.sf) \div Scale)>> \o Store(RAX, i)

(* Conditional instructions.                                                *)
translate_csel(i) ==
  LET cc == arm64_to_x86_cond[i.cond]
      take == Load(i.rn, RAX, i) \o Store(RAX, i)
  IN  IF cc = 0 THEN take
      ELSE Load(i.rm, RAX, i) \o Store(RAX, i)
           \o Skip(IF cc % 2 = 0 THEN cc + 1 ELSE cc - 1, take)
translate_cset(i) ==
  <<xor_r64_r64(RAX, RAX), X("setcc", 8, R(RAX), Imm(arm64_to_x86_cond[i.cond] % 16)),
    movzx_r64_r8(RAX, RAX)>> \o Store(RAX, i)
Unless(i, body) == Skip(arm64_to_x86_cond[i.cond], body)
translate_cinc(i) == Load(i.rn, RAX, i) \o Unless(i, <<add_r64_imm8(RAX, 1)>>) \o Store(RAX, i)
translate_cinv(i) == Load(i.rn, RAX, i) \o Unless(i, <<Unary("not", RAX)>>) \o Store(RAX, i)
translate_cneg(i) == Load(i.rn, RAX, i) \o Unless(i, <<Unary("neg", RAX)>>) \o Store(RAX, i)
translate_csinc(i) ==
  Both(i) \o Unless(i, <<add_r64_imm8(R11, 1), mov_r64_r64(RAX, R11)>>) \o Store(RAX, i)
translate_csinv(i) ==
  Load(i.rn, RAX, i) \o Unless(i, Load(i.rm, RAX, i) \o <<Unary("not", RAX)>>) \o Store(RAX, i)
translate_csneg(i) ==
  Load(i.rn, RAX, i) \o Unless(i, Load(i.rm, RAX, i) \o <<Unary("neg", RAX)>>) \o Store(RAX, i)
(* PUSHFQ, POP, AND, OR, PUSH, POPFQ: the four flags become nzcv.           *)
SetFlags(i) == X("setf", 64, None, Imm(i.imm))
translate_ccmp(i) ==
  Unless(i, Load(i.rn, RAX, i) \o <<test_r64_r64(RAX, RAX), Jmp(1)>>) \o <<SetFlags(i)>>
translate_ccmn(i) ==
  Unless(i, Load(i.rn, RAX, i) \o <<Unary("neg", RAX), test_r64_r64(RAX, RAX), Jmp(1)>>)
  \o <<SetFlags(i)>>

(* Guest memory: the address is loaded into RAX.  The narrow accesses name  *)
(* R11 but their prefix has no R, so they use RBX, and so do the 32-bit     *)
(* load and store of the home that go with them.  Their displacement is     *)
(* op & 0xfff: Rt, Rn and the two low bits of the 12-bit immediate, which   *)
(* counts units of the access.                                              *)
Base(i) == <<emit_load_arm_reg(i.rn, RAX, TRUE)>>
Mem(i, p) == emit_modrm_disp(p, RAX, i.imm)
Unit == [ldrb |-> 1, strb |-> 1, ldrsb |-> 1, ldrh |-> 2, strh |-> 2, ldrsh |-> 2, ldrsw |-> 4]
Low12(i) == i.rd + 32 * i.rn + 1024 * ((i.imm \div Unit[i.op]) % 4)
NarrowMem(i, p) == emit_modrm_disp(p, RAX, Low12(i))
translate_ldr_str(i) ==
  LET p == rex_r(R11, RAX)
      q == rex_r(RAX, RAX)
  IN  Base(i) \o IF i.op = "ldr" THEN <<X("load", q.w, Reg(q, RAX), Mem(i, q))>> \o Store(RAX, i)
                 ELSE Load(i.rd, R11, i) \o <<X("store", p.w, Mem(i, p), Reg(p, R11))>>
translate_ldp_stp(i) ==
  LET p == rex_r(R11, RAX)
      Next8 == [i EXCEPT !.imm = @ + 8, !.rd = i.ra]
      Ldp(j) == <<X("load", p.w, Reg(p, R11), Mem(j, p))>> \o Store(R11, j)
      Stp(j) == Load(j.rd, R11, j) \o <<X("store", p.w, Mem(j, p), Reg(p, R11))>>
  IN  Base(i) \o IF i.op = "ldp" THEN Ldp(i) \o Ldp(Next8) ELSE Stp(i) \o Stp(Next8)
translate_ldr_literal(i) ==
  LET p == IF i.sf THEN rex_r(1, R11 \div 8) ELSE NoRex
  IN  <<mov_r64_imm(RAX, i.imm), X("load", p.w, Reg(p, R11), At(RAX, 0))>> \o Store(R11, i)
translate_ldrb_ldrh(i) ==
  LET p == rex_r(0, RAX)
  IN  Base(i) \o <<X(IF i.op = "ldrb" THEN "movzx8" ELSE "movzx16", p.w, Reg(p, R11), NarrowMem(i, p))>>
      \o Store(R11, i)
translate_strb_strh(i) ==
  LET p == rex_r(0, RAX)
  IN  Base(i) \o <<emit_load_arm_reg(i.rd, R11, FALSE),
                   X("store", IF i.op = "strb" THEN 8 ELSE 16, NarrowMem(i, p), Reg(p, R11))>>
translate_ldrs(i) ==
  LET p == rex_r(1, RAX)
      op == CASE i.op = "ldrsb" -> "movsx8" [] i.op = "ldrsh" -> "movsx16" [] OTHER -> "movsx32"
  IN  Base(i) \o <<X(op, p.w, Reg(p, R11), NarrowMem(i, p)),
                   emit_store_arm_reg(R11, i.rd, i.sf \/ i.op = "ldrsw")>>
(* A LOCK prefix before MOV is an invalid instruction.                      *)
translate_ldaxr(i) == Base(i) \o <<X("trap", 64, None, None)>> \o Store(R11, i)
translate_cas(i) ==
  Base(i) \o Load(i.rd, R11, i) \o <<mov_r64_r64(RAX, R11), X("trap", 64, None, None)>>
  \o Store(RAX, i)
translate_ldadd(i) ==
  LET p == rex(1, 0, R11 \div 8, RAX \div 8)
  IN  Base(i) \o Load(i.rm, R11, i) \o <<X("xadd", p.w, At(RAX, 0), Reg(p, R11))>> \o Store(R11, i)
translate_stlxr(i) ==
  LET p == rex(IF i.sf THEN 1 ELSE 0, R11 \div 8, 0, RAX \div 8)
  IN  Base(i) \o Load(i.rm, R11, i)
      \o <<X("cmpxchg", p.w, At(RAX, 0), Reg(p, R11)), X("setcc", 8, R(RAX), Imm(5))>>
      \o (IF i.sf THEN <<>> ELSE <<movzx_r64_r8(RAX, RAX)>>) \o <<emit_store_arm_reg(RAX, i.rd, TRUE)>>

(* An address is stored as a sign-extended 32-bit immediate, and once more, *)
(* as 64 bits, over its upper half and the next home when it has one.       *)
translate_adr_adrp(i) ==
  LET half(v) == Imm(SignExtend(v, 32))
  IN  <<X("store", 64, Home(i.rd, 0), half(Low(i.imm, 32)))>>
      \o (IF i.imm \div P(32) = 0 THEN <<>>
          ELSE <<X("store", 64, Home(i.rd, 4), half(i.imm \div P(32)))>>)

(* The register numbers built from the opcode are below 2^17 and match none *)
(* of the cases: MRS reads zero, MSR emits nothing.                         *)
translate_mrs(i) == <<xor_r64_r64(RAX, RAX), emit_store_arm_reg(RAX, i.rd, TRUE)>>
translate_msr(i) == <<>>
translate_dmb_dsb_isb(i) ==
  IF i.sf \* strict_memory_ordering
  THEN <<IF i.op = "isb" THEN emit_lfence ELSE emit_mfence>> ELSE <<emit_lock_add_rsp>>
translate_hint(i) ==
  CASE i.imm \div 8 = 1 /\ i.imm % 8 = 0 -> <<X("trap", 8, None, None)>>
    [] i.imm \div 8 = 2 -> <<emit_lfence>>
    [] OTHER -> <<Nop>>
(* With an immediate the address is computed into R11, but the prefix has B *)
(* for R: it is R8 plus the immediate, in RBX.                              *)
translate_prfm(i) ==
  LET p == rex(1, 0, 0, R11 \div 8)
  IN  Base(i) \o (IF i.imm = 0 THEN <<>> ELSE <<X("lea", p.w, Reg(p, R11), Mem(i, p))>>) \o <<Nop>>

(* arm2x86_convert_block's switch.                                          *)
Translated(i) ==
  CASE i.op = "cmp" -> translate_cmp(i) [] i.op = "tst" -> translate_tst(i)
    [] i.op = "cmn" -> translate_cmn(i) [] i.op = "mul" -> translate_mul(i)
    [] i.op = "adc" -> translate_adc(i) [] i.op = "sbc" -> translate_sbc(i)
    [] i.op = "rsb" -> translate_rsb(i) [] i.op = "neg" -> translate_neg(i)
    [] i.op = "mvn" -> translate_mvn(i) [] i.op = "orn" -> translate_orn(i)
    [] i.op = "mov" -> translate_mov_reg(i) [] i.op \in {"sdiv", "udiv"} -> translate_div(i)
    [] i.op = "madd" -> translate_madd(i) [] i.op = "msub" -> translate_msub(i)
    [] i.op \in {"smulh", "umulh"} -> translate_mulh(i)
    [] i.op \in {"lsr", "asr"} -> translate_shift(i) [] i.op = "ror" -> translate_ror_imm(i)
    [] i.op = "extr" -> translate_extr(i) [] i.op \in {"sbfm", "ubfm"} -> translate_bfm(i)
    [] i.op = "bfi" -> translate_bfi(i) [] i.op = "bfxil" -> translate_bfxil(i)
    [] i.op = "bfc" -> translate_bfc(i) [] i.op = "clz" -> translate_clz(i)
    [] i.op \in {"sxtb", "sxth", "uxtb", "uxth"} -> translate_extend(i)
    [] i.op = "sxtw" -> translate_sxtw(i) [] i.op = "uxtw" -> translate_uxtw(i)
    [] i.op = "rev" -> translate_rev(i) [] i.op = "csel" -> translate_csel(i)
    [] i.op = "cset" -> translate_cset(i) [] i.op = "cinc" -> translate_cinc(i)
    [] i.op = "cinv" -> translate_cinv(i) [] i.op = "cneg" -> translate_cneg(i)
    [] i.op = "csinc" -> translate_csinc(i) [] i.op = "csinv" -> translate_csinv(i)
    [] i.op = "csneg" -> translate_csneg(i) [] i.op = "ccmp" -> translate_ccmp(i)
    [] i.op = "ccmn" -> translate_ccmn(i)
    [] i.op \in {"ldr", "str"} -> translate_ldr_str(i)
    [] i.op \in {"ldp", "stp"} -> translate_ldp_stp(i)
    [] i.op = "ldrlit" -> translate_ldr_literal(i)
    [] i.op \in {"ldrb", "ldrh"} -> translate_ldrb_ldrh(i)
    [] i.op \in {"strb", "strh"} -> translate_strb_strh(i)
    [] i.op \in {"ldrsb", "ldrsh", "ldrsw"} -> translate_ldrs(i)
    [] i.op = "ldaxr" -> translate_ldaxr(i) [] i.op = "cas" -> translate_cas(i)
    [] i.op = "ldadd" -> translate_ldadd(i) [] i.op = "stlxr" -> translate_stlxr(i)
    [] i.op = "adr" -> translate_adr_adrp(i)
    [] i.op = "mrs" -> translate_mrs(i) [] i.op = "msr" -> translate_msr(i)
    [] i.op \in {"dmb", "isb"} -> translate_dmb_dsb_isb(i) [] i.op = "hint" -> translate_hint(i)
    [] i.op = "prfm" -> translate_prfm(i)

(* EncoderNames called on their own, by name, with two of the 16 registers.     *)
Encoded(e, dest, src) ==
  CASE e = "mov_r64_r64" -> mov_r64_r64(dest, src) [] e = "add_r64_r64" -> add_r64_r64(dest, src)
    [] e = "sub_r64_r64" -> sub_r64_r64(dest, src) [] e = "and_r64_r64" -> and_r64_r64(dest, src)
    [] e = "or_r64_r64" -> or_r64_r64(dest, src) [] e = "xor_r64_r64" -> xor_r64_r64(dest, src)
    [] e = "imul_r64_r64" -> imul_r64_r64(dest, src) [] e = "movzx_r64_r8" -> movzx_r64_r8(dest, src)
    [] e = "emit_movsx" -> emit_movsx(16, dest, src) [] e = "emit_movzx" -> emit_movzx(32, dest, src)
    [] e = "emit_movsxd" -> emit_movsxd(dest, src) [] e = "mov_r64_imm" -> mov_r64_imm(dest, 77)
    [] e = "mov_r32_imm" -> mov_r32_imm(dest, 9) [] e = "shl_r64_imm8" -> shl_r64_imm8(dest, 3)
    [] e = "shr_r64_imm8" -> shr_r64_imm8(dest, 3) [] e = "sar_r64_imm8" -> sar_r64_imm8(dest, 3)
    [] e = "ror_r64_imm8" -> ror_r64_imm8(dest, 3) [] e = "neg_r64" -> neg_r64(dest)
    [] e = "not_r64" -> not_r64(dest) [] e = "add_r64_imm8" -> add_r64_imm8(dest, 1)
    [] e = "emit_bswap" -> emit_bswap(dest)
Named(e, a, b) ==
  CASE e = "mov_r64_r64" -> b [] e = "add_r64_r64" -> Low(a + b, 64)
    [] e = "sub_r64_r64" -> (a - b) % P(64) [] e = "and_r64_r64" -> a & b
    [] e = "or_r64_r64" -> a | b [] e = "xor_r64_r64" -> a ^^ b
    [] e = "imul_r64_r64" -> Low(a * b, 64) [] e = "movzx_r64_r8" -> Low(b, 8)
    [] e = "emit_movsx" -> SignExtend(Low(b, 16), 16) [] e = "emit_movzx" -> Low(b, 32)
    [] e = "emit_movsxd" -> SignExtend(Low(b, 32), 32) [] e = "mov_r64_imm" -> 77
    [] e = "mov_r32_imm" -> 9 [] e = "shl_r64_imm8" -> Low(8 * a, 64)
    [] e = "shr_r64_imm8" -> a \div 8 [] e = "sar_r64_imm8" -> Shifted("sar", a, 3, 64)
    [] e = "ror_r64_imm8" -> Shifted("ror", a, 3, 64) [] e = "neg_r64" -> Low(P(64) - a, 64)
    [] e = "not_r64" -> P(64) - 1 - a [] e = "add_r64_imm8" -> Low(a + 1, 64)
    [] e = "emit_bswap" -> Reversed(a, 64)

-----------------------------------------------------------------------------
(* What the ARM architecture says, on the homes of the machine it starts    *)
(* from.  The carry of a comparison is the complement of the x86 borrow,    *)
(* which is how the condition table reads it.  As an operand register 31 is *)
(* zero, and what is written to it is lost; as a base it is SP.             *)
NZCV(f) == [n |-> f.s, z |-> f.z, c |-> 1 - f.c, v |-> f.o]
ArmHolds(q, c) ==
  LET t == CASE c \div 2 = 0 -> q.z = 1 [] c \div 2 = 1 -> q.c = 1 [] c \div 2 = 2 -> q.n = 1
             [] c \div 2 = 3 -> q.v = 1 [] c \div 2 = 4 -> q.c = 1 /\ q.z = 0
             [] c \div 2 = 5 -> q.n = q.v [] c \div 2 = 6 -> q.n = q.v /\ q.z = 0 [] OTHER -> TRUE
  IN  IF c % 2 = 1 /\ c # 15 THEN ~t ELSE t

Field(n, immr, imms, w, signed) ==
  LET len == IF imms >= immr THEN imms - immr + 1 ELSE imms + 1
      v == IF imms >= immr THEN (n \div 2 ^ immr) % 2 ^ len ELSE n % 2 ^ len
      ext == IF signed /\ v >= 2 ^ (len - 1) THEN v + P(w) - 2 ^ len ELSE v
  IN  IF imms >= immr THEN ext ELSE Low(ext * 2 ^ ((w \div Scale) - immr), w)

XZR == 31
ReadArm(h, a) == IF a = XZR THEN 0 ELSE h[a]
ArmValue(i, h, mem, f) ==
  LET w == W(i.sf)
      n == Low(ReadArm(h, i.rn), w)
      k == Low(ReadArm(h, i.rm), w)
      a == Low(ReadArm(h, i.ra), w)
      q == NZCV(f)
      yes == ArmHolds(q, i.cond)
      Inv(v) == P(w) - 1 - v
      at(d) == mem[Low(h[i.rn] + i.imm + d, 64)]
      S(v) == v - SignBit(v, w) * P(w)
      Quot(x, y) == LET Abs(v) == IF v < 0 THEN -v ELSE v
                    IN  IF (x < 0) = (y < 0) THEN Abs(x) \div Abs(y) ELSE -(Abs(x) \div Abs(y))
  IN  CASE i.op = "mul" -> Low(n * k, w) [] i.op = "madd" -> Low(a + n * k, w)
        [] i.op = "msub" -> (a - n * k) % P(w) [] i.op = "adc" -> Low(n + k + q.c, w)
        [] i.op = "sbc" -> (n - k - 1 + q.c) % P(w) [] i.op = "mvn" -> Inv(k)
        [] i.op = "orn" -> n | Inv(k) [] i.op = "neg" -> (0 - k) % P(w) [] i.op = "mov" -> k
        [] i.op = "udiv" -> IF k = 0 THEN 0 ELSE n \div k
        [] i.op = "sdiv" -> IF k = 0 THEN 0 ELSE Quot(S(n), S(k)) % P(w)
        [] i.op = "umulh" -> (h[i.rn] * h[i.rm]) \div P(64)
        [] i.op = "lsr" -> n \div 2 ^ i.immr [] i.op = "asr" -> Shifted("sar", n, i.immr, w)
        [] i.op = "ror" -> Shifted("ror", n, i.immr, w)
        [] i.op = "ubfm" -> Field(n, i.immr, i.imms, w, FALSE)
        [] i.op = "sbfm" -> Field(n, i.immr, i.imms, w, TRUE)
        [] i.op = "uxtb" -> Low(n, 8) [] i.op = "uxth" -> Low(n, 16) [] i.op = "uxtw" -> Low(h[i.rn], 32)
        [] i.op = "sxtb" -> Low(SignExtend(Low(n, 8), 8), w)
        [] i.op = "sxth" -> Low(SignExtend(Low(n, 16), 16), w)
        [] i.op = "sxtw" -> SignExtend(Low(h[i.rn], 32), 32) [] i.op = "rev" -> Reversed(n, w)
        [] i.op = "csel" -> IF yes THEN n ELSE k [] i.op = "csinc" -> IF yes THEN n ELSE Low(k + 1, w)
        [] i.op = "csinv" -> IF yes THEN n ELSE Inv(k) [] i.op = "csneg" -> IF yes THEN n ELSE (0 - k) % P(w)
        [] i.op = "cinc" -> IF yes THEN n ELSE Low(n + 1, w) [] i.op = "cset" -> IF yes THEN 0 ELSE 1
        [] i.op = "ldr" -> Low(at(0), w) [] i.op = "ldrb" -> Low(at(0), 8) [] i.op = "ldrh" -> Low(at(0), 16)
        [] i.op = "ldrsb" -> Low(SignExtend(Low(at(0), 8), 8), w)
        [] i.op = "ldrsh" -> Low(SignExtend(Low(at(0), 16), 16), w)
        [] i.op = "ldrsw" -> SignExtend(Low(at(0), 32), 32)
        [] i.op \in {"ldaxr", "ldadd"} -> Low(at(0), w) [] i.op = "ldrlit" -> Low(mem[i.imm], w)
        [] i.op = "adr" -> i.imm

Stores == [str |-> 64, strb |-> 8, strh |-> 16]
NoResult == {"cmp", "tst", "cmn", "ccmp", "ccmn", "msr", "dmb", "isb", "hint", "prfm"} \cup DOMAIN Stores
ArmHome(i, h, mem, f) ==
  IF i.op \in NoResult \/ i.rd = XZR THEN h
  ELSE [h EXCEPT ![i.rd] = ArmValue(i, h, mem, f)]
ArmMem(i, h, mem) ==
  IF i.op \notin DOMAIN Stores THEN mem
  ELSE [mem EXCEPT ![Low(h[i.rn] + i.imm, 64)] =
          LET w == IF i.op = "str" THEN W(i.sf) ELSE Stores[i.op] IN Merge(@, Low(ReadArm(h, i.rd), w), w)]
ArmFlags(i, h, f) ==
  LET w == W(i.sf)
      n == Low(h[i.rn], w)
      k == Low(h[i.rm], w)
      t == CASE i.op = "tst" -> Logic(n & k, w).f [] i.op = "cmn" -> Arith("add", n, k, 0, w).f
             [] i.op = "cmp" -> Arith("sub", n, k, 0, w).f [] OTHER -> f
  IN  IF i.op \in {"tst", "cmn"} THEN [n |-> t.s, z |-> t.z, c |-> t.c, v |-> t.o] ELSE NZCV(t)

-----------------------------------------------------------------------------
Conditional == {"csel", "cset", "cinc", "cinv", "cneg", "csinc", "csinv", "csneg", "ccmp", "ccmn"}
Shifting == {"lsr", "asr", "ror", "ubfm", "sbfm", "extr", "bfi", "bfxil", "bfc"}
Memory == {"ldr", "str", "ldrb", "ldrh", "strb", "strh", "ldrsb", "ldrsh", "ldrsw", "ldp", "stp",
           "ldaxr", "ldadd", "stlxr", "cas"}
Exclusive == {"ldaxr", "ldadd", "stlxr", "cas"}
Opcode(op, g, c, sf, sh, v) ==
  [op |-> op, rd |-> g[1], rn |-> g[2], rm |-> g[3], ra |-> 3, cond |-> c, sf |-> sf,
   immr |-> sh[1], imms |-> sh[2], imm |-> v]
(* The opcodes of Ops, each with the fields it has.                         *)
Opcodes ==
  {i \in {Opcode(op, g, c, sf, sh, v) : op \in Ops, g \in Regs, c \in Conds, sf \in BOOLEAN,
                                        sh \in Shifts, v \in MemAddr} :
     /\ i.op \notin Conditional => i.cond = 0
     /\ i.op \notin Shifting => <<i.immr, i.imms>> = <<0, 7>>
     /\ i.op \notin (Memory \ Exclusive) \cup {"ldrlit", "adr", "hint", "prfm"} => i.imm = 0
     /\ (i.op \in Shifting /\ ~i.sf) => i.immr < 4}
  \cup {Opcode(e, <<p[1], p[2], 0>>, 0, TRUE, <<0, 7>>, 0) : e \in EncoderNames, p \in Pairs}

StartFlags(op) == [z : 0..1, s : 0..1, c : IF op \in Conditional THEN 0..1 ELSE {1}, o : 0..1]
StartMem == [a \in MemAddr |-> (29 * a + 181) % P(64)]

TrInit ==
  \E i \in Opcodes, x \in Value, y \in Value : \E f \in StartFlags(i.op) :
    /\ i.op \in Conditional => {x, y} \subseteq {1, 200}
    /\ i.op \in EncoderNames => x = 1 /\ y = 1 /\ f = [z |-> 0, s |-> 0, c |-> 1, o |-> 0]
    /\ i.op \notin Conditional => f.z = 0 /\ f.s = f.o
    /\ i.op \in Memory => x + i.imm \in MemAddr
    /\ arm = i
    /\ m = Machine([a \in ArmReg |-> IF a = i.rn THEN x ELSE IF a = i.rm THEN y ELSE 90 + a], f, StartMem)
    /\ m0 = m
    /\ code = <<>> /\ ip = 0

Translate ==
  /\ ip = 0
  /\ code' = IF arm.op \in EncoderNames THEN <<Encoded(arm.op, arm.rd, arm.rn)>> ELSE Translated(arm)
  /\ ip' = 1
  /\ UNCHANGED <<arm, m, m0>>

(* One x86 instruction; a jump on a flag the processor left undefined goes  *)
(* either way.                                                              *)
Execute ==
  /\ ip \in 1..Len(code) /\ m.ok
  /\ LET i == code[ip]
         jumps == CASE i.op = "jmp" -> {TRUE}
                    [] i.op = "jcc" -> IF 2 \in {m.f.z, m.f.s, m.f.c, m.f.o} THEN BOOLEAN
                                       ELSE {Holds(m.f, i.dst.n)}
                    [] OTHER -> {FALSE}
     IN  /\ m' = Exec(m, i)
         /\ \E j \in jumps : ip' = ip + 1 + IF j THEN i.w ELSE 0
  /\ UNCHANGED <<arm, code, m0>>

TrNext == Translate \/ Execute
TrSpec == TrInit /\ [][TrNext]_tvars

-----------------------------------------------------------------------------
TrTypeOK ==
  /\ arm \in Opcodes /\ ip \in 0..(Len(code) + 1)
  /\ m.r \in [0..15 -> Word] /\ m.home \in [ArmReg -> Word]
  /\ m.mem \in [MemAddr -> Word] /\ m.f \in Flags /\ m.ok \in BOOLEAN

Finished == ip > 0 /\ (ip > Len(code) \/ ~m.ok)
Width == IF arm.sf \/ arm.op \in {"sxtw", "uxtw", "ldrsw", "adr", "mrs"} THEN 64 ELSE 32

Claimed == /\ arm.op \in IF arm.sf THEN Claimed64 ELSE Claimed32
           /\ arm.op \in Apart => arm.rd # arm.rn

(* Executed to its end, the code of an instruction has not faulted, its     *)
(* destination register's home holds, in the width of the instruction, what *)
(* ARM computes, and guest memory is what the instruction stores.           *)
ResultRight ==
  Finished /\ Claimed =>
    LET h == ArmHome(arm, m0.home, m0.mem, m0.f)
    IN  /\ m.ok
        /\ Low(m.home[arm.rd], Width) = Low(h[arm.rd], Width)
        /\ m.mem = ArmMem(arm, m0.home, m0.mem)

(* The code of an instruction changes no home but its destination's, and no *)
(* guest memory but the cells it addresses.                                 *)
OthersKept ==
  Finished /\ arm.op \in Sparing =>
    /\ \A a \in ArmReg \ {arm.rd} : a # arm.ra \/ arm.op # "ldp" => m.home[a] = m0.home[a]
    /\ \A a \in MemAddr : arm.op \notin Memory \/ Low(m0.home[arm.rn] + arm.imm, 64) \notin {a, a - 8}
                            => m.mem[a] = m0.mem[a]

(* A 32-bit instruction clears the upper half of its destination.           *)
UpperCleared ==
  Finished /\ Claimed /\ arm.op \notin NoResult /\ Width = 32 =>
    m.home[arm.rd] < P(32)

(* After the code of an instruction every condition a later B.cond or CSEL  *)
(* can test holds exactly when it does on ARM: instructions that set no     *)
(* flags on ARM have set none on x86, the others the same.                  *)
FlagsRight ==
  Finished /\ Claimed /\ arm.op \in FlagOps =>
    /\ 2 \notin {m.f.z, m.f.s, m.f.c, m.f.o}
    /\ \A c \in FlagConds : Holds(m.f, arm64_to_x86_cond[c] % 16)
                             <=> ArmHolds(ArmFlags(arm, m0.home, m0.f), c)

(* The x86 code of one ARM64 instruction leaves the state that ARM leaves: *)
(* the result, all other homes, and the flags.                             *)
InstructionRight == TrTypeOK /\ ResultRight /\ OthersKept /\ FlagsRight

(* An encoder leaves in its destination what its name says, for each pair   *)
(* of the 16 registers, and touches no other register.                      *)
EncoderRight ==
  Finished /\ arm.op \in EncoderNames =>
    m.r = [m0.r EXCEPT ![arm.rd] = Named(arm.op, m0.r[arm.rd], m0.r[arm.rn])]

(* Translated code keeps the registers its caller expects back.             *)
CalleeSaved ==
  Finished /\ Claimed =>
    \A n \in {RBX, RBP} \cup 12..15 : m.r[n] = m0.r[n]
=============================================================================
