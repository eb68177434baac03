-------------------------------- MODULE Emit --------------------------------
(***************************************************************************)
(* modules/arm2x86_emit.c: the encoders.  Each takes the register numbers   *)
(* it is given apart into a REX prefix and the three-bit fields of ModR/M;  *)
(* the definitions below keep that step and give the instruction the        *)
(* processor decodes from the result, which is the one the encoder's name   *)
(* promises only when prefix, fields and direction of the opcode agree.     *)
(***************************************************************************)
EXTENDS X86

(* A prefix keeps W (as a width), R and B.  X counts only with a SIB byte,  *)
(* which none of these instructions has.                                    *)
rex(w, r, x, b) == [w |-> IF w = 1 THEN 64 ELSE 32, r |-> r % 2, b |-> b % 2]
rex_r_swapped(reg, rm) == rex(1, rm \div 8, 0, reg \div 8)
rex_r(reg, rm) == rex(1, reg \div 8, 0, rm \div 8)
rex_rm(reg, rm) == rex(0, reg \div 8, 0, rm \div 8)
NoRex == rex(0, 0, 0, 0)
Reg(p, reg) == R(8 * p.r + (reg % 8))
Rm(p, rm) == R(8 * p.b + (rm % 8))

(* ModR/M with mod = 3: opcodes that write r/m, opcodes that write reg,     *)
(* opcodes with /digit, which have r/m only.                                *)
ToRm(op, p, reg, rm) == X(op, p.w, Rm(p, rm), Reg(p, reg))
ToReg(op, p, reg, rm) == X(op, p.w, Reg(p, reg), Rm(p, rm))
Digit(op, p, rm, v) == X(op, p.w, Rm(p, rm), Imm(v))
One(op, p, rm) == X(op, p.w, None, Rm(p, rm))

(* emit_modrm_disp: [base + disp], base's high bit from the prefix.         *)
emit_modrm_disp(p, base, disp) == At(8 * p.b + (base % 8), disp)

mov_r64_imm(reg, imm) == Digit("mov", rex(1, 0, 0, reg \div 8), reg, imm)
mov_r32_imm(reg, imm) == Digit("mov", rex_rm(0, reg), reg, imm)
mov_r64_r64(dest, src) == ToRm("mov", rex_r(dest, src), dest, src)
movzx_r64_r8(dest, src) == ToReg("movzx8", rex(1, 0, dest \div 8, src \div 8), dest, src)
add_r64_imm8(reg, imm) == Digit("add", rex_rm(1, reg \div 8), reg, imm)
test_r64_r64(a, b) == ToRm("test", rex_r(a, b), a, b)

add_r64_r64(dest, src) == ToRm("add", rex_r(dest, src), dest, src)
sub_r64_r64(dest, src) == ToRm("sub", rex_r(dest, src), dest, src)
and_r64_r64(dest, src) == ToRm("and", rex_r(dest, src), dest, src)
or_r64_r64(dest, src) == ToRm("or", rex_r(dest, src), dest, src)
xor_r64_r64(dest, src) == ToRm("xor", rex_r(dest, src), dest, src)
adc_r64_r64(dest, src) == ToRm("adc", rex(1, 0, dest \div 8, src \div 8), dest, src)
sbb_r64_r64(dest, src) == ToRm("sbb", rex(1, 0, dest \div 8, src \div 8), dest, src)
cmp_r64_r64(a, b) == ToReg("cmp", rex_r(0, a), a, b)
cmp_r64_imm32(reg, imm) == Digit("cmp", rex_r(0, reg), reg, imm)
cmp_r64_imm8(reg, imm) == Digit("cmp", rex_r(0, reg), reg, imm)

shl_r64_imm8(reg, n) == Digit("shl", rex_r(0, reg), reg, n)
shr_r64_imm8(reg, n) == Digit("shr", rex_r(0, reg), reg, n)
sar_r64_imm8(reg, n) == Digit("sar", rex_r(0, reg), reg, n)
ror_r64_imm8(reg, n) == Digit("ror", rex_rm(1, reg \div 8), reg, n)
neg_r64(reg) == Digit("neg", rex_r(0, reg), reg, 0)
not_r64(reg) == Digit("not", rex_r(0, reg), reg, 0)
emit_bswap(reg) == Digit("bswap", rex_rm(1, reg \div 8), reg, 0)

imul_r64_r64(dest, src) == ToReg("imul", rex_r(dest, src), dest, src)
mul_r64(src) == One("mul", rex_r(0, src), src)
imul_r64(src) == One("imul1", rex_r(0, src), src)
div_r64(src) == One("div", rex_r(0, src), src)
idiv_r64(src) == One("idiv", rex_r(0, src), src)
emit_mul_r64(reg) == One("mul", rex_rm(1, reg \div 8), reg)
emit_imul_r64(reg) == One("imul1", rex_rm(1, reg \div 8), reg)
emit_cqo == X("cqo", 64, None, None)

emit_movsx(size, dest, src) ==
  ToReg(CASE size = 8 -> "movsx8" [] size = 16 -> "movsx16" [] size = 32 -> "movsx32",
        rex(1, 0, dest \div 8, src \div 8), dest, src)
emit_movsxd(dest, src) == emit_movsx(32, dest, src)
emit_movzx(size, dest, src) ==
  CASE size = 8 -> ToReg("movzx8", rex(1, 0, dest \div 8, src \div 8), dest, src)
    [] size = 16 -> ToReg("movzx16", rex(1, 0, dest \div 8, src \div 8), dest, src)
    [] size = 32 -> ToRm("mov", rex(0, 0, dest \div 8, src \div 8), src, dest)

emit_mfence == X("fence", 64, None, None)
emit_lfence == X("fence", 64, None, None)
emit_lock_add_rsp == X("lockadd", 32, None, None)
Nop == X("nop", 32, None, None)

(* Jumps inside one translation skip a number of instructions.  patch_rel32 *)
(* writes its four bytes at the place it is given, so it completes a jump   *)
(* whose offset is there (emit_jcc) and destroys one whose opcode is there  *)
(* (emit_jmp).                                                              *)
Jcc(cc, n) == X("jcc", n, Imm(cc % 16), None)
emit_jcc_patched(cc, n) == Jcc(cc, n)
emit_jmp_patched(n) == X("trap", n, None, None)
Jmp(n) == X("jmp", n, Imm(0), None)
=============================================================================
