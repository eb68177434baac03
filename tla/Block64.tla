------------------------------ MODULE Block64 ------------------------------
(***************************************************************************)
(* modules/arm2x86_translate64.c: arm2x86_convert_block.  A block is       *)
(* translated in one pass: a linear-scan allocator keeps ARM registers in  *)
(* x86 registers, every ARM register has a home in memory, and branches    *)
(* within the block are resolved through the map from ARM to x86           *)
(* addresses.  What is kept is who owns which x86 register, what is still  *)
(* to be stored, and where the code of each instruction begins.  Values    *)
(* are left out: the encoders write other registers than the allocator     *)
(* says (Emit), and most translators use RAX, R11, RCX and RDX without     *)
(* asking it, so an allocated register need not hold its ARM register.     *)
(*                                                                         *)
(* ARM addresses are instruction indices, x86 addresses are the number of  *)
(* x86 instructions emitted so far.                                        *)
(***************************************************************************)
EXTENDS Integers, Sequences, FiniteSets

CONSTANTS
  Gpr,           \* the ARM registers used, 29 among them
  Pool,          \* reg_alloc_map, the x86 registers the allocator hands out
  Triples,       \* the <<rd, rn, rm>> of data-processing instructions
  Offsets,       \* the branch offsets, in instructions
  MaxInstr,      \* max_instructions (64)
  MapMax         \* the size of pc_map (256)

BaseReg == "rbp"
RAX0 == "rax"
InMemory == "memory"    \* x86_reg = 0xff
FP == 29
LR == 30

ASSUME BlockAssumption ==
  /\ FP \in Gpr /\ Gpr \subseteq 0..31
  /\ Pool \in Seq(STRING) \ {<<>>}
  /\ \A i \in DOMAIN Pool : Pool[i] \notin {BaseReg, InMemory}
  /\ \A i, j \in DOMAIN Pool : i # j => Pool[i] # Pool[j]
  /\ Triples \subseteq Gpr \X Gpr \X Gpr
  /\ Offsets \subseteq Int
  /\ MaxInstr \in Nat /\ MapMax \in Nat

VARIABLES
  al,            \* the allocator: held, dirty, free; at, the x86 address; astray,
                 \* a store has missed the home it was meant for
  pcMap,         \* pc_map: pairs of an ARM and an x86 address
  starts,        \* where the code of each instruction really begins
  armCur,        \* the instruction being translated
  behind,        \* registers whose home was written while a register held them
  operands,      \* the ARM and x86 registers of the last data-processing instruction
  leave,         \* how the branch that ended the block leaves it
  finished       \* the epilogue has been emitted

blockVars == <<al, pcMap, starts, armCur, behind, operands, leave, finished>>

-----------------------------------------------------------------------------
arm_reg_priority ==
  [a \in 0..31 |-> IF a >= 24 THEN 30 ELSE IF a >= 16 THEN 40 ELSE IF a >= 9 THEN 50
                   ELSE IF a = 8 THEN 60 ELSE 100 - 10 * (a \div 2)]

(* A 64-bit store of R8 to R15 goes to [R13 + offset], from RAX to RDI; a   *)
(* 32-bit store goes to the home, from RAX to RDI.                          *)
High == {"r8", "r9", "r10", "r11"}
emit_load(s) == [s EXCEPT !.at = @ + 1]
emit_store(s, a) == [s EXCEPT !.at = @ + 1, !.astray = @ \/ s.held[a] \in High]

reg_alloc_free(s, x) ==
  IF Len(s.free) < Len(Pool) THEN [s EXCEPT !.free = Append(@, x)] ELSE s
reg_alloc_assign(s, a, x) == [s EXCEPT !.held[a] = x, !.dirty[a] = FALSE]
(* get_free, assign and the load that follows them.                         *)
Alloc(s, a) ==
  LET n == Len(s.free)
  IN emit_load(reg_alloc_assign([s EXCEPT !.free = SubSeq(@, 1, n - 1)], a, s.free[n]))
StoreIfDirty(s, a) == IF s.dirty[a] THEN emit_store(s, a) ELSE s

(* The loop over the registers: the first one of the least priority.        *)
Victim(s) ==
  LET cand == {a \in Gpr : s.held[a] # InMemory}
      low(a) == \A b \in cand : arm_reg_priority[a] <= arm_reg_priority[b]
  IN CHOOSE a \in cand : low(a) /\ \A b \in cand : low(b) => a <= b
SpillStillHeld(s, v) == reg_alloc_free(StoreIfDirty(s, v), s.held[v])
Spill(s, v) ==
  LET t == StoreIfDirty(s, v)
  IN reg_alloc_free([t EXCEPT !.held[v] = InMemory], s.held[v])

Mark(s, a, mark) == IF mark THEN [s EXCEPT !.dirty[a] = TRUE] ELSE s
reg_alloc_get_reg(s, a, mark) ==
  IF s.held[a] # InMemory THEN Mark(s, a, mark)
  ELSE IF s.free # <<>> THEN Mark(Alloc(s, a), a, mark)
  ELSE IF \E b \in Gpr : s.held[b] # InMemory
       THEN Mark(Alloc(Spill(s, Victim(s)), a), a, mark)
  ELSE s
(* The register returned: RAX when nothing could be spilled.                *)
Got(s, a) == IF s.held[a] = InMemory THEN RAX0 ELSE s.held[a]

(* Called once, on the fresh allocator: nothing holds x86_reg.              *)
reg_alloc_ensure_fixed(s, a, x) == emit_load(reg_alloc_assign(s, a, x))
reg_alloc_setup_calling_convention(s) == reg_alloc_ensure_fixed(s, FP, BaseReg)
reg_alloc_init ==
  [held   |-> [a \in Gpr |-> InMemory],
   dirty  |-> [a \in Gpr |-> FALSE],
   free   |-> Pool,
   astray |-> FALSE,
   at     |-> 10]

reg_alloc_compute_live_out(s) == {a \in Gpr : a < 8 /\ s.held[a] # InMemory}
reg_alloc_emit_batch_store(s) ==
  LET live == {a \in reg_alloc_compute_live_out(s) : s.dirty[a]}
  IN [s EXCEPT !.at = @ + Cardinality(live),
               !.astray = @ \/ \E a \in live : s.held[a] \in High,
               !.dirty = [a \in Gpr |-> @[a] /\ a \notin live]]

pc_map_add(at) ==
  IF Len(pcMap) < MapMax THEN Append(pcMap, <<armCur, at>>) ELSE pcMap
(* The first entry for the address; -1 stands for NULL.                     *)
pc_map_lookup(map, pc) ==
  LET hits == {i \in DOMAIN map : map[i][1] = pc}
  IN IF hits = {} THEN -1 ELSE map[CHOOSE i \in hits : \A j \in hits : i <= j][2]

-----------------------------------------------------------------------------
Translating == leave.kind = "none" /\ ~finished /\ armCur < MaxInstr
Advance == armCur' = armCur + 1 /\ starts' = Append(starts, al.at)

(* add, sub and the logical instructions: rn, rm and rd are taken from the  *)
(* allocator in this order, then a move and the operation are emitted; BIC  *)
(* and ORN invert rm's register first.                                      *)
OneX86(rd, rn) == IF rd = rn THEN 1 ELSE 2
DataProcessing(op, i) ==
  LET s1 == reg_alloc_get_reg(al, i[2], FALSE)
      s2 == reg_alloc_get_reg(s1, i[3], FALSE)
      s3 == reg_alloc_get_reg(s2, i[1], TRUE)
      x  == <<Got(s3, i[1]), Got(s1, i[2]), Got(s2, i[3])>>
  IN /\ Translating
     /\ al' = [s3 EXCEPT !.at = @ + OneX86(x[1], x[2]) + (IF op \in {"bic", "orn"} THEN 1 ELSE 0)]
     /\ operands' = [arm |-> i, x86 |-> x]
     /\ behind' = behind \ {i[1]}
     /\ pcMap' = pc_map_add(al.at)
     /\ Advance
     /\ UNCHANGED <<leave, finished>>
translate_add_sub(op, i) == op \in {"add", "sub"} /\ DataProcessing(op, i)
translate_logical(op, i) == op \in {"and", "bic", "orr", "orn"} /\ DataProcessing(op, i)

HomeWritten(a) == behind' = IF al.held[a] # InMemory THEN behind \union {a} ELSE behind

(* MOVZ and MOVN take a free register without giving rd's old one back, and *)
(* store it at once; without a free register only the home is written.      *)
translate_mov_imm(a) ==
  /\ Translating
  /\ \/ /\ al.free # <<>>
        /\ al' = Mark(emit_store(Alloc(al, a), a), a, TRUE)
        /\ behind' = behind \ {a}
     \/ /\ al.free = <<>>
        /\ al' = [al EXCEPT !.at = @ + 1]
        /\ HomeWritten(a)
  /\ pcMap' = pc_map_add(al.at)
  /\ Advance
  /\ UNCHANGED <<operands, leave, finished>>

(* MOVK and every instruction of Translate64 that writes rd: through the    *)
(* home, whatever the allocator holds.                                      *)
ThroughHome(a) ==
  /\ Translating
  /\ al' = [al EXCEPT !.at = @ + 3]
  /\ HomeWritten(a)
  /\ pcMap' = pc_map_add(al.at)
  /\ Advance
  /\ UNCHANGED <<operands, leave, finished>>

(* INSTR_DATAPROC and whatever is not decoded: a NOP without a map entry.   *)
Unknown ==
  /\ Translating
  /\ al' = [al EXCEPT !.at = @ + 1]
  /\ Advance
  /\ UNCHANGED <<pcMap, behind, operands, leave, finished>>

(* How a branch leaves the block: "direct" to a known x86 address; "armcode" *)
(* through [rip+0], to the ARM address itself; "next" by a displacement of 0 *)
(* that is never patched, which goes on with what follows.  unsaved is what  *)
(* the stores behind the branch are still to save.                           *)
Exit(kind, named, how, to) ==
  [kind |-> kind, named |-> named, how |-> how, to |-> to,
   unsaved |-> {a \in Gpr : a < 8 /\ al.dirty[a]}]
NoExit == [kind |-> "none", named |-> 0, how |-> "none", to |-> -1, unsaved |-> {}]
JumpOrStub(kind, named, off) ==
  LET x == pc_map_lookup(pc_map_add(al.at), armCur + off)
  IN IF x >= 0 THEN Exit(kind, named, "direct", x) ELSE Exit(kind, named, "armcode", -1)
JumpNext(kind) == Exit(kind, 0, "next", -1)

(* A branch ends the block: what is dirty is stored behind the jump.        *)
Branch(s, emitted, exit) ==
  /\ Translating
  /\ pcMap' = pc_map_add(al.at)
  /\ leave' = exit
  /\ al' = reg_alloc_emit_batch_store([s EXCEPT !.at = @ + emitted])
  /\ Advance
  /\ UNCHANGED <<operands, finished>>
Jump(emitted, exit) == Branch(al, emitted, exit) /\ UNCHANGED behind

translate_b(off) == Jump(1, JumpOrStub("b", off, off))
(* B.cond uses half of the offset its field names, rounded down, and its    *)
(* displacement is written over the conditional jump itself: what is left   *)
(* always goes on to the jump behind it.                                    *)
translate_b_cond(off, always) ==
  Jump(IF always THEN 1 ELSE 2, JumpOrStub("bcond", off, off \div 2))
translate_cbz_cbnz(off) == Jump(4, JumpOrStub("cbz", off, off))
translate_tbz_tbnz(off) == Jump(4, JumpOrStub("tbz", off, off))
LinkWritten == IF LR \in Gpr THEN HomeWritten(LR) ELSE UNCHANGED behind
translate_bl(off) == Branch(al, 3, JumpOrStub("bl", off, off)) /\ LinkWritten
translate_br == Jump(2, JumpNext("br"))
translate_blr == Branch(al, 4, JumpNext("blr")) /\ LinkWritten
translate_ret(lr) == Jump(IF lr THEN 0 ELSE 2, JumpNext("ret"))

(* End of the code, the instruction limit, or a branch: the final stores    *)
(* and the epilogue that loads X0 and returns.                              *)
Epilogue ==
  /\ ~finished
  /\ armCur > 0
  /\ al' = [reg_alloc_emit_batch_store(al) EXCEPT !.at = @ + 2]
  /\ finished' = TRUE
  /\ UNCHANGED <<pcMap, starts, armCur, behind, operands, leave>>

BlockInit ==
  /\ al = reg_alloc_setup_calling_convention(reg_alloc_init)
  /\ pcMap = <<>> /\ starts = <<>> /\ armCur = 0
  /\ behind = {} /\ operands = [arm |-> <<>>, x86 |-> <<>>]
  /\ leave = NoExit /\ finished = FALSE

BlockNext ==
  \/ \E i \in Triples : translate_add_sub("add", i) \/ translate_logical("bic", i)
  \/ \E a \in Gpr : translate_mov_imm(a) \/ ThroughHome(a)
  \/ Unknown
  \/ \E off \in Offsets :
       \/ translate_b(off) \/ translate_bl(off)
       \/ translate_cbz_cbnz(off) \/ translate_tbz_tbnz(off)
       \/ \E always \in BOOLEAN : translate_b_cond(off, always)
  \/ translate_br \/ translate_blr
  \/ \E lr \in BOOLEAN : translate_ret(lr)
  \/ Epilogue

BlockSpec == BlockInit /\ [][BlockNext]_blockVars

-----------------------------------------------------------------------------
(* No x86 register is handed out twice, whatever is spilled, taken by MOVZ  *)
(* without being given back, or lost from the pool: two ARM registers never *)
(* share one, and one that is free is held by nobody (reg_alloc_get_reg,    *)
(* reg_alloc_free).                                                         *)
RegistersApart ==
  /\ \A a, b \in Gpr : a # b /\ al.held[a] # InMemory => al.held[a] # al.held[b]
  /\ \A i, j \in DOMAIN al.free : i # j => al.free[i] # al.free[j]
  /\ \A a \in Gpr, i \in DOMAIN al.free : al.held[a] # al.free[i]

(* A branch to an instruction of the same block goes to the first x86       *)
(* instruction emitted for it (pc_map_add, pc_map_lookup).                  *)
LandsRight ==
  leave.how = "direct" /\ leave.kind # "bcond" => leave.to = starts[armCur + leave.named]

(* Along a block, whatever is spilled, reloaded and stored in between, no  *)
(* x86 register has two owners and branches land on instruction starts     *)
(* (arm2x86_convert_block).                                                *)
BlockSound == RegistersApart /\ LandsRight

(* Not true of the code; see the README.                                    *)
(* The distinct operands of an instruction are in distinct x86 registers:   *)
(* taking the second or third may spill the first.                          *)
OperandsApart ==
  \A i, j \in DOMAIN operands.arm :
    operands.arm[i] # operands.arm[j] => operands.x86[i] # operands.x86[j]
(* RBP, the base of the homes, holds no ARM register but X29.               *)
BaseKept == \A a \in Gpr \ {FP} : al.held[a] # BaseReg
(* A block that leaves by a jump has stored the argument registers before.  *)
ExitStored == leave.how \in {"direct", "armcode"} /\ leave.kind # "bl" => leave.unsaved = {}
(* A store at the end does not overwrite a home newer than the register.    *)
NewestKept == \A a \in behind : ~al.dirty[a]
(* What is spilled or stored reaches its home.                              *)
StoresReachHome == ~al.astray
(* Every branch within the block goes to the instruction it names.          *)
CondLandsRight ==
  leave.how = "direct" =>
    /\ armCur + leave.named \in DOMAIN starts
    /\ leave.to = starts[armCur + leave.named]
(* A branch out of the block goes to translated code.                       *)
LeavesToX86 == leave.how # "armcode"
=============================================================================
