CONSTANTS
  Scale = 8
  ArmReg = {0,1,2,3}
  MemAddr = {0,8,16}
  Regs <- MCRegs
  Shifts <- MCShifts
  Pairs <- MCPairs
  Ops = {"cmp","tst","cmn","mul","adc","sbc","rsb","neg","mvn","orn","mov","sdiv","udiv","madd",
    "msub","smulh","umulh","lsr","asr","ror","extr","sbfm","ubfm","bfi","bfxil","bfc","clz",
    "sxtb","sxth","uxtb","uxth","sxtw","uxtw","rev","csel","cset","cinc","cinv","cneg","csinc",
    "csinv","csneg","ccmp","ccmn","ldr","str","ldp","stp","ldrlit","ldrb","ldrh","strb","strh",
    "ldrsb","ldrsh","ldrsw","ldaxr","cas","ldadd","stlxr","adr","mrs","msr","dmb","isb","hint",
    "prfm"}
  Sparing = {"cmp","tst","cmn","mul","adc","sbc","rsb","neg","mvn","orn","mov","sdiv","udiv",
    "madd","msub","smulh","umulh","lsr","asr","ror","extr","sbfm","ubfm","bfi","bfxil","bfc",
    "clz","sxtb","sxth","uxtb","uxth","sxtw","uxtw","rev","csel","cset","cinc","cinv","cneg",
    "csinc","csinv","csneg","ccmp","ccmn","ldr","str","ldp","stp","ldrlit","ldrb","ldrh",
    "ldrsb","ldrsh","ldrsw","ldaxr","cas","ldadd","stlxr","mrs","msr","dmb","isb","hint",
    "prfm"}
  Apart = {}
  Value = {0,1,8,15,16,127,128,200,255}
  Conds = {0,1,2,3,4,5,6,7,8,9,10,11,12,13,14,15}
  FlagConds = {0,1,4,5,6,7,10,11,12,13}
  Claimed64 = {"csel","sxtb","sxth","uxtb","uxth","ldr","str","prfm","dmb","isb"}
  Claimed32 = {"csel","ldr","ldrlit"}
  EncoderNames = {"imul_r64_r64","mov_r64_imm","mov_r32_imm","shl_r64_imm8","shr_r64_imm8",
    "sar_r64_imm8","neg_r64","not_r64"}
  FlagOps = {"csel","sxtb","sxth","uxtb","uxth","ldr","ldrlit","prfm"}
  Gpr = {0, 1, 29, 30}
  Pool <- MCPool
  Triples <- MCTriples
  Offsets <- MCOffsets
  MaxInstr = 3
  MapMax = 2
  Parts = {"instruction"}
SPECIFICATION MCSpec
CHECK_DEADLOCK FALSE
INVARIANT ResultRight
