----------------------------- MODULE HotPasses -----------------------------
(***************************************************************************)
(* The four passes of hotblock_apply_optimizations                         *)
(* (modules/arm2x86_hotblock.c) on the bytes they scan.  The size of the   *)
(* block is not known to them: they read a window of 256 bytes from its    *)
(* entry, whatever lies behind the block included, and match patterns at   *)
(* every byte, so an operand may be taken for an instruction.  One step is *)
(* one iteration of a pass's loop.                                         *)
(***************************************************************************)
EXTENDS Integers, Sequences, Functions

CONSTANTS
  Window,       \* original_size (256 bytes)
  Windows,      \* what the window may hold: its bytes, and where instructions start
  Behind        \* what may lie behind a buffer a pass reads from

Byte == 0 .. 255
ASSUME PassAssumption ==
  /\ Window \in Nat /\ Window >= 32
  /\ \A w \in Windows : w.bytes \in [1 .. Window -> Byte] /\ w.starts \subseteq 1 .. Window
  /\ Behind \subseteq [1 .. 9 -> Byte]

VARIABLES
  passWindow,   \* the window at x86_entry (never changed)
  passCode,     \* current_code, current_size
  passNo,       \* the pass to run or running, 5 at the end
  passSrc,      \* the byte the running pass is at, 0 when none runs
  passOut,      \* what the running pass has written to its buffer
  passVal,      \* reg_constants: a register's eight bytes, <<>> when not constant
  passFound,    \* what the running pass counted
  passBehind    \* what lies behind passCode
passVars == <<passWindow, passCode, passNo, passSrc, passOut, passVal, passFound, passBehind>>

-----------------------------------------------------------------------------
(* The j-th byte from src, and those from the j-th to the k-th.            *)
ByteAt(j) == IF passSrc + j <= Len(passCode) THEN passCode[passSrc + j]
         ELSE passBehind[passSrc + j - Len(passCode)]
Bytes(j, k) == [i \in 1 .. k - j + 1 |-> ByteAt(j + i - 1)]
Starts(pattern) == \A i \in DOMAIN pattern : ByteAt(i - 1) = pattern[i]
Room(k) == passSrc + k <= Len(passCode)
SameRegister(modrm) == modrm \div 64 = 3 /\ (modrm \div 8) % 8 = modrm % 8

(* What an iteration reads, writes and counts.                             *)
Took(len, out, n, val) == [len |-> len, out |-> out, n |-> n, val |-> val]
Copied == Took(1, Bytes(0, 0), 0, passVal)

(***************************************************************************)
(* optimize_dead_code_elimination: NOP, LEA with an index only, and TEST   *)
(* r,r when the byte behind it is not 0F.  The MOV r,r case asks for a     *)
(* ModRM byte that cannot be.                                              *)
(***************************************************************************)
DeadLength ==
  CASE Starts(<<144>>) -> 1
    [] Starts(<<72, 141, 4>>) /\ ByteAt(3) \div 64 = 0 /\ ByteAt(3) % 8 = 5 -> 4
    [] Starts(<<72, 133>>) /\ SameRegister(ByteAt(2)) /\ Room(3) /\ ByteAt(3) # 15 -> 3
    [] OTHER -> 0
DeadStep == IF DeadLength > 0 THEN Took(DeadLength, <<>>, 1, passVal) ELSE Copied

(***************************************************************************)
(* optimize_constant_propagation: MOV r,imm64 and XOR r,r make r a         *)
(* constant for the rest of the code (of an XOR one byte is copied and the *)
(* scan goes on inside it); ADD and AND of constants become a MOV of the   *)
(* result, of an ADD to the source register.                               *)
(***************************************************************************)
NoConstants == [r \in 0 .. 7 |-> <<>>]
ZeroBytes == [i \in 1 .. 8 |-> 0]
(* The carry into byte k: from a byte that overflows through bytes of 255. *)
Carry(a, b, k) ==
  IF \E j \in 1 .. k - 1 : a[j] + b[j] > 255 /\ \A i \in j + 1 .. k - 1 : a[i] + b[i] >= 255
  THEN 1 ELSE 0
SumBytes(a, b) == [k \in 1 .. 8 |-> (a[k] + b[k] + Carry(a, b, k)) % 256]
BothSet(x, y, bit) == IF (x \div bit) % 2 = 1 /\ (y \div bit) % 2 = 1 THEN bit ELSE 0
AndByte(x, y) == BothSet(x, y, 1) + BothSet(x, y, 2) + BothSet(x, y, 4) + BothSet(x, y, 8)
  + BothSet(x, y, 16) + BothSet(x, y, 32) + BothSet(x, y, 64) + BothSet(x, y, 128)
Masked(a) == [k \in 1 .. 8 |-> IF k <= 4 THEN AndByte(a[k], ByteAt(2 + k)) ELSE 0]
Moved(len, reg, v) ==
  Took(len, [i \in 1 .. 10 |-> IF i = 1 THEN 72 ELSE IF i = 2 THEN 184 + reg ELSE v[i - 2]], 1,
       [passVal EXCEPT ![reg] = v])
MovImm == ByteAt(0) = 72 /\ ByteAt(1) \in 184 .. 191
AddKnown ==
  /\ Starts(<<72, 1>>) /\ ByteAt(2) \div 64 = 3
  /\ passVal[(ByteAt(2) \div 8) % 8] # <<>> /\ passVal[ByteAt(2) % 8] # <<>>
AndKnown == Starts(<<72, 129>>) /\ ByteAt(2) \div 8 = 28 /\ passVal[ByteAt(2) % 8] # <<>>
AddLengthForgotten == 0
AddLength == 3
PropStep ==
  CASE MovImm -> Took(10, Bytes(0, 9), 1, [passVal EXCEPT ![ByteAt(1) - 184] = Bytes(2, 9)])
    [] Starts(<<72, 49>>) /\ SameRegister(ByteAt(2)) ->
         Took(1, Bytes(0, 0), 1, [passVal EXCEPT ![ByteAt(2) % 8] = ZeroBytes])
    [] AddKnown -> LET reg == (ByteAt(2) \div 8) % 8
                   IN  Moved(AddLength, reg, SumBytes(passVal[reg], passVal[ByteAt(2) % 8]))
    [] AndKnown -> Moved(7, ByteAt(2) % 8, Masked(passVal[ByteAt(2) % 8]))
    [] OTHER -> Copied

(***************************************************************************)
(* optimize_instruction_fusion: CMP RAX,imm + JE into TEST + JE, SUB r,r + *)
(* SBB into XOR + SBB, AND + Jcc into TEST imm + Jcc; CMP + SETcc is       *)
(* counted and copied.  The last five bytes are only copied.               *)
(***************************************************************************)
CmpJe == Starts(<<72, 129, 248>>) /\ Room(7) /\ ByteAt(7) = 15 /\ ByteAt(8) = 132
SubSbb == /\ Starts(<<72, 41>>) /\ SameRegister(ByteAt(2)) /\ Room(5)
          /\ ByteAt(3) = 72 /\ ByteAt(4) = 25 /\ SameRegister(ByteAt(5))
AndJcc == /\ Starts(<<72, 129>>) /\ ByteAt(2) \div 8 = 28 /\ Room(7)
          /\ ByteAt(7) = 15 /\ ByteAt(8) \in {132, 133}
CmpSet == Starts(<<72, 57>>) /\ Room(5) /\ ByteAt(3) = 15 /\ ByteAt(4) \in 144 .. 159
Test == <<72, 133, 192>>
FuseStep ==
  CASE ~Room(5) -> Copied
    [] Room(5) /\ CmpJe ->
         Took(13, [i \in 1 .. 9 |-> IF i <= 3 THEN Test[i] ELSE ByteAt(i + 3)], 1, passVal)
    [] Room(5) /\ SubSbb -> Took(6, [Bytes(0, 5) EXCEPT ![2] = 49], 1, passVal)
    [] Room(5) /\ AndJcc ->
         Took(13, [Bytes(0, 12) EXCEPT ![2] = 247, ![3] = 192 + (ByteAt(2) % 8)], 1, passVal)
    [] Room(5) /\ CmpSet -> Took(6, Bytes(0, 5), 1, passVal)
    [] OTHER -> Copied

(***************************************************************************)
(* optimize_loop_unrolling, patterns 1 and 2: MOV ECX,n (or the B9 of any  *)
(* other instruction), or XOR ECX,ECX and B0 n, up to the next byte E2     *)
(* (patterns 3 to 5 look and change nothing).  The last ten bytes are not  *)
(* searched for a start and the last two not for the end.  Up to 8         *)
(* iterations are written out; of 9 to 32 eight, and of 33 to 64 four      *)
(* (pattern 1 only), with a loop for the rest whose LOOP goes back further *)
(* than its body.                                                          *)
(***************************************************************************)
LoopFrom(start) ==
  {j \in start .. Len(passCode) - 2 :
     passCode[j] = 226 /\ \A h \in start .. j - 1 : passCode[h] # 226}
Large == 65
MovCount == IF ByteAt(2) = 0 /\ ByteAt(3) = 0 /\ ByteAt(4) = 0 THEN ByteAt(1) ELSE Large
(* Pattern 2 looks at the first 256 bytes of the body and for no Jcc.      *)
ControlFlow(mov, start, j) ==
  \E h \in start .. j - 1 :
    \/ passCode[h] \in {232, 194, 195} /\ (mov \/ h < start + 256)
    \/ mov /\ passCode[h] = 15 /\ h + 1 < j /\ passCode[h + 1] \in 128 .. 143
CopiesOf(n) == IF n <= 8 THEN n ELSE IF n <= 32 THEN 8 ELSE 4
SmallEnough(size, n) ==
  CopiesOf(n) * size + (IF n <= 8 THEN 0 ELSE 7) < IF n <= 8 THEN 1024 ELSE 2048
Times(b, n) == [i \in 1 .. n * Len(b) |-> b[((i - 1) % Len(b)) + 1]]
RestLoop(mov, b, rest) ==
  (IF mov THEN <<185, rest, 0, 0, 0>> ELSE <<176, rest, 15, 182, 200>>)
    \o b \o <<226, (0 - (Len(b) + (IF mov THEN 5 ELSE 8))) % 256>>
Unrolled(mov, b, n) ==
  IF n <= 8 THEN Times(b, n) ELSE Times(b, CopiesOf(n)) \o RestLoop(mov, b, n - CopiesOf(n))
UnrollAt(mov, start, n, max) ==
  LET j == CHOOSE j \in LoopFrom(start) : TRUE
      body == SubSeq(passCode, start, j - 1)
      Replaced(out) == Took(j + 2 - passSrc, out, 1, passVal)
  IN  CASE LoopFrom(start) = {} -> Copied
        [] LoopFrom(start) # {} /\ mov /\ n = 0 -> Replaced(<<>>)
        [] LoopFrom(start) # {} /\ ~(mov /\ n = 0) ->
             IF /\ j > start /\ ~ControlFlow(mov, start, j) /\ n <= max
                /\ mov => SmallEnough(j - start, n)
             THEN Replaced(Unrolled(mov, body, n)) ELSE Copied
UnrollStep ==
  CASE ~Room(10) -> Copied
    [] Room(10) /\ ByteAt(0) = 185 -> UnrollAt(TRUE, passSrc + 5, MovCount, 64)
    [] Room(10) /\ Starts(<<49, 201, 176>>) -> UnrollAt(FALSE, passSrc + 4, ByteAt(3), 32)
    [] OTHER -> Copied

-----------------------------------------------------------------------------
PassStep ==
  CASE passNo = 1 -> DeadStep
    [] passNo = 2 -> PropStep
    [] passNo = 3 -> FuseStep
    [] passNo = 4 -> UnrollStep

PassInit ==
  /\ passWindow \in Windows
  /\ passCode = passWindow.bytes /\ passNo = 1 /\ passSrc = 0 /\ passOut = <<>>
  /\ passVal = NoConstants /\ passFound = 0 /\ passBehind \in Behind

(* The buffer of a pass is allocated, or cannot be and the pass is left    *)
(* out.                                                                    *)
StartPass ==
  /\ passSrc = 0 /\ passNo <= 4
  /\ passSrc' = 1
  /\ UNCHANGED <<passWindow, passCode, passNo, passOut, passVal, passFound, passBehind>>
SkipPass ==
  /\ passSrc = 0 /\ passNo <= 4
  /\ passNo' = passNo + 1
  /\ UNCHANGED <<passWindow, passCode, passSrc, passOut, passVal, passFound, passBehind>>
ScanStep ==
  /\ passSrc > 0 /\ passSrc <= Len(passCode)
  /\ LET s == PassStep
     IN  /\ passSrc' = passSrc + s.len
         /\ passOut' = passOut \o s.out
         /\ passFound' = passFound + s.n
         /\ passVal' = s.val
  /\ UNCHANGED <<passWindow, passCode, passNo, passBehind>>
(* The result of a pass that counted something is what the next one reads; *)
(* the buffer it replaces, or that of a pass that found nothing, is freed. *)
EndPass ==
  /\ passSrc > Len(passCode) /\ passSrc > 0
  /\ \/ passFound > 0 /\ passCode' = passOut /\ passBehind' \in Behind
     \/ passFound = 0 /\ UNCHANGED <<passCode, passBehind>>
  /\ passNo' = passNo + 1 /\ passSrc' = 0
  /\ passOut' = <<>> /\ passFound' = 0 /\ passVal' = NoConstants
  /\ UNCHANGED passWindow
PassNext == StartPass \/ SkipPass \/ ScanStep \/ EndPass
PassSpec == PassInit /\ [][PassNext]_passVars
-----------------------------------------------------------------------------
(* No pass writes behind its buffer of 64 times the window, whatever bytes *)
(* the window holds and however the patterns misread them, with the code   *)
(* that constant propagation makes longer inside a body that is then       *)
(* unrolled (hotblock.c:856: unrolling may make code 8 to 32 times         *)
(* larger).                                                                *)
buffer_size == 64 * Window
OutputFits == Len(passOut) <= buffer_size

(* Not true of the code: a loop is unrolled only where there is a LOOP     *)
(* instruction (any byte E2 is taken for one), and a MOV of a 64-bit       *)
(* constant is left as it is (its B9 is taken for MOV ECX).                *)
LoopsAreLoops ==
  passNo = 4 /\ passFound > 0 => \E i \in passWindow.starts : passWindow.bytes[i] = 226
=============================================================================
