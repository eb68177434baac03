-------------------------------- MODULE X86 --------------------------------
(***************************************************************************)
(* The x86-64 machine the translated code runs on, as far as the           *)
(* translators use it.  It is external to the repository: the definitions  *)
(* say what the processor does with the instructions that Emit and         *)
(* Translate64 encode.                                                     *)
(*                                                                         *)
(* Words are scaled down: Scale bits of the program are one bit of the     *)
(* model, so with Scale = 8 a 64-bit register has 8 bits, its low half 4   *)
(* and its low byte 1.  Widths are written as in the program (64, 32, 16,  *)
(* 8).  The 32 ARM registers live in memory at [RBP + 8k], their "homes".  *)
(***************************************************************************)
EXTENDS Integers, Sequences, Bitwise

CONSTANTS
  Scale,     \* bits of the program per bit of the model
  ArmReg,    \* the numbers of the ARM registers in use
  MemAddr    \* the addresses of guest memory in use

ASSUME ScaleAssumption == Scale \in {4, 8} /\ ArmReg \subseteq 0..31

P(w) == 2 ^ (w \div Scale)
Word == 0..(P(64) - 1)
SignBit(v, w) == IF v >= P(w) \div 2 THEN 1 ELSE 0
SignExtend(v, w) == IF SignBit(v, w) = 1 THEN v + P(64) - P(w) ELSE v
Low(v, w) == v % P(w)

RAX == 0
RCX == 1
RDX == 2
RBX == 3
RSP == 4
RBP == 5
RSI == 6
RDI == 7
R11 == 11
R13 == 13

(* Operands: a register, an ARM register's home at a byte offset, guest     *)
(* memory at the address in a register plus a displacement, an immediate.   *)
R(n) == [k |-> "reg", n |-> n, d |-> 0]
Home(a, d) == [k |-> "home", n |-> a, d |-> d]
At(n, d) == [k |-> "mem", n |-> n, d |-> d]
Imm(v) == [k |-> "imm", n |-> v, d |-> 0]
None == [k |-> "none", n |-> 0, d |-> 0]
X(op, w, dst, src) == [op |-> op, w |-> w, dst |-> dst, src |-> src]

(* Flags are 0, 1, or 2 where the processor leaves a flag undefined.  ok    *)
(* becomes FALSE when the code faults or touches memory it does not own.    *)
Flags == [z : 0..2, s : 0..2, c : 0..2, o : 0..2]
Machine(homes, f, mem) ==
  [r |-> [n \in 0..15 |-> (53 * n + 19) % P(64)], home |-> homes, f |-> f, mem |-> mem, ok |-> TRUE]

Address(m, o) == Low(m.r[o.n] + o.d, 64)
Reachable(m, o) ==
  CASE o.k = "home" -> o.n \in ArmReg
    [] o.k = "mem" -> Address(m, o) \in MemAddr
    [] OTHER -> TRUE
Val(m, o, w) ==
  CASE o.k = "reg" -> Low(m.r[o.n], w)
    [] o.k = "home" -> Low(m.home[o.n], w)
    [] o.k = "mem" -> Low(m.mem[Address(m, o)], w)
    [] o.k = "imm" -> o.n % P(w)
    [] OTHER -> 0

(* A 32-bit result clears the upper half of a register; every other narrow  *)
(* write leaves the rest of the destination as it was.                      *)
Merge(old, v, w) == (old - Low(old, w)) + v
PutHome(home, a, d, w, v) ==
  IF d = 0 THEN [home EXCEPT ![a] = Merge(@, v, w)]
  ELSE [home EXCEPT ![a] = Low(@, 32) + Low(v, 32) * P(32),
                    ![a + 1] = IF w = 64 THEN Merge(@, v \div P(32), 32) ELSE @]
Put(m, o, w, v) ==
  CASE o.k = "reg" -> [m EXCEPT !.r[o.n] = IF w >= 32 THEN v ELSE Merge(@, v, w)]
    [] o.k = "home" -> [m EXCEPT !.home = PutHome(@, o.n, o.d, w, v)]
    [] o.k = "mem" -> [m EXCEPT !.mem[Address(m, o)] = Merge(@, v, w)]
    [] OTHER -> [m EXCEPT !.ok = FALSE]

Bit(b) == IF b THEN 1 ELSE 0
Arith(op, a, b, k, w) ==
  LET sum == op \in {"add", "adc"}
      t == IF sum THEN a + b + k ELSE a - b - k
      v == t % P(w)
      x == SignBit(a, w)
      y == IF sum THEN SignBit(b, w) ELSE 1 - SignBit(b, w)
  IN  [v |-> v, f |-> [z |-> Bit(v = 0), s |-> SignBit(v, w), c |-> Bit(t # v),
                       o |-> Bit(x = y /\ SignBit(v, w) # x)]]
Logic(v, w) == [v |-> v, f |-> [z |-> Bit(v = 0), s |-> SignBit(v, w), c |-> 0, o |-> 0]]
Shifted(op, a, n, w) ==
  CASE op = "shl" -> Low(a * 2 ^ n, w)
    [] op = "shr" -> a \div 2 ^ n
    [] op = "sar" -> Low((SignExtend(a, w) - SignBit(a, w) * P(64)) \div 2 ^ n, w)
    [] op = "ror" -> (a \div 2 ^ n) + (a % 2 ^ n) * 2 ^ ((w \div Scale) - n)
Reversed(a, w) ==
  LET n == w \div 8
      Part(j) == (a \div P(8) ^ j) % P(8)
      Sum[j \in 0..n] == IF j = 0 THEN 0 ELSE Sum[j - 1] + Part(j - 1) * P(8) ^ (n - j)
  IN  Sum[n]

(* The conditions of Jcc and SETcc, by the low four bits of the opcode.     *)
Holds(f, cc) ==
  LET t == CASE cc \div 2 = 0 -> f.o = 1
             [] cc \div 2 = 1 -> f.c = 1
             [] cc \div 2 = 2 -> f.z = 1
             [] cc \div 2 = 3 -> f.c = 1 \/ f.z = 1
             [] cc \div 2 = 4 -> f.s = 1
             [] cc \div 2 = 6 -> f.s # f.o
             [] cc \div 2 = 7 -> f.z = 1 \/ f.s # f.o
  IN  t = (cc % 2 = 0)

(* What an instruction computes: its result and its flags.                  *)
Compute(m, i) ==
  LET a == Val(m, i.dst, i.w)
      b == Val(m, i.src, i.w)
      n == i.src.n % (IF i.w = 64 THEN 64 \div Scale ELSE 32 \div Scale)
      Same(v) == [v |-> v, f |-> m.f]
      Undef(v) == [v |-> v, f |-> [z |-> 2, s |-> 2, c |-> 2, o |-> 2]]
  IN  CASE i.op \in {"mov", "load", "store"} -> Same(b)
        [] i.op \in {"add", "sub", "cmp"} -> Arith(i.op, a, b, 0, i.w)
        [] i.op \in {"adc", "sbb"} -> Arith(i.op, a, b, m.f.c, i.w)
        [] i.op \in {"and", "test"} -> Logic(a & b, i.w)
        [] i.op = "or" -> Logic(a | b, i.w)
        [] i.op = "xor" -> Logic(a ^^ b, i.w)
        [] i.op = "neg" -> Arith("sub", 0, a, 0, i.w)
        [] i.op = "not" -> Same(P(i.w) - 1 - a)
        [] i.op \in {"shl", "shr", "sar", "ror"} ->
             IF n = 0 THEN Same(a) ELSE Undef(Shifted(i.op, a, n, i.w))
        [] i.op = "imul" -> Undef(Low(a * b, i.w))
        [] i.op = "bswap" -> Same(Reversed(a, i.w))
        [] i.op \in {"movsx8", "movsx16", "movsx32"} ->
             LET w == CASE i.op = "movsx8" -> 8 [] i.op = "movsx16" -> 16 [] OTHER -> 32
             IN  Same(Low(SignExtend(Val(m, i.src, w), w), i.w))
        [] i.op = "lzcnt" -> Undef(CHOOSE k \in 0..(i.w \div Scale) : b < 2 ^ ((i.w \div Scale) - k)
                                     /\ (k < i.w \div Scale => b >= 2 ^ ((i.w \div Scale) - k - 1)))
        [] i.op = "setcc" -> Same(Bit(Holds(m.f, i.src.n)))
        [] i.op = "lea" -> Same(Address(m, i.src))
        [] i.op = "movzx8" -> Same(Val(m, i.src, 8))
        [] i.op = "movzx16" -> Same(Val(m, i.src, 16))
        [] OTHER -> Same(0)

(* One-operand multiplication and division use RDX:RAX.                     *)
Wide(m, i) ==
  LET a == Val(m, R(RAX), i.w)
      b == Val(m, i.src, i.w)
      S(v) == v - SignBit(v, i.w) * P(i.w)
      p == IF i.op = "imul1" THEN S(a) * S(b) ELSE a * b
      lo == p % P(i.w)
      hi == (p \div P(i.w)) % P(i.w)
      mm == Put(Put(m, R(RAX), i.w, lo), R(RDX), i.w, hi)
  IN  [mm EXCEPT !.f = [z |-> 2, s |-> 2, c |-> 2, o |-> 2]]
Divided(m, i) ==
  LET b == Val(m, i.src, i.w)
      h == Val(m, R(RDX), i.w)
      a == Val(m, R(RAX), i.w)
      S(v) == v - SignBit(v, i.w) * P(i.w)
      Abs(v) == IF v < 0 THEN -v ELSE v
      n == IF i.op = "idiv" THEN S(h) * P(i.w) + a ELSE h * P(i.w) + a
      q == IF i.op = "idiv"
           THEN IF (n < 0) = (S(b) < 0) THEN Abs(n) \div Abs(S(b)) ELSE -(Abs(n) \div Abs(S(b)))
           ELSE n \div b
      fits == IF i.op = "idiv" THEN q \in -(P(i.w) \div 2)..(P(i.w) \div 2 - 1) ELSE q < P(i.w)
  IN  IF b = 0 \/ ~fits THEN [m EXCEPT !.ok = FALSE]
      ELSE [Put(m, R(RAX), i.w, q % P(i.w)) EXCEPT !.f = [z |-> 2, s |-> 2, c |-> 2, o |-> 2]]

(* The machine after one instruction that is not a jump.                    *)
Exec(m, i) ==
  CASE i.op \in {"wild", "trap"} -> [m EXCEPT !.ok = FALSE]
    [] i.op # "lea" /\ (~Reachable(m, i.dst) \/ ~Reachable(m, i.src)) -> [m EXCEPT !.ok = FALSE]
    [] i.op \in {"nop", "fence", "jcc", "jmp"} -> m
    [] i.op = "lockadd" -> [m EXCEPT !.f = [z |-> 2, s |-> 2, c |-> 2, o |-> 2]]
    [] i.op \in {"mul", "imul1"} -> Wide(m, i)
    [] i.op \in {"div", "idiv"} -> Divided(m, i)
    [] i.op = "cqo" -> [m EXCEPT !.r[RDX] = SignBit(m.r[RAX], 64) * (P(64) - 1)]
    [] i.op \in {"cmp", "test"} -> [m EXCEPT !.f = Compute(m, i).f]
    [] i.op = "bt" -> [m EXCEPT !.f.c = (Val(m, i.dst, i.w) \div 2 ^ i.src.n) % 2]
    [] i.op = "setf" -> [m EXCEPT !.f = [z |-> (i.src.n \div 4) % 2, s |-> i.src.n \div 8,
                                         c |-> (i.src.n \div 2) % 2, o |-> i.src.n % 2]]
    [] i.op = "xadd" -> LET a == Val(m, i.dst, i.w)
                            t == Arith("add", a, Val(m, i.src, i.w), 0, i.w)
                       IN  [Put(Put(m, i.src, i.w, a), i.dst, i.w, t.v) EXCEPT !.f = t.f]
    [] i.op = "cmpxchg" ->
         LET t == Arith("cmp", Val(m, R(RAX), i.w), Val(m, i.dst, i.w), 0, i.w)
         IN  [(IF t.f.z = 1 THEN Put(m, i.dst, i.w, Val(m, i.src, i.w))
               ELSE Put(m, R(RAX), i.w, Val(m, i.dst, i.w))) EXCEPT !.f = t.f]
    [] i.op = "xchg" -> LET b == Val(m, i.src, i.w)
                       IN  Put(Put(m, i.src, i.w, Val(m, i.dst, i.w)), i.dst, i.w, b)
    [] OTHER -> LET c == Compute(m, i) IN [Put(m, i.dst, i.w, c.v) EXCEPT !.f = c.f]
=============================================================================
