---------------------------- MODULE MCTranslate ----------------------------
(***************************************************************************)
(* Model of the ARM64 translator.  One instruction at a time, on a machine *)
(* with 8-bit "64-bit" words, the destination apart from the sources and   *)
(* equal to each of them; or a whole block, with its register allocator    *)
(* and its map of addresses.  A behaviour exercises one, chosen by part.   *)
(***************************************************************************)
EXTENDS Translate64, Block64

CONSTANT Parts
VARIABLE part

MCRegs == {<<0, 1, 2>>, <<1, 1, 2>>, <<2, 1, 2>>}
MCShifts == {<<0, 7>>, <<3, 7>>, <<5, 7>>}
MCPairs == (0..15) \X (0..15)

(* Two registers for four, with operands that force spills in every order.  *)
MCPool == <<"rcx", "r11">>
MCTriples == {<<0, 1, 30>>, <<1, 0, 1>>, <<30, 0, 29>>, <<29, 30, 0>>}
MCOffsets == {-2, -1, 0, 1}

(* While a block is translated, the machine waits before an instruction.    *)
TrWaits ==
  /\ arm = Opcode("mov", <<0, 1, 2>>, 0, TRUE, <<0, 7>>, 0)
  /\ m = Machine([a \in ArmReg |-> 0], [z |-> 0, s |-> 0, c |-> 1, o |-> 0], StartMem)
  /\ m0 = m /\ code = <<>> /\ ip = 0
MCInit ==
  /\ part \in Parts
  /\ BlockInit
  /\ \/ part = "instruction" /\ TrInit
     \/ part = "block" /\ TrWaits
MCNext ==
  /\ UNCHANGED part
  /\ \/ part = "instruction" /\ TrNext /\ UNCHANGED blockVars
     \/ part = "block" /\ BlockNext /\ UNCHANGED tvars
MCSpec == MCInit /\ [][MCNext]_<<part, tvars, blockVars>>
=============================================================================
