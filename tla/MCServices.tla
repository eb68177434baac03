----------------------------- MODULE MCServices -----------------------------
(***************************************************************************)
(* Model of the services around the translator: signal handling, page      *)
(* protection, the jump table, hot blocks and their passes, the peephole   *)
(* optimiser, the context's code cache, the pool of executable memory,     *)
(* profiler, trace and performance counters, inline caches and the list of *)
(* hot blocks, linker namespaces, Java reflection, system call numbers and *)
(* the bridge's signal handlers, and the parts of a parallel batch.  They  *)
(* share no state, so a behaviour exercises one of them, the one chosen by *)
(* focus, and leaves the others in a first state.                          *)
(***************************************************************************)
EXTENDS Signals, PageProt, JumpTable, HotBlock, HotPasses, Peephole,
        CodeCache, MemPool, Recorders, BranchCache, Namespaces,
        Reflection, Syscalls, BatchParts

CONSTANT Services    \* the services this model exercises

VARIABLE focus

(* Windows for the passes: a count (or a constant whose bytes look like     *)
(* one), two instructions, a LOOP (or an operand that looks like one), and  *)
(* filler; and a loop of additions, which grow most.                        *)
MCWindow(instrs) ==
  LET all == FlattenSeq(instrs)
  IN  [bytes |-> [i \in 1..Window |-> IF i <= Len(all) THEN all[i] ELSE 204],
       starts |-> {Len(FlattenSeq(SubSeq(instrs, 1, k))) + 1 : k \in 0..Len(instrs)}]
MCHeads == {<<185, 0, 0, 0, 0>>, <<185, 3, 0, 0, 0>>, <<185, 9, 0, 0, 0>>, <<185, 40, 0, 0, 0>>,
            <<49, 201, 176, 2>>, <<49, 201, 176, 12>>, <<72, 185, 2, 0, 0, 0, 0, 0, 0, 0>>}
MCBodies == {<<204>>, <<72, 49, 192>>, <<72, 1, 192>>, <<72, 129, 224, 7, 0, 0, 0>>,
             <<72, 133, 192, 144>>, <<15, 132, 226, 0, 0, 0>>, <<72, 141, 4, 5>>}
MCWindows ==
  {MCWindow(<<h, a, b, e>>) : h \in MCHeads, a \in MCBodies, b \in MCBodies,
                              e \in {<<226, 0>>, <<72, 129, 248, 226, 1, 0, 0>>}}
  \union {MCWindow(<<a, b, c>>) :
            a \in {<<72, 184, 1, 0, 0, 0, 0, 0, 0, 0>>, <<72, 129, 248, 1, 0, 0, 0>>,
                   <<72, 129, 224, 1, 0, 0, 0>>, <<72, 41, 192>>, <<72, 57, 193>>},
            b \in {<<15, 132, 1, 0, 0, 0>>, <<72, 25, 192>>, <<15, 148, 192>>,
                   <<72, 129, 224, 1, 0, 0, 0>>},
            c \in {<<204>>, <<232, 0, 0, 0, 0>>}}
  \union {MCWindow(<<>>)}
  \union {MCWindow(<<<<72, 49, 192>>, <<185, 32, 0, 0, 0>>, <<72, 1, 192>>, <<72, 1, 192>>,
                     <<72, 1, 192>>, <<72, 1, 192>>, <<72, 1, 192>>, <<72, 1, 192>>, <<226, 0>>>>)}
(* Filler, and an ADD that starts in the window and ends behind it.         *)
MCFiller == [i \in 1..9 |-> 204]
MCBehind == {MCFiller, [i \in 1..9 |-> IF i = 1 THEN 1 ELSE 192]}

(* Code for the peephole optimiser: every pattern, its 32-bit form, a short *)
(* addition, moves of zero, and code it must leave alone; behind the code   *)
(* zeros, or bytes that continue a ModRM in register mode.                  *)
MCPeepInstr ==
  {<<72, 184, 5, 0, 0, 0, 0, 0, 0, 0>>, <<72, 185, 255, 0, 0, 0, 0, 0, 0, 0>>,
   <<72, 184, 0, 0, 0, 0, 0, 0, 0, 0>>, <<185, 0, 0, 0, 0>>, <<72, 49, 192>>, <<49, 201>>,
   <<72, 131, 192, 0>>, <<72, 131, 193, 1>>, <<72, 131, 192, 251>>, <<131, 192, 0>>,
   <<72, 131, 232, 0>>, <<72, 131, 233, 3>>, <<72, 129, 249, 0, 0, 0, 0>>,
   <<72, 137, 192>>, <<72, 137, 200>>, <<77, 137, 192>>, <<72, 1, 200>>, <<144>>}
MCPeepBehind == {0, 192}

(* One protection of each kind the fault handler tells apart.               *)
MCProts == {{"r"}, {"r", "w"}, {"r", "x"}, {"x"}}

MCClassSizes == <<4, 8, 16>>

(* Parallel batches: parts of equal size, a smaller and an empty last part, *)
(* more threads than blocks.                                                *)
MCBatchCalls == {[count |-> n, threads |-> k] : n \in 1..5, k \in 2..4}

(* The isolated namespace permits one of the two libraries.                 *)
MCPermitted == [ns \in Ns |-> {"l1"}]

(* Three class names: one that is long and whose first bytes are another.   *)
MCKeptName == [c \in JClass |-> IF c = "e" THEN "d" ELSE c]

(* The application has a handler of its own for every signal.               *)
MCAppAction == [s \in BridgeSig |-> "app"]

MCInit ==
  /\ focus \in Services
  /\ PpInit /\ JtInit /\ HotInit /\ CcInit /\ PoolInit /\ ProfInit /\ TraceInit /\ PerfInit
  /\ BranchInit /\ NsInit /\ ReflInit /\ ScInit
  /\ \/ focus = "signals" /\ SigInit
     \/ focus # "signals" /\ original = [s \in Sig |-> "default"] /\ SigInit
  /\ \/ focus = "passes" /\ PassInit
     \/ focus # "passes" /\ passWindow = MCWindow(<<>>) /\ passBehind = MCFiller /\ PassInit
  /\ \/ focus = "batch" /\ BatchInit
     \/ focus # "batch" /\ call = [count |-> 1, threads |-> 2] /\ BatchInit
  /\ \/ focus = "peephole" /\ PeepInit
     \/ focus # "peephole" /\ peepProgram = <<PeepRet>> /\ peepBehind = 0 /\ PeepInit

MCNext ==
  /\ UNCHANGED focus
  /\ \/ focus = "signals" /\ SigNext
     \/ focus # "signals" /\ UNCHANGED sigVars
  /\ \/ focus = "pages" /\ PpNext
     \/ focus # "pages" /\ UNCHANGED ppVars
  /\ \/ focus = "jumps" /\ JtNext
     \/ focus # "jumps" /\ UNCHANGED jumpVars
  /\ \/ focus = "hot" /\ HotNext
     \/ focus # "hot" /\ UNCHANGED hotVars
  /\ \/ focus = "passes" /\ PassNext
     \/ focus # "passes" /\ UNCHANGED passVars
  /\ \/ focus = "peephole" /\ PeepNext
     \/ focus # "peephole" /\ UNCHANGED peepVars
  /\ \/ focus = "codecache" /\ CcNext
     \/ focus # "codecache" /\ UNCHANGED ccVars
  /\ \/ focus = "pool" /\ PoolNext
     \/ focus # "pool" /\ UNCHANGED poolVars
  /\ \/ focus = "profiler" /\ ProfNext
     \/ focus # "profiler" /\ UNCHANGED profVars
  /\ \/ focus = "trace" /\ TraceNext
     \/ focus # "trace" /\ UNCHANGED traceVars
  /\ \/ focus = "perf" /\ PerfNext
     \/ focus # "perf" /\ UNCHANGED perfVars
  /\ \/ focus = "inline" /\ InlineNext
     \/ focus = "hotlist" /\ HotListNext
     \/ focus \notin {"inline", "hotlist"} /\ UNCHANGED branchVars
  /\ \/ focus = "namespaces" /\ NsNext
     \/ focus # "namespaces" /\ UNCHANGED nsVars
  /\ \/ focus = "reflection" /\ ReflNext
     \/ focus # "reflection" /\ UNCHANGED reflVars
  /\ \/ focus = "numbers" /\ LookupNext
     \/ focus # "numbers" /\ UNCHANGED lookupVars
  /\ \/ focus = "bridge" /\ BridgeNext
     \/ focus # "bridge" /\ UNCHANGED bridgeVars
  /\ \/ focus = "batch" /\ BatchNext
     \/ focus # "batch" /\ UNCHANGED batchVars

mcVars == <<focus, sigVars, ppVars, jumpVars, hotVars, passVars, peepVars, ccVars, poolVars,
            profVars, traceVars, perfVars, branchVars, nsVars, reflVars, scVars, batchVars>>
MCSpec == MCInit /\ [][MCNext]_mcVars
=============================================================================
