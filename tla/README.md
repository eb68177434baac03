# Arm2x86: TLA+ models, model checking and proofs

Arm2x86 is a user-mode dynamic binary translator: it turns ARM64, ARM32 and
Thumb code into x86-64 code, caches the translations at several levels, loads
Android ARM libraries and runs them. This directory models the parts of it that
keep state and share it, and the ARM64 translation itself. Every definition is
translated from the C source; `PROJECT.json` maps each one to the lines it
models. Paths below are relative to the repository; `x.c` stands for
`modules/arm2x86_x.c`.

## Inventory

| Component (source) | State | Operations | Interacts with | What makes it correct |
|---|---|---|---|---|
| Translation cache (`tcache.c`) | entries on a doubly linked LRU list and in hash chains, size and lookup counters, `g_jump_targets` | lookup, insert with eviction, clear, resize, automatic sizing, miss rate, jump registration and patching | public API, several threads | list and table well formed and equal, accounting exact, LRU order, capacity, lock released |
| DBT runtime (`dbt.c`) | 1024 slots with LFU replacement, 64 MB of code memory, copies of guest code | execute, translate, lookup, insert, invalidate, flush, init, destroy | native bridge, translators | the code called is the translation of the block asked for; copies freed once; writes in bounds; calls return |
| Persistent cache (`pcache.c`) | one file per block address, an in-memory size and entry count per handle | create, lookup, store, cleanup, rebuild index, invalidate, invalidate all | file system, other processes and threads with the same directory | a hit is the translation of the code asked for; the size limit; recovery after a crash |
| Public API (`easy.c`) | instance with translation cache, persistent cache, content table and memory pool | translate, batch, parallel batch, AOT, invalidate | all caches | no code buffer released twice or used after its release; every block of a batch translated once |
| Context and code cache (`arm2x86.c`) | `g_code_cache[4096]`, executable pages | create, convert, cache insert and lookup, clear | translators | what a lookup hands out stays valid; replaced code is unmapped, kept code is not |
| ARM64 translator (`translate64.c`, `emit.c`) | register allocator, pc map, pending branches | one function per instruction class | emitters, translation cache (jump registration) | the x86 sequence computes what ARM computes; changed registers reach their homes; branches land on instruction starts |
| Peephole optimiser (`peephole.c`) | the code buffer | one pass of patterns | ARM64 translator | the code means the same; the pass ends |
| Jump tables (`jumptable.c`) | entries and stubs | create, look up, replace, patch | native bridge | a stub leads where its entry says |
| Hot blocks (`hotblock.c`) | heat counters, optimised code, phases | count, promote, evict, optimise | DBT | optimised code belongs to the block it was made from; passes keep the meaning and stay in their buffers |
| Page protection, signals (`pageprot.c`, `signal.c`) | page table, handler lists | protect, fault, register, deliver | kernel, all threads | recorded state is the kernel's; no handler reads freed memory |
| Native bridge, ELF loader, trampolines, JNI tables (`nativebridge.c`, `elf.c`, `trampoline.c`, `jni_capture.c`, `jni_sim.c`) | loaded libraries, symbols, relocations, captured methods | load, resolve, relocate, unload | DBT | everything a failed load took is given back; a symbol that is defined is found |
| System call module (`syscall.c`) | lazily built number tables, bridge signal handlers, inline caches, hot list, namespaces, reflection cache | translate numbers, register, look up, load in a namespace, call by name | kernel, Java machine | tables complete before use; cached answers current |
| Profiler, trace, counters (`profiler.c`, `trace.c`, `perf.c`) | rings, totals, regions | record, export, reset | all | an export is the newest events in order; shares and averages make sense |
| ARM32, Thumb, decoder, NEON, SVE, registers, CPU features, errors | none over time, IT state | pure selection and tables | | output equals the instruction's semantics |

Hard behaviour, by kind: threads that share a cache and use results after the
unlock (translation cache, DBT, code cache); unlocked read-modify-write (DBT,
lazily built tables); a mutex locked twice by one thread (DBT); guest code that
changes after it was translated (DBT, public API); processes that share files
without a lock, and crashes in the middle of a store (persistent cache);
signals between any two steps (signals, bridge handlers); nested calls that come
back while a pointer or a saved copy is held (namespaces, reflection, loads);
loads that fail half way; tables at their limit; values that live in a register
or in the flags across instructions (ARM64 translator). `PROJECT.json` lists
them with their lines under `hazards`.

## Modules

| Module | Models | State and steps |
|---|---|---|
| `TCache` | translation cache | Heap entries with their fields, LRU pointers one by one, bucket chains as sequences. An operation under `cache->lock` is one step, except that each round of the eviction loop (`Evict`) and of the rehash loop (`RehashEntry`) is a step; what a caller does after the unlock (`GetCode`, the second half of `get_miss_rate` and of `adjust_auto`) is a later step. |
| `LruOrder` | what an LRU cache promises | A sequence of blocks in order of use, and what each client holds. `TCache` implements it (`ImplementsLru`). |
| `DBT` | DBT runtime | Slots, code memory in units, copies of guest code on a heap, the guest code itself. Each stretch of `dbt_translate_block` between two accesses to shared state is a step: lookup under the mutex, read of the slot after it, reservation and copy, translation, insert, and the read and the write of `g_dbt_cache_used +=`. |
| `PCache` | persistent cache | Names, inodes, open descriptors, one step per system call, one size estimate per handle. `Kill` ends a process anywhere; with `IOErrors` every file operation may fail; `SpecPower` adds power failures. |
| `MemPool` | memory pool of the public API | Chunks per size class and the blocks handed out. `arm2x86_mempool_alloc` holds its lock throughout: one step. |
| `EasyApi` | public API | The three places code is looked up in and the executable memory they lead to. A call is one step, one block of a batch is one step, workers of a parallel batch interleave (`SpecParallel`); `SpecAot` adds loading AOT modules. |
| `BatchParts` | `arm2x86_translate_batch_parallel` | How a batch is cut into parts, workers storing results, joins and the sum of successes. `CreateWorker` has a disjunct in which `pthread_create` fails; the join of such a thread, which is undefined, returns or ends the process. |
| `CodeCache` | code cache of a context | Slots, mapped pages, the pointers lookups handed out after the unlock, which a caller keeps through its own insertions. |
| `X86` | the processor (external) | Registers, flags, memory; one operator per instruction the translators emit, in 8-bit words. |
| `Emit` | integer encoders | REX and ModR/M fields from register numbers, and the instruction a processor decodes from them. |
| `Translate64` | ARM64 instruction translators | Each translator is the x86 sequence it emits; the machine executes one x86 instruction per step, and at the end its homes and flags are compared with the ARM meaning. |
| `Block64` | `arm2x86_convert_block` | Register allocator (who owns which x86 register), dirty flags, pc map, branch patches, epilogue, and whether a store has gone to a wrong address. Values are left out: most translators use RAX, R11, RCX and RDX without asking the allocator, and some encoders write their source, so a register need not hold the value of its owner. |
| `Peephole`, `HotPasses` | optimisers | The bytes they scan and write, so that an operand may be taken for an instruction; one iteration of the loop per step. What the code computes is decided by decoding the bytes. |
| `HotBlock` | hot block table | Counters, phases, optimised buffers and their owners. |
| `JumpTable`, `PageProt`, `Signals` | the services of the same names | Tables beside what the kernel or the memory really holds. `Signals` follows the handler lists node by node, init, fini and removal included, and a signal may run between any two of these steps. |
| `Loader`, `ElfSymbols`, `Relocs` | native bridge and ELF loader | Modules, pages and methods, a load cut where another call can come in between; hash chains walked link by link; relocations entry by entry on an image of units of which a word has several, packed streams byte by byte. |
| `Namespaces`, `Reflection`, `BranchCache`, `Syscalls` | the parts of `syscall.c` that keep state | Nested calls as a stack of frames that hold the pointers and copies the C frames hold; one global namespace, whose arrays are heap objects; a class name as stored is the name cut to its length (`KeptName`); lazy initialisation store by store. |
| `Profiler`, `Trace`, `Perf`, `Recorders` | recording | Rings, totals and regions, with the full history as a variable the program does not have. The clock is `gettimeofday` and may be set back (`ProfTick`). `Recorders` puts the three together. |
| `TCacheProofs`, `DBTProofs`, `PCacheProofs`, `EasyApiProofs` | | Theorems and lemmas about the module of the same name. |
| `ServiceProofs` | | The same about `JumpTable`, `MemPool`, `HotBlock`, `CodeCache`, `BatchParts`, `Signals`, `Recorders`, `PageProt` and `HotPasses`. |
| `SyscallProofs` | | The same about `Syscalls`, `BranchCache`, `Reflection` and `Namespaces`. |
| `GuestProofs` | | The same about `Block64`, `ElfSymbols` and `Loader`. |
| `SetFacts` | | What the proofs share: the least element of a set of numbers, induction over the numbers, sums over finite sets, and that a function stepped any number of times stays in a set closed under the step. |
| `MC...` | | Instances for TLC: model values, inputs, symmetry. `MCServices`, `MCLoader` and `MCTranslate` hold several parts that share no variable; a behaviour exercises the one `focus` (or `part`) names. |

`EasyApi` composes the components at the level of what the others show: the
translation cache as a sequence in LRU order (which `ImplementsLru` justifies),
the persistent cache as a map from addresses to files of one process. Its data
is abstracted to what the properties tell apart: the content of an ARM block is
one value, and a translation records the content it was made from, the address
it was made for if the code is position dependent (`translate_adr_adrp` writes
the ARM address into the x86 code), and whether it can be executed.

Two things the models take from the build. Every build of the repository uses
`-O2` or `-O3`, so a global that a function reads twice without a call in
between is read once (this concerns `get_miss_rate` and `dbt_translate_block`).
A conversion of at most 64 guest instructions is assumed to fit in the 4096
bytes `dbt_translate_block` asks for (`DBTConstants`), as the code does; the
emitters have no bound of their own.

## Runs

| Run | Result | What it checks |
|---|---|---|
| `MCTCache_seq` | pass | One thread, three entries, colliding addresses, blocks smaller than, equal to and larger than the capacity. List and table well formed and equal, sizes and counts exact, capacity restored by every insert, and refinement of `LruOrder`. |
| `MCTCache_conc` | pass | Two threads: the structure survives every interleaving, the lock belongs to exactly the thread inside a loop, and under fairness both loops end and the lock is released, also when `calloc` fails. |
| `MCTCache_uaf` | violation | An entry handed out by a lookup is freed by another thread before it is read. |
| `MCDBT_seq` | pass | One thread with self-modifying guest code, addresses that are equal in 32 bits, replacement, invalidation, flush, destroy, init: blocks stay intact, addresses are in the table once, and the code called is a translation of the current guest code. A thread that meets a stale block blocks on itself, so deadlock is allowed. |
| `MCDBT_conc` | pass | Two threads and a guest that rewrites its code, with fairness: copies of guest code have one owner, writes stay in the code memory although `g_dbt_cache_used` is updated without a lock, and calls return unless a thread has met a stale block and waits for the lock it holds. Deadlock is allowed, for that case. |
| `MCPCache_size` | pass | One process, two addresses, two versions of code, kills anywhere: only whole files are published, the estimate covers the directory, the limit is exceeded by at most a header. |
| `MCPCache_same` | pass | Two processes with the same code share directory and temporary names, file operations fail, processes are killed: what a lookup returns is whole. |
| `MCEasyApi_calls` | pass | One thread, position-independent code: whatever mixture of calls, code changes with invalidation, evictions, failed allocations and restarts, a call returns the translation of the code now at the address. |
| `MCServices_all` | pass | The services around the translator, eighteen of them, each in every order of its calls (see below). |
| `MCLoader_all` | pass | Loads and unloads failing at every point, with methods registered in between; symbol lookup in every library of up to three symbols, of every binding, section and value, with nameless ones among them, which ends under fairness; relocation tables of every form, with words inside, across and behind the end of the image. |
| `MCTranslate_all` | pass | Single instructions on the x86 machine, encoders for all pairs of registers, and blocks through the register allocator. |
| `MCTranslate_csel` | violation | CSEL with the destination equal to the first source. |

A property of a run is often a conjunction of named parts, each stated and
commented in its module: `Structure` of the translation cache, for example, is
`TypeOK`, `LockOwner`, `LruList` and `HashChains`.

`MCServices_all`, by service:

- signals (`HandlersSafe`): one thread that registers, removes, initialises and
  ends, a signal between any two of its steps. No handler reads a freed node, the
  library never chains to itself, fini gives back what the process had.
- pages (`PagesRight`): overlapping mappings, changes, faults, and an `mprotect`
  that may fail each time. One record per page; a page's fault is reported as
  handled at most once until the program sets its protection again, so a guest
  is not restarted at the same instruction for ever.
- jumps (`StubsRight`): a table that replaces entries and is asked again for
  addresses it has, stubs that run out, an initialisation that fails. A stub that
  was written when its entry was last filled leads where the entry says, and
  neither a stub nor an address belongs to two entries.
- hot (`HotRight`): optimised code belongs to the block it was made from and
  lives as long as the block is in the table.
- passes (`OutputFits`): whatever bytes the window holds, and however the patterns
  misread them, each pass stays in the buffer allocated for all of them.
- peephole (`PeepholeRight`): in 64-bit code and up to the first move of zero,
  every register ends as in the code given, after each rewrite.
- codecache (`EntriesMapped`): two threads converting, inserting and looking up.
  The code of every entry is mapped and belongs to one entry.
- pool (`BlocksSafe`, `UsedIsSum`): blocks are disjoint and inside mapped chunks,
  and the used size is exact.
- profiler, trace, perf (`RecordingRight`): an export of the profiler is the
  newest events, oldest first, however often the ring has wrapped, and one of the
  trace its slots from the oldest on; averages lie below maxima also when the
  clock was set back, shares below one.
- inline (`InlineNewest`), hotlist (`RetranslatedOnce`): an entry of the inline
  cache holds the code last inserted for its target; two threads that ask and act
  in any order translate a block again at most once.
- namespaces (`NamespacesRight`): through nested and failing loads and a namespace
  set up anew inside a load, the current namespace lists only what was added to
  it, in order and by permission, and all of it as long as no load was nested.
  Up to the first use of an array that was freed.
- reflection (`EntriesSound`): up to the first use of a table that has moved, no
  class whose name is kept whole has two entries, and an entry has the object of
  a class that uses it.
- numbers (`NumberOrUnknown`), bridge (`NoSignalLost`): two threads that fill the
  number table at the same time never read the zero of an uncleared entry; no
  signal is dropped between registering and unregistering.
- batch (`BatchRight`): every block of a part whose thread was created is handled
  exactly once, and when no part ends behind the batch the total is the number of
  its blocks that were translated, whichever threads fail to start.

The properties of `MCLoader_all` are `LoadedSound` (module list, pages and
methods), `LookupRight` (symbols that the table holds are found, imports are not
once it was rebuilt), `RelocsRight` (packed streams do what they say, and no
relocation writes further than a word that starts in range) and, under fairness,
`LookupEnds`; those of `MCTranslate_all` are `InstructionRight` (result, other
homes, flags), `EncoderRight` and `BlockSound` (one owner for each x86 register,
branches land on instruction starts).

`MCTranslate_all` claims a result only for the instructions in `Claimed64` and
`Claimed32` of its configuration, flags for those in `FlagOps` under the
conditions in `FlagConds`, and encoders for those in `EncoderNames`. All three
lists are limited to what `decode64.c` produces, in the operand size it produces
it in. It never returns CMP, TST, CMN, SBC, RSB, NEG, MVN, MOV, MSUB, ROR, BFI,
BFXIL, BFC, CLZ, SXTW, UXTW, REV, CINC, CINV, CNEG, CSINC, CSINV, CSNEG, LDRB to
LDRSW, LDAXR, STLXR, CAS, LDADD or ADR; these are translated in the model,
because the translators exist, and `OthersKept` is checked of them, but nothing
is claimed of their result. LDRB and LDRH words are decoded as LDR. `OthersKept`
holds of every instruction in `Sparing`, which is all of them but ADR, STRB and
STRH. Register 31 and the shifted operands of MVN, TST and CMN are not among the
inputs; nor is decoding itself, so the lists say what a translator does with the
fields it is handed.

### Known counterexamples

The following properties are defined in the modules and are not true of the
code. TLC finds each violated, with the configuration named, or with the base
configuration reduced to the one property and the service named and changed as
given.

| Configuration | Property | What the code does |
|---|---|---|
| `MCTCache_conc`, `Spec`, `MaxLookups = 2` | `MissRateAtMostOne` | `get_miss_rate` reads two counters without the lock. |
| `MCTCache_seq`, without `SYMMETRY` | `EvictedJumpsPatched` | Jumps are registered under x86 addresses (`translate64.c:209`) and looked for under ARM addresses (`tcache.c:285`). |
| `MCDBT_race` | `StartsOwnCode` | Two threads translate into the same memory (`dbt.c:198`). |
| `MCDBT_conc` | `ExecuteAlwaysReturns` (a PROPERTY) | With a guest that rewrites its code, `dbt_lookup` calls `dbt_invalidate_block` with the mutex held (`dbt.c:84`). |
| `MCPCache_same`, `Codes = {v2, v3}` | `HitIsTranslation` | Two processes with different code at one address publish a file with the header of one and the code of the other (`pcache.c:437`). |
| `MCPCache_power` | `HitIsTranslation` | No `fsync` before the rename, and a lookup does not compare `x86_code_hash`. |
| `MCEasyApi_calls`, `PcRel = {v1}` | `ReturnsTranslation` | Code found by content was translated for another address (`easy.c:580`). |
| `MCEasyApi_calls`, `SpecAot` | `ReturnsTranslation` | AOT code is in memory from `malloc`, which cannot be executed (`easy.c:1336`). |
| `MCEasyApi_calls` | `AllReleased` | Code entered in the translation cache only is never unmapped (`easy.c:567`, `790`). |
| `MCEasyApi_calls`, `BlockLen = 8` | `OnlyStaleRemoved` (a PROPERTY) | `translate_addr` looks up the hash of 64 bytes and stores that of 256 (`easy.c:697`). |
| `MCEasyApi_calls` | `HeapIntact` | A batch frees the buffer of a persistent cache hit twice (`easy.c:988`, `998`). |
| `MCEasyApi_calls`, `SpecParallel` | `NoDangling` | After a parallel batch the content table leads to memory the translation cache has unmapped. |
| `MCServices_all`, signals, `SigThread = {t1, t2}` | `NoFreedNode`, `NoSelfChain` | A node is freed while a signal on another thread walks the list (`signal.c:127`); two threads initialise at once and one saves the other's handler. |
| signals | `IgnoredHarmless` | A saved `SIG_IGN` is called as a function. |
| pages | `HandledWritable` | The record is changed before `mprotect`, whose failure it survives (`pageprot.c:173`): the fault is reported as handled and comes back. |
| pages | `CheckSound` | A change of a range is recorded for its first page only, so the record of the others grants what the kernel refuses. |
| jumps | `CreatedLeads` | Asked again for an address, `jumptable_create_entry` changes the target and not the stub (`jumptable.c:90`). |
| jumps | `AlwaysStub` | With no stub left no entry is made, and the null entry is read (`jumptable.c:225`). |
| hot | `RetranslatedHasCode`, `NoPhaseLeak` | A block whose optimisation failed is marked as retranslated all the same; the intermediate buffers of the passes are not freed. |
| passes | `LoopsAreLoops` | Any byte E2 within reach of a MOV ECX is taken for LOOP (`hotblock.c:517`, `535`), and the second byte of a 64-bit MOV RCX for MOV ECX (`hotblock.c:509`). |
| peephole | `FlagsKept`, `RegistersKept` | `CMP r64, 0` becomes a 32-bit TEST of the register with EAX (`peephole.c:357`); the XOR that replaces a move of zero is taken for a move of zero of five bytes again, with the code behind it (`peephole.c:146`, `221`). |
| peephole | `RewritesBounded`, `MoveInBounds`, `SizeUpdated` | The patterns change a copy of the size pointer (`peephole.h:19` documents it as updated), so what a move leaves behind matches again for ever, and the rest to be moved may have a negative length. |
| codecache | `GotStill` | The slot a lookup returned is replaced by an insertion, another thread's or one's own (`arm2x86.c:342`). |
| codecache | `PagesOwned` | A buffer is unmapped with the size of its code, not of its mapping. |
| pool, `Growth = FALSE` | `PoolLimit` | `enable_growth ? 1 : 1` (`easy.c:121`). |
| profiler | `AverageAboveMin`, `RegionWithinClock` | A minimum of 0 is taken for "none yet"; a clock set back makes a duration of almost 2^64 microseconds (`profiler.c:240`). |
| trace | `ExportRecorded`, `HeaderCounts` | The walk starts at the head even if the ring has not wrapped; the count is written before the lock is taken (`trace.c:108`). |
| perf | `AverageCovers` | A reset keeps the count and forgets the times. |
| perf, `PerfThread = {"t", "u"}` | `ReportsAll` | The counters are thread-local and the report is the caller's. |
| inline | `EmptyFirst` (a PROPERTY) | Entries with no hits are replaced while others are empty. |
| namespaces | `NestedListed`, `NsArraysAlive` | There is one namespace, and the copy put back after a load (`syscall.c:1852`) forgets what a nested load added, and names the array that it moved. |
| reflection | `NoStaleEntry` | The entry is written through a pointer into a table that has moved (`syscall.c:3050`). |
| reflection | `LongNamesOnce`, `OwnObject` | A name cut to 511 bytes (`syscall.c:2900`) is never found again, and is found for the class whose whole name it is. |
| numbers | `KnownFound` | A thread reads the table while another clears it (`syscall.c:428`). |
| bridge, `RegisterAgain = TRUE` | `NoSignalLost` | Registering twice saves the library's own action; `SIG_DFL` is taken for "nothing saved" (`syscall.c:564`). |
| batch | `WithinBatch`, `TotalAtMostCount`, `JoinsCreated`, `AllHandled` | With 5 blocks and 4 threads the third part ends at block 6 (`easy.c:1176`), and what is translated behind the batch is counted; a thread that was not created is joined (`easy.c:1193`), and its blocks are nobody's (`easy.c:1187`). |
| `MCLoader_all` | `PagesReturned` | Unloading unmaps the size of the file, not that of the image (`elf.c:590`); for a file larger than its image it takes pages of the next module. |
| `MCLoader_all` | `TrampolineIsCode`, `TrampolineKnown` | What `getTrampoline` returns may be ARM code, and `nb_isTrampoline` does not know every trampoline of a loaded module. |
| `MCLoader_all` | `Alive` | `jni_capture.c:121` appends to a list whose tail is NULL. |
| `MCLoader_all` | `RebuiltFinds` | Rebuilding the SysV table stops at the first symbol without a name (`elf.c:658`); what is behind it is lost. |
| `MCLoader_all` | `GnuDefinedFound` | A library with the GNU table alone has no `nchain` (`elf.c:618`). |
| `MCLoader_all` | `WithinImage` | The range checks look at the first byte of a word only (`elf.c:254`, `312`, `420`; `syscall.c:1381`, `1394`, `1418`, `1680`), so a word in the last 7 bytes is written past the image; some compare with the size of the file. |
| `MCLoader_all` | `PackedAll`, `RelrRight` | Packed relocations behind the size of the file are skipped although they are in the image; RELR entries are decoded in a format of their own. |
| `MCLoader_all`, `Thread = {t1, t2}` | `CurrentModule`, `ListSound`, `HeldMapped` | `g_current_loading_module` and the module list are shared without a lock (`jni_sim.c:29` calls the variable thread-local storage). |
| `MCTranslate_all` | `UpperCleared`, `CalleeSaved` | A 32-bit result keeps the upper half of its home; a register the caller expects back is changed. |
| `MCTranslate_all`, `"ldrb"` in `Claimed32` | `ResultRight` | The narrow loads and stores take `op & 0xfff`, which is Rt, Rn and two bits of the immediate, for the offset (`translate64.c:2597`, `2628`, `2660`, `2682`). |
| `MCTranslate_all` | `OperandsApart`, `BaseKept` | Taking the second operand may spill the first; RBP, the base of the homes, is handed out for X29. |
| `MCTranslate_all` | `StoresReachHome`, `ExitStored`, `NewestKept` | A 64-bit store of R8 to R15, and R11 is handed out first, goes to [R13+off] from the low register (`translate64.c:69`); registers are stored behind the jump that leaves the block; a home written directly is overwritten by the final store. |
| `MCTranslate_all` | `CondLandsRight`, `LeavesToX86` | The offset of B.cond is halved and the Jcc is overwritten by its patch; stubs jump to ARM addresses (`translate64.c:543`). |

Instructions left out of `Claimed64`, `Claimed32`, `FlagOps` or
`EncoderNames`, with the reason: CSEL with Rd = Rn stores Rm first
(`translate64.c:1035`, run `MCTranslate_csel`); loads of R11 in 32 bits lack the
REX prefix; HINT emits INT3; NEG and MOV read Rn; HS, LO, HI and LS are wrong
after TST and CMN; MUL, shifts and DMB destroy the flags; the register-register
encoders of MOV, ADD, SUB, AND, OR and XOR swap their operands; ADD imm8, ROR
and BSWAP ignore the high bit of the register; LDAXR and CAS emit LOCK MOV,
which is undefined; the jump over a division by zero is overwritten; MRS yields
0; CSET changes the flags; ADR writes the upper half of its result over the next
home.

### Bounds

Counters that only grow are bounded in the guards of the actions that raise
them: `MaxLookups`, `HotThreshold`, `MaxHits`, `MaxHit`, `MaxBrHits`,
`MaxClock`, `MaxUsed`, `MaxTotal`, `MaxEvents`, `MaxRecords`, `MaxPerf`,
`MaxTick`, `MaxNsLoads`, `MaxAllocs`, `MaxRewrite`. For the LFU and LRU counters two or three
values give every order of two slots; rings of two or three are recorded into
until they have wrapped twice. `PcModulus` stands for 2^32 and `SizeMod` for
2^64; both are small enough for values to wrap or collide. Heap objects, inodes,
pages, list nodes and buffers are small sets that are used again after their
release, so a dangling reference meets its successor. Tables hold one to three
entries, fewer than there are keys, so that eviction and growth happen within a
few steps. `MaxNest` and `ReflNest` allow a call inside a call inside a call.
Batches have up to five blocks and four threads, which covers equal parts, a
short and an empty last part and a part that ends behind the batch. The x86
machine has words of 8 bits (`Scale`) and `Value` has zero, one, the signs and
carries of both halves. `Block64` has two x86 registers for four ARM registers,
so every third use spills, blocks of four instructions (`MaxInstr`) and a pc
map smaller than a block (`MapMax`). The window of the passes is 32 bytes instead
of 256, which holds a loop, a constant and a fused pair at the same time. A word
of the relocated image has two units (`W`) and the image seven, so that a word can
lie across its end.
`MCPCache_same` has one address and one version of code, because the temporary
file and the final name are per address. In `MCEasyApi_calls` `BlockLen` is 64,
so that `translate_addr` may find the files of `translate_easy`. The directory
of the persistent cache never has more files than the array of 1000 that a
cleanup sorts (`pcache.c:532`).

The composed runs allow deadlock because their parts end: a handler that died, a
block at its epilogue, a counter at its bound.

### Fairness

`FairSpec` of `TCache` and of `DBT` is weak fairness of `Continue(t)` for every
thread: a thread inside an operation is scheduled, and the guest code it calls
comes to an end. `MCFairSpec` of `MCLoader` is weak fairness of the walk of one
symbol lookup, which is a loop of one thread. No fairness is assumed of starting
operations. The mutexes are not assumed fair: a thread that waits for one has
not begun its operation, and the properties speak of threads that have. Liveness
is checked without symmetry.

## Proofs

Each theorem holds for every value of the constants that the named assumptions
allow. All but `WholePublished`, which is about a part of one, state a property
that a run checks on a small instance. Each
rests on an inductive invariant: it holds initially, every action keeps it, and
it implies the property.

| Module | Theorem | Property | Inductive invariant | Hypothesis |
|---|---|---|---|---|
| `TCacheProofs` | `StructureKept`, `CapacityRestored` | `Structure`, `CapacityAfterInsert` | `TypeOK`, `LockOwner`, `LruList`, `LruAcyclic`, `HashChains`, `EntryCount` | |
| `TCacheProofs` | `AccountingKept` | `Accounting` | the above and `UsedSize` | |
| `TCacheProofs` | `LruImplemented` | `ImplementsLru` | the above and `OrderInv` | |
| `DBTProofs` | `MemoryKept` | `MemorySafe` | `TypeOK`, `CopyOwned`, `CopyPhase`, `WritesInBounds` | |
| `DBTProofs` | `BlocksKept`, `OwnCodeStarts` | `BlocksRight`, `StartsOwnCode` | the above and `OneInv` | one thread |
| `PCacheProofs` | `HitsOfOneVersion` | `HitIsTranslation` | `Inv` | one version of the code |
| `PCacheProofs` | `HitsOfOneClient` | `HitIsTranslation` | `OneInv` | one client |
| `PCacheProofs` | `WholePublished` | `PublishedWhole`, a part of `FilesSound` | `WholeInv` | one client, no failing writes |
| `PCacheProofs` | `DirectoryKept` | `FilesSound` | `WholeInv`, `SizeInv` | one client, no failing file operation, the estimate below half a `size_t` |
| `EasyApiProofs` | `BuffersKept`, `TranslationReturned` | `BuffersSafe`, `ReturnsTranslation` | `Inv` | the second: `PcRel = {}` |
| `GuestProofs` | `BlocksSound` | `BlockSound` | `BlockInv` | |
| `GuestProofs` | `LookupsRight` | `LookupRight` | `SymInv` | |
| `GuestProofs` | `ModulesSound` | `LoadedSound` | `ModulesInv`, `LoadsInv` | one thread, no file longer than its image |
| `ServiceProofs` | `HandlersKept` | `HandlersSafe` | `SigInv` | one thread |
| `ServiceProofs` | `StubsKept` | `StubsRight` | `JumpInv` | |
| `ServiceProofs` | `PoolKept` | `BlocksSafe` | `PoolInv` | |
| `ServiceProofs` | `UsedKept` | `UsedIsSum` | `Numbered`, `UsedIsSum` | |
| `ServiceProofs` | `RecordingKept` | `RecordingRight` | `ProfInv`, `TraceInv`, `PerfInv` | |
| `ServiceProofs` | `PagesKept` | `PagesRight` | `PagesInv` | |
| `ServiceProofs` | `PassesFit` | `OutputFits` | `PassInv` | |
| `ServiceProofs` | `HotKept` | `HotRight` | `HotInv` | |
| `ServiceProofs` | `EntriesKeptMapped` | `EntriesMapped` | `CcInv` | |
| `ServiceProofs` | `BatchKept` | `BatchRight` | `BatchInv` | |
| `SyscallProofs` | `NumbersSafe` | `NumberOrUnknown` | `LookupInv` | |
| `SyscallProofs` | `SignalsKept` | `NoSignalLost` | `BridgeInv` | `BridgeUse` |
| `SyscallProofs` | `InlineCurrent`, `RetranslatesOnce` | `InlineNewest`, `RetranslatedOnce` | `InlineInv`, `HotListInv` | |
| `SyscallProofs` | `EntriesKept` | `EntriesSound` | `ReflInv` | |
| `SyscallProofs` | `NamespacesKept` | `NamespacesRight` | `NsInv` | |

The assumptions on the constants (`TCacheConstants`, `DBTConstants`,
`PCacheConstants`, `EasyApiConstants`, `BlockAssumption`, `SymbolAssumption`,
`SignalAssumption` and so on) stand in the modules that declare the constants,
and TLC evaluates them in the runs.

A hypothesis in the last column is not one of convenience: without it the
property is false, and the table of known counterexamples has the behaviour. Two
threads of the DBT write over each other's code; processes with different code
mix header and code in one file; code that depends on its address is found by
its content; another thread frees the node that a signal handler is at. Two
clients that write one temporary file, or a write that fails unnoticed, publish a
short file; a lookup refuses it, so the theorems about hits do not need that
hypothesis. Two threads that load at the same time lose a module of the list; and
to unload a file longer than its image takes pages of the next module.

The arguments:

- Translation cache. `LruList` alone is not inductive: it does not exclude a
  cycle apart from the list, into which a later splice could lead; `LruAcyclic`
  does. `EntryCount` turns the tests of the eviction loop, which are made on
  counters, into facts about the set of entries. The splices are lemmas of their
  own (`MoveToFrontKeepsList`, `EvictKeepsList`, `PushKeepsList`, `UnlinkAt`,
  `PopTable`, `PushTable`). `CapacityAfterInsert` is an action property that
  follows from the invariant. `Accounting` rests on the laws of sums in
  `SetFacts`: putting an entry in, or taking one out, changes the sum by its
  size. For the refinement `OrderInv` says that the abstract order is the order
  in which the list is linked: as long as the set of entries, without
  repetition, each followed by its `lru_next`. Moving to the front, evicting and
  inserting are then steps of `LruOrder` on that order, and all others leave it.
- DBT. `CopyPhase` says what a thread may hold at which of its steps; most steps
  change nothing the invariant speaks of (`QuietStep`). `WritesInBounds` holds
  because each thread checks the offset it is going to write at. With one thread
  every block in the table ends at or below `g_dbt_cache_used`, except for the
  one being inserted, so what is written next overwrites none of them.
- Persistent cache. A file that any number of writers wrote cell by cell has its
  header in its first cell and code in the others; with one version of the code
  a file of the right length is therefore the translation. With one client the
  temporary file is written by nobody else, and what an earlier, killed store
  left in it is truncated when it is opened. `SizeInv` relates
  the estimate of an open client to the directory, of which it is an upper
  bound, and says that a store past the cleanup has room for its file.
- Public API. None of the calls gives the translation cache ownership of what it
  enters, so evictions release nothing, and memory that a cache or the table
  leads to is kept until the instance is destroyed. A file holds the translation
  of the code in its key for the address in its name.
- Blocks. `RegistersApart` needs that some register is always held, so that a
  spill finds a victim (`SomeHeld`); `LandsRight` that the pc map repeats where
  each instruction began, also when the map is full (`MapRight`).
- Symbols. `Rebuilt` is what the rebuilding loop keeps: the exported symbols in
  front of the first one without a name. A chain, the linker's or the rebuilt
  one, leads from its bucket to each symbol it should hold, from the last to the
  first; wherever a walk is, no kept symbol of the name it looks for lies behind
  it (`NotPassed`).
- Number table. An entry is good once it has been cleared, and stays good. A
  thread that clears has made all entries below its index good, whatever the
  others do at the same time; hence they all are when it begins to fill.
- Bridge handlers. `BridgeUse` says that a signal is registered once at a time,
  over a handler of the application. While the wrapper is installed there is a
  handler to call and an action to put back.
- Inline cache and hot list. No target is in two entries, so the first match is
  the only one; a block that was translated again has an entry marked so, and
  entries never lose the mark.
- Reflection. A frame that holds an index into the present allocation finds the
  class it looked up there, because entries are only appended (`FrameRight`); the
  use of an older allocation sets `reflStale`, after which nothing is claimed.
- Namespaces. Every saved copy in the stack of frames lists, of the array it
  names, what had been added when it was taken, and never more than the current
  copy of the same array (`Below`). So putting one back gives a shorter list, or
  one in an array that was moved, which is the first use of freed memory.
- Jump tables. The stub of every entry is one that has been given out, so a new
  stub is nobody's; an entry that is filled again without its stub being written
  is no longer among those of which the target is claimed.
- Memory pool. A block ends at or below the offset of its chunk, where the next
  begins; blocks with the same base are in the same chunk because a new chunk is
  at a base that is not in use (`ChunksApart`). That `used` is the sum of the
  blocks' sizes needs that no block gets a number which is in use (`Numbered`).
- Recorders. A ring holds the end of the log in order, from `start_idx` on
  (`RingHolds`); the slowest translation bounds the sum of the times, and the
  longest call that of its region, also for a duration that has wrapped around
  (`DurationNat`); each share of a counter is counted together with its whole.
- Page protection. Recording a range is a recursion over its pages. The tables
  that fit the array and have one record per page are closed under recording
  one page, hence under recording any number (`NatRun`). A fault is reported as
  handled only for a page whose record has no write permission; recording the
  permission, which happens before `mprotect`, excludes a second time (`Unset`).
- Loader. The list of modules is linked in the order of a sequence (`Linked`);
  every allocated module, a leaked one included, has the pages of its image to
  itself; what a load holds will be the head of the list, or is (`InLoad`).
- Hot blocks. The live buffers are exactly the codes of the entries, each of
  one entry (`CodeOwned`). The parts are stated of any table, because a hit is
  recorded in one that the replacement has already changed.
- Passes. An iteration of a pass reads at least one byte, and what it writes is
  bounded by a multiple of what it reads: 1 for dead code and fusion, 10/3 for
  constants (an `ADD` of 3 bytes becomes a `MOV` of 10), 9 for unrolling (eight
  copies of the body and a loop for the rest, whose bytes the removed `MOV` and
  `LOOP` pay for). `Factor` has the multiples in thirds; the invariant
  (`PassInv`) says that the output so far is within the multiple of the input so
  far, and that the input is within those of the passes before (`Grown`).
  Together that is 30 times the window, and the buffer is 64. The bounds are
  proved of each pattern on any bytes whatever, those that a pattern reads past
  the end of its input included.
- Code cache. A buffer that was converted and not yet inserted is mapped and is
  nobody else's (`HandsMapped`); what is unmapped is the code of the slot that
  is being replaced, which no other slot has.
- Batches. The parts cover the batch without overlap, although the last may end
  behind it; a worker's count is the number of successes in its part, and the
  sum over the joined parts grows by one such set at a time. A part whose thread
  was not created has a count of zero and no block done.
- Signals. A node is *linked* if it is allocated and not the one being
  registered or removed. Every head and every link of a linked node is null or
  leads to a linked node, and no two lead to the same (`ListInv`): so the node
  that a head or a link has just let go is reached by nothing when it is freed.
  The head that fini is freeing does not count, because its signal no longer
  comes to the library: that is the other half (`DispRight`), which also says
  that what fini will put back is what the process had.

Only model-checked, and why:

- `RelocsRight` compares with functions defined by recursion over the input,
  which takes induction over data.
- `PeepholeRight` compares what two byte sequences compute, by decoding them from
  the left, which takes induction over data, and the decoder knows only the
  encodings that the run's programs are made of. Its module has a RECURSIVE
  operator, which the prover cannot work with.
- `InstructionRight` and `EncoderRight` are statements about the semantics of
  8-bit words, by enumeration.
- `LockReleased`, `ExecuteReturns` and `LookupEnds` are liveness.

## Not modelled

- ARM32 and Thumb translators: instruction selection of the kind modelled for
  ARM64; the IT state is their only state.
- Decoder and the dispatcher's table of opcode masks: pure functions of an
  instruction word; a model would repeat the table.
- NEON, SVE, AVX and floating-point translation, and the SSE and AVX encoders:
  the values are outside of what TLC enumerates.
- `syscall.c`: `do_translated_syscall` (input and output), block chaining, the
  `SIGSEGV` handler that rewrites instructions, and the JNI call bridge, which
  marshals arguments. The translation of signal contexts is not modelled either:
  its only caller passes no ARM context (`syscall.c:950`), and
  `update_fpsr_from_sse` has no caller.
- Decoding of instruction words, register 31 and shifted operands (see
  `MCTranslate_all`), and the values in allocated registers (see `Block64`).
- ELF header and program header checks, and the entries of the simulated JNI
  table other than `RegisterNatives`.
- `arm2x86_execute_easy`, callbacks, statistics, the writing of AOT files, and
  the memory pool together with the caches that use it.
- Access times in the persistent cache, and its other configurations.
- Registers, CPU features, error texts, formatting, self tests: no state over
  time that the properties could speak of.

Some of what is modelled is not called by the repository at this commit: the
peephole optimiser (`translate64.c:4653` is a comment), the reflection cache,
`ElfBuildSymbolTable`, `ElfRelocate32` and the RELR and packed relocation loops.
They are modelled as the interface their headers declare.

Assumptions on the environment that a guard of a model states and the code does
not check: the Java machine does not initialise the bridge again while libraries
are loaded (`nb_initialize`), and the runtime holds a lock while it loads, since
`MCLoader_all` has one thread; two threads are among the known counterexamples.

## Plan

Next to prove: the decoding half of `RelocsRight`. Next to model: block chaining
in `syscall.c`, the memory pool under `EasyApi`, and the dispatcher with the
decoder, which would let `MCTranslate` begin from instruction words.
