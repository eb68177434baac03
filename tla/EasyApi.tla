------------------------------- MODULE EasyApi -------------------------------
(***************************************************************************)
(* The public API (modules/arm2x86_easy.c): one instance with its          *)
(* translation cache, persistent cache and table of code by content, which *)
(* all point to the same executable memory.                                *)
(*                                                                         *)
(* Of the translation cache this module keeps what TCache shows of it: the *)
(* entries in LRU order, evicted from the end, in units of one block.  Of  *)
(* the persistent cache, the file of each address with the ARM code it was *)
(* made from (PCache, one process).  A buffer is the address of an mmap'd  *)
(* (or malloc'd) piece of memory, which the kernel may hand out again once *)
(* it is released.  A call is one step, and so is one block of a batch;    *)
(* the workers of a parallel batch interleave.  The memory pool is off, as *)
(* by default (MemPool models it).                                         *)
(***************************************************************************)
EXTENDS Integers, Sequences, FiniteSets, SequencesExt, FiniteSetsExt

CONSTANTS
  Addrs,       \* addresses of ARM code blocks
  Codes,       \* contents of ARM code blocks
  PcRel,       \* contents with ADR, ADRP: their translation names the address
  Buffers,     \* addresses of executable memory
  Cap,         \* blocks that fit in the translation cache
  Workers,     \* threads of arm2x86_translate_batch_parallel
  BlockLen,    \* code_size the user passes
  MallocFails, \* whether malloc and calloc may fail
  NULL

ASSUME EasyApiConstants ==
  /\ PcRel \subseteq Codes
  /\ Cap \in Nat \ {0} /\ BlockLen \in Nat \ {0} /\ MallocFails \in BOOLEAN
  /\ NULL \notin Addrs /\ NULL \notin Codes /\ NULL \notin Buffers

VARIABLES
  code,        \* the ARM code at each address
  mem,         \* what each buffer holds
  cache,       \* the translation cache: [addr, buf, owned], last used first
  table,       \* code_hash_table: [key, buf], newest first
  files,       \* the persistent cache: address -> [arm, x86], or NULL
  up,          \* "down", "up", or "corrupt" once the heap is
  out,         \* what the call that has just returned returned: {[addr, buf]}
  active,      \* a parallel batch is running
  todo, done,  \* its blocks not begun, and the outputs written
  work         \* worker -> the block it has translated and not published

instance == <<cache, table, up>>
batch    == <<active, todo, done, work>>
vars     == <<code, mem, instance, files, out, batch>>

NoFiles  == [a \in Addrs |-> NULL]
Unmapped == [arm |-> NULL, at |-> NULL, exec |-> FALSE]

\* The x86 code arm2x86_convert_block makes of content v at address a.
Translation(a, v) == [arm |-> v, at |-> IF v \in PcRel THEN a ELSE NULL, exec |-> TRUE]

Free == {b \in Buffers : mem[b] = Unmapped}

Unmap(m, S) == [b \in Buffers |-> IF b \in S THEN Unmapped ELSE m[b]]

Ready == up = "up" /\ ~ active

-----------------------------------------------------------------------------
(***************************************************************************)
(* The three places a translation is looked for and entered in.            *)
(***************************************************************************)
CacheHits(a) == {i \in DOMAIN cache : cache[i].addr = a}

\* The entry a lookup finds, and the cache once it is the last one used.
Cached(a)  == cache[Min(CacheHits(a))]
Touched(a) == <<Cached(a)>> \o RemoveAt(cache, Min(CacheHits(a)))

EntryOwned(a, b) == [addr |-> a, buf |-> b, owned |-> TRUE]

\* arm2x86_tcache_insert does not own the code it is given.
Entry(a, b) == [addr |-> a, buf |-> b, owned |-> FALSE]

Kept == SubSeq(cache, 1, IF Len(cache) < Cap THEN Len(cache) ELSE Cap - 1)

\* The memory released by the entries that an insert evicts.
Evicted == {cache[i].buf : i \in {j \in DOMAIN cache : j > Len(Kept) /\ cache[j].owned}}

Cleared == {cache[i].buf : i \in {j \in DOMAIN cache : cache[j].owned}}

\* The entry is in front, or calloc failed after the eviction.
CacheInsert(e) == \/ cache' = <<e>> \o Kept
                  \/ MallocFails /\ cache' = Kept

TableHits(v) == {i \in DOMAIN table : table[i].key = v}
Listed(v)    == table[Min(TableHits(v))].buf

\* The entry is in front, or malloc failed.
TableInsert(v, b) == \/ table' = <<[key |-> v, buf |-> b]>> \o table
                     \/ MallocFails /\ UNCHANGED table

\* The hash of the first len bytes of code v.
Key(v, len) == <<v, len>>

FileFound(a, k) == files[a] # NULL

FileMatches(a, k) == files[a] # NULL /\ files[a].arm = k

\* arm2x86_pcache_lookup removes a file made from something else.
AfterLookup(a, k) ==
  IF files[a] # NULL /\ ~ FileMatches(a, k) THEN [files EXCEPT ![a] = NULL] ELSE files

\* arm2x86_pcache_store keeps a file that is there, and may fail.
Stored(fs, a, k, x) ==
  IF fs[a] # NULL THEN {fs} ELSE {fs, [fs EXCEPT ![a] = [arm |-> k, x86 |-> x]]}

-----------------------------------------------------------------------------
Init ==
  /\ code \in [Addrs -> Codes]
  /\ mem = [b \in Buffers |-> Unmapped]
  /\ cache = <<>> /\ table = <<>> /\ files = NoFiles
  /\ up = "down" /\ out = {}
  /\ active = FALSE /\ todo = {} /\ done = {} /\ work = [w \in Workers |-> NULL]

Create ==
  /\ up = "down"
  /\ up' = "up" /\ out' = {}
  /\ UNCHANGED <<code, mem, cache, table, files, batch>>

TableReleased == {table[i].buf : i \in DOMAIN table}

\* munmap of malloc'd memory fails: the address is not a page's.
Mmapped(S) == {b \in S : mem[b].exec}

\* arm2x86_destroy_easy: what the cache owns and what the table lists goes.
Destroy ==
  /\ Ready
  /\ mem' = Unmap(mem, Mmapped(Cleared \cup TableReleased))
  /\ cache' = <<>> /\ table' = <<>> /\ up' = "down" /\ out' = {}
  /\ UNCHANGED <<code, files, batch>>

\* The process ends, and another one with other code starts; files stay.
Restart ==
  /\ code' \in [Addrs -> Codes]
  /\ mem' = [b \in Buffers |-> Unmapped]
  /\ cache' = <<>> /\ table' = <<>> /\ up' = "down" /\ out' = {}
  /\ active' = FALSE /\ todo' = {} /\ done' = {} /\ work' = [w \in Workers |-> NULL]
  /\ UNCHANGED files

\* The user changes code and says so: arm2x86_invalidate_easy clears the cache.
Invalidate(a, v) ==
  /\ Ready
  /\ code' = [code EXCEPT ![a] = v]
  /\ mem' = Unmap(mem, Mmapped(Cleared))
  /\ cache' = <<>> /\ out' = {}
  /\ UNCHANGED <<table, up, files, batch>>

-----------------------------------------------------------------------------
(***************************************************************************)
(* arm2x86_translate_easy and arm2x86_translate_addr: the cache, the file  *)
(* of the address, then (translate_easy only) the table, then translation. *)
(***************************************************************************)
CacheHit(a) ==
  /\ Ready /\ CacheHits(a) # {}
  /\ cache' = Touched(a)
  /\ out' = {[addr |-> a, buf |-> Cached(a).buf]}
  /\ UNCHANGED <<code, mem, table, up, files, batch>>

\* The file's code is copied to executable memory; only the cache knows it.
FileHit(a, k) ==
  /\ Ready /\ CacheHits(a) = {} /\ FileMatches(a, k)
  /\ \E b \in Free : /\ mem' = Unmap([mem EXCEPT ![b] = files[a].x86], Evicted)
                     /\ CacheInsert(Entry(a, b))
                     /\ out' = {[addr |-> a, buf |-> b]}
  /\ UNCHANGED <<code, table, up, files, batch>>

\* The next level is reached with the file found missing, removed, or copied
\* in vain because mmap failed.
TableHit(a) ==
  LET k == Key(code[a], BlockLen)
  IN /\ Ready /\ CacheHits(a) = {} /\ TableHits(code[a]) # {}
     /\ out' = {[addr |-> a, buf |-> Listed(code[a])]}
     /\ files' = AfterLookup(a, k)
     /\ UNCHANGED <<code, mem, instance, batch>>

\* Translate; a batch does the same with memory from arm2x86_convert.
Convert(a) ==
  LET v == code[a]
      k == Key(v, BlockLen)
  IN /\ Ready /\ CacheHits(a) = {} /\ TableHits(v) = {}
     /\ \E b \in Free : /\ mem' = Unmap([mem EXCEPT ![b] = Translation(a, v)], Evicted)
                        /\ TableInsert(v, b)
                        /\ CacheInsert(Entry(a, b))
                        /\ out' = {[addr |-> a, buf |-> b]}
     /\ files' \in Stored(AfterLookup(a, k), a, k, Translation(a, v))
     /\ UNCHANGED <<code, up, batch>>

\* mmap fails, or the translator does: NULL is returned.
ConvertFails(a, k) ==
  /\ Ready /\ CacheHits(a) = {}
  /\ files' = AfterLookup(a, k) /\ out' = {}
  /\ UNCHANGED <<code, mem, instance, batch>>

\* translate_addr looks for the file of 64 bytes and stores one of 256.
ConvertAddr(a) ==
  LET v == code[a]
  IN /\ Ready /\ CacheHits(a) = {}
     /\ \E b \in Free : /\ mem' = Unmap([mem EXCEPT ![b] = Translation(a, v)], Evicted)
                        /\ CacheInsert(Entry(a, b))
                        /\ out' = {[addr |-> a, buf |-> b]}
     /\ files' \in Stored(AfterLookup(a, Key(v, 64)), a, Key(v, 256), Translation(a, v))
     /\ UNCHANGED <<code, table, up, batch>>

-----------------------------------------------------------------------------
(***************************************************************************)
(* One block of arm2x86_translate_batch: the cache, the table, the file.   *)
(* The copy of a file's code is freed twice, once it has been entered.     *)
(***************************************************************************)
BatchTableHit(a) ==
  /\ Ready /\ CacheHits(a) = {} /\ TableHits(code[a]) # {}
  /\ out' = {[addr |-> a, buf |-> Listed(code[a])]}
  /\ UNCHANGED <<code, mem, instance, files, batch>>

BatchFileHit(a) ==
  /\ Ready /\ CacheHits(a) = {} /\ TableHits(code[a]) = {}
  /\ FileMatches(a, Key(code[a], BlockLen))
  /\ \E b \in Free : /\ mem' = Unmap([mem EXCEPT ![b] = files[a].x86], Evicted)
                     /\ CacheInsert(Entry(a, b))
                     /\ TableInsert(code[a], b)
  /\ up' = "corrupt" /\ out' = {}
  /\ UNCHANGED <<code, files, batch>>

-----------------------------------------------------------------------------
(***************************************************************************)
(* arm2x86_translate_batch_parallel: workers take the blocks of S; the     *)
(* cache owns what they enter, the table lists it too.                     *)
(***************************************************************************)
BatchStart(S) ==
  /\ Ready /\ S # {}
  /\ active' = TRUE /\ todo' = S /\ out' = {}
  /\ UNCHANGED <<code, mem, instance, files, done, work>>

Output(a, b) == done' = done \cup {[addr |-> a, buf |-> b]}

WorkerHit(w, a) ==
  /\ up = "up" /\ a \in todo /\ work[w] = NULL
  /\ todo' = todo \ {a}
  /\ \/ /\ CacheHits(a) # {}
        /\ cache' = Touched(a) /\ Output(a, Cached(a).buf)
     \/ /\ CacheHits(a) = {} /\ TableHits(code[a]) # {}
        /\ Output(a, Listed(code[a])) /\ UNCHANGED cache
  /\ UNCHANGED <<code, mem, table, up, files, out, active, work>>

\* As in BatchFileHit.
WorkerFileHit(w, a) ==
  /\ up = "up" /\ a \in todo /\ work[w] = NULL
  /\ CacheHits(a) = {} /\ TableHits(code[a]) = {}
  /\ FileMatches(a, Key(code[a], BlockLen))
  /\ \E b \in Free : /\ mem' = Unmap([mem EXCEPT ![b] = files[a].x86], Evicted)
                     /\ CacheInsert(EntryOwned(a, b))
                     /\ TableInsert(code[a], b)
  /\ up' = "corrupt"
  /\ UNCHANGED <<code, files, out, batch>>

WorkerConvert(w, a) ==
  /\ up = "up" /\ a \in todo /\ work[w] = NULL
  /\ CacheHits(a) = {} /\ TableHits(code[a]) = {}
  /\ todo' = todo \ {a}
  /\ files' = AfterLookup(a, Key(code[a], BlockLen))
  /\ \/ \E b \in Free : /\ mem' = [mem EXCEPT ![b] = Translation(a, code[a])]
                        /\ work' = [work EXCEPT ![w] = [addr |-> a, buf |-> b]]
     \/ UNCHANGED <<mem, work>>     \* mmap or the translator failed
  /\ UNCHANGED <<code, instance, out, active, done>>

\* Another worker's insert into the table at the same time may drop this one.
WorkerPublish(w) ==
  LET a == work[w].addr
      b == work[w].buf
  IN /\ up = "up" /\ work[w] # NULL
     /\ mem' = Unmap(mem, Evicted)
     /\ \/ TableInsert(code[a], b)
        \/ (\E u \in Workers \ {w} : work[u] # NULL) /\ UNCHANGED table
     /\ CacheInsert(EntryOwned(a, b))
     /\ files' \in Stored(files, a, Key(code[a], BlockLen), mem[b])
     /\ Output(a, b)
     /\ work' = [work EXCEPT ![w] = NULL]
     /\ UNCHANGED <<code, up, out, active, todo>>

BatchReturn ==
  /\ up = "up" /\ active /\ todo = {} /\ \A w \in Workers : work[w] = NULL
  /\ active' = FALSE /\ out' = done /\ done' = {}
  /\ UNCHANGED <<code, mem, instance, files, todo, work>>

\* arm2x86_load_aot_module: malloc'd code, listed under its own hash.
LoadAot(a) ==
  /\ Ready
  /\ \E b \in Free :
       /\ mem' = Unmap([mem EXCEPT ![b] = [Translation(a, code[a]) EXCEPT !.exec = FALSE]],
                       Evicted)
       /\ CacheInsert(Entry(a, b))
       /\ TableInsert(NULL, b)
  /\ out' = {}
  /\ UNCHANGED <<code, up, files, batch>>

-----------------------------------------------------------------------------
Life == \/ Create \/ Destroy \/ Restart
        \/ \E a \in Addrs, v \in Codes : Invalidate(a, v)

arm2x86_translate_easy(a) ==
  LET k == Key(code[a], BlockLen)
  IN \/ CacheHit(a) \/ FileHit(a, k) \/ TableHit(a) \/ Convert(a)
     \/ TableHits(code[a]) = {} /\ ConvertFails(a, k)

arm2x86_translate_addr(a) ==
  LET k == Key(code[a], 64)
  IN CacheHit(a) \/ FileHit(a, k) \/ ConvertAddr(a) \/ ConvertFails(a, k)

arm2x86_translate_batch(a) ==
  LET k == Key(code[a], BlockLen)
  IN \/ CacheHit(a) \/ BatchTableHit(a) \/ BatchFileHit(a) \/ Convert(a)
     \/ TableHits(code[a]) = {} /\ ConvertFails(a, k)

Parallel == \/ \E S \in SUBSET Addrs : BatchStart(S)
            \/ \E w \in Workers : \/ WorkerPublish(w)
                                  \/ \E a \in Addrs : \/ WorkerHit(w, a) \/ WorkerFileHit(w, a)
                                                        \/ WorkerConvert(w, a)
            \/ BatchReturn

\* One thread and no pre-translated modules.
Next == Life \/ \E a \in Addrs : \/ arm2x86_translate_easy(a)
                                  \/ arm2x86_translate_addr(a)
                                  \/ arm2x86_translate_batch(a)

Spec == Init /\ [][Next]_vars

SpecParallel == Init /\ [][Next \/ Parallel]_vars

SpecAot == Init /\ [][Next \/ \E a \in Addrs : LoadAot(a)]_vars

-----------------------------------------------------------------------------
(***************************************************************************)
(* Properties.                                                             *)
(***************************************************************************)
Contents == [arm : Codes, at : Addrs \cup {NULL}, exec : BOOLEAN] \cup {Unmapped}

Keys == {Key(v, len) : v \in Codes, len \in {BlockLen, 64, 256}}

Outputs == [addr : Addrs, buf : Buffers]

\* Type invariant.
TypeOK ==
  /\ code \in [Addrs -> Codes] /\ mem \in [Buffers -> Contents]
  /\ cache \in Seq([addr : Addrs, buf : Buffers, owned : BOOLEAN])
  /\ table \in Seq([key : Codes \cup {NULL}, buf : Buffers])
  /\ files \in [Addrs -> [arm : Keys, x86 : Contents] \cup {NULL}]
  /\ up \in {"down", "up", "corrupt"}
  /\ active \in BOOLEAN /\ out \subseteq Outputs /\ todo \subseteq Addrs /\ done \subseteq Outputs
  /\ work \in [Workers -> Outputs \cup {NULL}]

\* What a call returns is executable memory that holds the translation of the
\* code that is at the address now, made for that address: whichever of the
\* three levels it came from, after any evictions, changes of code, other
\* blocks with the same content and earlier processes with the same files.
ReturnsTranslation == \A o \in out : mem[o.buf] = Translation(o.addr, code[o.addr])

\* Cache and table lead to mapped memory that holds what they are asked for, so
\* no memory is released while one of them still leads to it.
NoDangling ==
  up = "up" =>
    /\ \A i \in DOMAIN cache : mem[cache[i].buf] = Translation(cache[i].addr, code[cache[i].addr])
    /\ \A i \in DOMAIN table : mem[table[i].buf].arm = table[i].key /\ mem[table[i].buf].exec

(* No cache of an instance leads to code that another one has released.    *)
BuffersSafe == TypeOK /\ NoDangling

\* Destroying the instance gives back all executable memory.
AllReleased == up = "down" => \A b \in Buffers : mem[b] = Unmapped

\* A batch leaves the heap as a program may leave it: whatever it copies from
\* the persistent cache is freed once.
HeapIntact == up # "corrupt"

\* A lookup in the persistent cache removes only stale files: a file that was
\* made from the code at its address stays.
OnlyStaleRemoved ==
  [][\A a \in Addrs : files[a] # NULL /\ files[a].arm[1] = code[a] => files'[a] # NULL]_vars
=============================================================================
