---------------------------- MODULE EasyApiProofs ----------------------------
(***************************************************************************)
(* Proofs about EasyApi, for every set of addresses, code and buffers, any *)
(* capacity of the translation cache and any code size.                    *)
(***************************************************************************)
EXTENDS EasyApi, SetFacts, SequenceTheorems, TLAPS

USE EasyApiConstants

-----------------------------------------------------------------------------
(***************************************************************************)
(* The inductive invariant.  Evictions release nothing, because no call of *)
(* Next gives the cache ownership of what it enters; the memory of the     *)
(* entries is therefore kept until the instance is destroyed.              *)
(***************************************************************************)
\* What the cache may hold: entries it does not own.
Borrowed == [addr : Addrs, buf : Buffers, owned : {FALSE}]
Listable == [key : Codes \cup {NULL}, buf : Buffers]

\* Entries that lead to what they are asked for, with memory m and code c.
SoundEntries(m, c) == {e \in Borrowed : m[e.buf] = Translation(e.addr, c[e.addr])}
SoundListed(m)     == {e \in Listable : /\ m[e.buf].arm = e.key /\ m[e.buf].exec
                                        /\ e.key \notin PcRel => m[e.buf].at = NULL}

\* A file holds the translation, for its address, of the code in its key.
FileSound(a, f) == f.x86 = Translation(a, f.arm[1])
SoundFiles == {fs \in [Addrs -> [arm : Keys, x86 : Contents] \cup {NULL}] :
                 \A a \in Addrs : fs[a] # NULL => FileSound(a, fs[a])}

Inv ==
  /\ TypeOK /\ files \in SoundFiles /\ cache \in Seq(Borrowed)
  /\ up = "down" => cache = <<>> /\ table = <<>>
  /\ up = "up" => cache \in Seq(SoundEntries(mem, code)) /\ table \in Seq(SoundListed(mem))

-----------------------------------------------------------------------------
(***************************************************************************)
(* Facts about sequences and about the three places.                       *)
(***************************************************************************)
\* A sequence over a set is one over every larger set.
LEMMA SeqLarger == ASSUME NEW S, NEW T, S \subseteq T, NEW q \in Seq(S) PROVE q \in Seq(T)
  <1>1. Len(q) \in Nat /\ \A i \in 1..Len(q) : q[i] \in T
    BY ElementOfSeq, LenProperties
  <1> QED
    BY <1>1, SeqDef

\* A translation has the types of what a buffer may hold, and is executable.
LEMMA TranslationType ==
  ASSUME NEW a \in Addrs, NEW v \in Codes
  PROVE  /\ Translation(a, v) \in Contents /\ Translation(a, v) # Unmapped
         /\ Translation(a, v).arm = v /\ Translation(a, v).exec
         /\ v \notin PcRel => Translation(a, v).at = NULL
  BY DEF Translation, Contents, Unmapped

\* The entry that comes in front joins the ones an insert keeps.
LEMMA Inserted ==
  ASSUME NEW S, cache \in Seq(S), NEW e \in S, CacheInsert(e) PROVE cache' \in Seq(S)
  <1>1. Kept \in Seq(S)
    <2>1. Len(cache) \in Nat
      BY LenProperties
    <2>2. PICK n \in 0..Len(cache) : Kept = SubSeq(cache, 1, n)
      BY <2>1 DEF Kept
    <2>3. \A i \in 1..n : cache[i] \in S
      BY <2>1, <2>2, ElementOfSeq
    <2> QED
      BY <2>1, <2>2, <2>3, SubSeqProperties
  <1>2. <<e>> \in Seq(S)
    OBVIOUS
  <1>3. <<e>> \o Kept \in Seq(S)
    BY <1>1, <1>2, ConcatProperties
  <1> QED
    BY <1>1, <1>3 DEF CacheInsert

LEMMA ListedInserted ==
  ASSUME NEW S, table \in Seq(S), NEW v, NEW b, [key |-> v, buf |-> b] \in S, TableInsert(v, b)
  PROVE  table' \in Seq(S)
  <1>1. <<[key |-> v, buf |-> b]>> \in Seq(S)
    OBVIOUS
  <1>2. <<[key |-> v, buf |-> b]>> \o table \in Seq(S)
    BY <1>1, ConcatProperties
  <1> QED
    BY <1>2 DEF TableInsert

\* A hit is an entry of the cache, for the address, and moving it to the front
\* brings nothing else in.
LEMMA Hit ==
  ASSUME NEW S, cache \in Seq(S), NEW a, CacheHits(a) # {}
  PROVE  Cached(a) \in S /\ Cached(a).addr = a /\ Touched(a) \in Seq(S)
  <1>1. Len(cache) \in Nat /\ DOMAIN cache = 1..Len(cache)
    BY LenProperties
  <1>2. PICK k : k = Min(CacheHits(a))
    OBVIOUS
  <1>3. CacheHits(a) \in SUBSET Nat
    BY <1>1 DEF CacheHits
  <1>4. k \in 1..Len(cache) /\ cache[k].addr = a
    BY <1>1, <1>2, <1>3, MinNat DEF CacheHits
  <1>5. cache[k] \in S
    BY <1>4, ElementOfSeq
  <1>6. SubSeq(cache, 1, k - 1) \in Seq(S)
    <2>1. \A i \in 1..(k - 1) : cache[i] \in S
      BY <1>1, <1>4, ElementOfSeq
    <2> QED
      BY <1>1, <1>4, <2>1, SubSeqProperties
  <1>7. SubSeq(cache, k + 1, Len(cache)) \in Seq(S)
    <2>1. \A i \in (k + 1)..Len(cache) : cache[i] \in S
      BY <1>1, <1>4, ElementOfSeq
    <2> QED
      BY <1>1, <1>4, <2>1, SubSeqProperties
  <1>8. RemoveAt(cache, k) \in Seq(S)
    BY <1>6, <1>7, ConcatProperties DEF RemoveAt
  <1>9. <<cache[k]>> \in Seq(S)
    BY <1>5
  <1> QED
    BY <1>2, <1>4, <1>5, <1>8, <1>9, ConcatProperties DEF Cached, Touched

\* The content table leads to an entry with the content.
LEMMA ListedHit ==
  ASSUME NEW S, table \in Seq(S), NEW v, TableHits(v) # {}
  PROVE  \E e \in S : e.key = v /\ Listed(v) = e.buf
  <1>1. Len(table) \in Nat /\ DOMAIN table = 1..Len(table)
    BY LenProperties
  <1>2. TableHits(v) \in SUBSET Nat
    BY <1>1 DEF TableHits
  <1>3. Min(TableHits(v)) \in 1..Len(table) /\ table[Min(TableHits(v))].key = v
    BY <1>1, <1>2, MinNat DEF TableHits
  <1> QED
    BY <1>3, ElementOfSeq DEF Listed

\* A cache that owns nothing releases nothing.
LEMMA NothingOwned ==
  ASSUME cache \in Seq(Borrowed) PROVE Evicted = {} /\ Cleared = {}
  <1>1. \A i \in DOMAIN cache : ~ cache[i].owned
    <2>1. \A i \in 1..Len(cache) : cache[i] \in Borrowed
      BY ElementOfSeq
    <2> QED
      BY <2>1, LenProperties DEF Borrowed
  <1> QED
    BY <1>1 DEF Evicted, Cleared

LEMMA UnmapNothing == ASSUME NEW T, NEW m \in [Buffers -> T] PROVE Unmap(m, {}) = m
  BY DEF Unmap

\* A file that matches is the translation of the code it was looked up with.
LEMMA FileHitSound ==
  ASSUME files \in SoundFiles, NEW a \in Addrs, NEW v, NEW n, FileMatches(a, Key(v, n))
  PROVE  files[a].x86 = Translation(a, v)
  BY DEF SoundFiles, FileSound, FileMatches, Key

\* Neither a lookup, which may remove a file, nor a store makes an unsound one.
LEMMA LookupSound ==
  ASSUME files \in SoundFiles, NEW a \in Addrs, NEW k PROVE AfterLookup(a, k) \in SoundFiles
  BY DEF SoundFiles, AfterLookup

LEMMA StoreSound ==
  ASSUME NEW fs \in SoundFiles, NEW a \in Addrs, NEW v \in Codes, NEW n \in {BlockLen, 64, 256},
         NEW gs \in Stored(fs, a, Key(v, n), Translation(a, v))
  PROVE  gs \in SoundFiles
  <1> DEFINE f == [arm |-> Key(v, n), x86 |-> Translation(a, v)]
  <1>1. Key(v, n) \in Keys
    BY DEF Keys
  <1>2. f \in [arm : Keys, x86 : Contents]
    BY <1>1, TranslationType
  <1>3. FileSound(a, f)
    BY DEF FileSound, Key
  <1>4. gs = fs \/ gs = [fs EXCEPT ![a] = f]
    BY DEF Stored
  <1> HIDE DEF f
  <1> QED
    BY <1>2, <1>3, <1>4 DEF SoundFiles

\* Filling a free buffer leaves what cache and table lead to as it was.
LEMMA FillFree ==
  ASSUME TypeOK, NEW b \in Free, NEW x
  PROVE  /\ SoundEntries(mem, code) \subseteq SoundEntries([mem EXCEPT ![b] = x], code)
         /\ SoundListed(mem) \subseteq SoundListed([mem EXCEPT ![b] = x])
  <1>1. mem \in [Buffers -> Contents] /\ code \in [Addrs -> Codes] /\ mem[b] = Unmapped /\ b \in Buffers
    BY DEF TypeOK, Free
  <1>2. ASSUME NEW e \in SoundEntries(mem, code) PROVE e.buf \in Buffers /\ e.buf # b
    <2>1. /\ e.addr \in Addrs /\ e.buf \in Buffers
          /\ mem[e.buf] = Translation(e.addr, code[e.addr])
      BY DEF SoundEntries, Borrowed
    <2> QED
      BY <1>1, <2>1, TranslationType
  <1>3. ASSUME NEW e \in SoundListed(mem) PROVE e.buf \in Buffers /\ e.buf # b
    <2>1. e.buf \in Buffers /\ mem[e.buf].exec
      BY DEF SoundListed, Listable
    <2>2. ~ Unmapped.exec
      BY DEF Unmapped
    <2> QED
      BY <1>1, <2>1, <2>2
  <1>4. \A c \in Buffers : c # b => [mem EXCEPT ![b] = x][c] = mem[c]
    BY <1>1
  <1> QED
    BY <1>2, <1>3, <1>4 DEF SoundEntries, SoundListed

\* A block entered at a free buffer, with its translation in it: what cache and
\* table lead to, the new entry included, is sound.
LEMMA Entered ==
  ASSUME Inv, Ready, NEW a \in Addrs, NEW b \in Free, NEW x, x = Translation(a, code[a]),
         mem' = Unmap([mem EXCEPT ![b] = x], Evicted), CacheInsert(Entry(a, b)),
         code' = code
  PROVE  /\ mem' \in [Buffers -> Contents] /\ mem'[b] = Translation(a, code[a]) /\ b \in Buffers
         /\ cache' \in Seq(SoundEntries(mem', code')) /\ cache' \in Seq(Borrowed)
         /\ table \in Seq(SoundListed(mem'))
         /\ [key |-> code[a], buf |-> b] \in SoundListed(mem')
  <1>1. mem \in [Buffers -> Contents] /\ code \in [Addrs -> Codes] /\ b \in Buffers /\ TypeOK
    BY DEF Inv, TypeOK, Free
  <1>2. /\ x \in Contents /\ x.arm = code[a] /\ x.exec /\ code[a] \in Codes
        /\ code[a] \notin PcRel => x.at = NULL
    BY <1>1, TranslationType
  <1>3. [mem EXCEPT ![b] = x] \in [Buffers -> Contents]
    BY <1>1, <1>2
  <1>4. mem' = [mem EXCEPT ![b] = x]
    <2>1. Evicted = {}
      BY NothingOwned DEF Inv
    <2> QED
      BY <1>3, <2>1, UnmapNothing
  <1>5. mem'[b] = x
    BY <1>1, <1>4
  <1>6. cache \in Seq(SoundEntries(mem', code')) /\ table \in Seq(SoundListed(mem'))
    <2>1. cache \in Seq(SoundEntries(mem, code)) /\ table \in Seq(SoundListed(mem))
      BY DEF Inv, Ready
    <2>2. /\ SoundEntries(mem, code) \subseteq SoundEntries(mem', code')
          /\ SoundListed(mem) \subseteq SoundListed(mem')
      BY <1>1, <1>4, FillFree
    <2> QED
      BY <2>1, <2>2, SeqLarger
  <1>7. Entry(a, b) \in Borrowed /\ Entry(a, b) \in SoundEntries(mem', code')
    BY <1>1, <1>5 DEF Entry, Borrowed, SoundEntries
  <1>8. cache' \in Seq(SoundEntries(mem', code'))
    BY <1>6, <1>7, Inserted
  <1>9. cache' \in Seq(Borrowed)
    BY <1>7, Inserted DEF Inv
  <1>10. [key |-> code[a], buf |-> b] \in SoundListed(mem')
    BY <1>1, <1>2, <1>5 DEF SoundListed, Listable
  <1> QED
    BY <1>1, <1>3, <1>4, <1>5, <1>6, <1>8, <1>9, <1>10

\* What each action has to show: the types of what it changes, and that what the
\* places lead to is sound while the instance is up.
LEMMA Preserved ==
  ASSUME Inv, UNCHANGED batch, code' \in [Addrs -> Codes], mem' \in [Buffers -> Contents],
         cache' \in Seq(Borrowed), files' \in SoundFiles, up' \in {"up", "corrupt"},
         out' \subseteq Outputs, table' \in Seq(Listable),
         up' = "up" => cache' \in Seq(SoundEntries(mem', code')) /\ table' \in Seq(SoundListed(mem'))
  PROVE  Inv'
  <1>1. cache' \in Seq([addr : Addrs, buf : Buffers, owned : BOOLEAN])
    <2>1. Borrowed \subseteq [addr : Addrs, buf : Buffers, owned : BOOLEAN]
      BY DEF Borrowed
    <2> QED
      BY <2>1, SeqLarger
  <1>2. /\ active' \in BOOLEAN /\ todo' \subseteq Addrs /\ done' \subseteq Outputs
        /\ work' \in [Workers -> Outputs \cup {NULL}]
    BY DEF Inv, TypeOK, batch
  <1>3. files' \in [Addrs -> [arm : Keys, x86 : Contents] \cup {NULL}]
    BY DEF SoundFiles
  <1>4. up' # "down"
    OBVIOUS
  <1>5. TypeOK'
    BY <1>1, <1>2, <1>3 DEF TypeOK, Listable
  <1> QED
    BY <1>4, <1>5 DEF Inv

\* The same for a step that empties cache and table.
LEMMA Emptied ==
  ASSUME Inv, code' \in [Addrs -> Codes], mem' \in [Buffers -> Contents], cache' = <<>>,
         table' = <<>>, files' = files, up' \in {"down", "up"}, out' = {},
         \/ UNCHANGED batch
         \/ active' = FALSE /\ todo' = {} /\ done' = {} /\ work' = [w \in Workers |-> NULL]
  PROVE  Inv'
  <1>1. /\ active' \in BOOLEAN /\ todo' \subseteq Addrs /\ done' \subseteq Outputs
        /\ work' \in [Workers -> Outputs \cup {NULL}]
    BY DEF Inv, TypeOK, batch
  <1>2. \A S : cache' \in Seq(S) /\ table' \in Seq(S)
    OBVIOUS
  <1>3. files' \in SoundFiles /\ TypeOK'
    BY <1>1, <1>2 DEF Inv, TypeOK
  <1> QED
    BY <1>2, <1>3 DEF Inv

\* The table's type, from what it leads to.
LEMMA ListedType == ASSUME NEW m, NEW q \in Seq(SoundListed(m)) PROVE q \in Seq(Listable)
  <1>1. SoundListed(m) \subseteq Listable
    BY DEF SoundListed
  <1> QED
    BY <1>1, SeqLarger

LEMMA CodeType == ASSUME Inv, NEW a \in Addrs PROVE code[a] \in Codes /\ code \in [Addrs -> Codes]
  BY DEF Inv, TypeOK

\* One output, of the kind every call returns.
LEMMA OneOutput ==
  ASSUME Inv, NEW a \in Addrs, NEW b \in Buffers, out' = {[addr |-> a, buf |-> b]}
  PROVE  /\ out' \subseteq Outputs
         /\ mem'[b] = Translation(a, code'[a]) => ReturnsTranslation'
  BY DEF Outputs, ReturnsTranslation

-----------------------------------------------------------------------------
(***************************************************************************)
(* One lemma per kind of step.                                             *)
(***************************************************************************)
\* The memory, code and places unchanged, but for the order of the cache.
LEMMA HitKeeps ==
  ASSUME Inv, NEW a \in Addrs, CacheHit(a) PROVE Inv' /\ ReturnsTranslation'
  <1> PICK e : e = Cached(a)
    OBVIOUS
  <1>1. /\ e \in SoundEntries(mem, code) /\ e.addr = a
        /\ cache' \in Seq(SoundEntries(mem, code)) /\ cache' \in Seq(Borrowed)
    <2>1. cache \in Seq(SoundEntries(mem, code)) /\ cache \in Seq(Borrowed)
      BY DEF CacheHit, Ready, Inv
    <2> QED
      BY <2>1, Hit DEF CacheHit
  <1>2. e.buf \in Buffers /\ mem[e.buf] = Translation(a, code[a])
    BY <1>1 DEF SoundEntries, Borrowed
  <1>3. /\ UNCHANGED <<code, mem, table, up, files, batch>> /\ up = "up"
        /\ out' = {[addr |-> a, buf |-> e.buf]}
    BY DEF CacheHit, Ready
  <1>4. out' \subseteq Outputs /\ ReturnsTranslation'
    BY <1>2, <1>3, OneOutput
  <1>5. /\ code' \in [Addrs -> Codes] /\ mem' \in [Buffers -> Contents] /\ files' \in SoundFiles
        /\ table' \in Seq(SoundListed(mem)) /\ table' \in Seq(Listable)
    BY <1>3 DEF Inv, TypeOK, Listable
  <1> QED
    BY <1>1, <1>3, <1>4, <1>5, Preserved

\* The file of the address matches the code, so what is copied is sound.
LEMMA FileHitKeeps ==
  ASSUME Inv, NEW a \in Addrs, NEW n, FileHit(a, Key(code[a], n)) PROVE Inv' /\ ReturnsTranslation'
  <1>1. files[a].x86 = Translation(a, code[a])
    BY FileHitSound DEF FileHit, Inv
  <1>2. PICK b \in Free : /\ mem' = Unmap([mem EXCEPT ![b] = files[a].x86], Evicted)
                          /\ CacheInsert(Entry(a, b)) /\ out' = {[addr |-> a, buf |-> b]}
    BY DEF FileHit
  <1>3. Ready /\ UNCHANGED <<code, table, up, files, batch>> /\ up = "up"
    BY DEF FileHit, Ready
  <1>4. /\ mem' \in [Buffers -> Contents] /\ mem'[b] = Translation(a, code[a]) /\ b \in Buffers
        /\ cache' \in Seq(SoundEntries(mem', code')) /\ cache' \in Seq(Borrowed)
        /\ table \in Seq(SoundListed(mem'))
    BY <1>1, <1>2, <1>3, Entered
  <1>5. out' \subseteq Outputs /\ ReturnsTranslation'
    BY <1>2, <1>3, <1>4, OneOutput
  <1>6. table' \in Seq(SoundListed(mem')) /\ table' \in Seq(Listable)
    BY <1>3, <1>4, ListedType
  <1>7. code' \in [Addrs -> Codes] /\ files' \in SoundFiles
    BY <1>3 DEF Inv, TypeOK
  <1> QED
    BY <1>3, <1>4, <1>5, <1>6, <1>7, Preserved

\* What the content table leads to is a translation of the content, which is
\* one for the address when no content depends on it.
LEMMA ListedKeeps ==
  ASSUME Inv, NEW a \in Addrs, TableHit(a) \/ BatchTableHit(a)
  PROVE  Inv' /\ (PcRel = {} => ReturnsTranslation')
  <1>1. /\ up = "up" /\ UNCHANGED <<code, mem, cache, table, up, batch>> /\ TableHits(code[a]) # {}
        /\ out' = {[addr |-> a, buf |-> Listed(code[a])]}
    BY DEF TableHit, BatchTableHit, Ready, instance
  <1>2. files' \in SoundFiles
    BY LookupSound DEF TableHit, BatchTableHit, Inv
  <1>3. cache \in Seq(SoundEntries(mem, code)) /\ table \in Seq(SoundListed(mem))
    BY <1>1 DEF Inv
  <1>4. PICK e \in SoundListed(mem) : e.key = code[a] /\ Listed(code[a]) = e.buf
    BY <1>1, <1>3, ListedHit
  <1>5. e.buf \in Buffers /\ mem[e.buf].arm = code[a] /\ mem[e.buf].exec
    BY <1>4 DEF SoundListed, Listable
  <1>6. out' \subseteq Outputs
    BY <1>1, <1>4, <1>5, OneOutput
  <1>7. ASSUME PcRel = {} PROVE ReturnsTranslation'
    <2>1. mem[e.buf] \in Contents /\ mem[e.buf] # Unmapped
      BY <1>5 DEF Inv, TypeOK, Unmapped
    <2>2. mem[e.buf].at = NULL
      BY <1>4, <1>7 DEF SoundListed
    <2>3. mem[e.buf] = Translation(a, code[a])
      BY <1>5, <1>7, <2>1, <2>2 DEF Contents, Translation
    <2> QED
      BY <1>1, <1>4, <1>5, <2>3, OneOutput
  <1>8. /\ code' \in [Addrs -> Codes] /\ mem' \in [Buffers -> Contents]
        /\ cache' \in Seq(Borrowed) /\ table' \in Seq(Listable)
    BY <1>1 DEF Inv, TypeOK, Listable
  <1> QED
    BY <1>1, <1>2, <1>3, <1>6, <1>7, <1>8, Preserved

\* A new translation goes to the table, the cache and the file.
LEMMA ConvertKeeps ==
  ASSUME Inv, NEW a \in Addrs, Convert(a) \/ ConvertAddr(a) PROVE Inv' /\ ReturnsTranslation'
  <1>1. /\ Ready /\ UNCHANGED <<code, up, batch>> /\ up = "up"
        /\ code \in [Addrs -> Codes] /\ code[a] \in Codes
    BY CodeType DEF Convert, ConvertAddr, Ready
  <1>2. PICK b \in Free : /\ mem' = Unmap([mem EXCEPT ![b] = Translation(a, code[a])], Evicted)
                          /\ CacheInsert(Entry(a, b)) /\ out' = {[addr |-> a, buf |-> b]}
                          /\ TableInsert(code[a], b) \/ UNCHANGED table
    <2>1. CASE Convert(a)
      BY <2>1 DEF Convert
    <2>2. CASE ConvertAddr(a)
      BY <2>2 DEF ConvertAddr
    <2> QED
      BY <2>1, <2>2
  <1>3. /\ mem' \in [Buffers -> Contents] /\ mem'[b] = Translation(a, code[a]) /\ b \in Buffers
        /\ cache' \in Seq(SoundEntries(mem', code')) /\ cache' \in Seq(Borrowed)
        /\ table \in Seq(SoundListed(mem'))
        /\ [key |-> code[a], buf |-> b] \in SoundListed(mem')
    BY <1>1, <1>2, Entered
  <1>4. table' \in Seq(SoundListed(mem')) /\ table' \in Seq(Listable)
    <2>1. table' \in Seq(SoundListed(mem'))
      <3>1. CASE TableInsert(code[a], b)
        BY <1>3, <3>1, ListedInserted
      <3>2. CASE UNCHANGED table
        BY <1>3, <3>2
      <3> QED
        BY <1>2, <3>1, <3>2
    <2> QED
      BY <2>1, ListedType
  <1>5. files' \in SoundFiles
    <2>1. CASE Convert(a)
      BY <1>1, <2>1, LookupSound, StoreSound DEF Convert, Inv
    <2>2. CASE ConvertAddr(a)
      BY <1>1, <2>2, LookupSound, StoreSound DEF ConvertAddr, Inv
    <2> QED
      BY <2>1, <2>2
  <1>6. out' \subseteq Outputs /\ ReturnsTranslation'
    BY <1>1, <1>2, <1>3, OneOutput
  <1> QED
    BY <1>1, <1>3, <1>4, <1>5, <1>6, Preserved

LEMMA FailureKeeps ==
  ASSUME Inv, NEW a \in Addrs, NEW k, ConvertFails(a, k) PROVE Inv' /\ ReturnsTranslation'
  <1>1. /\ up = "up" /\ out' = {} /\ files' = AfterLookup(a, k)
        /\ UNCHANGED <<code, mem, cache, table, up, batch>>
    BY DEF ConvertFails, Ready, instance
  <1>2. files' \in SoundFiles
    BY <1>1, LookupSound DEF Inv
  <1>3. /\ code' \in [Addrs -> Codes] /\ mem' \in [Buffers -> Contents]
        /\ cache' \in Seq(Borrowed) /\ table' \in Seq(Listable)
        /\ cache' \in Seq(SoundEntries(mem', code')) /\ table' \in Seq(SoundListed(mem'))
    BY <1>1 DEF Inv, TypeOK, Listable
  <1>4. out' \subseteq Outputs /\ ReturnsTranslation'
    BY <1>1 DEF ReturnsTranslation
  <1> QED
    BY <1>1, <1>2, <1>3, <1>4, Preserved

\* A batch that copies from a file ends with the heap corrupt: nothing is said
\* of the instance then but its types.
LEMMA BatchFileKeeps ==
  ASSUME Inv, NEW a \in Addrs, BatchFileHit(a) PROVE Inv' /\ ReturnsTranslation'
  <1>1. files[a].x86 = Translation(a, code[a])
    BY FileHitSound DEF BatchFileHit, Inv
  <1>2. PICK b \in Free : /\ mem' = Unmap([mem EXCEPT ![b] = files[a].x86], Evicted)
                          /\ CacheInsert(Entry(a, b)) /\ TableInsert(code[a], b)
    BY DEF BatchFileHit
  <1>3. Ready /\ UNCHANGED <<code, files, batch>> /\ up' = "corrupt" /\ out' = {}
    BY DEF BatchFileHit
  <1>4. /\ mem' \in [Buffers -> Contents] /\ cache' \in Seq(Borrowed)
        /\ table \in Seq(SoundListed(mem'))
        /\ [key |-> code[a], buf |-> b] \in SoundListed(mem')
    BY <1>1, <1>2, <1>3, Entered
  <1>5. table' \in Seq(Listable)
    <2>1. table' \in Seq(SoundListed(mem'))
      BY <1>2, <1>4, ListedInserted
    <2> QED
      BY <2>1, ListedType
  <1>6. code' \in [Addrs -> Codes] /\ files' \in SoundFiles
    BY <1>3 DEF Inv, TypeOK
  <1>7. out' \subseteq Outputs /\ ReturnsTranslation'
    BY <1>3 DEF ReturnsTranslation
  <1> QED
    BY <1>3, <1>4, <1>5, <1>6, <1>7, Preserved

\* Invalidation takes every entry of the cache, the only place that speaks of
\* an address; destruction and the end of the process take all.
LEMMA LifeKeeps == ASSUME Inv, Life PROVE Inv' /\ ReturnsTranslation'
  <1>1. out' = {} /\ ReturnsTranslation'
    BY DEF Life, Create, Destroy, Restart, Invalidate, ReturnsTranslation
  <1>2. CASE Create
    <2>1. /\ up = "down" /\ up' = "up" /\ UNCHANGED <<code, mem, cache, table, files, batch>>
      BY <1>2 DEF Create
    <2>2. /\ cache' = <<>> /\ table' = <<>>
          /\ code' \in [Addrs -> Codes] /\ mem' \in [Buffers -> Contents]
      BY <2>1 DEF Inv, TypeOK
    <2> QED
      BY <1>1, <2>1, <2>2, Emptied
  <1>3. CASE Destroy
    <2>1. /\ cache' = <<>> /\ table' = <<>> /\ up' = "down" /\ UNCHANGED <<code, files, batch>>
          /\ mem' = Unmap(mem, Mmapped(Cleared \cup TableReleased))
      BY <1>3 DEF Destroy
    <2>2. mem' \in [Buffers -> Contents] /\ code' \in [Addrs -> Codes]
      BY <2>1 DEF Unmap, Inv, TypeOK, Contents
    <2> QED
      BY <1>1, <2>1, <2>2, Emptied
  <1>4. CASE Restart
    <2>1. mem' \in [Buffers -> Contents]
      BY <1>4 DEF Restart, Contents
    <2>2. \/ UNCHANGED batch
          \/ active' = FALSE /\ todo' = {} /\ done' = {} /\ work' = [w \in Workers |-> NULL]
      BY <1>4 DEF Restart
    <2> QED
      BY <1>1, <1>4, <2>1, <2>2, Emptied DEF Restart
  <1>5. CASE \E a \in Addrs, v \in Codes : Invalidate(a, v)
    <2>1. PICK a \in Addrs, v \in Codes : Invalidate(a, v)
      BY <1>5
    <2>2. /\ up = "up" /\ code' = [code EXCEPT ![a] = v] /\ cache' = <<>>
          /\ UNCHANGED <<table, up, files, batch>>
      BY <2>1 DEF Invalidate, Ready
    <2>3. mem' = mem
      <3>1. Cleared = {} /\ mem \in [Buffers -> Contents]
        BY NothingOwned DEF Inv, TypeOK
      <3>2. mem' = Unmap(mem, Mmapped(Cleared))
        BY <2>1 DEF Invalidate
      <3>3. Mmapped({}) = {}
        BY DEF Mmapped
      <3> QED
        BY <3>1, <3>2, <3>3, UnmapNothing
    <2>4. /\ code' \in [Addrs -> Codes] /\ mem' \in [Buffers -> Contents] /\ files' \in SoundFiles
          /\ table' \in Seq(SoundListed(mem')) /\ table' \in Seq(Listable)
      BY <2>2, <2>3 DEF Inv, TypeOK, Listable
    <2>5. cache' \in Seq(Borrowed) /\ cache' \in Seq(SoundEntries(mem', code'))
      BY <2>2
    <2> QED
      BY <1>1, <2>2, <2>4, <2>5, Preserved
  <1> QED
    BY <1>2, <1>3, <1>4, <1>5 DEF Life

LEMMA Step ==
  ASSUME Inv, [Next]_vars
  PROVE  Inv' /\ (PcRel = {} /\ ReturnsTranslation => ReturnsTranslation')
  <1>1. CASE Life
    BY <1>1, LifeKeeps
  <1>2. ASSUME NEW a \in Addrs, arm2x86_translate_easy(a)
        PROVE  Inv' /\ (PcRel = {} => ReturnsTranslation')
    BY <1>2, HitKeeps, FileHitKeeps, ListedKeeps, ConvertKeeps, FailureKeeps
       DEF arm2x86_translate_easy
  <1>3. ASSUME NEW a \in Addrs, arm2x86_translate_addr(a)
        PROVE  Inv' /\ ReturnsTranslation'
    BY <1>3, HitKeeps, FileHitKeeps, ConvertKeeps, FailureKeeps DEF arm2x86_translate_addr
  <1>4. ASSUME NEW a \in Addrs, arm2x86_translate_batch(a)
        PROVE  Inv' /\ (PcRel = {} => ReturnsTranslation')
    BY <1>4, HitKeeps, ListedKeeps, BatchFileKeeps, ConvertKeeps, FailureKeeps
       DEF arm2x86_translate_batch
  <1>5. CASE UNCHANGED vars
    BY <1>5 DEF vars, instance, batch, Inv, TypeOK, ReturnsTranslation
  <1> QED
    BY <1>1, <1>2, <1>3, <1>4, <1>5 DEF Next

LEMMA Start == ASSUME Init PROVE Inv /\ ReturnsTranslation
  <1>1. mem \in [Buffers -> Contents]
    BY DEF Init, Contents
  <1>2. files \in SoundFiles
    BY DEF Init, SoundFiles, NoFiles
  <1>3. cache = <<>> /\ table = <<>> /\ cache \in Seq(Borrowed)
    BY DEF Init
  <1>4. files \in [Addrs -> [arm : Keys, x86 : Contents] \cup {NULL}]
    BY <1>2 DEF SoundFiles
  <1>5. \A S : cache \in Seq(S) /\ table \in Seq(S)
    BY <1>3
  <1>6. TypeOK
    BY <1>1, <1>4, <1>5 DEF Init, TypeOK
  <1> QED
    BY <1>2, <1>3, <1>6 DEF Init, Inv, ReturnsTranslation

-----------------------------------------------------------------------------
\* For every set of addresses, code and buffers, every capacity and code size:
\* whatever mixture of calls, evictions, failed allocations, code changes with
\* invalidation and restarts, no place of the instance leads to memory that was
\* released or reused, also when code depends on its address
\* (arm2x86_translate_easy, arm2x86_translate_addr, arm2x86_translate_batch).
THEOREM BuffersKept == Spec => []BuffersSafe
  <1>1. Init => Inv
    BY Start
  <1>2. Inv /\ [Next]_vars => Inv'
    BY Step
  <1>3. Inv => BuffersSafe
    <2> SUFFICES ASSUME Inv, up = "up" PROVE NoDangling
      BY DEF BuffersSafe, Inv, NoDangling
    <2>1. cache \in Seq(SoundEntries(mem, code)) /\ table \in Seq(SoundListed(mem))
      BY DEF Inv
    <2>2. \A i \in DOMAIN cache : cache[i] \in SoundEntries(mem, code)
      BY <2>1, ElementOfSeq, LenProperties
    <2>3. \A i \in DOMAIN table : table[i] \in SoundListed(mem)
      BY <2>1, ElementOfSeq, LenProperties
    <2> QED
      BY <2>2, <2>3 DEF NoDangling, SoundEntries, SoundListed
  <1> QED
    BY <1>1, <1>2, <1>3, PTL DEF Spec

\* When no translation depends on the address of its code, every call returns
\* executable memory with the translation of the code now at the address,
\* whichever level it came from (easy.c's three levels of lookup).
THEOREM TranslationReturned == ASSUME PcRel = {} PROVE Spec => []ReturnsTranslation
  <1>1. Init => Inv /\ ReturnsTranslation
    BY Start
  <1>2. Inv /\ ReturnsTranslation /\ [Next]_vars => Inv' /\ ReturnsTranslation'
    BY Step
  <1> QED
    BY <1>1, <1>2, PTL DEF Spec
=============================================================================
