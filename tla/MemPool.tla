------------------------------- MODULE MemPool -------------------------------
(***************************************************************************)
(* The pool of executable memory (modules/arm2x86_easy.c): chunks kept in  *)
(* one list per size class, from which blocks are cut off front to back.   *)
(* A block is never given back; the chunks go when the pool is destroyed.  *)
(*                                                                         *)
(* arm2x86_mempool_alloc holds the pool's lock throughout, so that one     *)
(* call is one step.  A chunk is known by its base address.                *)
(***************************************************************************)
EXTENDS Integers, Sequences, FiniteSets, FiniteSetsExt, SequencesExt

CONSTANTS
  Bases,         \* base addresses mmap can return for a chunk
  ClassSizes,    \* mempool_class_sizes
  Alignment,     \* 16
  Requests,      \* block sizes asked for
  InitialSizes,  \* the user's initial_size (0: not set)
  MaxSize,       \* the user's max_size
  Growth,        \* the user's enable_growth
  ChunkSize      \* the user's chunk_size, the default initial size

ASSUME MemPoolConstants ==
  /\ IsFiniteSet(Bases)
  /\ ClassSizes \in Seq(Nat \ {0}) /\ ClassSizes # <<>>
  /\ Alignment \in Nat \ {0}
  /\ Requests \subseteq Nat \ {0} /\ InitialSizes \subseteq Nat
  /\ MaxSize \in Nat \ {0} /\ ChunkSize \in Nat \ {0} /\ Growth \in BOOLEAN

VARIABLES
  exists,        \* instance->mempool is not NULL
  chunks,        \* class -> its chunks, first in the list first
  total_size, used_size,
  enable_growth,
  blocks         \* the blocks handed out: [base, from, upto, asked, no]

poolVars == <<exists, chunks, total_size, used_size, enable_growth, blocks>>

Classes == 1..Len(ClassSizes)

\* (n + 15) & ~15
Align(n) == ((n + Alignment - 1) \div Alignment) * Alignment

\* The first class that holds n; the last one also holds what is larger.
mempool_get_class(n) ==
  LET fit == {k \in Classes : n <= ClassSizes[k]}
  IN IF fit = {} THEN Len(ClassSizes) ELSE Min(fit)

\* The bytes arm2x86_mempool_alloc_chunk maps for a chunk of n.
ActualSize(n) ==
  LET s == ClassSizes[mempool_get_class(n)] IN IF n > s THEN Align(n) ELSE s

Chunk(b, n, off) == [base |-> b, size |-> n, offset |-> off]

\* All chunks of the pool, and the addresses mmap will not return.
AllChunks == UNION {{chunks[k][i] : i \in DOMAIN chunks[k]} : k \in Classes}
InUse == {c.base : c \in AllChunks}

NoChunks == [k \in Classes |-> <<>>]

-----------------------------------------------------------------------------
PoolInit == /\ exists = FALSE /\ chunks = NoChunks
        /\ total_size = 0 /\ used_size = 0 /\ enable_growth = FALSE
        /\ blocks = {}

\* initial_size, or the chunk size when it is not set, and at most max_size.
Initial(n) == LET want == IF n # 0 THEN n ELSE ChunkSize
              IN IF want > MaxSize THEN MaxSize ELSE want

\* arm2x86_mempool_init.  The pool may come up without a chunk, and its
\* enable_growth is 1 whatever the user's is.
EnablePool(n) ==
  /\ ~ exists
  /\ exists' = TRUE /\ enable_growth' = TRUE /\ used_size' = 0 /\ blocks' = {}
  /\ \/ \E b \in Bases :
          /\ chunks' = [NoChunks EXCEPT ![mempool_get_class(Initial(n))] =
                          <<Chunk(b, ActualSize(Initial(n)), 0)>>]
          /\ total_size' = Initial(n)
     \/ chunks' = NoChunks /\ total_size' = 0

FitsLoosely(c, n) == c.offset < c.size

Fits(c, n) == c.offset + n <= c.size

WithRoom(k, n) == {i \in DOMAIN chunks[k] : Fits(chunks[k][i], n)}

Placed(c) == c.offset

Advanced(c, n) == c.offset + n

ChargedAsAsked(asked, n) == used_size + asked

Charged(asked, n) == used_size + n

\* A block of n bytes from the first chunk of its class that has room.
AllocHere(asked) ==
  LET n == Align(asked)
      k == mempool_get_class(n)
      i == Min(WithRoom(k, n))
      c == chunks[k][i]
  IN /\ exists /\ WithRoom(k, n) # {}
     /\ chunks' = [chunks EXCEPT ![k][i].offset = Advanced(c, n)]
     /\ used_size' = Charged(asked, n)
     /\ blocks' = blocks \cup
          {[base |-> c.base, from |-> Placed(c), upto |-> Placed(c) + n, asked |-> asked,
            no |-> Cardinality(blocks)]}
     /\ UNCHANGED <<exists, total_size, enable_growth>>

\* A block at the start of a new chunk, put in front of its class.
AllocGrow(asked) ==
  LET n == Align(asked)
      k == mempool_get_class(n)
      size == ActualSize(n)
  IN /\ exists /\ WithRoom(k, n) = {}
     /\ total_size + size <= MaxSize \/ enable_growth
     /\ \E b \in Bases \ InUse :
          /\ chunks' = [chunks EXCEPT ![k] = <<Chunk(b, size, n)>> \o @]
          /\ blocks' = blocks \cup
               {[base |-> b, from |-> 0, upto |-> n, asked |-> asked, no |-> Cardinality(blocks)]}
     /\ total_size' = total_size + size
     /\ used_size' = Charged(asked, n)
     /\ UNCHANGED <<exists, enable_growth>>

\* arm2x86_mempool_destroy
DestroyPool ==
  /\ exists
  /\ exists' = FALSE /\ chunks' = NoChunks /\ blocks' = {}
  /\ total_size' = 0 /\ used_size' = 0 /\ enable_growth' = FALSE

PoolNext == \/ \E n \in InitialSizes : EnablePool(n)
        \/ \E n \in Requests : AllocHere(n) \/ AllocGrow(n)
        \/ DestroyPool

PoolSpec == PoolInit /\ [][PoolNext]_poolVars

-----------------------------------------------------------------------------
(***************************************************************************)
(* Properties.                                                             *)
(***************************************************************************)
\* No two blocks of executable code overlap: a translation never overwrites
\* another one, whatever sizes were asked for in whatever order.
BlocksDisjoint ==
  \A x, y \in blocks : x.base = y.base => x = y \/ x.upto <= y.from \/ y.upto <= x.from

\* Every block lies inside a chunk that is mapped, below the chunk's offset,
\* and is as large as what was asked for.
BlocksInChunk ==
  \A x \in blocks :
    /\ x.from + x.asked <= x.upto
    /\ \E c \in AllChunks : c.base = x.base /\ x.upto <= c.offset /\ c.offset <= c.size

(* Executable memory handed out by arm2x86_mempool_alloc is the caller's   *)
(* alone and is mapped.                                                    *)
BlocksSafe == BlocksDisjoint /\ BlocksInChunk

\* used_size, which arm2x86_mempool_get_stats reports, is what was handed out.
UsedIsSum == used_size = SumFunction([x \in blocks |-> x.upto - x.from])

\* The mapped bytes, of which total_size is the record.
Mapped == MapThenSumSet(LAMBDA c : c.size, AllChunks)

\* A pool the user told not to grow stays within the size the user set.
PoolLimit == ~ Growth => Mapped <= MaxSize
=============================================================================
