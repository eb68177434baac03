------------------------------- MODULE PCache -------------------------------
(***************************************************************************)
(* The persistent cache (modules/arm2x86_pcache.c): one file per block     *)
(* address in a directory that every process of the user shares, written   *)
(* under a temporary name and renamed, and a per-handle estimate of the    *)
(* directory's size that decides when old files are removed.               *)
(*                                                                         *)
(* A step is one system call (or several with no other effect): no lock    *)
(* protects the directory.  Files are inodes, reached by name or by an     *)
(* open descriptor.  A file is a header, written for one version of the    *)
(* ARM code, followed by cells of x86 code; a cell is what one flush of    *)
(* the stdio buffer writes, the header going out with the first.  The ARM  *)
(* code hash tells versions apart.  Access times are not modelled: cleanup *)
(* removes files in any order, so in every order the times can give.       *)
(* Statistics are left out, and the configuration is the one               *)
(* arm2x86_pcache_config_init makes (enabled, verify_hash, auto_cleanup    *)
(* and load_on_startup set), with flags 0 as every caller passes.          *)
(***************************************************************************)
EXTENDS Integers, Sequences, FiniteSets, FiniteSetsExt, SequencesExt

CONSTANTS
  Clients,     \* handles (arm2x86_persistent_cache_t), each used by one thread or process
  Addrs,       \* ARM addresses of blocks
  Codes,       \* versions of the ARM code at an address
  SizeOf,      \* cells of x86 code a version is translated to
  Inodes,
  Hdr,         \* sizeof(header)
  MaxBytes,    \* max_size_bytes
  MaxEntry,    \* max_entry_size
  Targets,     \* target sizes the user passes to arm2x86_pcache_cleanup
  SizeMod,     \* 2^64: total_size is a size_t
  MaxTotal,    \* bound on total_size, which drifts upwards without limit
  IOErrors,    \* whether file operations may fail
  Zero,        \* a cell that was never written
  NULL

ASSUME PCacheConstants ==
  /\ SizeOf \in [Codes -> Nat \ {0}]
  /\ Hdr \in Nat \ {0} /\ MaxBytes \in Nat \ {0} /\ MaxEntry \in Nat
  /\ Targets \subseteq Nat /\ SizeMod \in Nat \ {0} /\ MaxTotal \in Nat
  /\ IOErrors \in BOOLEAN /\ IsFiniteSet(Addrs)
  /\ NULL \notin Inodes /\ NULL \notin Codes /\ Zero \notin Codes /\ NULL \notin Addrs

VARIABLES
  entry,       \* address -> inode under its final name, or NULL
  tmp,         \* address -> inode under its temporary name, or NULL
  file,        \* inode -> contents
  dirty,       \* inodes with data not yet on disk
  total_size,  \* client -> index.total_size of its handle
  pc, local    \* where each client is, and its local variables

names == <<entry, tmp>>
vars  == <<names, file, dirty, total_size, pc, local>>

Blank == [head |-> NULL, body |-> <<>>]

NoLocal == [addr |-> NULL, code |-> NULL, fd |-> NULL, buf |-> <<>>, list |-> <<>>,
            target |-> 0, then |-> "idle"]

Goto(c, l, loc) == /\ pc' = [pc EXCEPT ![c] = l]
                   /\ local' = [local EXCEPT ![c] = loc]

Return(c) == Goto(c, "idle", NoLocal)

\* st_size of a file with contents f.
FileSize(f) == IF f = Blank THEN 0 ELSE Hdr + Len(f.body)

Present == {a \in Addrs : entry[a] # NULL}

\* The bytes in the entries directory, as readdir and stat find them.
DirSize == SumFunction([a \in Present |-> FileSize(file[entry[a]])])

\* What rebuild_index counts; nothing when opendir fails.
Found == {DirSize} \cup (IF IOErrors THEN {0} ELSE {})

\* The bound on an estimate that has not wrapped below 0.
Bounded(c) == total_size[c] <= MaxTotal \/ total_size[c] >= SizeMod \div 2

Add(x, y) == (x + y) % SizeMod

Sub(x, y) == (x - y) % SizeMod

\* The kernel drops an inode that has no name and is not open.
Referenced == {entry[a] : a \in Addrs} \cup {tmp[a] : a \in Addrs}
                \cup {local[c].fd : c \in Clients}

Update(f) ==
  /\ file'  = [i \in Inodes |-> IF i \in Referenced' THEN f[i] ELSE Blank]
  /\ dirty' = {i \in Referenced' \cap Inodes : i \in dirty \/ f[i] # file[i]}

-----------------------------------------------------------------------------
Init ==
  /\ entry = [a \in Addrs |-> NULL] /\ tmp = [a \in Addrs |-> NULL]
  /\ file = [i \in Inodes |-> Blank] /\ dirty = {}
  /\ total_size = [c \in Clients |-> 0]
  /\ pc = [c \in Clients |-> "closed"] /\ local = [c \in Clients |-> NoLocal]

\* arm2x86_pcache_create: count what is there, then clean up to half the limit.
Create(c) ==
  /\ pc[c] = "closed"
  /\ \E n \in Found : total_size' = [total_size EXCEPT ![c] = n]
  /\ Goto(c, "cleanup", [NoLocal EXCEPT !.target = MaxBytes \div 2])
  /\ UNCHANGED <<names, file, dirty>>

\* A later arm2x86_pcache_rebuild_index adds to the size it already has.
RebuildIndex(c) ==
  /\ pc[c] = "idle" /\ Bounded(c)
  /\ \E n \in Found : total_size' = [total_size EXCEPT ![c] = Add(@, n)]
  /\ UNCHANGED <<names, file, dirty, pc, local>>

\* arm2x86_pcache_sync: sync(), for every file of the system.
Sync(c) ==
  /\ pc[c] = "idle"
  /\ dirty' = {}
  /\ UNCHANGED <<names, file, total_size, pc, local>>

Destroy(c) ==
  /\ pc[c] = "idle"
  /\ dirty' = {}
  /\ total_size' = [total_size EXCEPT ![c] = 0]
  /\ Goto(c, "closed", NoLocal)
  /\ UNCHANGED <<names, file>>

-----------------------------------------------------------------------------
(***************************************************************************)
(* arm2x86_pcache_cleanup: list the files, then remove them one by one     *)
(* until the estimated size is at most the target.                         *)
(* The array of the listing has 1000 places and no check (pcache.c:532);   *)
(* the model's directories are smaller.                                    *)
(***************************************************************************)
Cleanup(c, n) ==
  /\ pc[c] = "idle"
  /\ Goto(c, "cleanup", [NoLocal EXCEPT !.target = IF n = 0 THEN MaxBytes \div 2 ELSE n])
  /\ UNCHANGED <<names, file, dirty, total_size>>

\* There is nothing to clean, or opendir fails.
CleanupSkip(c) ==
  /\ pc[c] = "cleanup"
  /\ IOErrors \/ total_size[c] <= local[c].target
  /\ Goto(c, local[c].then, [local[c] EXCEPT !.then = "idle"])
  /\ UNCHANGED <<names, file, dirty, total_size>>

Listings == {[k \in 1..Len(s) |-> [addr |-> s[k], size |-> FileSize(file[entry[s[k]]])]] :
               s \in SetToSeqs(Present)}

CleanupScan(c) ==
  /\ pc[c] = "cleanup" /\ total_size[c] > local[c].target
  /\ \E l \in Listings : Goto(c, "unlink", [local[c] EXCEPT !.list = l])
  /\ UNCHANGED <<names, file, dirty, total_size>>

MoreToRemove(c) == local[c].list # <<>> /\ total_size[c] > local[c].target

\* The file may be gone, or be another one, since it was listed.
CleanupUnlink(c) ==
  LET f == Head(local[c].list) IN
  /\ pc[c] = "unlink" /\ MoreToRemove(c)
  /\ \/ /\ entry[f.addr] # NULL
        /\ entry' = [entry EXCEPT ![f.addr] = NULL]
        /\ total_size' = [total_size EXCEPT ![c] = Sub(@, f.size)]
     \/ /\ entry[f.addr] = NULL \/ IOErrors
        /\ UNCHANGED <<entry, total_size>>
  /\ Goto(c, "unlink", [local[c] EXCEPT !.list = Tail(@)])
  /\ UNCHANGED tmp
  /\ Update(file)

CleanupDone(c) ==
  /\ pc[c] = "unlink" /\ ~ MoreToRemove(c)
  /\ Goto(c, local[c].then, [local[c] EXCEPT !.list = <<>>, !.then = "idle"])
  /\ UNCHANGED <<names, file, dirty, total_size>>

-----------------------------------------------------------------------------
(***************************************************************************)
(* arm2x86_pcache_lookup, for a client whose code at address a is v.  A    *)
(* missing file is only counted.                                           *)
(***************************************************************************)
LookupOpen(c, a, v) ==
  /\ pc[c] = "idle" /\ entry[a] # NULL
  /\ Goto(c, "header", [NoLocal EXCEPT !.addr = a, !.code = v, !.fd = entry[a]])
  /\ UNCHANGED <<names, file, dirty, total_size>>

\* The first read brings the header and the first cell.  The header is short,
\* wrong (or the read fails), of other code, or right.
LookupHeader(c) ==
  LET f == file[local[c].fd] IN
  /\ pc[c] = "header"
  /\ \/ /\ f.head = NULL \/ IOErrors
        /\ Return(c)
     \/ /\ f.head \in Codes \ {local[c].code}
        /\ Goto(c, "stale", [local[c] EXCEPT !.fd = NULL])
     \/ /\ f.head = local[c].code
        /\ Goto(c, "code", [local[c] EXCEPT !.buf = SubSeq(f.body, 1, 1)])
  /\ UNCHANGED <<names, total_size>>
  /\ Update(file)

\* A file made for other code is removed, by name, and stays counted.
LookupStale(c) ==
  /\ pc[c] = "stale"
  /\ \/ entry' = [entry EXCEPT ![local[c].addr] = NULL]
     \/ IOErrors /\ UNCHANGED entry
  /\ Return(c)
  /\ UNCHANGED <<tmp, total_size>>
  /\ Update(file)

\* fread gives what the file has, up to the size asked for.
ReadRest(c) ==
  LET body == file[local[c].fd].body
  IN local[c].buf \o
       SubSeq(body, Len(local[c].buf) + 1, Min({SizeOf[local[c].code], Len(body)}))

CompleteUnchecked(c) == TRUE

Complete(c) == Len(file[local[c].fd].body) >= SizeOf[local[c].code]

\* Read the rest of the code: all of it, or the file is short (or malloc failed).
LookupCode(c) ==
  /\ pc[c] = "code"
  /\ \/ /\ Complete(c)
        /\ Goto(c, "hit", [local[c] EXCEPT !.buf = ReadRest(c), !.fd = NULL])
     \/ Return(c)
  /\ UNCHANGED <<names, total_size>>
  /\ Update(file)

LookupReturn(c) ==
  /\ pc[c] = "hit"
  /\ Return(c)
  /\ UNCHANGED <<names, file, dirty, total_size>>

-----------------------------------------------------------------------------
(***************************************************************************)
(* arm2x86_pcache_store                                                    *)
(***************************************************************************)

\* The sum is a size_t's: an estimate that wrapped below 0 makes it small again.
NeedsCleanup(c, n) == Add(total_size[c], n) > MaxBytes

StoreBegin(c, a, v) ==
  /\ pc[c] = "idle" /\ Bounded(c) /\ SizeOf[v] <= MaxEntry
  /\ Goto(c, IF NeedsCleanup(c, SizeOf[v]) THEN "cleanup" ELSE "access",
          [NoLocal EXCEPT !.addr = a, !.code = v, !.target = MaxBytes \div 2,
                          !.then = "access"])
  /\ UNCHANGED <<names, file, dirty, total_size>>

\* access(): an entry that exists is kept.
StoreAccess(c) ==
  /\ pc[c] = "access"
  /\ IF entry[local[c].addr] # NULL THEN Return(c)
     ELSE Goto(c, "create", [local[c] EXCEPT !.then = "idle"])
  /\ UNCHANGED <<names, file, dirty, total_size>>

OpenedToAppend(f) == f

Opened(f) == Blank

\* fopen(tmpfile, "wb"): a file that is there is truncated.
StoreCreate(c) ==
  LET a == local[c].addr IN
  /\ pc[c] = "create"
  /\ \E i \in IF tmp[a] # NULL THEN {tmp[a]} ELSE Inodes \ Referenced :
       /\ tmp' = [tmp EXCEPT ![a] = i]
       /\ Goto(c, "write", [local[c] EXCEPT !.fd = i])
       /\ UNCHANGED <<entry, total_size>>
       /\ Update([file EXCEPT ![i] = Opened(@)])

\* Cells lo..n of body b overwritten with the translation of v.
Overwrite(b, lo, n, v) ==
  [k \in 1..(IF Len(b) > n THEN Len(b) ELSE n) |->
     IF k \in lo..n THEN v ELSE IF k <= Len(b) THEN b[k] ELSE Zero]

\* The header and the first cell, then the other cells; the file is closed.
StoreWrite(c) ==
  LET v == local[c].code
      i == local[c].fd
      more == SizeOf[v] > 1
  IN /\ pc[c] = "write"
     /\ Goto(c, IF more THEN "append" ELSE "rename",
             [local[c] EXCEPT !.fd = IF more THEN i ELSE NULL])
     /\ UNCHANGED <<names, total_size>>
     /\ Update([file EXCEPT ![i] = [head |-> v, body |-> Overwrite(@.body, 1, 1, v)]])

StoreAppend(c) ==
  LET v == local[c].code IN
  /\ pc[c] = "append"
  /\ Goto(c, "rename", [local[c] EXCEPT !.fd = NULL])
  /\ UNCHANGED <<names, total_size>>
  /\ Update([file EXCEPT ![local[c].fd].body = Overwrite(@, 2, SizeOf[v], v)])

\* The last flush is fclose's, whose result nobody looks at.
StoreCloseFails(c) ==
  /\ IOErrors
  /\ pc[c] = "append" \/ (pc[c] = "write" /\ SizeOf[local[c].code] = 1)
  /\ Goto(c, "rename", [local[c] EXCEPT !.fd = NULL])
  /\ UNCHANGED <<names, total_size>>
  /\ Update(file)

\* fopen, fwrite or rename fails (rename also when another client has renamed
\* the temporary file); the temporary name is removed.
StoreFails(c) ==
  LET a == local[c].addr IN
  /\ \/ IOErrors /\ pc[c] \in {"create", "write", "append", "rename"}
     \/ pc[c] = "rename" /\ tmp[a] = NULL
  /\ tmp' = IF pc[c] = "create" THEN tmp ELSE [tmp EXCEPT ![a] = NULL]
  /\ Return(c)
  /\ UNCHANGED <<entry, total_size>>
  /\ Update(file)

Charged(v) == Hdr + SizeOf[v]

StoreRename(c) ==
  LET a == local[c].addr IN
  /\ pc[c] = "rename" /\ tmp[a] # NULL
  /\ entry' = [entry EXCEPT ![a] = tmp[a]] /\ tmp' = [tmp EXCEPT ![a] = NULL]
  /\ total_size' = [total_size EXCEPT ![c] = Add(@, Charged(local[c].code))]
  /\ Return(c)
  /\ Update(file)

-----------------------------------------------------------------------------
\* arm2x86_pcache_invalidate subtracts the size before it knows that the file
\* could be removed.
Invalidate(c, a) ==
  /\ pc[c] = "idle" /\ entry[a] # NULL
  /\ total_size' = [total_size EXCEPT ![c] = Sub(@, FileSize(file[entry[a]]))]
  /\ \/ entry' = [entry EXCEPT ![a] = NULL]
     \/ IOErrors /\ UNCHANGED entry
  /\ UNCHANGED <<tmp, pc, local>>
  /\ Update(file)

\* arm2x86_pcache_invalidate_all; temporary files start with a dot and stay.
\* Files that could not be removed (kept) are forgotten all the same.
InvalidateAll(c) ==
  /\ pc[c] = "idle"
  /\ \E kept \in SUBSET Addrs :
       /\ kept = {} \/ IOErrors
       /\ entry' = [a \in Addrs |-> IF a \in kept THEN entry[a] ELSE NULL]
  /\ total_size' = [total_size EXCEPT ![c] = 0]
  /\ UNCHANGED <<tmp, pc, local>>
  /\ Update(file)

\* The process is killed: its descriptors are closed, its files stay.
Kill(c) ==
  /\ pc[c] # "closed"
  /\ total_size' = [total_size EXCEPT ![c] = 0]
  /\ Goto(c, "closed", NoLocal)
  /\ UNCHANGED names
  /\ Update(file)

Cells == 1..Max({SizeOf[v] : v \in Codes})

\* Inode i once its cells in lost read as zeros, the header with the first.
Damaged(i, lost) ==
  [head |-> IF <<i, 1>> \in lost THEN NULL ELSE file[i].head,
   body |-> [k \in 1..Len(file[i].body) |->
               IF <<i, k>> \in lost THEN Zero ELSE file[i].body[k]]]

\* The machine stops: data that had not reached the disk is lost.
PowerLoss ==
  /\ pc' = [c \in Clients |-> "closed"] /\ local' = [c \in Clients |-> NoLocal]
  /\ total_size' = [c \in Clients |-> 0]
  /\ UNCHANGED names
  /\ \E lost \in SUBSET (dirty \X Cells) : Update([i \in Inodes |-> Damaged(i, lost)])

-----------------------------------------------------------------------------
Step(c) == \/ CleanupSkip(c) \/ CleanupScan(c) \/ CleanupUnlink(c) \/ CleanupDone(c)
           \/ LookupHeader(c) \/ LookupStale(c) \/ LookupCode(c) \/ LookupReturn(c)
           \/ StoreAccess(c) \/ StoreCreate(c) \/ StoreWrite(c) \/ StoreAppend(c)
           \/ StoreCloseFails(c) \/ StoreFails(c) \/ StoreRename(c)

Call(c) == \/ Create(c) \/ RebuildIndex(c) \/ Sync(c) \/ Destroy(c)
           \/ \E n \in Targets : Cleanup(c, n)
           \/ \E a \in Addrs, v \in Codes : LookupOpen(c, a, v) \/ StoreBegin(c, a, v)
           \/ \E a \in Addrs : Invalidate(c, a)
           \/ InvalidateAll(c)

Next == \E c \in Clients : Call(c) \/ Step(c) \/ Kill(c)

Spec == Init /\ [][Next]_vars

SpecPower == Init /\ [][Next \/ PowerLoss]_vars

-----------------------------------------------------------------------------
(***************************************************************************)
(* Properties.                                                             *)
(***************************************************************************)
PC == {"closed", "idle", "cleanup", "unlink", "header", "stale", "code", "hit",
       "access", "create", "write", "append", "rename"}

\* Type invariant: names lead to inodes, sizes are size_t values, a client has
\* a file open exactly while it reads or writes one.
TypeOK ==
  /\ entry \in [Addrs -> Inodes \cup {NULL}] /\ tmp \in [Addrs -> Inodes \cup {NULL}]
  /\ \A i \in Inodes : /\ file[i].head \in Codes \cup {NULL}
                        /\ file[i].body \in Seq(Codes \cup {Zero})
  /\ dirty \subseteq Inodes
  /\ total_size \in [Clients -> 0..(SizeMod - 1)]
  /\ pc \in [Clients -> PC]
  /\ \A c \in Clients : local[c].fd \in Inodes <=> pc[c] \in {"header", "code", "write", "append"}

\* The x86 code of version v, whole.
Translation(v) == [k \in 1..SizeOf[v] |-> v]

\* A lookup that succeeds returns the whole translation of the code it was asked
\* for, whatever was stored, removed, interrupted or written at the same time.
HitIsTranslation ==
  \A c \in Clients : pc[c] = "hit" => local[c].buf = Translation(local[c].code)

\* Writing under a temporary name and renaming publishes whole files only: a
\* process killed anywhere in a store leaves no partial entry behind, and what
\* it left under the temporary name does not leak into a later entry.
PublishedWhole ==
  \A a \in Present : /\ file[entry[a]].head \in Codes
                     /\ file[entry[a]].body = Translation(file[entry[a]].head)

\* The estimate an open handle keeps never falls below the bytes in the
\* directory, although a stale file found by a lookup is removed uncounted and a
\* rebuilt index is added to the old one.
SizeCovered == \A c \in Clients : pc[c] # "closed" => DirSize <= total_size[c]

Largest(x, y) == IF x > y THEN x ELSE y

\* The directory stays within its limit, up to the header that the check in
\* arm2x86_pcache_store forgets and the one entry stored after a cleanup.
SizeLimit == DirSize <= Hdr + Largest(MaxBytes, MaxBytes \div 2 + MaxEntry)

(* Whatever is killed where, published files are whole, and the size the   *)
(* cleanup goes by covers the directory and limits it.                     *)
FilesSound == TypeOK /\ PublishedWhole /\ SizeCovered /\ SizeLimit
=============================================================================
