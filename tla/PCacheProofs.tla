---------------------------- MODULE PCacheProofs ----------------------------
(***************************************************************************)
(* Proofs about PCache: what a hit returns and what a store publishes, for *)
(* every number of addresses and inodes, every size of code and header,    *)
(* wherever a client is killed.                                            *)
(***************************************************************************)
EXTENDS PCache, SetFacts, FiniteSetTheorems, SequenceTheorems, TLAPS

USE PCacheConstants

-----------------------------------------------------------------------------
(***************************************************************************)
(* The invariants speak of one client or of one file at a time: what a     *)
(* client knows at each point of a call, and what a file may look like.    *)
(***************************************************************************)
\* The local variables, whatever their values.
IsLocal(r) == r \in [addr : {r.addr}, code : {r.code}, fd : {r.fd}, buf : {r.buf},
                     list : {r.list}, target : {r.target}, then : {r.then}]

OfBlock(r) == r.addr \in Addrs /\ r.code \in Codes

\* A client at l with locals r.
ClientOk(l, r) ==
  /\ IsLocal(r) /\ l \in PC
  /\ l \notin {"closed", "idle", "cleanup", "unlink"} => OfBlock(r)
  /\ l \in {"cleanup", "unlink"} => r.then = "idle" \/ (r.then = "access" /\ OfBlock(r))
  /\ l \in {"header", "code", "write", "append"} => r.fd \in Inodes
  /\ l = "code" => r.buf = <<r.code>>
  /\ l = "hit" => r.buf = Translation(r.code)

\* A file that was written cell by cell, by any number of clients in any order:
\* its header comes with its first cell, and the other cells are code.
FileOk(f) ==
  /\ f = [head |-> f.head, body |-> f.body] /\ f.head \in Codes \cup {NULL}
  /\ f.body \in Seq(Codes \cup {Zero})
  /\ f.head \in Codes => Len(f.body) >= 1 /\ f.body[1] = f.head
  /\ \A k \in 2..Len(f.body) : f.body[k] \in Codes

Types ==
  /\ entry \in [Addrs -> Inodes \cup {NULL}] /\ tmp \in [Addrs -> Inodes \cup {NULL}]
  /\ DOMAIN file = Inodes /\ DOMAIN pc = Clients /\ DOMAIN local = Clients

Inv == /\ Types /\ \A c \in Clients : ClientOk(pc[c], local[c])
       /\ \A i \in Inodes : FileOk(file[i])

-----------------------------------------------------------------------------
LEMMA LocalFresh == ClientOk("idle", NoLocal) /\ ClientOk("closed", NoLocal)
  BY DEF IsLocal, NoLocal, ClientOk, PC

\* One client moves and the others stay.
LEMMA Moved ==
  ASSUME Inv, NEW c \in Clients, NEW l, NEW r, ClientOk(l, r), Goto(c, l, r)
  PROVE  /\ \A d \in Clients : ClientOk(pc'[d], local'[d])
         /\ DOMAIN pc' = Clients /\ DOMAIN local' = Clients
  BY DEF Goto, Inv, Types

\* An update of the files by one that is all right, or none.
LEMMA Updated ==
  ASSUME NEW f, Update(f), \A i \in Inodes : FileOk(f[i])
  PROVE  DOMAIN file' = Inodes /\ \A i \in Inodes : FileOk(file'[i])
  <1>1. FileOk(Blank)
    BY DEF FileOk, Blank
  <1> QED
    BY <1>1 DEF Update

\* The header and the first cell, written over any file, make a file; so do the
\* cells after the first.
LEMMA FirstWritten ==
  ASSUME NEW f, FileOk(f), NEW v \in Codes
  PROVE  FileOk([head |-> v, body |-> Overwrite(f.body, 1, 1, v)])
  <1> PICK b : b = f.body
    OBVIOUS
  <1>1. b \in Seq(Codes \cup {Zero}) /\ \A k \in 2..Len(b) : b[k] \in Codes
    BY DEF FileOk
  <1>2. PICK q \in Nat : q = Len(b)
    BY <1>1, LenProperties
  <1>3. PICK m \in Nat : m = IF q > 1 THEN q ELSE 1
    OBVIOUS
  <1>4. PICK w : w = Overwrite(b, 1, 1, v)
    OBVIOUS
  <1>5. w = [k \in 1..m |-> IF k \in 1..1 THEN v ELSE IF k <= q THEN b[k] ELSE Zero]
    BY <1>2, <1>3, <1>4 DEF Overwrite
  <1>6. \A k \in 2..q : b[k] \in Codes
    BY <1>1, <1>2
  <1>7. w \in [1..m -> Codes] /\ w[1] = v
    <2>1. \A k \in 1..m : (IF k \in 1..1 THEN v ELSE IF k <= q THEN b[k] ELSE Zero) \in Codes
      BY <1>3, <1>6
    <2> QED
      BY <1>3, <1>5, <2>1
  <1>8. w \in Seq(Codes) /\ Len(w) = m
    BY <1>7
  <1>9. w \in Seq(Codes \cup {Zero}) /\ Len(w) >= 1 /\ \A k \in 2..Len(w) : w[k] \in Codes
    BY <1>3, <1>7, <1>8
  <1> QED
    BY <1>4, <1>7, <1>9 DEF FileOk

LEMMA RestWritten ==
  ASSUME NEW f, FileOk(f), NEW v \in Codes, NEW n \in Nat \ {0}
  PROVE  FileOk([head |-> f.head, body |-> Overwrite(f.body, 2, n, v)])
  <1> PICK b, h : b = f.body /\ h = f.head
    OBVIOUS
  <1>1. /\ b \in Seq(Codes \cup {Zero}) /\ \A k \in 2..Len(b) : b[k] \in Codes
        /\ h \in Codes => Len(b) >= 1 /\ b[1] = h
    BY DEF FileOk
  <1>2. PICK q \in Nat : q = Len(b)
    BY <1>1, LenProperties
  <1>3. PICK m \in Nat : m = IF q > n THEN q ELSE n
    OBVIOUS
  <1>4. PICK w : w = Overwrite(b, 2, n, v)
    OBVIOUS
  <1>5. w = [k \in 1..m |-> IF k \in 2..n THEN v ELSE IF k <= q THEN b[k] ELSE Zero]
    BY <1>2, <1>3, <1>4 DEF Overwrite
  <1>6. (\A k \in 2..q : b[k] \in Codes) /\ \A k \in 1..q : b[k] \in Codes \cup {Zero}
    BY <1>1, <1>2, ElementOfSeq
  <1>7. w \in [1..m -> Codes \cup {Zero}] /\ (\A k \in 2..m : w[k] \in Codes)
        /\ (q >= 1 => w[1] = b[1])
    <2>1. \A k \in 2..m : (IF k \in 2..n THEN v ELSE IF k <= q THEN b[k] ELSE Zero) \in Codes
      BY <1>3, <1>6
    <2>2. \A k \in 1..m : (IF k \in 2..n THEN v ELSE IF k <= q THEN b[k] ELSE Zero) \in Codes \cup {Zero}
      BY <1>3, <1>6
    <2>3. 1 \in 1..m /\ 1 \notin 2..n
      BY <1>3
    <2> QED
      BY <1>3, <1>5, <2>1, <2>2, <2>3
  <1>8. w \in Seq(Codes \cup {Zero}) /\ Len(w) = m
    BY <1>7
  <1>9. /\ Len(w) >= 1 /\ (\A k \in 2..Len(w) : w[k] \in Codes)
        /\ h \in Codes => w[1] = h
    BY <1>1, <1>2, <1>3, <1>7, <1>8
  <1> QED
    BY <1>4, <1>8, <1>9 DEF FileOk

-----------------------------------------------------------------------------
(***************************************************************************)
(* The steps, by what they do to the files and to their client.            *)
(***************************************************************************)
\* What the types and the client's part of the invariant say of one client.
LEMMA OfClient ==
  ASSUME Inv, NEW c \in Clients
  PROVE  /\ ClientOk(pc[c], local[c]) /\ IsLocal(local[c]) /\ Types
         /\ \A i \in Inodes : FileOk(file[i])
  BY DEF Inv, ClientOk

\* Steps that leave files and names alone.
LEMMA QuietSteps ==
  ASSUME Inv, NEW c \in Clients, UNCHANGED <<names, file>>,
         \/ Create(c) \/ RebuildIndex(c) \/ Sync(c) \/ Destroy(c) \/ CleanupSkip(c)
         \/ CleanupScan(c) \/ CleanupDone(c) \/ LookupReturn(c) \/ StoreAccess(c)
         \/ \E n \in Targets : Cleanup(c, n)
         \/ \E a \in Addrs, v \in Codes : LookupOpen(c, a, v) \/ StoreBegin(c, a, v)
  PROVE  Inv'
  <1> PICK r : r = local[c]
    OBVIOUS
  <1>1. ClientOk(pc[c], r) /\ IsLocal(r) /\ Types
    BY OfClient
  <1>2. SUFFICES \/ pc' = pc /\ local' = local
                 \/ \E l, s : ClientOk(l, s) /\ Goto(c, l, s)
    <2>1. \A i \in Inodes : FileOk(file'[i])
      BY DEF Inv
    <2>2. CASE pc' = pc /\ local' = local
      BY <2>1, <2>2 DEF Inv, Types, names
    <2>3. CASE \E l, s : ClientOk(l, s) /\ Goto(c, l, s)
      BY <2>1, <2>3, Moved DEF Inv, Types, names
    <2> QED
      BY <1>2, <2>2, <2>3
  <1>3. CASE Create(c) \/ \E n \in Targets : Cleanup(c, n)
    <2>1. PICK n : Goto(c, "cleanup", [NoLocal EXCEPT !.target = n])
      BY <1>3 DEF Create, Cleanup
    <2>2. ClientOk("cleanup", [NoLocal EXCEPT !.target = n])
      BY DEF ClientOk, IsLocal, NoLocal, OfBlock, PC
    <2> QED
      BY <2>1, <2>2
  <1>4. CASE RebuildIndex(c) \/ Sync(c)
    BY <1>4 DEF RebuildIndex, Sync
  <1>5. CASE Destroy(c) \/ LookupReturn(c)
    BY <1>5, LocalFresh DEF Destroy, LookupReturn, Return
  <1>6. CASE CleanupSkip(c)
    <2>1. pc[c] = "cleanup" /\ Goto(c, r.then, [r EXCEPT !.then = "idle"])
      BY <1>6 DEF CleanupSkip
    <2>2. ClientOk(r.then, [r EXCEPT !.then = "idle"])
      BY <1>1, <2>1 DEF ClientOk, IsLocal, OfBlock, PC
    <2> QED
      BY <2>1, <2>2
  <1>7. CASE CleanupScan(c)
    <2>1. PICK x : pc[c] = "cleanup" /\ Goto(c, "unlink", [r EXCEPT !.list = x])
      BY <1>7 DEF CleanupScan
    <2>2. ClientOk("unlink", [r EXCEPT !.list = x])
      BY <1>1, <2>1 DEF ClientOk, IsLocal, OfBlock, PC
    <2> QED
      BY <2>1, <2>2
  <1>8. CASE CleanupDone(c)
    <2>1. pc[c] = "unlink" /\ Goto(c, r.then, [r EXCEPT !.list = <<>>, !.then = "idle"])
      BY <1>8 DEF CleanupDone
    <2>2. ClientOk(r.then, [r EXCEPT !.list = <<>>, !.then = "idle"])
      BY <1>1, <2>1 DEF ClientOk, IsLocal, OfBlock, PC
    <2> QED
      BY <2>1, <2>2
  <1>9. CASE StoreAccess(c)
    <2>1. pc[c] = "access" /\ (Return(c) \/ Goto(c, "create", [r EXCEPT !.then = "idle"]))
      BY <1>9 DEF StoreAccess
    <2>2. ClientOk("create", [r EXCEPT !.then = "idle"])
      BY <1>1, <2>1 DEF ClientOk, IsLocal, OfBlock, PC
    <2> QED
      BY <2>1, <2>2, LocalFresh DEF Return
  <1>10. ASSUME NEW a \in Addrs, NEW v \in Codes, LookupOpen(c, a, v)
         PROVE  \E l, s : ClientOk(l, s) /\ Goto(c, l, s)
    <2>1. Goto(c, "header", [NoLocal EXCEPT !.addr = a, !.code = v, !.fd = entry[a]])
      BY <1>10 DEF LookupOpen
    <2>2. ClientOk("header", [NoLocal EXCEPT !.addr = a, !.code = v, !.fd = entry[a]])
      BY <1>1, <1>10 DEF ClientOk, IsLocal, NoLocal, OfBlock, PC, LookupOpen, Types
    <2> QED
      BY <2>1, <2>2
  <1>11. ASSUME NEW a \in Addrs, NEW v \in Codes, StoreBegin(c, a, v)
         PROVE  \E l, s : ClientOk(l, s) /\ Goto(c, l, s)
    <2> DEFINE s == [NoLocal EXCEPT !.addr = a, !.code = v, !.target = MaxBytes \div 2,
                                    !.then = "access"]
    <2>1. Goto(c, "cleanup", s) \/ Goto(c, "access", s)
      BY <1>11 DEF StoreBegin
    <2>2. ClientOk("cleanup", s) /\ ClientOk("access", s)
      BY DEF ClientOk, IsLocal, NoLocal, OfBlock, PC
    <2> QED
      BY <2>1, <2>2
  <1> QED
    BY <1>3, <1>4, <1>5, <1>6, <1>7, <1>8, <1>9, <1>10, <1>11

\* Steps that may write files: each file is still one, the client's point is one.
LEMMA WritingStep ==
  ASSUME Inv, NEW c \in Clients, NEW f, Update(f), \A i \in Inodes : FileOk(f[i]),
         entry' \in [Addrs -> Inodes \cup {NULL}], tmp' \in [Addrs -> Inodes \cup {NULL}],
         \/ pc' = pc /\ local' = local
         \/ \E l, s : ClientOk(l, s) /\ Goto(c, l, s)
  PROVE  Inv'
  <1>1. DOMAIN file' = Inodes /\ \A i \in Inodes : FileOk(file'[i])
    BY Updated
  <1>2. CASE pc' = pc /\ local' = local
    BY <1>1, <1>2 DEF Inv, Types
  <1>3. CASE \E l, s : ClientOk(l, s) /\ Goto(c, l, s)
    BY <1>1, <1>3, Moved DEF Inv, Types
  <1> QED
    BY <1>2, <1>3

\* Steps that write no file, but may drop one by taking its last name or
\* closing its last descriptor.
LEMMA DroppingSteps ==
  ASSUME Inv, NEW c \in Clients, Update(file),
         \/ CleanupUnlink(c) \/ LookupStale(c) \/ StoreCloseFails(c) \/ StoreFails(c)
         \/ StoreRename(c) \/ Kill(c) \/ InvalidateAll(c)
         \/ \E a \in Addrs : Invalidate(c, a)
  PROVE  Inv'
  <1> PICK r : r = local[c]
    OBVIOUS
  <1>1. ClientOk(pc[c], r) /\ IsLocal(r) /\ Types /\ \A i \in Inodes : FileOk(file[i])
    BY OfClient
  <1>2. SUFFICES /\ entry' \in [Addrs -> Inodes \cup {NULL}] /\ tmp' \in [Addrs -> Inodes \cup {NULL}]
                 /\ \/ pc' = pc /\ local' = local
                    \/ \E l, s : ClientOk(l, s) /\ Goto(c, l, s)
    BY <1>1, <1>2, WritingStep
  <1>3. CASE CleanupUnlink(c)
    <2>1. PICK x : pc[c] = "unlink" /\ Goto(c, "unlink", [r EXCEPT !.list = x])
      BY <1>3 DEF CleanupUnlink
    <2>2. ClientOk("unlink", [r EXCEPT !.list = x])
      BY <1>1, <2>1 DEF ClientOk, IsLocal, OfBlock, PC
    <2>3. /\ entry' \in [Addrs -> Inodes \cup {NULL}] /\ tmp' \in [Addrs -> Inodes \cup {NULL}]
      BY <1>1, <1>3 DEF CleanupUnlink, Types
    <2> QED
      BY <2>1, <2>2, <2>3
  <1>4. CASE LookupStale(c) \/ StoreFails(c)
    <2>1. /\ entry' \in [Addrs -> Inodes \cup {NULL}] /\ tmp' \in [Addrs -> Inodes \cup {NULL}]
      BY <1>1, <1>4 DEF LookupStale, StoreFails, Types
    <2>2. Goto(c, "idle", NoLocal)
      BY <1>4 DEF LookupStale, StoreFails, Return
    <2> QED
      BY <2>1, <2>2, LocalFresh
  <1>5. CASE StoreCloseFails(c)
    <2>1. pc[c] \in {"append", "write"} /\ Goto(c, "rename", [r EXCEPT !.fd = NULL]) /\ UNCHANGED names
      BY <1>5 DEF StoreCloseFails
    <2>2. ClientOk("rename", [r EXCEPT !.fd = NULL])
      BY <1>1, <2>1 DEF ClientOk, IsLocal, OfBlock, PC
    <2> QED
      BY <1>1, <2>1, <2>2 DEF Types, names
  <1>6. CASE StoreRename(c)
    <2>1. /\ pc[c] = "rename" /\ tmp[r.addr] # NULL /\ Goto(c, "idle", NoLocal)
          /\ entry' = [entry EXCEPT ![r.addr] = tmp[r.addr]] /\ tmp' = [tmp EXCEPT ![r.addr] = NULL]
      BY <1>6 DEF StoreRename, Return
    <2>2. r.addr \in Addrs
      BY <1>1, <2>1 DEF ClientOk, OfBlock
    <2> QED
      BY <1>1, <2>1, <2>2, LocalFresh DEF Types
  <1>7. CASE Kill(c)
    BY <1>1, <1>7, LocalFresh DEF Kill, Types, names
  <1>8. CASE InvalidateAll(c) \/ \E a \in Addrs : Invalidate(c, a)
    BY <1>1, <1>8 DEF InvalidateAll, Invalidate, Types
  <1> QED
    BY <1>3, <1>4, <1>5, <1>6, <1>7, <1>8

\* A client that opens the temporary file truncates it.
LEMMA CreateStep ==
  ASSUME Inv, NEW c \in Clients, StoreCreate(c) PROVE Inv'
  <1> PICK r : r = local[c]
    OBVIOUS
  <1>1. ClientOk(pc[c], r) /\ IsLocal(r) /\ Types /\ \A i \in Inodes : FileOk(file[i])
    BY OfClient
  <1>2. PICK i \in IF tmp[r.addr] # NULL THEN {tmp[r.addr]} ELSE Inodes \ Referenced :
          /\ tmp' = [tmp EXCEPT ![r.addr] = i] /\ Goto(c, "write", [r EXCEPT !.fd = i])
          /\ UNCHANGED entry /\ Update([file EXCEPT ![i] = Blank])
    BY DEF StoreCreate, Opened
  <1>3. pc[c] = "create" /\ r.addr \in Addrs
    BY <1>1 DEF StoreCreate, ClientOk, OfBlock
  <1>4. i \in Inodes
    BY <1>1, <1>2, <1>3 DEF Types
  <1>5. ClientOk("write", [r EXCEPT !.fd = i])
    BY <1>1, <1>3, <1>4 DEF ClientOk, IsLocal, OfBlock, PC
  <1>6. FileOk(Blank)
    BY DEF FileOk, Blank
  <1>7. \A j \in Inodes : FileOk([file EXCEPT ![i] = Blank][j])
    BY <1>1, <1>4, <1>6 DEF Types
  <1>8. entry' \in [Addrs -> Inodes \cup {NULL}] /\ tmp' \in [Addrs -> Inodes \cup {NULL}]
    BY <1>1, <1>2, <1>4 DEF Types
  <1> QED
    BY <1>2, <1>5, <1>7, <1>8, WritingStep

\* Writing the header with the first cell, whatever is in the file.
LEMMA WriteStep ==
  ASSUME Inv, NEW c \in Clients, StoreWrite(c) PROVE Inv'
  <1> PICK r : r = local[c]
    OBVIOUS
  <1>1. ClientOk(pc[c], r) /\ IsLocal(r) /\ Types /\ \A i \in Inodes : FileOk(file[i])
    BY OfClient
  <1>2. PICK i, b, v : i = r.fd /\ v = r.code /\ b = Overwrite(file[i].body, 1, 1, v)
    OBVIOUS
  <1>3. pc[c] = "write" /\ i \in Inodes /\ v \in Codes /\ r.addr \in Addrs
    BY <1>1, <1>2 DEF StoreWrite, ClientOk, OfBlock
  <1>4. /\ Update([file EXCEPT ![i] = [head |-> v, body |-> b]]) /\ UNCHANGED names
        /\ \/ Goto(c, "append", [r EXCEPT !.fd = i]) \/ Goto(c, "rename", [r EXCEPT !.fd = NULL])
    BY <1>1, <1>2, <1>3 DEF StoreWrite, Types
  <1>5. ClientOk("append", [r EXCEPT !.fd = i]) /\ ClientOk("rename", [r EXCEPT !.fd = NULL])
    BY <1>1, <1>3 DEF ClientOk, IsLocal, OfBlock, PC
  <1>6. FileOk([head |-> v, body |-> b])
    BY <1>1, <1>2, <1>3, FirstWritten
  <1>7. \A j \in Inodes : FileOk([file EXCEPT ![i] = [head |-> v, body |-> b]][j])
    BY <1>1, <1>3, <1>6 DEF Types
  <1> QED
    BY <1>1, <1>4, <1>5, <1>7, WritingStep DEF Types, names

\* Writing the other cells, of the file the descriptor leads to.
LEMMA AppendStep ==
  ASSUME Inv, NEW c \in Clients, StoreAppend(c) PROVE Inv'
  <1> PICK r : r = local[c]
    OBVIOUS
  <1>1. ClientOk(pc[c], r) /\ IsLocal(r) /\ Types /\ \A i \in Inodes : FileOk(file[i])
    BY OfClient
  <1>2. PICK i, b, v : i = r.fd /\ v = r.code /\ b = Overwrite(file[i].body, 2, SizeOf[v], v)
    OBVIOUS
  <1>3. pc[c] = "append" /\ i \in Inodes /\ v \in Codes /\ r.addr \in Addrs /\ SizeOf[v] \in Nat \ {0}
    BY <1>1, <1>2 DEF StoreAppend, ClientOk, OfBlock
  <1>4. PICK f : f = [file EXCEPT ![i].body = b]
    OBVIOUS
  <1>5. Update(f) /\ UNCHANGED names /\ Goto(c, "rename", [r EXCEPT !.fd = NULL])
    BY <1>1, <1>2, <1>3, <1>4 DEF StoreAppend, Types
  <1>6. ClientOk("rename", [r EXCEPT !.fd = NULL])
    BY <1>1, <1>3 DEF ClientOk, IsLocal, OfBlock, PC
  <1>7. f[i] = [head |-> file[i].head, body |-> b] /\ \A j \in Inodes : j # i => f[j] = file[j]
    <2>1. file[i] = [head |-> file[i].head, body |-> file[i].body]
      BY <1>1, <1>3 DEF FileOk
    <2> QED
      BY <1>1, <1>3, <1>4, <2>1 DEF Types
  <1>8. FileOk(f[i])
    BY <1>1, <1>2, <1>3, <1>7, RestWritten
  <1>9. \A j \in Inodes : FileOk(f[j])
    BY <1>1, <1>7, <1>8
  <1> QED
    BY <1>1, <1>5, <1>6, <1>9, WritingStep DEF Types, names

\* The header is read with the first cell.
LEMMA HeaderStep ==
  ASSUME Inv, NEW c \in Clients, LookupHeader(c) PROVE Inv'
  <1> PICK r : r = local[c]
    OBVIOUS
  <1>1. ClientOk(pc[c], r) /\ IsLocal(r) /\ Types /\ \A i \in Inodes : FileOk(file[i])
    BY OfClient
  <1>2. PICK b : b = file[r.fd].body
    OBVIOUS
  <1>3. pc[c] = "header" /\ r.fd \in Inodes /\ OfBlock(r) /\ Update(file) /\ UNCHANGED names
    BY <1>1 DEF LookupHeader, ClientOk
  <1>4. \/ Goto(c, "idle", NoLocal)
        \/ Goto(c, "stale", [r EXCEPT !.fd = NULL])
        \/ file[r.fd].head = r.code /\ Goto(c, "code", [r EXCEPT !.buf = SubSeq(b, 1, 1)])
    BY <1>2 DEF LookupHeader, Return
  <1>5. ClientOk("stale", [r EXCEPT !.fd = NULL])
    BY <1>1, <1>3 DEF ClientOk, IsLocal, OfBlock, PC
  <1>6. ASSUME file[r.fd].head = r.code PROVE ClientOk("code", [r EXCEPT !.buf = SubSeq(b, 1, 1)])
    <2>1. b \in Seq(Codes \cup {Zero}) /\ Len(b) >= 1 /\ b[1] = r.code
      BY <1>1, <1>2, <1>3, <1>6 DEF FileOk, OfBlock
    <2>2. SubSeq(b, 1, 1) = <<r.code>>
      <3>1. \A k \in 1..1 : b[k] \in {r.code}
        BY <2>1
      <3>2. SubSeq(b, 1, 1) \in Seq({r.code}) /\ Len(SubSeq(b, 1, 1)) = 1
        BY <3>1, SubSeqProperties
      <3>3. <<r.code>> \in Seq({r.code}) /\ Len(<<r.code>>) = 1
        OBVIOUS
      <3>4. \A k \in 1..1 : SubSeq(b, 1, 1)[k] = <<r.code>>[k]
        BY <3>2, ElementOfSeq
      <3> QED
        BY <3>2, <3>3, <3>4, SeqEqual
    <2> QED
      BY <1>1, <1>3, <2>2 DEF ClientOk, IsLocal, OfBlock, PC
  <1> QED
    BY <1>1, <1>3, <1>4, <1>5, <1>6, LocalFresh, WritingStep DEF Types, names

\* The first cell, read with the header, and the cells after it, read from a
\* file that has enough of them.
LEMMA ReadAll == ASSUME NEW n \in Nat, NEW m \in Nat, n <= m PROVE Min({n, m}) = n
  <1>1. {n, m} \in SUBSET Nat /\ {n, m} # {}
    OBVIOUS
  <1>2. Min({n, m}) \in {n, m} /\ Min({n, m}) <= n
    BY <1>1, MinNat
  <1> QED
    BY <1>2

LEMMA WholeRead ==
  ASSUME NEW b, NEW v, NEW n \in Nat \ {0}, \A k \in 2..n : b[k] = v,
         NEW s, s = SubSeq(b, 2, n), NEW w, w = <<v>> \o s
  PROVE  w = [k \in 1..n |-> v]
  <1>4. s \in Seq({v}) /\ Len(s) = n - 1
    <2>1. \A k \in 2..n : b[k] \in {v}
      OBVIOUS
    <2> QED
      BY <2>1, SubSeqProperties
  <1>6. w \in Seq({v}) /\ Len(w) = n
    <2>1. <<v>> \in Seq({v}) /\ Len(<<v>>) = 1
      OBVIOUS
    <2> QED
      BY <1>4, <2>1, ConcatProperties
  <1>7. PICK t : t = [k \in 1..n |-> v]
    OBVIOUS
  <1>8. t \in Seq({v}) /\ Len(t) = n
    BY <1>7
  <1>9. \A k \in 1..n : w[k] = t[k]
    BY <1>6, <1>8, ElementOfSeq
  <1>10. w = t
    BY <1>6, <1>8, <1>9, SeqEqual
  <1> QED
    BY <1>7, <1>10

\* A client that finds the file complete, and its own code in the cells after
\* the first, has read the translation.
LEMMA ReadStep ==
  ASSUME Inv, NEW c \in Clients, LookupCode(c),
         Complete(c) => \A k \in 2..SizeOf[local[c].code] :
                          file[local[c].fd].body[k] = local[c].code
  PROVE  Inv'
  <1> PICK r : r = local[c]
    OBVIOUS
  <1>1. ClientOk(pc[c], r) /\ IsLocal(r) /\ Types /\ \A i \in Inodes : FileOk(file[i])
    BY OfClient
  <1>2. PICK b, x : b = file[r.fd].body /\ x = ReadRest(c)
    OBVIOUS
  <1>3. /\ pc[c] = "code" /\ r.fd \in Inodes /\ OfBlock(r) /\ r.buf = <<r.code>>
        /\ Update(file) /\ UNCHANGED names
    BY <1>1 DEF LookupCode, ClientOk
  <1>4. \/ Goto(c, "idle", NoLocal)
        \/ Complete(c) /\ Goto(c, "hit", [r EXCEPT !.buf = x, !.fd = NULL])
    BY <1>2 DEF LookupCode, Return
  <1>5. ASSUME Complete(c) PROVE ClientOk("hit", [r EXCEPT !.buf = x, !.fd = NULL])
    <2>1. PICK n \in Nat \ {0} : n = SizeOf[r.code]
      BY <1>3 DEF OfBlock
    <2>2. b \in Seq(Codes \cup {Zero})
      BY <1>1, <1>2, <1>3 DEF FileOk
    <2>3. Len(b) \in Nat /\ n <= Len(b)
      BY <1>2, <1>5, <2>1, <2>2, LenProperties DEF Complete
    <2>4. \A k \in 2..n : b[k] = r.code
      BY <1>2, <1>5, <2>1
    <2>5. x = <<r.code>> \o SubSeq(b, Len(<<r.code>>) + 1, Min({n, Len(b)}))
      BY <1>2, <1>3, <2>1 DEF ReadRest
    <2>6. x = [k \in 1..n |-> r.code]
      <3>1. PICK u, m, s : u = r.code /\ m = Len(b) /\ s = SubSeq(b, 2, n)
        OBVIOUS
      <3>2. Min({n, m}) = n
        BY <2>3, <3>1, ReadAll
      <3>3. Len(<<u>>) + 1 = 2
        OBVIOUS
      <3>4. x = <<u>> \o s
        BY <2>5, <3>1, <3>2, <3>3
      <3>5. \A k \in 2..n : b[k] = u
        BY <2>4, <3>1
      <3> QED
        BY <3>1, <3>4, <3>5, WholeRead
    <2>7. x = Translation(r.code)
      BY <2>1, <2>6 DEF Translation
    <2> QED
      BY <1>1, <1>3, <2>7 DEF ClientOk, IsLocal, OfBlock, PC
  <1> QED
    BY <1>1, <1>3, <1>4, <1>5, LocalFresh, WritingStep DEF Types, names

\* With one version of the code, whoever wrote the cells wrote the same.
LEMMA CodeStep ==
  ASSUME Inv, NEW v, Codes = {v}, NEW c \in Clients, LookupCode(c) PROVE Inv'
  <1> PICK r : r = local[c]
    OBVIOUS
  <1>1. pc[c] = "code" /\ r.fd \in Inodes /\ r.code \in Codes /\ FileOk(file[r.fd])
    BY OfClient DEF LookupCode, ClientOk, OfBlock
  <1>2. PICK b, n : b = file[r.fd].body /\ n = SizeOf[r.code] /\ n \in Nat
    BY <1>1
  <1>3. b \in Seq(Codes \cup {Zero}) /\ \A k \in 2..Len(b) : b[k] \in Codes
    BY <1>1, <1>2 DEF FileOk
  <1>4. Complete(c) => \A k \in 2..n : b[k] = r.code
    BY <1>1, <1>2, <1>3, LenProperties DEF Complete
  <1> QED
    BY <1>2, <1>4, ReadStep

\* Every step but the one above keeps the invariant, whatever the code.
LEMMA OtherSteps ==
  ASSUME Inv, NEW c \in Clients, Call(c) \/ Step(c) \/ Kill(c), ~ LookupCode(c) PROVE Inv'
  <1>1. CASE \/ Create(c) \/ RebuildIndex(c) \/ Sync(c) \/ Destroy(c) \/ CleanupSkip(c)
             \/ CleanupScan(c) \/ CleanupDone(c) \/ LookupReturn(c) \/ StoreAccess(c)
             \/ \E n \in Targets : Cleanup(c, n)
             \/ \E a \in Addrs, v \in Codes : LookupOpen(c, a, v) \/ StoreBegin(c, a, v)
    <2>1. UNCHANGED <<names, file>>
      BY <1>1 DEF Create, RebuildIndex, Sync, Destroy, CleanupSkip, CleanupScan, CleanupDone,
                  LookupReturn, StoreAccess, Cleanup, LookupOpen, StoreBegin
    <2> QED
      BY <1>1, <2>1, QuietSteps
  <1>2. CASE \/ CleanupUnlink(c) \/ LookupStale(c) \/ StoreCloseFails(c) \/ StoreFails(c)
             \/ StoreRename(c) \/ Kill(c) \/ InvalidateAll(c)
             \/ \E a \in Addrs : Invalidate(c, a)
    <2>1. Update(file)
      BY <1>2 DEF CleanupUnlink, LookupStale, StoreCloseFails, StoreFails, StoreRename, Kill,
                  InvalidateAll, Invalidate
    <2> QED
      BY <1>2, <2>1, DroppingSteps
  <1>3. CASE StoreCreate(c) \/ StoreWrite(c) \/ StoreAppend(c) \/ LookupHeader(c)
    BY <1>3, CreateStep, WriteStep, AppendStep, HeaderStep
  <1> QED
    BY <1>1, <1>2, <1>3 DEF Call, Step

LEMMA Start == ASSUME Init PROVE Inv
  <1>1. FileOk(Blank)
    BY DEF FileOk, Blank
  <1> QED
    BY <1>1, LocalFresh DEF Init, Inv, Types

LEMMA Stutter == ASSUME Inv, UNCHANGED vars PROVE Inv'
  BY DEF Inv, Types, vars, names

-----------------------------------------------------------------------------
\* While all processes run the same version of the code, a hit returns its whole
\* translation, for any number of processes that store, look up, invalidate,
\* clean up, fail and are killed in any order, although they write the same
\* temporary file at the same time (arm2x86_pcache_lookup, arm2x86_pcache_store).
THEOREM HitsOfOneVersion == ASSUME NEW v, Codes = {v} PROVE Spec => []HitIsTranslation
  <1>1. Init => Inv
    BY Start
  <1>2. Inv /\ [Next]_vars => Inv'
    BY OtherSteps, CodeStep, Stutter DEF Next
  <1>3. Inv => HitIsTranslation
    BY DEF Inv, ClientOk, HitIsTranslation
  <1> QED
    BY <1>1, <1>2, <1>3, PTL DEF Spec

-----------------------------------------------------------------------------
(***************************************************************************)
(* One client at a time, with any versions of the code: what it writes is  *)
(* the beginning of one translation or the whole of it.                    *)
(***************************************************************************)
Part(v)  == [head |-> v, body |-> <<v>>]
Whole(v) == [head |-> v, body |-> Translation(v)]

OneFile(f) == f = Blank \/ \E v \in Codes : f = Part(v) \/ f = Whole(v)

\* What the client knows of the file it has open.
OpenFile(c) ==
  /\ pc[c] = "write" => file[local[c].fd] = Blank
  /\ pc[c] = "append" => file[local[c].fd] = Part(local[c].code)
  /\ pc[c] = "code" => file[local[c].fd] \in {Part(local[c].code), Whole(local[c].code)}

OneInv(c) == Inv /\ OpenFile(c) /\ \A i \in Inodes : OneFile(file[i])

\* The cells one client writes into a truncated file.
LEMMA FirstCell == ASSUME NEW v PROVE Overwrite(<<>>, 1, 1, v) = <<v>>
  BY DEF Overwrite

LEMMA OtherCells ==
  ASSUME NEW v \in Codes PROVE Overwrite(<<v>>, 2, SizeOf[v], v) = Translation(v)
  <1>1. PICK n \in Nat \ {0} : n = SizeOf[v]
    OBVIOUS
  <1>2. (IF 1 > n THEN 1 ELSE n) = n
    OBVIOUS
  <1>3. Len(<<v>>) = 1 /\ <<v>>[1] = v
    OBVIOUS
  <1>4. PICK b : b = <<v>>
    OBVIOUS
  <1>5. \A k \in 1..n : (IF k \in 2..n THEN v ELSE IF k <= 1 THEN b[k] ELSE Zero) = v
    BY <1>3, <1>4
  <1>6. Overwrite(b, 2, n, v) = [k \in 1..n |-> IF k \in 2..n THEN v ELSE IF k <= 1 THEN b[k] ELSE Zero]
    BY <1>2, <1>3, <1>4 DEF Overwrite
  <1> QED
    BY <1>1, <1>4, <1>5, <1>6 DEF Translation

\* A step after which the client reads and writes no file.
LEMMA OneQuiet ==
  ASSUME NEW c, OneInv(c), Inv', Update(file) \/ file' = file, pc'[c] \notin {"write", "append", "code"}
  PROVE  OneInv(c)'
  <1>1. \A i \in Inodes : file'[i] = file[i] \/ file'[i] = Blank
    BY DEF Update
  <1>2. \A i \in Inodes : OneFile(file'[i])
    BY <1>1 DEF OneInv, OneFile
  <1>3. OpenFile(c)'
    BY DEF OpenFile
  <1> QED
    BY <1>2, <1>3 DEF OneInv

\* A step after which the client has file i open, and which writes no other.
LEMMA OneOpen ==
  ASSUME NEW c \in Clients, OneInv(c), Inv', NEW i \in Inodes, NEW x, OneFile(x),
         NEW f, Update(f), f[i] = x, \A j \in Inodes : j # i => f[j] = file[j],
         local'[c].fd = i,
         \/ pc'[c] = "write" /\ x = Blank
         \/ pc'[c] = "append" /\ x = Part(local'[c].code)
         \/ pc'[c] = "code" /\ x \in {Part(local'[c].code), Whole(local'[c].code)}
  PROVE  OneInv(c)'
  <1>1. i \in Referenced'
    BY DEF Referenced
  <1>2. file'[i] = x
    BY <1>1 DEF Update
  <1>3. \A j \in Inodes : file'[j] = f[j] \/ file'[j] = Blank
    BY DEF Update
  <1>4. \A j \in Inodes : OneFile(file'[j])
    BY <1>2, <1>3 DEF OneInv, OneFile
  <1>5. OpenFile(c)'
    BY <1>2 DEF OpenFile
  <1> QED
    BY <1>4, <1>5 DEF OneInv

\* A step that writes file i and after which the client has no file open.
LEMMA OneClosed ==
  ASSUME NEW c, OneInv(c), Inv', NEW f, Update(f), NEW i, NEW x, OneFile(x), f[i] = x,
         \A j \in Inodes : j # i => f[j] = file[j], pc'[c] = "rename"
  PROVE  OneInv(c)'
  <1>1. \A j \in Inodes : file'[j] = f[j] \/ file'[j] = Blank
    BY DEF Update
  <1>2. \A j \in Inodes : OneFile(file'[j])
    BY <1>1 DEF OneInv, OneFile
  <1>3. OpenFile(c)'
    BY DEF OpenFile
  <1> QED
    BY <1>2, <1>3 DEF OneInv

\* Where a step leads, and what it does to the files.
LEMMA Quiet ==
  ASSUME Types, NEW c \in Clients, Call(c) \/ Step(c) \/ Kill(c),
         ~ LookupHeader(c), ~ StoreCreate(c), ~ StoreWrite(c), ~ StoreAppend(c), ClientOk(pc[c], local[c])
  PROVE  (Update(file) \/ file' = file) /\ pc'[c] \notin {"write", "append", "code"}
  <1>1. DOMAIN pc = Clients
    BY DEF Types
  <1>2. CASE Create(c) \/ RebuildIndex(c) \/ Sync(c) \/ Destroy(c) \/ \E n \in Targets : Cleanup(c, n)
    BY <1>1, <1>2 DEF Create, RebuildIndex, Sync, Destroy, Cleanup, Goto
  <1>3. CASE CleanupSkip(c) \/ CleanupScan(c) \/ CleanupDone(c) \/ CleanupUnlink(c)
    BY <1>1, <1>3 DEF CleanupSkip, CleanupScan, CleanupDone, CleanupUnlink, Goto, ClientOk
  <1>4. CASE LookupStale(c) \/ LookupCode(c) \/ LookupReturn(c)
    BY <1>1, <1>4 DEF LookupStale, LookupCode, LookupReturn, Return, Goto
  <1>5. CASE StoreAccess(c) \/ StoreCloseFails(c) \/ StoreFails(c) \/ StoreRename(c)
    BY <1>1, <1>5 DEF StoreAccess, StoreCloseFails, StoreFails, StoreRename, Return, Goto
  <1>6. CASE Kill(c) \/ InvalidateAll(c) \/ \E a \in Addrs : Invalidate(c, a)
    BY <1>1, <1>6 DEF Kill, InvalidateAll, Invalidate, Goto
  <1>7. CASE \E a \in Addrs, v \in Codes : LookupOpen(c, a, v) \/ StoreBegin(c, a, v)
    BY <1>1, <1>7 DEF LookupOpen, StoreBegin, Goto
  <1> QED
    BY <1>2, <1>3, <1>4, <1>5, <1>6, <1>7 DEF Call, Step

\* A whole file has every cell of its code; the beginning of one is long enough
\* only when there is one cell.
LEMMA OneRead ==
  ASSUME NEW c \in Clients, OneInv(c), LookupCode(c) PROVE Inv'
  <1> PICK r : r = local[c]
    OBVIOUS
  <1>1. pc[c] = "code" /\ r.code \in Codes /\ Inv
    BY OfClient DEF LookupCode, ClientOk, OfBlock, OneInv
  <1>2. PICK b, n : b = file[r.fd].body /\ n = SizeOf[r.code] /\ n \in Nat \ {0}
    BY <1>1
  <1>3. ASSUME Complete(c) PROVE \A k \in 2..n : b[k] = r.code
    <2>1. n <= Len(b)
      BY <1>2, <1>3 DEF Complete
    <2>2. CASE file[r.fd] = Part(r.code)
      <3>1. b = <<r.code>>
        BY <1>2, <2>2 DEF Part
      <3>2. Len(b) = 1
        BY <3>1
      <3> QED
        BY <1>2, <2>1, <3>2
    <2>3. CASE file[r.fd] = Whole(r.code)
      <3>1. b = [k \in 1..n |-> r.code]
        BY <1>2, <2>3 DEF Whole, Translation
      <3> QED
        BY <3>1
    <2> QED
      BY <1>1, <2>2, <2>3 DEF OneInv, OpenFile
  <1> QED
    BY <1>1, <1>2, <1>3, ReadStep

LEMMA OneStep ==
  ASSUME NEW c, Clients = {c}, OneInv(c), [Next]_vars PROVE OneInv(c)'
  <1> PICK r : r = local[c]
    OBVIOUS
  <1>1. ClientOk(pc[c], r) /\ IsLocal(r) /\ Types /\ c \in Clients /\ Inv
    BY OfClient DEF OneInv
  <1>2. CASE UNCHANGED vars
    BY <1>1, <1>2, Stutter DEF OneInv, OpenFile, OneFile, vars
  <1>3. SUFFICES ASSUME Call(c) \/ Step(c) \/ Kill(c) PROVE OneInv(c)'
    BY <1>2 DEF Next
  <1>4. Inv'
    BY <1>1, <1>3, OtherSteps, OneRead
  <1>5. CASE LookupHeader(c)
    <2>1. PICK b, h : b = file[r.fd].body /\ h = file[r.fd].head
      OBVIOUS
    <2>2. /\ pc[c] = "header" /\ r.fd \in Inodes /\ OfBlock(r) /\ Update(file)
      BY <1>1, <1>5 DEF LookupHeader, ClientOk
    <2>3. \/ pc'[c] \in {"idle", "stale"}
          \/ pc'[c] = "code" /\ h = r.code /\ local'[c] = [r EXCEPT !.buf = SubSeq(b, 1, 1)]
      BY <1>1, <1>5, <2>1 DEF LookupHeader, Return, Goto, Types
    <2>4. CASE pc'[c] \in {"idle", "stale"}
      BY <1>4, <2>2, <2>4, OneQuiet
    <2>5. CASE pc'[c] = "code" /\ h = r.code /\ local'[c] = [r EXCEPT !.buf = SubSeq(b, 1, 1)]
      <3>1. local'[c].fd = r.fd /\ local'[c].code = r.code
        BY <1>1, <2>5 DEF IsLocal
      <3>2. OneFile(file[r.fd])
        BY <2>2 DEF OneInv
      <3>3. file[r.fd] \in {Part(r.code), Whole(r.code)}
        <4>1. file[r.fd] # Blank
          <5>1. Blank.head = NULL
            BY DEF Blank
          <5>2. h # NULL
            BY <2>2, <2>5 DEF OfBlock
          <5> QED
            BY <2>1, <5>1, <5>2
        <4>2. PICK v \in Codes : file[r.fd] = Part(v) \/ file[r.fd] = Whole(v)
          BY <3>2, <4>1 DEF OneFile
        <4>3. v = h
          BY <2>1, <4>2 DEF Part, Whole
        <4> QED
          BY <2>5, <4>2, <4>3
      <3> QED
        BY <1>1, <1>4, <2>2, <2>5, <3>1, <3>2, <3>3, OneOpen
    <2> QED
      BY <2>3, <2>4, <2>5
  <1>6. CASE StoreCreate(c)
    <2>1. PICK i \in IF tmp[r.addr] # NULL THEN {tmp[r.addr]} ELSE Inodes \ Referenced :
            Goto(c, "write", [r EXCEPT !.fd = i]) /\ Update([file EXCEPT ![i] = Blank])
      BY <1>6 DEF StoreCreate, Opened
    <2>2. pc[c] = "create" /\ r.addr \in Addrs
      BY <1>1, <1>6 DEF StoreCreate, ClientOk, OfBlock
    <2>3. i \in Inodes
      BY <1>1, <2>1, <2>2 DEF Types
    <2>4. pc'[c] = "write" /\ local'[c].fd = i
      BY <1>1, <2>1 DEF Goto, Types, IsLocal
    <2>5. PICK f : f = [file EXCEPT ![i] = Blank]
      OBVIOUS
    <2>6. f[i] = Blank /\ \A j \in Inodes : j # i => f[j] = file[j]
      BY <1>1, <2>3, <2>5 DEF Types
    <2>7. OneFile(Blank)
      BY DEF OneFile
    <2> QED
      BY <1>1, <1>4, <2>1, <2>3, <2>4, <2>5, <2>6, <2>7, OneOpen
  <1>7. CASE StoreWrite(c)
    <2>1. PICK i, v : i = r.fd /\ v = r.code
      OBVIOUS
    <2>2. pc[c] = "write" /\ i \in Inodes /\ v \in Codes /\ file[i] = Blank
      BY <1>1, <1>7, <2>1 DEF StoreWrite, ClientOk, OfBlock, OneInv, OpenFile
    <2>3. PICK f : f = [file EXCEPT ![i] = Part(v)]
      OBVIOUS
    <2>4. f[i] = Part(v) /\ \A j \in Inodes : j # i => f[j] = file[j]
      BY <1>1, <2>2, <2>3 DEF Types
    <2>5. Update(f)
      <3>1. file[i].body = <<>>
        BY <2>2 DEF Blank
      <3>2. Overwrite(file[i].body, 1, 1, v) = <<v>>
        BY <3>1, FirstCell
      <3>3. Update([file EXCEPT ![i] = [head |-> v, body |-> Overwrite(file[i].body, 1, 1, v)]])
        BY <1>1, <1>7, <2>1, <2>2 DEF StoreWrite, Types
      <3> QED
        BY <2>3, <3>2, <3>3 DEF Part
    <2>6. OneFile(Part(v))
      BY <2>2 DEF OneFile
    <2>7. \/ pc'[c] = "append" /\ local'[c].fd = i /\ local'[c].code = v
          \/ pc'[c] = "rename"
      BY <1>1, <1>7, <2>1 DEF StoreWrite, Goto, Types, IsLocal
    <2>8. CASE pc'[c] = "append" /\ local'[c].fd = i /\ local'[c].code = v
      BY <1>1, <1>4, <2>2, <2>4, <2>5, <2>6, <2>8, OneOpen
    <2>9. CASE pc'[c] = "rename"
      BY <1>4, <2>4, <2>5, <2>6, <2>9, OneClosed
    <2> QED
      BY <2>7, <2>8, <2>9
  <1>8. CASE StoreAppend(c)
    <2>1. PICK i, v : i = r.fd /\ v = r.code
      OBVIOUS
    <2>2. pc[c] = "append" /\ i \in Inodes /\ v \in Codes /\ file[i] = Part(v)
      BY <1>1, <1>8, <2>1 DEF StoreAppend, ClientOk, OfBlock, OneInv, OpenFile
    <2>3. PICK f : f = [file EXCEPT ![i].body = Overwrite(file[i].body, 2, SizeOf[v], v)]
      OBVIOUS
    <2>4. f[i] = Whole(v) /\ \A j \in Inodes : j # i => f[j] = file[j]
      <3>1. Overwrite(file[i].body, 2, SizeOf[v], v) = Translation(v)
        BY <2>2, OtherCells DEF Part
      <3> QED
        BY <1>1, <2>2, <2>3, <3>1 DEF Types, Part, Whole
    <2>5. Update(f) /\ pc'[c] = "rename"
      BY <1>1, <1>8, <2>1, <2>2, <2>3 DEF StoreAppend, Types, Goto
    <2>6. OneFile(Whole(v))
      BY <2>2 DEF OneFile
    <2> QED
      BY <1>4, <2>4, <2>5, <2>6, OneClosed
  <1>9. CASE ~ LookupHeader(c) /\ ~ StoreCreate(c) /\ ~ StoreWrite(c) /\ ~ StoreAppend(c)
    BY <1>1, <1>3, <1>4, <1>9, Quiet, OneQuiet
  <1> QED
    BY <1>5, <1>6, <1>7, <1>8, <1>9

\* With one client, a hit returns the whole translation of the code it was asked
\* for, whatever versions were stored before, wherever a store was interrupted
\* or failed, and although nobody looks at the result of the last write
\* (arm2x86_pcache_lookup).
THEOREM HitsOfOneClient == ASSUME NEW one, Clients = {one} PROVE Spec => []HitIsTranslation
  <1>1. Init => OneInv(one)
    BY Start DEF Init, OneInv, OpenFile, OneFile
  <1>2. OneInv(one) /\ [Next]_vars => OneInv(one)'
    BY OneStep
  <1>3. OneInv(one) => HitIsTranslation
    BY DEF OneInv, Inv, ClientOk, HitIsTranslation
  <1> QED
    BY <1>1, <1>2, <1>3, PTL DEF Spec

-----------------------------------------------------------------------------
(***************************************************************************)
(* One client and no failing writes: what is published is whole.  The file *)
(* under the temporary name is no entry, and leads to no other address.    *)
(***************************************************************************)
Apart ==
  /\ \A a \in Addrs, b \in Addrs : entry[a] # NULL => entry[a] # tmp[b]
  /\ \A a \in Addrs, b \in Addrs : tmp[a] # NULL /\ tmp[a] = tmp[b] => a = b

Entries == \A a \in Addrs : entry[a] # NULL => \E v \in Codes : file[entry[a]] = Whole(v)

\* Where the file that is being stored is.
Storing(c) ==
  /\ pc[c] \in {"write", "append"} => tmp[local[c].addr] = local[c].fd
  /\ pc[c] = "rename" => /\ tmp[local[c].addr] # NULL
                         /\ file[tmp[local[c].addr]] = Whole(local[c].code)

WholeInv(c) == OneInv(c) /\ Apart /\ Entries /\ Storing(c)

\* A file with a name is kept by an update.
LEMMA NamedKept ==
  ASSUME NEW f, Update(f) \/ file' = f, Types', NEW a \in Addrs
  PROVE  /\ entry'[a] # NULL => file'[entry'[a]] = f[entry'[a]]
         /\ tmp'[a] # NULL => file'[tmp'[a]] = f[tmp'[a]]
  <1>1. (entry'[a] # NULL => entry'[a] \in Inodes) /\ (tmp'[a] # NULL => tmp'[a] \in Inodes)
    BY DEF Types
  <1>2. entry'[a] \in Referenced' /\ tmp'[a] \in Referenced'
    BY DEF Referenced
  <1> QED
    BY <1>1, <1>2 DEF Update

\* A step that writes no entry and takes no name to another file.
LEMMA EntriesStay ==
  ASSUME NEW c, WholeInv(c), NEW f, Update(f) \/ file' = f, Types',
         \A a \in Addrs : entry'[a] # NULL => entry'[a] = entry[a] /\ f[entry[a]] = file[entry[a]]
  PROVE  Entries'
  <1>1. ASSUME NEW a \in Addrs, entry'[a] # NULL PROVE file'[entry'[a]] = file[entry[a]]
    BY <1>1, NamedKept
  <1> QED
    BY <1>1 DEF WholeInv, Entries

\* Writing the temporary file writes no entry.
LEMMA TmpWritten ==
  ASSUME NEW c, WholeInv(c), Types, Types', NEW a \in Addrs, NEW i \in Inodes, tmp[a] = i, i # NULL,
         NEW f, Update(f), \A j \in Inodes : j # i => f[j] = file[j], UNCHANGED <<entry, tmp>>
  PROVE  Apart' /\ Entries' /\ file'[i] = f[i]
  <1>1. Apart'
    BY DEF WholeInv, Apart
  <1>2. \A b \in Addrs : entry'[b] # NULL => entry'[b] = entry[b] /\ f[entry[b]] = file[entry[b]]
    BY DEF WholeInv, Apart, Types
  <1>3. Entries'
    BY <1>2, EntriesStay
  <1>4. tmp'[a] = i /\ (tmp'[a] # NULL => file'[tmp'[a]] = f[tmp'[a]])
    BY NamedKept
  <1> QED
    BY <1>1, <1>3, <1>4

LEMMA OneCell == ASSUME NEW v \in Codes, SizeOf[v] <= 1 PROVE Part(v) = Whole(v)
  <1>1. SizeOf[v] = 1
    OBVIOUS
  <1>2. <<v>> = [k \in 1..1 |-> v]
    OBVIOUS
  <1> QED
    BY <1>1, <1>2 DEF Part, Whole, Translation

\* The steps that store nothing take names away at most.
LEMMA NoStore ==
  ASSUME Types, NEW c \in Clients, Call(c) \/ Step(c) \/ Kill(c), ClientOk(pc[c], local[c]),
         ~ StoreCreate(c), ~ StoreWrite(c), ~ StoreAppend(c), ~ StoreRename(c), IOErrors = FALSE
  PROVE  /\ Update(file) \/ file' = file
         /\ \A a \in Addrs : entry'[a] # NULL => entry'[a] = entry[a]
         /\ \A a \in Addrs : tmp'[a] # NULL => tmp'[a] = tmp[a]
         /\ pc'[c] \notin {"write", "append", "rename"}
  <1>1. DOMAIN pc = Clients /\ DOMAIN entry = Addrs /\ DOMAIN tmp = Addrs
    BY DEF Types
  <1>2. CASE Create(c) \/ RebuildIndex(c) \/ Sync(c) \/ Destroy(c) \/ \E n \in Targets : Cleanup(c, n)
    BY <1>1, <1>2 DEF Create, RebuildIndex, Sync, Destroy, Cleanup, Goto, names
  <1>3. CASE CleanupSkip(c) \/ CleanupScan(c) \/ CleanupDone(c)
    BY <1>1, <1>3 DEF CleanupSkip, CleanupScan, CleanupDone, Goto, ClientOk, names
  <1>4. CASE CleanupUnlink(c)
    BY <1>1, <1>4 DEF CleanupUnlink, Goto
  <1>5. CASE LookupHeader(c) \/ LookupCode(c)
    BY <1>1, <1>5 DEF LookupHeader, LookupCode, Return, Goto, names
  <1>6. CASE LookupStale(c) \/ LookupReturn(c)
    BY <1>1, <1>6 DEF LookupStale, LookupReturn, Return, Goto, names
  <1>7. CASE StoreAccess(c) \/ StoreCloseFails(c)
    BY <1>1, <1>7 DEF StoreAccess, StoreCloseFails, Return, Goto, names
  <1>8. CASE StoreFails(c)
    BY <1>1, <1>8 DEF StoreFails, Return, Goto
  <1>9. CASE Kill(c)
    BY <1>1, <1>9 DEF Kill, Goto, names
  <1>10. CASE InvalidateAll(c) \/ \E a \in Addrs : Invalidate(c, a)
    BY <1>1, <1>10 DEF InvalidateAll, Invalidate
  <1>11. CASE \E a \in Addrs, v \in Codes : LookupOpen(c, a, v) \/ StoreBegin(c, a, v)
    BY <1>1, <1>11 DEF LookupOpen, StoreBegin, Goto, names
  <1> QED
    BY <1>2, <1>3, <1>4, <1>5, <1>6, <1>7, <1>8, <1>9, <1>10, <1>11 DEF Call, Step

LEMMA WholeStep ==
  ASSUME NEW c, Clients = {c}, IOErrors = FALSE, WholeInv(c), [Next]_vars PROVE WholeInv(c)'
  <1> PICK r : r = local[c]
    OBVIOUS
  <1>1. ClientOk(pc[c], r) /\ IsLocal(r) /\ Types /\ c \in Clients /\ OneInv(c)
    BY OfClient DEF WholeInv, OneInv
  <1>2. CASE UNCHANGED vars
    BY <1>1, <1>2, OneStep DEF WholeInv, Apart, Entries, Storing, vars, names
  <1>3. SUFFICES ASSUME Call(c) \/ Step(c) \/ Kill(c) PROVE WholeInv(c)'
    BY <1>2 DEF Next
  <1>4. OneInv(c)' /\ Types'
    BY <1>1, OneStep DEF OneInv, Inv
  <1>5. CASE ~ StoreCreate(c) /\ ~ StoreWrite(c) /\ ~ StoreAppend(c) /\ ~ StoreRename(c)
    <2>1. /\ Update(file) \/ file' = file
          /\ \A a \in Addrs : entry'[a] # NULL => entry'[a] = entry[a]
          /\ \A a \in Addrs : tmp'[a] # NULL => tmp'[a] = tmp[a]
          /\ pc'[c] \notin {"write", "append", "rename"}
      BY <1>1, <1>3, <1>5, NoStore
    <2>2. Apart'
      BY <2>1 DEF WholeInv, Apart
    <2>3. Entries'
      BY <1>4, <2>1, EntriesStay
    <2> QED
      BY <1>4, <2>1, <2>2, <2>3 DEF WholeInv, Storing
  <1>6. CASE StoreCreate(c)
    <2>1. PICK i \in IF tmp[r.addr] # NULL THEN {tmp[r.addr]} ELSE Inodes \ Referenced :
            /\ tmp' = [tmp EXCEPT ![r.addr] = i] /\ Goto(c, "write", [r EXCEPT !.fd = i])
            /\ UNCHANGED entry /\ Update([file EXCEPT ![i] = Blank])
      BY <1>6 DEF StoreCreate, Opened
    <2>2. pc[c] = "create" /\ r.addr \in Addrs
      BY <1>1, <1>6 DEF StoreCreate, ClientOk, OfBlock
    <2>3. i \in Inodes /\ i # NULL
      BY <1>1, <2>1, <2>2 DEF Types
    <2>4. \A a \in Addrs : (entry[a] # NULL => entry[a] # i) /\ (tmp[a] = i => a = r.addr)
      BY <2>1, <2>2, <2>3 DEF WholeInv, Apart, Referenced
    <2>5. Apart'
      BY <1>1, <2>1, <2>2, <2>4 DEF WholeInv, Apart, Types
    <2>6. PICK f : f = [file EXCEPT ![i] = Blank]
      OBVIOUS
    <2>7. \A a \in Addrs : entry'[a] # NULL => entry'[a] = entry[a] /\ f[entry[a]] = file[entry[a]]
      BY <1>1, <2>1, <2>3, <2>4, <2>6 DEF Types
    <2>8. Entries'
      BY <1>4, <2>1, <2>6, <2>7, EntriesStay
    <2>9. pc'[c] = "write" /\ local'[c].addr = r.addr /\ local'[c].fd = i /\ tmp'[r.addr] = i
      BY <1>1, <2>1, <2>2 DEF Goto, Types, IsLocal
    <2> QED
      BY <1>4, <2>5, <2>8, <2>9 DEF WholeInv, Storing
  <1>7. CASE StoreWrite(c)
    <2>1. PICK i, v : i = r.fd /\ v = r.code
      OBVIOUS
    <2>2. /\ pc[c] = "write" /\ i \in Inodes /\ v \in Codes /\ file[i] = Blank /\ r.addr \in Addrs
          /\ tmp[r.addr] = i /\ i # NULL
      BY <1>1, <1>7, <2>1 DEF StoreWrite, ClientOk, OfBlock, OneInv, OpenFile, WholeInv, Storing
    <2>3. PICK f : f = [file EXCEPT ![i] = Part(v)]
      OBVIOUS
    <2>4. Update(f)
      <3>1. file[i].body = <<>>
        BY <2>2 DEF Blank
      <3>2. Overwrite(file[i].body, 1, 1, v) = <<v>>
        BY <3>1, FirstCell
      <3>3. Update([file EXCEPT ![i] = [head |-> v, body |-> Overwrite(file[i].body, 1, 1, v)]])
        BY <1>1, <1>7, <2>1, <2>2 DEF StoreWrite, Types
      <3> QED
        BY <2>3, <3>2, <3>3 DEF Part
    <2>5. UNCHANGED <<entry, tmp>>
      BY <1>7 DEF StoreWrite, names
    <2>6. Apart' /\ Entries' /\ file'[i] = Part(v)
      <3>1. f[i] = Part(v) /\ \A j \in Inodes : j # i => f[j] = file[j]
        BY <1>1, <2>2, <2>3 DEF Types
      <3> QED
        BY <1>1, <1>4, <2>2, <2>4, <2>5, <3>1, TmpWritten
    <2>7. /\ local'[c].addr = r.addr /\ local'[c].code = v
          /\ \/ pc'[c] = "append" /\ local'[c].fd = i
             \/ pc'[c] = "rename" /\ SizeOf[v] <= 1
      BY <1>1, <1>7, <2>1, <2>2 DEF StoreWrite, Goto, Types, IsLocal
    <2>8. SizeOf[v] <= 1 => Part(v) = Whole(v)
      BY <2>2, OneCell
    <2> QED
      BY <1>4, <2>2, <2>5, <2>6, <2>7, <2>8 DEF WholeInv, Storing
  <1>8. CASE StoreAppend(c)
    <2>1. PICK i, v : i = r.fd /\ v = r.code
      OBVIOUS
    <2>2. /\ pc[c] = "append" /\ i \in Inodes /\ v \in Codes /\ file[i] = Part(v) /\ r.addr \in Addrs
          /\ tmp[r.addr] = i /\ i # NULL
      BY <1>1, <1>8, <2>1 DEF StoreAppend, ClientOk, OfBlock, OneInv, OpenFile, WholeInv, Storing
    <2>3. PICK f : f = [file EXCEPT ![i].body = Overwrite(file[i].body, 2, SizeOf[v], v)]
      OBVIOUS
    <2>4. f[i] = Whole(v) /\ \A j \in Inodes : j # i => f[j] = file[j]
      <3>1. Overwrite(file[i].body, 2, SizeOf[v], v) = Translation(v)
        BY <2>2, OtherCells DEF Part
      <3> QED
        BY <1>1, <2>2, <2>3, <3>1 DEF Types, Part, Whole
    <2>5. Update(f) /\ UNCHANGED <<entry, tmp>>
      BY <1>1, <1>8, <2>1, <2>2, <2>3 DEF StoreAppend, Types, names
    <2>6. Apart' /\ Entries' /\ file'[i] = Whole(v)
      BY <1>1, <1>4, <2>2, <2>4, <2>5, TmpWritten
    <2>7. local'[c].addr = r.addr /\ local'[c].code = v /\ pc'[c] = "rename"
      BY <1>1, <1>8, <2>1, <2>2 DEF StoreAppend, Goto, Types, IsLocal
    <2> QED
      BY <1>4, <2>2, <2>5, <2>6, <2>7 DEF WholeInv, Storing
  <1>9. CASE StoreRename(c)
    <2>1. /\ pc[c] = "rename" /\ tmp[r.addr] # NULL /\ Update(file) /\ pc'[c] = "idle"
          /\ entry' = [entry EXCEPT ![r.addr] = tmp[r.addr]] /\ tmp' = [tmp EXCEPT ![r.addr] = NULL]
      BY <1>1, <1>9 DEF StoreRename, Return, Goto, Types
    <2>2. r.addr \in Addrs /\ r.code \in Codes /\ file[tmp[r.addr]] = Whole(r.code)
      BY <1>1, <2>1 DEF ClientOk, OfBlock, WholeInv, Storing
    <2>3. Apart'
      BY <1>1, <2>1, <2>2 DEF WholeInv, Apart, Types
    <2>4. ASSUME NEW a \in Addrs, entry'[a] # NULL PROVE \E v \in Codes : file'[entry'[a]] = Whole(v)
      <3>1. file'[entry'[a]] = file[entry'[a]]
        BY <1>4, <2>1, <2>4, NamedKept
      <3>2. CASE a = r.addr
        BY <1>1, <2>1, <2>2, <3>1, <3>2 DEF Types
      <3>3. CASE a # r.addr
        BY <1>1, <2>1, <2>2, <2>4, <3>1, <3>3 DEF Types, WholeInv, Entries
      <3> QED
        BY <3>2, <3>3
    <2>5. Entries'
      BY <2>4 DEF Entries
    <2> QED
      BY <1>4, <2>1, <2>3, <2>5 DEF WholeInv, Storing
  <1> QED
    BY <1>5, <1>6, <1>7, <1>8, <1>9

\* With one client and no failing writes, what lies under the final name of an
\* entry is a whole translation, although the client is killed anywhere in a
\* store and leaves its temporary file behind (arm2x86_pcache_store).
THEOREM WholePublished ==
  ASSUME NEW one, Clients = {one}, IOErrors = FALSE PROVE Spec => []PublishedWhole
  <1>1. Init => WholeInv(one)
    BY Start DEF Init, OneInv, OpenFile, OneFile, WholeInv, Apart, Entries, Storing
  <1>2. WholeInv(one) /\ [Next]_vars => WholeInv(one)'
    BY WholeStep
  <1>3. WholeInv(one) => PublishedWhole
    <2> SUFFICES ASSUME WholeInv(one), NEW a \in Present
                 PROVE  /\ file[entry[a]].head \in Codes
                        /\ file[entry[a]].body = Translation(file[entry[a]].head)
      BY DEF PublishedWhole
    <2>1. PICK v \in Codes : file[entry[a]] = Whole(v)
      BY DEF WholeInv, Entries, Present
    <2> QED
      BY <2>1 DEF Whole
  <1> QED
    BY <1>1, <1>2, <1>3, PTL DEF Spec

-----------------------------------------------------------------------------
(***************************************************************************)
(* The size of the directory, for one client and no failing writes.  The   *)
(* estimate covers the directory because what is subtracted is the size of *)
(* a file that is really removed: a listing stays true until the cleanup   *)
(* ends (Listed).  The limit holds because a store leaves its check with   *)
(* room for one entry, or after a cleanup that went down to half the limit *)
(* or removed everything (Sized).                                          *)
(***************************************************************************)
Limit == Hdr + Largest(MaxBytes, MaxBytes \div 2 + MaxEntry)

\* From the check of the size to the rename, and from access() to the rename.
StoringAt == {"access", "create", "write", "append", "rename"}
NamingAt  == {"create", "write", "append", "rename"}

\* A client at l with locals r, estimate t and a directory of D bytes.
Sized(l, r, t, D) ==
  /\ t \in Nat /\ t <= MaxTotal + Limit /\ D \in Nat /\ D <= Limit
  /\ l # "closed" => D <= t
  /\ l \in {"cleanup", "unlink"} /\ r.then = "access" =>
       t <= MaxTotal /\ SizeOf[r.code] <= MaxEntry /\ r.target = MaxBytes \div 2
  /\ l \in StoringAt =>
       /\ t <= MaxTotal /\ SizeOf[r.code] <= MaxEntry
       /\ D + SizeOf[r.code] <= MaxBytes \/ D <= MaxBytes \div 2

\* What is left of a listing is what is left in the directory.
Listed(s, E, F) ==
  /\ s \in Seq([addr : Addrs, size : Nat])
  /\ \A k \in 1..Len(s) : E[s[k].addr] # NULL /\ s[k].size = FileSize(F[E[s[k].addr]])
  /\ \A j, k \in 1..Len(s) : s[j].addr = s[k].addr => j = k
  /\ \A a \in Addrs : E[a] # NULL => \E k \in 1..Len(s) : s[k].addr = a

NamesKnown(l, r, E, F) ==
  /\ l \in NamingAt => E[r.addr] = NULL
  /\ l = "unlink" => Listed(r.list, E, F)

\* The parts of TypeOK that the other invariants leave out.
Typed(c) ==
  /\ dirty \subseteq Inodes /\ total_size \in [Clients -> Nat] /\ pc \in [Clients -> PC]
  /\ pc[c] \notin {"header", "code", "write", "append"} => local[c].fd = NULL

SizeInv(c) ==
  /\ Typed(c) /\ NamesKnown(pc[c], local[c], entry, file)
  /\ Sized(pc[c], local[c], total_size[c], DirSize)

LEMMA WholeSize ==
  ASSUME NEW v \in Codes
  PROVE  FileSize(Whole(v)) = Hdr + SizeOf[v] /\ FileSize(Whole(v)) \in Nat
  <1>1. Whole(v) # Blank
    BY DEF Whole, Blank
  <1>2. Len(Translation(v)) = SizeOf[v]
    BY DEF Translation
  <1> QED
    BY <1>1, <1>2 DEF FileSize, Whole

\* The directory as a function from addresses to sizes, and its sum.
Bytes(E, F) == [a \in {b \in Addrs : E[b] # NULL} |-> FileSize(F[E[a]])]

LEMMA DirSum ==
  /\ DirSize = SumFunctionOnSet(Bytes(entry, file), Present)
  /\ DOMAIN Bytes(entry, file) = Present /\ IsFiniteSet(Present)
  /\ \A a \in Present : Bytes(entry, file)[a] = FileSize(file[entry[a]])
  <1>1. IsFiniteSet(Present)
    BY FS_Subset DEF Present
  <1> QED
    BY <1>1 DEF DirSize, SumFunction, Bytes, Present

LEMMA BytesNat ==
  ASSUME Entries PROVE \A a \in Present : Bytes(entry, file)[a] \in Nat
  <1> SUFFICES ASSUME NEW a \in Present PROVE Bytes(entry, file)[a] \in Nat
    OBVIOUS
  <1>1. PICK v \in Codes : file[entry[a]] = Whole(v)
    BY DEF Entries, Present
  <1> QED
    BY <1>1, WholeSize, DirSum

LEMMA DirNat == ASSUME Entries PROVE DirSize \in Nat
  BY BytesNat, DirSum, SumNat

\* The directory with the same names leading to the same files.
LEMMA DirSame ==
  ASSUME entry' = entry, \A a \in Addrs : entry[a] # NULL => file'[entry[a]] = file[entry[a]]
  PROVE  DirSize' = DirSize
  <1>1. Present' = Present
    BY DEF Present
  <1>2. \A a \in Present : file'[entry'[a]] = file[entry[a]]
    BY DEF Present
  <1>3. [a \in Present' |-> FileSize(file'[entry'[a]])] = [a \in Present |-> FileSize(file[entry[a]])]
    BY <1>1, <1>2
  <1> QED
    BY <1>3 DEF DirSize

\* One name less.
LEMMA DirLess ==
  ASSUME Entries, Types, NEW a \in Addrs, entry[a] # NULL, entry' = [entry EXCEPT ![a] = NULL],
         \A b \in Addrs : b # a /\ entry[b] # NULL => file'[entry[b]] = file[entry[b]]
  PROVE  /\ DirSize' = DirSize - FileSize(file[entry[a]]) /\ FileSize(file[entry[a]]) <= DirSize
         /\ FileSize(file[entry[a]]) \in Nat
  <1>1. PICK f : f = Bytes(entry, file)
    OBVIOUS
  <1>2. PICK g : g = Bytes(entry, file)'
    OBVIOUS
  <1>3. PICK P : P = Present
    OBVIOUS
  <1>4. PICK Q : Q = Present \ {a}
    OBVIOUS
  <1>5. a \in P /\ Present' = Q /\ Q = P \ {a} /\ IsFiniteSet(P) /\ IsFiniteSet(Q)
    <2>1. IsFiniteSet(P) /\ IsFiniteSet(Q)
      BY <1>3, <1>4, DirSum, FS_Subset
    <2> QED
      BY <1>3, <1>4, <2>1 DEF Present, Types
  <1>6. \A b \in P : f[b] \in Nat
    BY <1>1, <1>3, BytesNat
  <1>7. ASSUME NEW b \in Q PROVE f[b] = g[b] /\ f[b] \in Int
    <2>1. f[b] = FileSize(file[entry[b]]) /\ f[b] \in Nat
      BY <1>1, <1>3, <1>5, <1>6, DirSum
    <2>2. g[b] = FileSize(file'[entry'[b]])
      BY <1>2, <1>5 DEF Bytes, Present
    <2>3. b \in Addrs /\ b # a /\ entry[b] # NULL /\ entry'[b] = entry[b]
      BY <1>4 DEF Present, Types
    <2> QED
      BY <2>1, <2>2, <2>3
  <1>8. SumFunctionOnSet(f, Q) = SumFunctionOnSet(g, Q)
    BY <1>5, <1>7, SumSame
  <1>9. SumFunctionOnSet(f, Q) = SumFunctionOnSet(f, P) - f[a] /\ f[a] <= SumFunctionOnSet(f, P)
    <2>1. \A b \in P : f[b] \in Int
      BY <1>6
    <2>2. SumFunctionOnSet(f, P \ {a}) = SumFunctionOnSet(f, P) - f[a]
      BY <1>5, <2>1, SumRemove
    <2>3. f[a] <= SumFunctionOnSet(f, P)
      BY <1>5, <1>6, SumTerm
    <2> QED
      BY <1>5, <2>2, <2>3
  <1>10. DirSize = SumFunctionOnSet(f, P) /\ f[a] = FileSize(file[entry[a]]) /\ f[a] \in Nat
    BY <1>1, <1>3, <1>5, <1>6, DirSum
  <1>11. DirSize' = SumFunctionOnSet(g, Q)
    <2>1. g = [b \in Present' |-> FileSize(file'[entry'[b]])]
      BY <1>2 DEF Bytes, Present
    <2> QED
      BY <1>5, <2>1 DEF DirSize, SumFunction
  <1> QED
    BY <1>8, <1>9, <1>10, <1>11

\* One name more.
LEMMA DirMore ==
  ASSUME Entries, Types, NEW a \in Addrs, entry[a] = NULL, NEW i, i # NULL,
         entry' = [entry EXCEPT ![a] = i], FileSize(file'[i]) \in Nat,
         \A b \in Addrs : b # a /\ entry[b] # NULL => file'[entry[b]] = file[entry[b]]
  PROVE  DirSize' = DirSize + FileSize(file'[i])
  <1>1. PICK f : f = Bytes(entry, file)
    OBVIOUS
  <1>2. PICK g : g = Bytes(entry, file)'
    OBVIOUS
  <1>3. PICK P : P = Present
    OBVIOUS
  <1>4. a \notin P /\ Present' = P \cup {a} /\ IsFiniteSet(P)
    BY <1>3, DirSum DEF Present, Types
  <1>5. \A b \in P : f[b] \in Nat
    BY <1>1, <1>3, BytesNat
  <1>6. ASSUME NEW b \in P PROVE f[b] = g[b] /\ f[b] \in Int
    <2>1. f[b] = FileSize(file[entry[b]]) /\ f[b] \in Nat
      BY <1>1, <1>3, <1>5, DirSum
    <2>2. g[b] = FileSize(file'[entry'[b]])
      BY <1>2, <1>4 DEF Bytes, Present
    <2>3. b \in Addrs /\ b # a /\ entry[b] # NULL /\ entry'[b] = entry[b]
      BY <1>3 DEF Present, Types
    <2> QED
      BY <2>1, <2>2, <2>3
  <1>7. g[a] = FileSize(file'[i])
    <2>1. g[a] = FileSize(file'[entry'[a]])
      BY <1>2, <1>4 DEF Bytes, Present
    <2> QED
      BY <2>1 DEF Types
  <1>8. SumFunctionOnSet(f, P) = SumFunctionOnSet(g, P) /\ SumFunctionOnSet(f, P) \in Int
    BY <1>4, <1>6, SumSame
  <1>9. SumFunctionOnSet(g, P \cup {a}) = g[a] + SumFunctionOnSet(g, P)
    <2>1. \A b \in P \cup {a} : g[b] \in Int
      BY <1>6, <1>7
    <2> QED
      BY <1>4, <2>1, SumAdd
  <1>10. DirSize = SumFunctionOnSet(f, P)
    BY <1>1, <1>3, DirSum
  <1>11. DirSize' = SumFunctionOnSet(g, P \cup {a})
    <2>1. g = [b \in Present' |-> FileSize(file'[entry'[b]])]
      BY <1>2 DEF Bytes, Present
    <2> QED
      BY <1>4, <2>1 DEF DirSize, SumFunction
  <1> QED
    BY <1>7, <1>8, <1>9, <1>10, <1>11

\* No name.
LEMMA DirNone == ASSUME \A a \in Addrs : entry[a] = NULL PROVE DirSize = 0
  <1>1. Present = {}
    BY DEF Present
  <1> QED
    BY <1>1, DirSum, SumEmpty

\* A file that keeps its name keeps its contents: only temporary files are written.
LEMMA FilesStay ==
  ASSUME NEW c, Clients = {c}, IOErrors = FALSE, WholeInv(c), WholeInv(c)',
         Call(c) \/ Step(c) \/ Kill(c),
         NEW a \in Addrs, entry'[a] # NULL, entry'[a] = entry[a]
  PROVE  file'[entry[a]] = file[entry[a]]
  <1> PICK r : r = local[c]
    OBVIOUS
  <1>1. ClientOk(pc[c], r) /\ IsLocal(r) /\ Types /\ c \in Clients /\ OneInv(c) /\ Types'
    BY OfClient DEF WholeInv, OneInv, Inv
  <1>2. ASSUME NEW f, Update(f) \/ file' = f, f[entry[a]] = file[entry[a]] PROVE file'[entry[a]] = file[entry[a]]
    BY <1>1, <1>2, NamedKept
  <1>3. entry[a] \in Inodes /\ \A b \in Addrs : entry[a] # tmp[b] /\ entry[a] # tmp'[b]
    BY <1>1 DEF WholeInv, Apart, Types
  <1>4. CASE ~ StoreCreate(c) /\ ~ StoreWrite(c) /\ ~ StoreAppend(c) /\ ~ StoreRename(c)
    <2>1. Update(file) \/ file' = file
      BY <1>1, <1>4, NoStore
    <2> QED
      BY <1>2, <2>1
  <1>5. CASE StoreCreate(c)
    <2>1. PICK i : tmp' = [tmp EXCEPT ![r.addr] = i] /\ Update([file EXCEPT ![i] = Blank])
      BY <1>5 DEF StoreCreate, Opened
    <2>2. r.addr \in Addrs
      BY <1>1, <1>5 DEF StoreCreate, ClientOk, OfBlock
    <2>3. entry[a] # i
      BY <1>1, <1>3, <2>1, <2>2 DEF Types
    <2>4. PICK f : f = [file EXCEPT ![i] = Blank]
      OBVIOUS
    <2>5. f[entry[a]] = file[entry[a]]
      BY <1>1, <1>3, <2>3, <2>4 DEF Types
    <2> QED
      BY <1>2, <2>1, <2>4, <2>5
  <1>6. CASE StoreWrite(c) \/ StoreAppend(c)
    <2>1. pc[c] \in {"write", "append"}
      BY <1>6 DEF StoreWrite, StoreAppend
    <2>2. r.addr \in Addrs /\ tmp[r.addr] = r.fd
      BY <1>1, <2>1 DEF ClientOk, OfBlock, WholeInv, Storing
    <2>3. entry[a] # r.fd
      BY <1>3, <2>2
    <2>4. PICK x : Update([file EXCEPT ![r.fd] = x]) \/ Update([file EXCEPT ![r.fd].body = x])
      BY <1>6 DEF StoreWrite, StoreAppend
    <2>5. ASSUME NEW f, f = [file EXCEPT ![r.fd] = x] \/ f = [file EXCEPT ![r.fd].body = x]
          PROVE  f[entry[a]] = file[entry[a]]
      BY <1>1, <1>3, <2>3, <2>5 DEF Types
    <2>6. PICK f : Update(f) /\ (f = [file EXCEPT ![r.fd] = x] \/ f = [file EXCEPT ![r.fd].body = x])
      BY <2>4
    <2> QED
      BY <1>2, <2>5, <2>6
  <1>7. CASE StoreRename(c)
    <2>1. Update(file)
      BY <1>7 DEF StoreRename
    <2> QED
      BY <1>2, <2>1
  <1> QED
    BY <1>4, <1>5, <1>6, <1>7

\* A listing of the whole directory, in any order.
LEMMA ScanLists ==
  ASSUME Entries, NEW l \in Listings PROVE Listed(l, entry, file)
  <1>1. PICK s \in SetToSeqs(Present) :
          l = [k \in 1..Len(s) |-> [addr |-> s[k], size |-> FileSize(file[entry[s[k]]])]]
    BY DEF Listings
  <1>2. PICK n : n = Cardinality(Present)
    OBVIOUS
  <1>3. n \in Nat /\ IsFiniteSet(Present) /\ Cardinality(1..n) = n
    <2>1. IsFiniteSet(Present)
      BY DirSum
    <2>2. n \in Nat
      BY <1>2, <2>1, FS_CardinalityType
    <2>3. 1 \in Int /\ n \in Int
      BY <2>2
    <2>4. Cardinality(1..n) = IF 1 > n THEN 0 ELSE n - 1 + 1
      BY <2>3, FS_Interval
    <2> QED
      BY <2>1, <2>2, <2>4
  <1>4. s \in [1..n -> Present] /\ \A i, j \in 1..n : i # j => s[i] # s[j]
    BY <1>2 DEF SetToSeqs
  <1>5. s \in Injection(1..n, Present)
    BY <1>4 DEF Injection, IsInjective
  <1>6. s \in Surjection(1..n, Present)
    BY <1>2, <1>3, <1>5, FS_Injection
  <1>7. \A a \in Present : \E k \in 1..n : s[k] = a
    BY <1>6 DEF Surjection
  <1>8. Len(s) = n /\ s \in Seq(Present)
    BY <1>3, <1>4
  <1>9. \A k \in 1..n : s[k] \in Addrs /\ entry[s[k]] # NULL /\ FileSize(file[entry[s[k]]]) \in Nat
    BY <1>4, BytesNat, DirSum DEF Present
  <1>10. DOMAIN l = 1..n /\ Len(l) = n /\ l \in Seq([addr : Addrs, size : Nat])
    BY <1>1, <1>3, <1>8, <1>9
  <1>11. \A k \in 1..n : l[k].addr = s[k] /\ l[k].size = FileSize(file[entry[s[k]]])
    BY <1>1, <1>8
  <1>12. ASSUME NEW k \in 1..n
         PROVE  entry[l[k].addr] # NULL /\ l[k].size = FileSize(file[entry[l[k].addr]])
    BY <1>9, <1>11
  <1>13. ASSUME NEW j \in 1..n, NEW k \in 1..n, l[j].addr = l[k].addr PROVE j = k
    <2>1. s[j] = s[k]
      BY <1>11, <1>13
    <2> QED
      BY <1>4, <2>1
  <1>14. ASSUME NEW a \in Addrs, entry[a] # NULL PROVE \E k \in 1..n : l[k].addr = a
    <2>1. a \in Present
      BY <1>14 DEF Present
    <2>2. PICK k \in 1..n : s[k] = a
      BY <1>7, <2>1
    <2> QED
      BY <1>11, <2>2
  <1> QED
    BY <1>10, <1>12, <1>13, <1>14 DEF Listed

\* Removing the first file of a listing leaves the rest of the listing true.
LEMMA ListShrinks ==
  ASSUME Types, NEW s, Listed(s, entry, file), s # <<>>, NEW a, a = Head(s).addr,
         entry' = [entry EXCEPT ![a] = NULL],
         \A b \in Addrs : b # a /\ entry[b] # NULL => file'[entry[b]] = file[entry[b]]
  PROVE  Listed(Tail(s), entry', file')
  <1>1. PICK t : t = Tail(s)
    OBVIOUS
  <1>2. s \in Seq([addr : Addrs, size : Nat]) /\ Len(s) \in Nat /\ Len(s) >= 1 /\ s[1].addr = a
    BY DEF Listed
  <1>3. /\ t \in Seq([addr : Addrs, size : Nat]) /\ Len(t) = Len(s) - 1
        /\ \A k \in 1..Len(t) : t[k] = s[k + 1] /\ k + 1 \in 1..Len(s) /\ k + 1 # 1
    BY <1>1, <1>2, HeadTailProperties
  <1>4. a \in Addrs
    <2>1. 1 \in 1..Len(s)
      BY <1>2
    <2>2. s[1] \in [addr : Addrs, size : Nat]
      BY <1>2, <2>1, ElementOfSeq
    <2> QED
      BY <1>2, <2>2
  <1>5. ASSUME NEW k \in 1..Len(t)
        PROVE  t[k].addr \in Addrs /\ t[k].addr # a /\ entry'[t[k].addr] = entry[t[k].addr]
    <2>1. t[k] = s[k + 1] /\ k + 1 \in 1..Len(s) /\ k + 1 # 1 /\ 1 \in 1..Len(s)
      BY <1>2, <1>3
    <2>2. t[k].addr \in Addrs
      <3>1. t[k] \in [addr : Addrs, size : Nat]
        BY <1>3, ElementOfSeq
      <3> QED
        BY <3>1
    <2>3. t[k].addr # a
      BY <1>2, <2>1 DEF Listed
    <2> QED
      BY <2>2, <2>3 DEF Types
  <1>6. ASSUME NEW k \in 1..Len(t)
        PROVE  entry'[t[k].addr] # NULL /\ t[k].size = FileSize(file'[entry'[t[k].addr]])
    <2>1. t[k] = s[k + 1] /\ k + 1 \in 1..Len(s)
      BY <1>3
    <2>2. entry[t[k].addr] # NULL /\ t[k].size = FileSize(file[entry[t[k].addr]])
      BY <2>1 DEF Listed
    <2> QED
      BY <1>5, <2>2
  <1>7. ASSUME NEW j \in 1..Len(t), NEW k \in 1..Len(t), t[j].addr = t[k].addr PROVE j = k
    <2>1. j + 1 \in 1..Len(s) /\ k + 1 \in 1..Len(s) /\ s[j + 1].addr = s[k + 1].addr
      BY <1>3, <1>7
    <2>2. j + 1 = k + 1
      BY <2>1 DEF Listed
    <2> QED
      BY <2>2
  <1>8. ASSUME NEW b \in Addrs, entry'[b] # NULL PROVE \E k \in 1..Len(t) : t[k].addr = b
    <2>1. b # a /\ entry[b] # NULL
      BY <1>4, <1>8 DEF Types
    <2>2. PICK k \in 1..Len(s) : s[k].addr = b
      BY <2>1 DEF Listed
    <2>3. k # 1 /\ k - 1 \in 1..Len(t)
      BY <1>2, <1>3, <2>1, <2>2
    <2>4. t[k - 1] = s[k]
      BY <1>3, <2>3
    <2> QED
      BY <2>2, <2>3, <2>4
  <1> QED
    BY <1>1, <1>3, <1>6, <1>7, <1>8 DEF Listed

\* Numbers of less than a size_t are added and subtracted exactly.
LEMMA SizeExact == ASSUME NEW x \in Nat, x < SizeMod PROVE x % SizeMod = x
  OBVIOUS

\* The constants of the limit: a store fits below it in both of Sized's cases.
LEMMA LimitRoom ==
  /\ MaxBytes \div 2 \in Nat /\ Limit \in Nat
  /\ MaxBytes <= Limit - Hdr /\ MaxBytes \div 2 + MaxEntry <= Limit - Hdr
  <1>1. PICK h : h = MaxBytes \div 2
    OBVIOUS
  <1>2. h \in Nat
    BY <1>1
  <1> QED
    BY <1>1, <1>2 DEF Limit, Largest

\* A step of the client to l with locals r and estimate t.
LEMMA Arrive ==
  ASSUME NEW c, Clients = {c}, Typed(c), Types, dirty' \subseteq Inodes, NEW l \in PC, NEW r,
         Goto(c, l, r) \/ (UNCHANGED <<pc, local>> /\ l = pc[c] /\ r = local[c]),
         NEW t \in Nat,
         \/ total_size' = [total_size EXCEPT ![c] = t]
         \/ total_size' = total_size /\ t = total_size[c],
         l \notin {"header", "code", "write", "append"} => r.fd = NULL,
         NamesKnown(l, r, entry', file'), Sized(l, r, t, DirSize')
  PROVE  SizeInv(c)'
  <1>1. pc' \in [Clients -> PC] /\ pc'[c] = l /\ local'[c] = r
    BY DEF Goto, Types, Typed
  <1>2. total_size' \in [Clients -> Nat] /\ total_size'[c] = t
    BY DEF Typed
  <1>3. Typed(c)'
    BY <1>1, <1>2 DEF Typed
  <1> QED
    BY <1>1, <1>2, <1>3 DEF SizeInv

\* What the steps of one client start from.
LEMMA Known ==
  ASSUME NEW c, Clients = {c}, WholeInv(c), SizeInv(c)
  PROVE  /\ ClientOk(pc[c], local[c]) /\ IsLocal(local[c]) /\ Types /\ c \in Clients /\ Entries
         /\ Typed(c) /\ NamesKnown(pc[c], local[c], entry, file) /\ total_size[c] \in Nat
         /\ Sized(pc[c], local[c], total_size[c], DirSize)
  BY OfClient DEF WholeInv, OneInv, SizeInv, Typed

\* Where a call that names no block, or a finished one, leads.
LEMMA IdleSized ==
  ASSUME NEW l \in {"idle", "closed", "cleanup", "header", "stale", "code", "hit"}, NEW r,
         l = "cleanup" => r.then = "idle",
         NEW t \in Nat, NEW D \in Nat, t <= MaxTotal + Limit, D <= Limit, l # "closed" => D <= t
  PROVE  Sized(l, r, t, D) /\ \A E, F : NamesKnown(l, r, E, F)
  BY DEF Sized, NamesKnown, StoringAt, NamingAt

\* The calls and returns that leave the directory alone.
LEMMA SizeCalls ==
  ASSUME NEW c, Clients = {c}, IOErrors = FALSE, WholeInv(c), SizeInv(c),
         MaxTotal + Limit < SizeMod \div 2,
         \/ Create(c) \/ RebuildIndex(c) \/ Sync(c) \/ Destroy(c) \/ LookupReturn(c)
         \/ \E n \in Targets : Cleanup(c, n)
         \/ \E a \in Addrs, v \in Codes : LookupOpen(c, a, v)
  PROVE  SizeInv(c)'
  <1> PICK l, r, t, D : l = pc[c] /\ r = local[c] /\ t = total_size[c] /\ D = DirSize
    OBVIOUS
  <1>1. /\ ClientOk(l, r) /\ IsLocal(r) /\ Types /\ c \in Clients /\ Entries
        /\ Typed(c) /\ NamesKnown(l, r, entry, file) /\ t \in Nat /\ Sized(l, r, t, D)
    BY Known
  <1>2. D \in Nat /\ D <= Limit /\ t <= MaxTotal + Limit /\ (l # "closed" => D <= t) /\ Limit \in Nat
    BY <1>1, LimitRoom DEF Sized
  <1>3. UNCHANGED <<entry, file>>
    BY DEF Create, RebuildIndex, Sync, Destroy, Cleanup, LookupOpen, LookupReturn, names
  <1>4. DirSize' = D
    BY <1>3, DirSame
  <1>5. dirty' \subseteq Inodes
    BY <1>1 DEF Create, RebuildIndex, Sync, Destroy, Cleanup, LookupOpen, LookupReturn, Typed
  <1>6. NoLocal.fd = NULL /\ NoLocal.then = "idle"
    BY DEF NoLocal
  <1>7. CASE Create(c)
    <2>1. PICK q : q = [NoLocal EXCEPT !.target = MaxBytes \div 2]
      OBVIOUS
    <2>2. Goto(c, "cleanup", q) /\ total_size' = [total_size EXCEPT ![c] = D]
      BY <1>7, <2>1 DEF Create, Found
    <2>3. q.fd = NULL /\ q.then = "idle"
      BY <1>6, <2>1 DEF NoLocal
    <2>4. Sized("cleanup", q, D, D) /\ \A E, F : NamesKnown("cleanup", q, E, F)
      BY <1>2, <2>3, IdleSized
    <2> QED
      BY <1>1, <1>2, <1>4, <1>5, <2>2, <2>3, <2>4, Arrive DEF PC
  <1>8. CASE RebuildIndex(c)
    <2>1. /\ l = "idle" /\ UNCHANGED <<pc, local>> /\ Bounded(c)
          /\ total_size' = [total_size EXCEPT ![c] = Add(total_size[c], D)]
      BY <1>8 DEF RebuildIndex, Found
    <2>2. t <= MaxTotal
      <3>1. PICK h : h = SizeMod \div 2
        OBVIOUS
      <3>2. h \in Nat /\ MaxTotal + Limit < h /\ (t <= MaxTotal \/ t >= h)
        BY <2>1, <3>1 DEF Bounded
      <3> QED
        BY <1>1, <1>2, <3>2
    <2>3. PICK u : u = t + D
      OBVIOUS
    <2>4. u \in Nat /\ u <= MaxTotal + Limit /\ D <= u /\ u < SizeMod
      <3>1. PICK h : h = SizeMod \div 2
        OBVIOUS
      <3>2. h \in Nat /\ h <= SizeMod
        BY <3>1
      <3> QED
        BY <1>1, <1>2, <2>2, <2>3, <3>1, <3>2
    <2>5. Add(t, D) = u
      BY <2>3, <2>4, SizeExact DEF Add
    <2>6. Sized("idle", r, u, D) /\ \A E, F : NamesKnown("idle", r, E, F)
      BY <1>2, <2>4, IdleSized
    <2>7. r.fd = NULL
      BY <1>1, <2>1 DEF Typed
    <2> QED
      BY <1>1, <1>4, <1>5, <2>1, <2>4, <2>5, <2>6, <2>7, Arrive DEF PC
  <1>9. CASE Sync(c)
    <2>1. l = "idle" /\ UNCHANGED <<pc, local, total_size>>
      BY <1>9 DEF Sync
    <2>2. Sized("idle", r, t, D) /\ \A E, F : NamesKnown("idle", r, E, F)
      BY <1>1, <1>2, <2>1, IdleSized
    <2>3. r.fd = NULL
      BY <1>1, <2>1 DEF Typed
    <2> QED
      BY <1>1, <1>4, <1>5, <2>1, <2>2, <2>3, Arrive DEF PC
  <1>10. CASE Destroy(c)
    <2>1. Goto(c, "closed", NoLocal) /\ total_size' = [total_size EXCEPT ![c] = 0]
      BY <1>10 DEF Destroy
    <2>2. 0 \in Nat /\ 0 <= MaxTotal + Limit
      BY <1>2
    <2>3. Sized("closed", NoLocal, 0, D) /\ \A E, F : NamesKnown("closed", NoLocal, E, F)
      BY <1>2, <2>2, IdleSized
    <2> QED
      BY <1>1, <1>4, <1>5, <1>6, <2>1, <2>2, <2>3, Arrive DEF PC
  <1>11. CASE \E n \in Targets : Cleanup(c, n)
    <2>1. PICK n \in Targets : Cleanup(c, n)
      BY <1>11
    <2>2. PICK q : q = [NoLocal EXCEPT !.target = IF n = 0 THEN MaxBytes \div 2 ELSE n]
      OBVIOUS
    <2>3. l = "idle" /\ Goto(c, "cleanup", q) /\ UNCHANGED total_size
      BY <2>1, <2>2 DEF Cleanup
    <2>4. q.fd = NULL /\ q.then = "idle"
      BY <1>6, <2>2 DEF NoLocal
    <2>5. Sized("cleanup", q, t, D) /\ \A E, F : NamesKnown("cleanup", q, E, F)
      BY <1>1, <1>2, <2>3, <2>4, IdleSized
    <2> QED
      BY <1>1, <1>4, <1>5, <2>3, <2>4, <2>5, Arrive DEF PC
  <1>12. CASE \E a \in Addrs, v \in Codes : LookupOpen(c, a, v)
    <2>1. PICK q : l = "idle" /\ Goto(c, "header", q) /\ UNCHANGED total_size
      BY <1>12 DEF LookupOpen
    <2>2. Sized("header", q, t, D) /\ \A E, F : NamesKnown("header", q, E, F)
      BY <1>1, <1>2, <2>1, IdleSized
    <2> QED
      BY <1>1, <1>4, <1>5, <2>1, <2>2, Arrive DEF PC
  <1>13. CASE LookupReturn(c)
    <2>1. l = "hit" /\ Goto(c, "idle", NoLocal) /\ UNCHANGED total_size
      BY <1>13 DEF LookupReturn, Return
    <2>2. Sized("idle", NoLocal, t, D) /\ \A E, F : NamesKnown("idle", NoLocal, E, F)
      BY <1>1, <1>2, <2>1, IdleSized
    <2> QED
      BY <1>1, <1>4, <1>5, <1>6, <2>1, <2>2, Arrive DEF PC
  <1> QED
    BY <1>7, <1>8, <1>9, <1>10, <1>11, <1>12, <1>13

\* A step that takes no name away and gives none leaves the size as it is.
LEMMA DirStays ==
  ASSUME NEW c, Clients = {c}, IOErrors = FALSE, WholeInv(c), WholeInv(c)',
         Call(c) \/ Step(c) \/ Kill(c), entry' = entry
  PROVE  DirSize' = DirSize
  BY FilesStay, DirSame

\* Reading a file, and being killed.
LEMMA SizeReads ==
  ASSUME NEW c, Clients = {c}, IOErrors = FALSE, WholeInv(c), WholeInv(c)', SizeInv(c),
         LookupHeader(c) \/ LookupCode(c) \/ Kill(c)
  PROVE  SizeInv(c)'
  <1> PICK l, r, t, D : l = pc[c] /\ r = local[c] /\ t = total_size[c] /\ D = DirSize
    OBVIOUS
  <1>1. /\ ClientOk(l, r) /\ IsLocal(r) /\ Types /\ c \in Clients /\ Entries
        /\ Typed(c) /\ NamesKnown(l, r, entry, file) /\ t \in Nat /\ Sized(l, r, t, D)
    BY Known
  <1>2. D \in Nat /\ D <= Limit /\ t <= MaxTotal + Limit /\ (l # "closed" => D <= t) /\ Limit \in Nat
    BY <1>1, LimitRoom DEF Sized
  <1>3. entry' = entry /\ dirty' \subseteq Inodes
    BY DEF LookupHeader, LookupCode, Kill, names, Update
  <1>4. DirSize' = D
    BY <1>3, DirStays DEF Step
  <1>5. NoLocal.fd = NULL
    BY DEF NoLocal
  <1>6. CASE Kill(c)
    <2>1. Goto(c, "closed", NoLocal) /\ total_size' = [total_size EXCEPT ![c] = 0]
      BY <1>6 DEF Kill
    <2>2. 0 \in Nat /\ 0 <= MaxTotal + Limit
      BY <1>2
    <2>3. Sized("closed", NoLocal, 0, D) /\ \A E, F : NamesKnown("closed", NoLocal, E, F)
      BY <1>2, <2>2, IdleSized
    <2> QED
      BY <1>1, <1>3, <1>4, <1>5, <2>1, <2>2, <2>3, Arrive DEF PC
  <1>7. CASE LookupHeader(c) \/ LookupCode(c)
    <2>1. l \in {"header", "code"} /\ UNCHANGED total_size /\ D <= t
      BY <1>2, <1>7 DEF LookupHeader, LookupCode
    <2>2. [r EXCEPT !.fd = NULL].fd = NULL
      BY <1>1 DEF IsLocal
    <2>3. PICK m, q : /\ m \in {"idle", "stale", "code", "hit"} /\ Goto(c, m, q)
                      /\ m # "code" => q.fd = NULL
      <3>1. CASE LookupHeader(c)
        BY <1>5, <2>2, <3>1 DEF LookupHeader, Return
      <3>2. CASE LookupCode(c)
        <4>1. PICK b : b = ReadRest(c)
          OBVIOUS
        <4>2. [r EXCEPT !.buf = b, !.fd = NULL].fd = NULL
          BY <1>1 DEF IsLocal
        <4>3. Goto(c, "hit", [r EXCEPT !.buf = b, !.fd = NULL]) \/ Goto(c, "idle", NoLocal)
          BY <3>2, <4>1 DEF LookupCode, Return
        <4> QED
          BY <1>5, <4>2, <4>3
      <3> QED
        BY <1>7, <3>1, <3>2
    <2>4. Sized(m, q, t, D) /\ \A E, F : NamesKnown(m, q, E, F)
      BY <1>1, <1>2, <2>1, <2>3, IdleSized
    <2> QED
      BY <1>1, <1>3, <1>4, <2>1, <2>3, <2>4, Arrive DEF PC
  <1> QED
    BY <1>6, <1>7

\* Where a cleanup, or one of arm2x86_pcache_store's, goes on.
LEMMA SizeCleanup ==
  ASSUME NEW c, Clients = {c}, IOErrors = FALSE, WholeInv(c), WholeInv(c)', SizeInv(c),
         CleanupSkip(c) \/ CleanupScan(c) \/ CleanupDone(c)
  PROVE  SizeInv(c)'
  <1> PICK l, r, t, D : l = pc[c] /\ r = local[c] /\ t = total_size[c] /\ D = DirSize
    OBVIOUS
  <1>1. /\ ClientOk(l, r) /\ IsLocal(r) /\ Types /\ c \in Clients /\ Entries
        /\ Typed(c) /\ NamesKnown(l, r, entry, file) /\ t \in Nat /\ Sized(l, r, t, D)
    BY Known
  <1>2. D \in Nat /\ D <= Limit /\ t <= MaxTotal + Limit /\ (l # "closed" => D <= t) /\ Limit \in Nat
    BY <1>1, LimitRoom DEF Sized
  <1>3. UNCHANGED <<entry, file, total_size>> /\ dirty' \subseteq Inodes
    BY <1>1 DEF CleanupSkip, CleanupScan, CleanupDone, names, Typed
  <1>4. DirSize' = D
    BY <1>3, DirStays DEF Step
  <1>5. l \in {"cleanup", "unlink"} /\ r.fd = NULL /\ D <= t
    BY <1>1, <1>2 DEF CleanupSkip, CleanupScan, CleanupDone, Typed
  <1>6. CASE CleanupScan(c)
    <2>1. PICK s \in Listings : Goto(c, "unlink", [r EXCEPT !.list = s])
      BY <1>6 DEF CleanupScan
    <2>2. PICK q : q = [r EXCEPT !.list = s]
      OBVIOUS
    <2>3. /\ q.list = s /\ q.then = r.then /\ q.code = r.code /\ q.target = r.target
          /\ q.fd = r.fd
      BY <1>1, <2>2 DEF IsLocal
    <2>4. NamesKnown("unlink", q, entry', file')
      <3>1. Listed(s, entry, file)
        BY <1>1, ScanLists
      <3> QED
        BY <1>3, <2>3, <3>1 DEF NamesKnown, NamingAt
    <2>5. Sized("unlink", q, t, D)
      BY <1>1, <1>5, <2>3 DEF Sized, StoringAt
    <2> QED
      BY <1>1, <1>3, <1>4, <1>5, <2>1, <2>2, <2>3, <2>4, <2>5, Arrive DEF PC
  <1>7. CASE CleanupSkip(c) \/ CleanupDone(c)
    <2>1. PICK q : /\ Goto(c, r.then, q) /\ q.fd = NULL /\ q.code = r.code
      <3>1. PICK x, y : /\ x = [r EXCEPT !.then = "idle"]
                        /\ y = [r EXCEPT !.list = <<>>, !.then = "idle"]
        OBVIOUS
      <3>2. x.fd = r.fd /\ x.code = r.code /\ y.fd = r.fd /\ y.code = r.code
        BY <1>1, <3>1 DEF IsLocal
      <3>3. Goto(c, r.then, x) \/ Goto(c, r.then, y)
        BY <1>7, <3>1 DEF CleanupSkip, CleanupDone
      <3> QED
        BY <1>5, <3>2, <3>3
    <2>2. r.then = "idle" \/ (r.then = "access" /\ OfBlock(r))
      BY <1>1, <1>5 DEF ClientOk
    <2>3. CASE r.then = "idle"
      <3>1. Sized("idle", q, t, D) /\ \A E, F : NamesKnown("idle", q, E, F)
        BY <1>1, <1>2, <1>5, IdleSized
      <3> QED
        BY <1>1, <1>3, <1>4, <2>1, <2>3, <3>1, Arrive DEF PC
    <2>4. CASE r.then = "access"
      <3>1. t <= MaxTotal /\ SizeOf[r.code] <= MaxEntry /\ r.target = MaxBytes \div 2
        BY <1>1, <1>5, <2>4 DEF Sized
      <3>2. t <= r.target \/ D = 0
        <4>1. CASE CleanupSkip(c)
          BY <4>1 DEF CleanupSkip
        <4>2. CASE CleanupDone(c)
          <5>1. l = "unlink" /\ (r.list = <<>> \/ ~ (t > r.target))
            BY <4>2 DEF CleanupDone, MoreToRemove
          <5>2. Listed(r.list, entry, file)
            BY <1>1, <5>1 DEF NamesKnown
          <5>3. r.list = <<>> => D = 0
            BY <5>2, DirNone DEF Listed
          <5> QED
            BY <1>1, <3>1, <5>1, <5>3, LimitRoom
        <4> QED
          BY <1>7, <4>1, <4>2
      <3>3. D <= MaxBytes \div 2
        BY <1>1, <1>2, <1>5, <3>1, <3>2, LimitRoom
      <3>4. Sized("access", q, t, D) /\ NamesKnown("access", q, entry', file')
        BY <1>1, <1>2, <1>5, <2>1, <3>1, <3>3 DEF Sized, StoringAt, NamesKnown, NamingAt
      <3> QED
        BY <1>1, <1>3, <1>4, <2>1, <2>4, <3>4, Arrive DEF PC
    <2> QED
      BY <2>2, <2>3, <2>4
  <1> QED
    BY <1>6, <1>7

\* The steps of a store up to the rename leave the directory alone, and the
\* room that the check found.
LEMMA SizeStores ==
  ASSUME NEW c, Clients = {c}, IOErrors = FALSE, WholeInv(c), WholeInv(c)', SizeInv(c),
         MaxTotal + Limit < SizeMod \div 2,
         \/ StoreAccess(c) \/ StoreCreate(c) \/ StoreWrite(c) \/ StoreAppend(c)
         \/ \E a \in Addrs, v \in Codes : StoreBegin(c, a, v)
  PROVE  SizeInv(c)'
  <1> PICK l, r, t, D : l = pc[c] /\ r = local[c] /\ t = total_size[c] /\ D = DirSize
    OBVIOUS
  <1>1. /\ ClientOk(l, r) /\ IsLocal(r) /\ Types /\ c \in Clients /\ Entries
        /\ Typed(c) /\ NamesKnown(l, r, entry, file) /\ t \in Nat /\ Sized(l, r, t, D)
    BY Known
  <1>2. D \in Nat /\ D <= Limit /\ t <= MaxTotal + Limit /\ (l # "closed" => D <= t) /\ Limit \in Nat
    BY <1>1, LimitRoom DEF Sized
  <1>3. UNCHANGED <<entry, total_size>>
    BY DEF StoreAccess, StoreCreate, StoreWrite, StoreAppend, StoreBegin, names
  <1>4. dirty' \subseteq Inodes
    BY <1>1 DEF StoreAccess, StoreCreate, StoreWrite, StoreAppend, StoreBegin, Update, Typed
  <1>5. DirSize' = D
    BY <1>3, DirStays DEF Step, Call
  <1>6. NoLocal.fd = NULL
    BY DEF NoLocal
  <1>7. l # "closed" /\ D <= t
    BY <1>2 DEF StoreAccess, StoreCreate, StoreWrite, StoreAppend, StoreBegin
  <1>8. CASE \E a \in Addrs, v \in Codes : StoreBegin(c, a, v)
    <2>1. PICK a \in Addrs, v \in Codes : StoreBegin(c, a, v)
      BY <1>8
    <2>2. PICK q : q = [NoLocal EXCEPT !.addr = a, !.code = v, !.target = MaxBytes \div 2,
                                       !.then = "access"]
      OBVIOUS
    <2>3. q.fd = NULL /\ q.code = v /\ q.target = MaxBytes \div 2 /\ q.then = "access"
      BY <2>2 DEF NoLocal
    <2>4. /\ Goto(c, IF NeedsCleanup(c, SizeOf[v]) THEN "cleanup" ELSE "access", q)
          /\ Bounded(c) /\ SizeOf[v] <= MaxEntry
      BY <2>1, <2>2 DEF StoreBegin
    <2>5. t <= MaxTotal
      <3>1. PICK h : h = SizeMod \div 2
        OBVIOUS
      <3>2. h \in Nat /\ MaxTotal + Limit < h /\ (t <= MaxTotal \/ t >= h)
        BY <2>4, <3>1 DEF Bounded
      <3> QED
        BY <1>1, <1>2, <3>2
    <2>6. CASE NeedsCleanup(c, SizeOf[v])
      <3>1. Sized("cleanup", q, t, D) /\ NamesKnown("cleanup", q, entry', file')
        BY <1>1, <1>2, <1>7, <2>3, <2>4, <2>5 DEF Sized, StoringAt, NamesKnown, NamingAt
      <3> QED
        BY <1>1, <1>3, <1>4, <1>5, <2>3, <2>4, <2>6, <3>1, Arrive DEF PC
    <2>7. CASE ~ NeedsCleanup(c, SizeOf[v])
      <3>1. SizeOf[v] \in Nat /\ ~ (t + SizeOf[v] > MaxBytes)
        <4>1. PICK n : n = SizeOf[v]
          OBVIOUS
        <4>2. n \in Nat /\ n <= MaxEntry /\ ~ (Add(t, n) > MaxBytes)
          BY <2>4, <2>7, <4>1 DEF NeedsCleanup
        <4>3. PICK h : h = SizeMod \div 2
          OBVIOUS
        <4>4. h \in Nat /\ h <= SizeMod /\ MaxTotal + Limit < h
          BY <4>3
        <4>5. n <= Limit
          BY <4>2, LimitRoom
        <4>6. PICK u : u = t + n
          OBVIOUS
        <4>7. u \in Nat /\ u < SizeMod
          BY <1>1, <1>2, <2>5, <4>2, <4>4, <4>5, <4>6
        <4>8. Add(t, n) = u
          BY <4>6, <4>7, SizeExact DEF Add
        <4> QED
          BY <4>1, <4>2, <4>6, <4>8
      <3>2. D + SizeOf[v] <= MaxBytes
        BY <1>1, <1>2, <1>7, <3>1
      <3>3. Sized("access", q, t, D) /\ NamesKnown("access", q, entry', file')
        BY <1>1, <1>2, <1>7, <2>3, <2>4, <2>5, <3>2 DEF Sized, StoringAt, NamesKnown, NamingAt
      <3> QED
        BY <1>1, <1>3, <1>4, <1>5, <2>3, <2>4, <2>7, <3>3, Arrive DEF PC
    <2> QED
      BY <2>6, <2>7
  <1>9. ASSUME l \in StoringAt, NEW m \in NamingAt, NEW q, Goto(c, m, q), q.code = r.code,
               entry[q.addr] = NULL, m \notin {"write", "append"} => q.fd = NULL
        PROVE  SizeInv(c)'
    <2>1. Sized(m, q, t, D)
      BY <1>1, <1>2, <1>7, <1>9 DEF Sized, StoringAt, NamingAt
    <2>2. NamesKnown(m, q, entry', file')
      BY <1>3, <1>9 DEF NamesKnown, NamingAt
    <2>3. m \in PC /\ (m \notin {"header", "code", "write", "append"} => q.fd = NULL)
      BY <1>9 DEF PC, NamingAt
    <2> QED
      BY <1>1, <1>3, <1>4, <1>5, <1>9, <2>1, <2>2, <2>3, Arrive
  <1>10. CASE StoreAccess(c)
    <2>1. l = "access" /\ r.fd = NULL
      BY <1>1, <1>10 DEF StoreAccess, Typed
    <2>2. CASE entry[r.addr] # NULL
      <3>1. Goto(c, "idle", NoLocal)
        BY <1>10, <2>2 DEF StoreAccess, Return
      <3>2. Sized("idle", NoLocal, t, D) /\ \A E, F : NamesKnown("idle", NoLocal, E, F)
        BY <1>1, <1>2, <1>7, IdleSized
      <3> QED
        BY <1>1, <1>3, <1>4, <1>5, <1>6, <3>1, <3>2, Arrive DEF PC
    <2>3. CASE entry[r.addr] = NULL
      <3>1. PICK q : q = [r EXCEPT !.then = "idle"]
        OBVIOUS
      <3>2. Goto(c, "create", q)
        BY <1>10, <2>3, <3>1 DEF StoreAccess
      <3>3. q.fd = r.fd /\ q.code = r.code /\ q.addr = r.addr
        BY <1>1, <3>1 DEF IsLocal
      <3> QED
        BY <1>9, <2>1, <2>3, <3>2, <3>3 DEF StoringAt, NamingAt
    <2> QED
      BY <2>2, <2>3
  <1>11. CASE StoreCreate(c)
    <2>1. PICK i : Goto(c, "write", [r EXCEPT !.fd = i])
      BY <1>11 DEF StoreCreate
    <2>2. PICK q : q = [r EXCEPT !.fd = i]
      OBVIOUS
    <2>3. q.code = r.code /\ q.addr = r.addr
      BY <1>1, <2>2 DEF IsLocal
    <2>4. l = "create" /\ entry[r.addr] = NULL
      BY <1>1, <1>11 DEF StoreCreate, NamesKnown, NamingAt
    <2> QED
      BY <1>9, <2>1, <2>2, <2>3, <2>4 DEF StoringAt, NamingAt
  <1>12. CASE StoreWrite(c) \/ StoreAppend(c)
    <2>1. l \in {"write", "append"}
      BY <1>12 DEF StoreWrite, StoreAppend
    <2>2. entry[r.addr] = NULL
      BY <1>1, <2>1 DEF NamesKnown, NamingAt
    <2>3. PICK x, y : x = [r EXCEPT !.fd = r.fd] /\ y = [r EXCEPT !.fd = NULL]
      OBVIOUS
    <2>4. /\ x.code = r.code /\ x.addr = r.addr
          /\ y.code = r.code /\ y.addr = r.addr /\ y.fd = NULL
      BY <1>1, <2>3 DEF IsLocal
    <2>5. Goto(c, "append", x) \/ Goto(c, "rename", y)
      BY <1>12, <2>3 DEF StoreWrite, StoreAppend
    <2> QED
      BY <1>9, <2>1, <2>2, <2>4, <2>5 DEF StoringAt, NamingAt
  <1> QED
    BY <1>8, <1>10, <1>11, <1>12

\* The rename adds a file of the size that is added to the estimate.
LEMMA SizeRename ==
  ASSUME NEW c, Clients = {c}, IOErrors = FALSE, WholeInv(c), WholeInv(c)', SizeInv(c),
         MaxTotal + Limit < SizeMod \div 2, StoreRename(c)
  PROVE  SizeInv(c)'
  <1> PICK l, r, t, D : l = pc[c] /\ r = local[c] /\ t = total_size[c] /\ D = DirSize
    OBVIOUS
  <1>1. /\ ClientOk(l, r) /\ IsLocal(r) /\ Types /\ c \in Clients /\ Entries
        /\ Typed(c) /\ NamesKnown(l, r, entry, file) /\ t \in Nat /\ Sized(l, r, t, D)
    BY Known
  <1>2. D \in Nat /\ D <= Limit /\ t <= MaxTotal + Limit /\ (l # "closed" => D <= t) /\ Limit \in Nat
    BY <1>1, LimitRoom DEF Sized
  <1>3. PICK a, v, i : a = r.addr /\ v = r.code /\ i = tmp[a]
    OBVIOUS
  <1>4. /\ l = "rename" /\ a \in Addrs /\ v \in Codes /\ i # NULL
        /\ entry' = [entry EXCEPT ![a] = i] /\ Goto(c, "idle", NoLocal) /\ Update(file)
        /\ total_size' = [total_size EXCEPT ![c] = Add(total_size[c], Hdr + SizeOf[v])]
    BY <1>1, <1>3 DEF StoreRename, Return, Charged, ClientOk, OfBlock
  <1>5. entry[a] = NULL /\ file[i] = Whole(v)
    BY <1>1, <1>3, <1>4 DEF NamesKnown, NamingAt, WholeInv, Storing
  <1>6. file'[i] = Whole(v)
    <2>1. Types' /\ entry'[a] = i
      BY <1>1, <1>4 DEF Types, WholeInv, OneInv, Inv
    <2> QED
      BY <1>4, <1>5, <2>1, NamedKept
  <1>7. ASSUME NEW b \in Addrs, b # a, entry[b] # NULL PROVE file'[entry[b]] = file[entry[b]]
    <2>1. entry'[b] = entry[b]
      BY <1>1, <1>4, <1>7 DEF Types
    <2> QED
      BY <1>7, <2>1, FilesStay DEF Step
  <1>8. DirSize' = D + (Hdr + SizeOf[v]) /\ SizeOf[v] \in Nat
    <2>1. FileSize(file'[i]) = Hdr + SizeOf[v] /\ FileSize(file'[i]) \in Nat
      BY <1>4, <1>6, WholeSize
    <2> QED
      BY <1>1, <1>4, <1>5, <1>7, <2>1, DirMore
  <1>9. /\ t <= MaxTotal /\ SizeOf[v] <= MaxEntry
        /\ D + SizeOf[v] <= MaxBytes \/ D <= MaxBytes \div 2
    BY <1>1, <1>3, <1>4 DEF Sized, StoringAt
  <1>10. PICK u, E : u = t + (Hdr + SizeOf[v]) /\ E = D + (Hdr + SizeOf[v])
    OBVIOUS
  <1>11. E \in Nat /\ E <= Limit /\ u \in Nat /\ u <= MaxTotal + Limit /\ E <= u
    BY <1>1, <1>2, <1>4, <1>8, <1>9, <1>10, LimitRoom
  <1>12. Add(t, Hdr + SizeOf[v]) = u
    <2>1. PICK h : h = SizeMod \div 2
      OBVIOUS
    <2>2. h \in Nat /\ h <= SizeMod /\ MaxTotal + Limit < h
      BY <2>1
    <2>3. u < SizeMod
      BY <1>2, <1>11, <2>2
    <2> QED
      BY <1>10, <1>11, <2>3, SizeExact DEF Add
  <1>13. dirty' \subseteq Inodes /\ NoLocal.fd = NULL
    BY <1>4 DEF Update, NoLocal
  <1>14. Sized("idle", NoLocal, u, E) /\ \A X, F : NamesKnown("idle", NoLocal, X, F)
    BY <1>11, IdleSized
  <1> QED
    BY <1>1, <1>4, <1>8, <1>10, <1>11, <1>12, <1>13, <1>14, Arrive DEF PC

\* What is removed is subtracted, or stays counted.
LEMMA SizeRemoves ==
  ASSUME NEW c, Clients = {c}, IOErrors = FALSE, WholeInv(c), WholeInv(c)', SizeInv(c),
         MaxTotal + Limit < SizeMod \div 2,
         LookupStale(c) \/ InvalidateAll(c) \/ CleanupUnlink(c) \/ \E a \in Addrs : Invalidate(c, a)
  PROVE  SizeInv(c)'
  <1> PICK l, r, t, D : l = pc[c] /\ r = local[c] /\ t = total_size[c] /\ D = DirSize
    OBVIOUS
  <1>1. /\ ClientOk(l, r) /\ IsLocal(r) /\ Types /\ c \in Clients /\ Entries
        /\ Typed(c) /\ NamesKnown(l, r, entry, file) /\ t \in Nat /\ Sized(l, r, t, D)
    BY Known
  <1>2. D \in Nat /\ D <= Limit /\ t <= MaxTotal + Limit /\ (l # "closed" => D <= t) /\ Limit \in Nat
    BY <1>1, LimitRoom DEF Sized
  <1>3. dirty' \subseteq Inodes /\ NoLocal.fd = NULL
    BY DEF LookupStale, InvalidateAll, CleanupUnlink, Invalidate, Update, NoLocal
  <1>4. ASSUME NEW a \in Addrs, entry' = [entry EXCEPT ![a] = NULL], NEW b \in Addrs, b # a, entry[b] # NULL
        PROVE  file'[entry[b]] = file[entry[b]]
    <2>1. entry'[b] = entry[b]
      BY <1>1, <1>4 DEF Types
    <2> QED
      BY <1>4, <2>1, FilesStay DEF Step, Call
  <1>5. ASSUME NEW a \in Addrs, entry' = [entry EXCEPT ![a] = NULL], entry[a] # NULL, NEW n,
               n = FileSize(file[entry[a]]), l # "closed"
        PROVE  /\ n \in Nat /\ n <= D /\ DirSize' = D - n /\ Sub(t, n) = t - n
               /\ DirSize' \in Nat /\ t - n \in Nat /\ DirSize' <= t - n
               /\ t - n <= t /\ DirSize' <= D
    <2>1. n \in Nat /\ n <= D /\ DirSize' = D - n
      BY <1>1, <1>4, <1>5, DirLess
    <2>2. t - n \in Nat /\ t - n <= t
      BY <1>1, <1>2, <1>5, <2>1
    <2>3. t - n < SizeMod
      <3>1. PICK h : h = SizeMod \div 2
        OBVIOUS
      <3>2. h \in Nat /\ h <= SizeMod /\ MaxTotal + Limit < h
        BY <3>1
      <3> QED
        BY <1>1, <1>2, <2>1, <2>2, <3>2
    <2>4. Sub(t, n) = t - n
      BY <2>2, <2>3, SizeExact DEF Sub
    <2> QED
      BY <1>1, <1>2, <1>5, <2>1, <2>2, <2>4
  <1>6. CASE LookupStale(c)
    <2>1. PICK a : a = r.addr
      OBVIOUS
    <2>2. /\ l = "stale" /\ a \in Addrs /\ entry' = [entry EXCEPT ![a] = NULL]
          /\ Goto(c, "idle", NoLocal) /\ UNCHANGED total_size
      BY <1>1, <1>6, <2>1 DEF LookupStale, Return, ClientOk, OfBlock
    <2>3. DirSize' \in Nat /\ DirSize' <= D
      <3>1. CASE entry[a] # NULL
        BY <1>5, <2>2, <3>1
      <3>2. CASE entry[a] = NULL
        <4>1. entry' = entry
          BY <1>1, <2>2, <3>2 DEF Types
        <4>2. Step(c)
          BY <1>6 DEF Step
        <4>3. DirSize' = DirSize
          BY <4>1, <4>2, DirStays
        <4> QED
          BY <1>2, <4>3
      <3> QED
        BY <3>1, <3>2
    <2>4. PICK E : E = DirSize'
      OBVIOUS
    <2>5. E \in Nat /\ E <= Limit /\ E <= t
      BY <1>1, <1>2, <2>2, <2>3, <2>4
    <2>6. Sized("idle", NoLocal, t, E) /\ \A X, F : NamesKnown("idle", NoLocal, X, F)
      BY <1>1, <1>2, <2>5, IdleSized
    <2> QED
      BY <1>1, <1>3, <2>2, <2>4, <2>6, Arrive DEF PC
  <1>7. CASE InvalidateAll(c)
    <2>1. /\ l = "idle" /\ UNCHANGED <<pc, local>> /\ total_size' = [total_size EXCEPT ![c] = 0]
          /\ entry' = [a \in Addrs |-> NULL]
      BY <1>7 DEF InvalidateAll
    <2>2. DirSize' = 0
      <3>1. Present' = {}
        BY <2>1 DEF Present
      <3>2. SumFunction([a \in {} |-> FileSize(file'[entry'[a]])]) = 0
        BY SumEmpty DEF SumFunction
      <3> QED
        BY <3>1, <3>2 DEF DirSize
    <2>3. 0 \in Nat /\ 0 <= MaxTotal + Limit /\ 0 <= Limit
      BY <1>2
    <2>4. Sized("idle", r, 0, 0) /\ \A X, F : NamesKnown("idle", r, X, F)
      BY <2>3, IdleSized
    <2>5. r.fd = NULL
      BY <1>1, <2>1 DEF Typed
    <2> QED
      BY <1>1, <1>3, <2>1, <2>2, <2>3, <2>4, <2>5, Arrive DEF PC
  <1>8. CASE \E a \in Addrs : Invalidate(c, a)
    <2>1. PICK a \in Addrs : Invalidate(c, a)
      BY <1>8
    <2>2. PICK n : n = FileSize(file[entry[a]])
      OBVIOUS
    <2>3. /\ l = "idle" /\ entry[a] # NULL /\ UNCHANGED <<pc, local>>
          /\ total_size' = [total_size EXCEPT ![c] = Sub(total_size[c], n)]
          /\ entry' = [entry EXCEPT ![a] = NULL]
      BY <2>1, <2>2 DEF Invalidate
    <2>4. PICK E, u : E = DirSize' /\ u = t - n
      OBVIOUS
    <2>5. Sub(t, n) = u /\ E \in Nat /\ u \in Nat /\ E <= u /\ u <= t /\ E <= D
      BY <1>5, <2>2, <2>3, <2>4
    <2>6. E <= Limit /\ u <= MaxTotal + Limit
      BY <1>1, <1>2, <2>5
    <2>7. Sized("idle", r, u, E) /\ \A X, F : NamesKnown("idle", r, X, F)
      BY <2>5, <2>6, IdleSized
    <2>8. r.fd = NULL
      BY <1>1, <2>3 DEF Typed
    <2> QED
      BY <1>1, <1>3, <2>3, <2>4, <2>5, <2>7, <2>8, Arrive DEF PC
  <1>9. CASE CleanupUnlink(c)
    <2>1. PICK s, f, a, q : s = r.list /\ f = Head(s) /\ a = f.addr /\ q = [r EXCEPT !.list = Tail(s)]
      OBVIOUS
    <2>2. l = "unlink" /\ s # <<>> /\ Goto(c, "unlink", q)
      BY <1>9, <2>1 DEF CleanupUnlink, MoreToRemove
    <2>3. Listed(s, entry, file)
      BY <1>1, <2>1, <2>2 DEF NamesKnown
    <2>4. a \in Addrs /\ entry[a] # NULL /\ f.size = FileSize(file[entry[a]])
      <3>1. s \in Seq([addr : Addrs, size : Nat]) /\ 1 \in 1..Len(s) /\ f = s[1]
        BY <2>1, <2>2, <2>3 DEF Listed
      <3>2. f \in [addr : Addrs, size : Nat]
        BY <3>1, ElementOfSeq
      <3>3. f.addr \in Addrs
        BY <3>2
      <3>4. \A k \in 1..Len(s) : entry[s[k].addr] # NULL /\ s[k].size = FileSize(file[entry[s[k].addr]])
        BY <2>3 DEF Listed
      <3>5. entry[s[1].addr] # NULL /\ s[1].size = FileSize(file[entry[s[1].addr]])
        BY <3>1, <3>4
      <3> QED
        BY <2>1, <3>1, <3>3, <3>5
    <2>5. /\ entry' = [entry EXCEPT ![a] = NULL]
          /\ total_size' = [total_size EXCEPT ![c] = Sub(total_size[c], f.size)]
      BY <1>9, <2>1, <2>4 DEF CleanupUnlink
    <2>6. PICK E, u, n : E = DirSize' /\ n = f.size /\ u = t - n
      OBVIOUS
    <2>7. Sub(t, n) = u /\ E \in Nat /\ u \in Nat /\ E <= u /\ u <= t /\ E <= D
      BY <1>5, <2>2, <2>4, <2>5, <2>6
    <2>8. Listed(Tail(s), entry', file')
      BY <1>1, <1>4, <2>1, <2>2, <2>3, <2>4, <2>5, ListShrinks
    <2>9. /\ q.list = Tail(s) /\ q.then = r.then /\ q.code = r.code /\ q.target = r.target
          /\ q.fd = r.fd /\ r.fd = NULL
      BY <1>1, <2>1, <2>2 DEF IsLocal, Typed
    <2>10. NamesKnown("unlink", q, entry', file')
      BY <2>8, <2>9 DEF NamesKnown, NamingAt
    <2>11. Sized("unlink", q, u, E)
      <3>1. E <= Limit /\ u <= MaxTotal + Limit
        BY <1>1, <1>2, <2>7
      <3>2. r.then = "access" => u <= MaxTotal /\ SizeOf[r.code] <= MaxEntry /\ r.target = MaxBytes \div 2
        BY <1>1, <2>2, <2>7 DEF Sized
      <3> QED
        BY <2>7, <2>9, <3>1, <3>2 DEF Sized, StoringAt
    <2> QED
      BY <1>1, <1>3, <2>2, <2>5, <2>6, <2>7, <2>9, <2>10, <2>11, Arrive DEF PC
  <1> QED
    BY <1>6, <1>7, <1>8, <1>9

\* With one client and no failing file operation, wherever the client is killed:
\* what is published is whole, the estimate a handle keeps is never below the
\* bytes in the directory, and the directory exceeds max_size_bytes by at most
\* one header or by the entry stored after a cleanup, as long as the estimate,
\* which drifts upwards (MaxTotal bounds it), stays below half a size_t.
THEOREM DirectoryKept ==
  ASSUME NEW one, Clients = {one}, IOErrors = FALSE, MaxTotal + Limit < SizeMod \div 2
  PROVE  Spec => []FilesSound
  <1> DEFINE J == WholeInv(one) /\ SizeInv(one)
  <1>1. Init => J
    <2> SUFFICES ASSUME Init PROVE J
      OBVIOUS
    <2>1. WholeInv(one)
      BY Start DEF Init, OneInv, OpenFile, OneFile, WholeInv, Apart, Entries, Storing
    <2>2. DirSize = 0
      BY DirNone DEF Init
    <2>3. Sized("closed", NoLocal, 0, 0) /\ \A X, F : NamesKnown("closed", NoLocal, X, F)
      <3>1. 0 \in Nat /\ 0 <= MaxTotal + Limit /\ 0 <= Limit
        BY LimitRoom
      <3> QED
        BY <3>1, IdleSized
    <2>4. Typed(one)
      BY DEF Init, Typed, PC, NoLocal
    <2> QED
      BY <2>1, <2>2, <2>3, <2>4 DEF Init, SizeInv
  <1>2. J /\ [Next]_vars => J'
    <2> SUFFICES ASSUME J, [Next]_vars PROVE J'
      OBVIOUS
    <2>1. WholeInv(one)'
      BY WholeStep
    <2>2. CASE UNCHANGED vars
      <3>1. UNCHANGED <<entry, file, dirty, total_size, pc, local>>
        BY <2>2 DEF vars, names
      <3>2. DirSize' = DirSize
        BY <3>1, DirSame
      <3> QED
        BY <2>1, <3>1, <3>2 DEF SizeInv, Typed
    <2>3. CASE Next
      <3>1. Call(one) \/ Step(one) \/ Kill(one)
        BY <2>3 DEF Next
      <3>2. ~ StoreCloseFails(one) /\ ~ StoreFails(one)
        BY DEF StoreCloseFails, StoreFails, WholeInv, Storing
      <3> QED
        BY <2>1, <3>1, <3>2, SizeCalls, SizeReads, SizeCleanup, SizeStores, SizeRename, SizeRemoves
           DEF Call, Step
    <2> QED
      BY <2>2, <2>3
  <1>3. J => FilesSound
    <2> SUFFICES ASSUME J PROVE FilesSound
      OBVIOUS
    <2>1. PublishedWhole
      <3> SUFFICES ASSUME NEW a \in Present
                   PROVE  /\ file[entry[a]].head \in Codes
                          /\ file[entry[a]].body = Translation(file[entry[a]].head)
        BY DEF PublishedWhole
      <3>1. PICK v \in Codes : file[entry[a]] = Whole(v)
        BY DEF WholeInv, Entries, Present
      <3> QED
        BY <3>1 DEF Whole
    <2>2. SizeCovered /\ SizeLimit
      BY DEF SizeInv, Sized, SizeCovered, SizeLimit, Limit
    <2>3. TypeOK
      <3>1. ClientOk(pc[one], local[one]) /\ Types /\ \A i \in Inodes : FileOk(file[i])
        BY OfClient DEF WholeInv, OneInv
      <3>2. total_size[one] \in 0..(SizeMod - 1)
        <4>1. PICK h : h = SizeMod \div 2
          OBVIOUS
        <4>2. h \in Nat /\ h <= SizeMod /\ MaxTotal + Limit < h
          BY <4>1
        <4>3. total_size[one] \in Nat /\ total_size[one] <= MaxTotal + Limit
          BY DEF SizeInv, Sized
        <4> QED
          BY <4>2, <4>3, LimitRoom
      <3>3. total_size \in [Clients -> 0..(SizeMod - 1)]
        BY <3>2 DEF SizeInv, Typed
      <3>4. local[one].fd \in Inodes <=> pc[one] \in {"header", "code", "write", "append"}
        BY <3>1 DEF SizeInv, Typed, ClientOk
      <3> QED
        BY <3>1, <3>3, <3>4 DEF TypeOK, Types, FileOk, SizeInv, Typed
    <2> QED
      BY <2>1, <2>2, <2>3 DEF FilesSound
  <1> QED
    BY <1>1, <1>2, <1>3, PTL DEF Spec
=============================================================================
