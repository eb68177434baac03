----------------------------- MODULE ElfSymbols -----------------------------
(***************************************************************************)
(* Symbol resolution of the ELF loader (modules/arm2x86_elf.c).            *)
(*                                                                         *)
(* ElfLoad fills the hash-table fields of an ElfModule from the dynamic    *)
(* section, ElfBuildSymbolTable may replace them, ElfGetSymbol walks       *)
(* them one chain link at a time.  A symbol is its name and its form:      *)
(* binding, section and value; the symbol at index 0 is the null symbol.   *)
(* What the loops touch is kept (buckets, chains, their lengths); the      *)
(* bytes of names are not: elf_hash and gnu_hash are one function on       *)
(* names, with collisions.  The symbol table is built at most once, and    *)
(* its two allocations succeed.                                            *)
(***************************************************************************)
EXTENDS Naturals, Sequences, FiniteSets

CONSTANTS
  Name,       \* symbol names
  HashOf,     \* [Name -> Nat]: elf_hash, gnu_hash
  NBucket,    \* buckets of the tables the linker writes
  Tables,     \* which of DT_HASH and DT_GNU_HASH a library may have
  NoName,     \* a symbol with st_name = 0, such as that of a section
  Forms       \* the forms its symbols may have

ASSUME SymbolAssumption ==
  /\ NBucket \in Nat \ {0}
  /\ HashOf \in [Name -> Nat]
  /\ Tables \subseteq SUBSET {"sysv", "gnu"}
  /\ NoName \notin Name
  /\ Forms \subseteq [bind : {"local", "global", "weak"}, shndx : {"undef", "section"},
                      value : {0, 1}]

VARIABLES
  dynsym,     \* the symbol table: index i is ELF index i, index 0 is implied
  has,        \* the hash tables the library has
  nbucket, nchain, bucket, chain,   \* fields of ElfModule, from DT_HASH
  ghash,      \* the table at DT_GNU_HASH
  built,      \* ElfBuildSymbolTable has run
  look        \* the lookup under way: [pc, name, idx, found]

symVars == <<dynsym, has, nbucket, nchain, bucket, chain, ghash, built, look>>

elf_hash(n) == HashOf[n]
gnu_hash(n) == HashOf[n]

Index == 1 .. Len(dynsym)
Named(i, n) == dynsym[i].name = n
Hashed(y) == y.name # NoName /\ y.form.bind # "local"
Exports(y) == Hashed(y) /\ y.form.shndx # "undef"
Defined(n) == \E i \in Index : Named(i, n) /\ Exports(dynsym[i])

(***************************************************************************)
(* The tables the static linker writes.  The SysV table holds every named  *)
(* symbol that is not local, the GNU table the defined ones of these,      *)
(* which are last in the symbol table and sorted by bucket; a link with    *)
(* bit 0 set ends its chain.                                               *)
(***************************************************************************)
InBucket(S, b) == {i \in S : HashOf[dynsym'[i].name] % NBucket = b}
MaxOf(S) == IF S = {} THEN 0 ELSE CHOOSE i \in S : \A j \in S : j <= i
MinOf(S) == IF S = {} THEN 0 ELSE CHOOSE i \in S : \A j \in S : i <= j
LinkerBuckets(S) == [b \in 0 .. NBucket - 1 |-> MaxOf(InBucket(S, b))]
LinkerChain(S, n) ==
  [i \in 0 .. n |->
     IF i \in S
       THEN MaxOf({j \in InBucket(S, HashOf[dynsym'[i].name] % NBucket) : j < i})
       ELSE 0]
LinkerGnu(S, n) ==
  [nbuckets |-> NBucket,
   symoffset |-> n - Cardinality(S) + 1,
   buckets |-> [b \in 0 .. NBucket - 1 |-> MinOf(InBucket(S, b))],
   last |-> [i \in S |-> i = MaxOf(InBucket(S, HashOf[dynsym'[i].name] % NBucket))]]
NoGnu == [nbuckets |-> 0, symoffset |-> 0, buckets |-> <<>>, last |-> <<>>]

(* Symbol tables a linker writes: local symbols first, with those that have *)
(* no name among them, then imports, then definitions by bucket.            *)
SymbolTable(s) ==
  /\ \A i, j \in DOMAIN s : i # j /\ s[i].name = s[j].name => s[i].name = NoName
  /\ \A i \in DOMAIN s : s[i].name = NoName => s[i].form.bind = "local"
  /\ \A i, j \in DOMAIN s : i < j /\ Hashed(s[i]) => Hashed(s[j])
  /\ \A i, j \in DOMAIN s : i < j /\ Exports(s[i]) =>
       Exports(s[j]) /\ HashOf[s[i].name] % NBucket <= HashOf[s[j].name] % NBucket

Symbol == [name : Name \union {NoName}, form : Forms]

SymIdle == [pc |-> "idle", name |-> NoName, idx |-> 0, found |-> 0]

SymInit ==
  /\ dynsym = <<>> /\ has = {} /\ built = FALSE /\ look = SymIdle
  /\ nbucket = 0 /\ nchain = 0 /\ bucket = <<>> /\ chain = <<>> /\ ghash = NoGnu

(***************************************************************************)
(* ReadDynamic, in ElfLoad: the walk over PT_DYNAMIC.  nchain, and so the  *)
(* bound of every later walk, comes from DT_HASH alone.                    *)
(***************************************************************************)
ReadDynamic(s, t) ==
  /\ dynsym = <<>> /\ s # <<>> /\ SymbolTable(s)
  /\ dynsym' = s /\ has' = t
  /\ LET all == {i \in DOMAIN s : Hashed(s[i])}
         defs == {i \in DOMAIN s : Exports(s[i])}
     IN  /\ IF "sysv" \in t
              THEN /\ nbucket' = NBucket /\ nchain' = Len(s) + 1
                   /\ bucket' = LinkerBuckets(all)
                   /\ chain' = LinkerChain(all, Len(s))
              ELSE UNCHANGED <<nbucket, nchain, bucket, chain>>
         /\ ghash' = IF "gnu" \in t THEN LinkerGnu(defs, Len(s)) ELSE NoGnu
  /\ UNCHANGED <<built, look>>

(***************************************************************************)
(* ElfBuildSymbolTable: a SysV table of its own when the library has one,  *)
(* with the global and weak symbols that have a section and a value, up to *)
(* the first symbol without a name, each inserted at the head of its chain *)
(* (the field "hash" it tests is never set); otherwise the GNU buckets are *)
(* copied into the SysV fields, and chain stays NULL.                      *)
(***************************************************************************)
num_syms_short == IF nchain > 0 THEN nchain - 1 ELSE nbucket
num_syms == IF nchain > 0 THEN nchain ELSE nbucket
Inserted ==
  {i \in Index :
     /\ i < num_syms /\ \A j \in 1 .. i : dynsym[j].name # NoName
     /\ dynsym[i].form.bind \in {"global", "weak"}
     /\ dynsym[i].form.shndx # "undef" /\ dynsym[i].form.value # 0}
SameBucket(i) == {j \in Inserted : elf_hash(dynsym[j].name) % nbucket
                                     = elf_hash(dynsym[i].name) % nbucket}
HeadBeforeInsert_late(i) == MaxOf({j \in SameBucket(i) : j <= i})
HeadBeforeInsert(i) == MaxOf({j \in SameBucket(i) : j < i})
ElfBuildSymbolTable ==
  /\ dynsym # <<>> /\ look.pc = "idle" /\ ~built
  /\ built' = TRUE
  /\ IF nbucket > 0
       THEN /\ bucket' = [b \in 0 .. nbucket - 1 |->
                            MaxOf({i \in Inserted : elf_hash(dynsym[i].name) % nbucket = b})]
            /\ chain' = [i \in 0 .. nchain - 1 |->
                           IF i \in Inserted
                             THEN HeadBeforeInsert(i) ELSE 0]
            /\ UNCHANGED nbucket
       ELSE /\ nbucket' = ghash.nbuckets /\ bucket' = ghash.buckets
            /\ UNCHANGED chain
  /\ UNCHANGED <<dynsym, has, nchain, ghash, look>>

(***************************************************************************)
(* ElfGetSymbol: the SysV chain from its bucket, then the GNU chain, then  *)
(* dlsym on module->handle, which ElfLoad leaves NULL.  One action per     *)
(* iteration.                                                              *)
(***************************************************************************)
Fail == [look EXCEPT !.pc = "fail"]
HasSysv == bucket # <<>> /\ nbucket > 0
StartGnu(l) ==
  IF \/ ghash = NoGnu \/ ghash.nbuckets = 0 \/ nchain < ghash.symoffset
    THEN [l EXCEPT !.pc = "fail"]
    ELSE LET i == ghash.buckets[gnu_hash(l.name) % ghash.nbuckets]
         IN  [l EXCEPT !.pc = IF i >= ghash.symoffset /\ i < nchain THEN "gnu" ELSE "fail",
                       !.idx = i]

ElfGetSymbol(n) ==
  /\ dynsym # <<>> /\ look.pc = "idle"
  /\ LET l == [SymIdle EXCEPT !.name = n]
     IN  look' = IF HasSysv
                   THEN [l EXCEPT !.pc = "sysv", !.idx = bucket[elf_hash(n) % nbucket]]
                   ELSE StartGnu(l)
  /\ UNCHANGED <<dynsym, has, nbucket, nchain, bucket, chain, ghash, built>>

SysvStep ==
  /\ look.pc = "sysv"
  /\ look' = IF look.idx = 0 \/ look.idx >= num_syms THEN StartGnu(look)
             ELSE IF Named(look.idx, look.name)
                    THEN [look EXCEPT !.pc = "found", !.found = look.idx]
                    ELSE IF chain = <<>> THEN [look EXCEPT !.pc = "null chain"]
                    ELSE [look EXCEPT !.idx = chain[look.idx]]
  /\ UNCHANGED <<dynsym, has, nbucket, nchain, bucket, chain, ghash, built>>

GnuStep ==
  /\ look.pc = "gnu"
  /\ look' = IF look.idx >= nchain THEN Fail
             ELSE IF Named(look.idx, look.name)
                    THEN [look EXCEPT !.pc = "found", !.found = look.idx]
                    ELSE IF ~ghash.last[look.idx] /\ look.idx + 1 < nchain
                           THEN [look EXCEPT !.idx = @ + 1]
                           ELSE Fail
  /\ UNCHANGED <<dynsym, has, nbucket, nchain, bucket, chain, ghash, built>>

GetSymbolReturn ==
  /\ look.pc \in {"found", "fail"}
  /\ look' = SymIdle
  /\ UNCHANGED <<dynsym, has, nbucket, nchain, bucket, chain, ghash, built>>

SymbolTables == UNION {[1 .. k -> Symbol] : k \in 1 .. Cardinality(Name)}

SymNext ==
  \/ \E s \in SymbolTables, t \in Tables : ReadDynamic(s, t)
  \/ ElfBuildSymbolTable
  \/ \E n \in Name : ElfGetSymbol(n)
  \/ SysvStep \/ GnuStep \/ GetSymbolReturn

-----------------------------------------------------------------------------
(* Type correctness of the ElfModule fields and of the lookup. *)
SymTypeOK ==
  /\ dynsym \in {<<>>} \cup SymbolTables
  /\ nbucket \in Nat /\ nchain \in Nat
  /\ \A b \in DOMAIN bucket : bucket[b] \in 0 .. Len(dynsym)
  /\ \A i \in DOMAIN chain : chain[i] \in 0 .. Len(dynsym)
  /\ look.pc \in {"idle", "sysv", "gnu", "found", "fail", "null chain"}
  /\ look.name \in Name \cup {NoName} /\ {look.idx, look.found} \subseteq 0 .. Len(dynsym)

(* What ElfGetSymbol has to find: what the library defines and, once the   *)
(* table is rebuilt, what the rebuilding loop does not pass over.          *)
Findable(i) ==
  /\ Exports(dynsym[i])
  /\ built => dynsym[i].form.value # 0 /\ \A j \in 1 .. i : dynsym[j].name # NoName

(* In a library with a SysV table ElfGetSymbol fails only for a name that  *)
(* no findable symbol has: no walk leaves its chain early, in the linker's *)
(* table or the rebuilt one.                                               *)
DefinedFound ==
  look.pc = "fail" /\ "sysv" \in has => \A i \in Index : Findable(i) => ~Named(i, look.name)

(* "Build symbol table from dynamic section (... DT_HASH/DT_GNU_HASH)"     *)
(* (arm2x86_elf.c:618): so it is in a library with either table.  Not so   *)
(* for one that has the GNU table alone: nchain stays 0, and once the      *)
(* symbol table is built a walk follows the NULL chain.                    *)
GnuDefinedFound == look.pc \in {"fail", "null chain"} => ~Defined(look.name)

(* Not true of the code; see the README: the same of a library with a SysV *)
(* table.  Rebuilding it loses what is behind a symbol without a name.     *)
RebuiltFinds == "sysv" \in has => GnuDefinedFound

(* After ElfBuildSymbolTable has rebuilt the SysV table, a library that    *)
(* merely imports a name no longer answers for it.                         *)
ImportsHidden == built /\ look.pc = "found" => Exports(dynsym[look.found])

(* ElfGetSymbol finds what the library defines, or what rebuilding the     *)
(* table has left of it, and only that once the table is rebuilt.          *)
LookupRight == SymTypeOK /\ DefinedFound /\ ImportsHidden

(* Every ElfGetSymbol in a library with a SysV table returns: the chains   *)
(* it walks, the linker's and the rebuilt ones, have no cycle.             *)
LookupEnds ==
  look.pc \in {"sysv", "gnu"} /\ "sysv" \in has ~> look.pc \in {"found", "fail"}

SymSpec == SymInit /\ [][SymNext]_symVars
SymFairSpec == SymSpec /\ WF_symVars(SysvStep \/ GnuStep \/ GetSymbolReturn)
=============================================================================
