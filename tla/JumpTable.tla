----------------------------- MODULE JumpTable -----------------------------
(***************************************************************************)
(* The table of indirect-branch stubs (modules/arm2x86_jumptable.c), the   *)
(* calls its header offers and the native-bridge call that fills it.  A    *)
(* stub is a slot of the code memory holding `jmp [rip+0]` and the address *)
(* behind it; slots are given out once and never reused, entries are.      *)
(***************************************************************************)
EXTENDS Naturals, Sequences, FiniteSets

CONSTANTS
  Addr,        \* addresses of code: symbols and their translations
  Capacity,    \* JUMP_TABLE_SIZE
  StubMax,     \* memory_capacity / STUB_SIZE_INDIRECT
  MaxHits      \* bound: hit_count is not counted past it

ASSUME JumpTableAssumption == Capacity \in Nat \ {0} /\ StubMax \in Nat /\ MaxHits \in Nat

VARIABLES
  entries,     \* jt->entries[0 .. count-1]: arm_addr, x86_target, hit_count, x86_stub
  stubs,       \* the address each stub slot in use jumps to; Len(stubs) is memory_used
  jtMapped,    \* jt->code_memory is mapped
  jtCrashed,   \* a NULL entry was followed, or a stub written at NULL
  unwritten    \* addresses whose entry was last filled without writing a stub
               \* (a history variable)

jumpVars == <<entries, stubs, jtMapped, jtCrashed, unwritten>>

Ix == DOMAIN entries
LookupHits(a) == {i \in Ix : entries[i].arm_addr = a}
FirstIx(S) == CHOOSE i \in S : \A j \in S : i <= j
HitCounted(n) == IF n < MaxHits THEN n + 1 ELSE n

(* jumptable_lookup: the first entry of the address, whose count goes up.  *)
Looked(a) == [entries EXCEPT ![FirstIx(LookupHits(a))].hit_count = HitCounted(@)]

(* The entry with the fewest hits, the first of several. *)
LeastHit == FirstIx({i \in Ix : \A j \in Ix : entries[i].hit_count <= entries[j].hit_count})
JtFull == Len(entries) >= Capacity
JtSlot == IF JtFull THEN LeastHit ELSE Len(entries) + 1
NoStub == 0

(* jumptable_create_entry for an address without an entry.  The entry is    *)
(* taken and filled before stub memory is looked for, so with none left it  *)
(* stays in the table with the stub of the entry it replaced, or with none. *)
Exhausted == Len(stubs) + 1 > StubMax
OldStub == IF JtFull THEN entries[JtSlot].x86_stub ELSE NoStub
NewStub == IF Exhausted THEN OldStub ELSE Len(stubs) + 1
FilledKeepingStub(a, x, s) ==
  LET e == [arm_addr |-> a, x86_target |-> x, hit_count |-> 0,
            x86_stub |-> IF JtFull THEN OldStub ELSE s]
  IN  IF JtFull THEN [entries EXCEPT ![JtSlot] = e] ELSE Append(entries, e)
Filled(a, x, s) ==
  LET e == [arm_addr |-> a, x86_target |-> x, hit_count |-> 0, x86_stub |-> s]
  IN  IF JtFull THEN [entries EXCEPT ![JtSlot] = e] ELSE Append(entries, e)
Written(x) == IF Exhausted THEN stubs ELSE Append(stubs, x)

UnwrittenAfter(a) == IF Exhausted THEN unwritten \cup {a} ELSE unwritten \ {a}

JtInit ==
  entries = <<>> /\ stubs = <<>> /\ jtMapped = FALSE /\ jtCrashed = FALSE /\ unwritten = {}

(* jumptable_create_entry on a table in use: an entry the address has       *)
(* already is given the target, and its stub is left as it is.              *)
CreateExisting(a, x) ==
  /\ jtMapped /\ LookupHits(a) # {}
  /\ entries' = [Looked(a) EXCEPT ![FirstIx(LookupHits(a))].x86_target = x]
  /\ unwritten' = unwritten \cup {a}
  /\ UNCHANGED <<stubs, jtMapped, jtCrashed>>
CreateNew(a, x) ==
  /\ jtMapped /\ LookupHits(a) = {}
  /\ entries' = Filled(a, x, NewStub)
  /\ stubs' = Written(x)
  /\ unwritten' = UnwrittenAfter(a)
  /\ UNCHANGED <<jtMapped, jtCrashed>>

(* nb_getTrampolineWithJumps: sym is what NativeBridgeGetTrampoline gave.   *)
(* The result of jumptable_init, the first time and after a destruction, is *)
(* ignored: without memory the stub is written at NULL.  An entry that was  *)
(* not made is read all the same.                                           *)
BridgeHit(sym) ==
  /\ LookupHits(sym) # {}
  /\ entries' = Looked(sym)
  /\ UNCHANGED <<stubs, jtMapped, jtCrashed, unwritten>>
BridgeCreate(sym) ==
  /\ LookupHits(sym) = {}
  /\ jtMapped' \in {TRUE, jtMapped}
  /\ entries' = Filled(sym, sym, NewStub)
  /\ stubs' = Written(sym)
  /\ jtCrashed' = (Exhausted \/ ~jtMapped')
  /\ unwritten' = UnwrittenAfter(sym)

(* jumptable_patch_entry: the stub and the record of it. *)
PatchStub(i, x) == [stubs EXCEPT ![entries[i].x86_stub] = x]
jumptable_patch_entry(i, x) ==
  /\ i \in Ix /\ entries[i].x86_stub # NoStub
  /\ stubs' = PatchStub(i, x)
  /\ entries' = [entries EXCEPT ![i].x86_target = x]
  /\ unwritten' = unwritten \ {entries[i].arm_addr}
  /\ UNCHANGED <<jtMapped, jtCrashed>>

jumptable_destroy ==
  /\ jtMapped
  /\ entries' = <<>> /\ stubs' = <<>> /\ jtMapped' = FALSE /\ unwritten' = {}
  /\ UNCHANGED jtCrashed

JtNext ==
  /\ ~jtCrashed
  /\ \/ \E sym \in Addr : BridgeHit(sym) \/ BridgeCreate(sym)
     \/ \E a, x \in Addr : CreateExisting(a, x) \/ CreateNew(a, x)
     \/ \E i \in Ix, x \in Addr : jumptable_patch_entry(i, x)
     \/ jumptable_destroy

JtSpec == JtInit /\ [][JtNext]_jumpVars
-----------------------------------------------------------------------------
(* The stub of an entry jumps where the entry says, through creation,       *)
(* replacement, patching, exhaustion of the stub memory and destruction,    *)
(* unless the entry was last filled without a stub being written: for an    *)
(* address that had an entry (jumptable.c:90-94), or with no memory left.   *)
StubTarget ==
  ~jtCrashed => \A i \in Ix : entries[i].arm_addr \notin unwritten =>
     entries[i].x86_stub # NoStub /\ stubs[entries[i].x86_stub] = entries[i].x86_target

(* Patching one entry cannot redirect another: no two entries share a stub  *)
(* or an address.                                                           *)
StubsApart ==
  ~jtCrashed => \A i, j \in Ix : i # j =>
     /\ entries[i].arm_addr # entries[j].arm_addr
     /\ entries[i].x86_stub # NoStub => entries[i].x86_stub # entries[j].x86_stub

(* A jump through a stub reaches the target of exactly one entry, the one   *)
(* it was written for (jumptable_create_entry, jumptable_patch_entry).      *)
StubsRight == StubTarget /\ StubsApart

(* What jumptable_create_entry promises for every address: the entry it     *)
(* returns, and a later lookup finds, has a stub that leads to the target   *)
(* it was given.                                                            *)
CreatedLeads ==
  ~jtCrashed => \A i \in Ix :
     entries[i].x86_stub # NoStub /\ stubs[entries[i].x86_stub] = entries[i].x86_target

(* A bridge call for a symbol always gets a stub. *)
AlwaysStub == ~jtCrashed
=============================================================================
