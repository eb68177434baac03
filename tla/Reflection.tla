----------------------------- MODULE Reflection -----------------------------
(***************************************************************************)
(* modules/arm2x86_syscall.c: calling Java methods and reading Java fields *)
(* by name.  What is known of a class is kept in a table that grows by     *)
(* realloc; a call keeps a pointer into the table while it is in the Java  *)
(* machine, which may run an initialiser or a method that calls back       *)
(* (FindClass, GetMethodID, Call...Method).                                *)
(***************************************************************************)
EXTENDS Integers, Sequences, FiniteSets

CONSTANTS
  JClass,         \* class names
  KeptName,       \* the name as an entry keeps it: its first 511 bytes
  ReflMax,        \* g_reflection_cache_max at first (256)
  MethodMax,      \* methods kept of a class (64)
  ReflNest,       \* how deep calls nest
  MaxAllocs,      \* a bound on the tables allocated
  MaxEntries      \* a bound on the entries of a table

ASSUME ReflAssumption ==
  ReflMax \in Nat \ {0} /\ MethodMax \in Nat /\ KeptName \in [JClass -> JClass]

VARIABLES
  refl,           \* g_reflection_cache: entries [class, object, methods]
  reflAlloc,      \* the allocation that holds it; 0 is NULL
  reflMax,        \* g_reflection_cache_max
  reflFrames,     \* the calls under way: [class, op, in, alloc, index]
  reflAllocs,     \* how many tables have been allocated
  reflStale       \* whether memory of a table that was freed has been used

reflVars == <<refl, reflAlloc, reflMax, reflFrames, reflAllocs, reflStale>>

-----------------------------------------------------------------------------
NullObject == "null"
FreshEntry(c) == [class |-> KeptName[c], object |-> NullObject, methods |-> <<>>]
(* The whole name is compared with the names the entries keep, so the entry *)
(* of a name that was cut is found for the cut name only.                   *)
EntriesOf(table, c) == {i \in DOMAIN table : table[i].class = c}
LastEntryOf(table, c) == {i \in {Len(table)} : i > 0 /\ table[i].class = c}
Found(table, c) == EntriesOf(table, c)
(* find_reflection_cache: the table, what holds it, and the first entry; a  *)
(* new entry goes behind the last one, in a larger table when it is full,   *)
(* which realloc may or may not move.                                       *)
find_reflection_cache(c) ==
  LET table == IF reflAlloc = 0 THEN <<>> ELSE refl
      held == IF reflAlloc = 0 THEN reflAllocs + 1 ELSE reflAlloc
      at == Found(table, c)
      made == Append(table, FreshEntry(c))
      plain == [table |-> made, alloc |-> held, max |-> reflMax, index |-> Len(made)]
  IN IF at # {} THEN {[plain EXCEPT !.table = table, !.index = i] :
                        i \in {k \in at : \A j \in at : k <= j}}
     ELSE IF Len(table) < reflMax THEN {plain}
     ELSE {[plain EXCEPT !.max = 2 * reflMax, !.alloc = a] : a \in {held, reflAllocs + 1}}

(* The entry and its class are asked for; a class that is known goes on to  *)
(* its method or field.                                                     *)
Begin(c, op) ==
  /\ ~reflStale /\ Len(reflFrames) < ReflNest /\ reflAllocs < MaxAllocs
  /\ \E f \in find_reflection_cache(c) :
       /\ f.index <= MaxEntries
       /\ refl' = f.table /\ reflAlloc' = f.alloc /\ reflMax' = f.max
       /\ reflAllocs' = IF f.alloc > reflAllocs THEN f.alloc ELSE reflAllocs
       /\ reflFrames' = Append(reflFrames,
            [class |-> c, op |-> op, alloc |-> f.alloc, index |-> f.index,
             in |-> IF f.table[f.index].object = NullObject THEN "FindClass" ELSE "GetID"])
  /\ UNCHANGED reflStale
arm2x86_jni_reflect_and_call(c) == Begin(c, "call")
arm2x86_jni_reflect_get_field(c) == Begin(c, "field") \/ Begin(c, "static field")

-----------------------------------------------------------------------------
Top == reflFrames[Len(reflFrames)]
Popped == SubSeq(reflFrames, 1, Len(reflFrames) - 1)
GoesOn(in) == [reflFrames EXCEPT ![Len(reflFrames)].in = in]
Alive == Top.alloc = reflAlloc
(* The entry is used through the pointer taken before the call.  When the   *)
(* table has moved or was freed since, that is memory of somebody else, and *)
(* what the program does from then on is undefined: the model stops there.  *)
Through(new) ==
  /\ refl' = IF Alive THEN [refl EXCEPT ![Top.index] = new] ELSE refl
  /\ reflStale' = ~Alive
ObjectOf(c) == c
FindClassReturns ==
  /\ ~reflStale /\ reflFrames # <<>> /\ Top.in = "FindClass"
  /\ \E o \in {ObjectOf(Top.class), NullObject} :
       /\ Through([refl[Top.index] EXCEPT !.object = o])
       /\ reflFrames' = IF o = NullObject THEN Popped ELSE GoesOn("GetID")
  /\ UNCHANGED <<reflAlloc, reflMax, reflAllocs>>

(* The identifiers kept are compared with a hash of the name, which none of *)
(* them equals: every call asks again and keeps the answer again.           *)
MethodsAfter(ms) == IF Len(ms) < MethodMax THEN Append(ms, "id") ELSE ms
GetIDReturns ==
  /\ ~reflStale /\ reflFrames # <<>> /\ Top.in = "GetID"
  /\ \/ /\ Top.op = "call"
        /\ Through([refl[Top.index] EXCEPT !.methods = MethodsAfter(@)])
        /\ reflFrames' = GoesOn("Invoke")
     \/ /\ Top.op = "static field"
        /\ Through(refl[Top.index])
        /\ reflFrames' = GoesOn("Invoke")
     \/ /\ Top.op = "field"
        /\ reflFrames' = GoesOn("Invoke")
        /\ UNCHANGED <<refl, reflStale>>
     \/ /\ reflFrames' = Popped
        /\ UNCHANGED <<refl, reflStale>>
  /\ UNCHANGED <<reflAlloc, reflMax, reflAllocs>>
InvokeReturns ==
  /\ ~reflStale /\ reflFrames # <<>> /\ Top.in = "Invoke"
  /\ reflFrames' = Popped
  /\ UNCHANGED <<refl, reflAlloc, reflMax, reflAllocs, reflStale>>

(* It may be called from Java, too, while calls hold pointers.              *)
arm2x86_jni_cleanup_reflection ==
  /\ ~reflStale /\ reflAlloc # 0
  /\ refl' = <<>> /\ reflAlloc' = 0
  /\ UNCHANGED <<reflMax, reflFrames, reflAllocs, reflStale>>

ReflInit ==
  /\ refl = <<>> /\ reflAlloc = 0 /\ reflMax = ReflMax /\ reflFrames = <<>>
  /\ reflAllocs = 0 /\ reflStale = FALSE
ReflNext ==
  \/ \E c \in JClass : arm2x86_jni_reflect_and_call(c) \/ arm2x86_jni_reflect_get_field(c)
  \/ FindClassReturns \/ GetIDReturns \/ InvokeReturns
  \/ arm2x86_jni_cleanup_reflection

ReflSpec == ReflInit /\ [][ReflNext]_reflVars

-----------------------------------------------------------------------------
(* The classes whose calls use an entry with the name n.                   *)
UsersOf(n) == {n} \union {c \in JClass : KeptName[c] = n}

(* However calls nest and the table grows, no class whose name is kept      *)
(* whole, and to which no other name is cut, has two entries, so that what  *)
(* is kept of it is found again (find_reflection_cache).                    *)
OneEntryPerClass ==
  \A i, j \in DOMAIN refl :
    refl[i].class = refl[j].class /\ UsersOf(refl[i].class) = {refl[i].class} => i = j

(* An entry holds no object but that of a class that uses it, and keeps     *)
(* what its array has room for, also when the call that fills it was        *)
(* interrupted by calls that added entries (arm2x86_jni_reflect_and_call).  *)
EntriesRight ==
  /\ Len(refl) <= reflMax
  /\ \A i \in DOMAIN refl :
       /\ refl[i].object \in {NullObject} \union UsersOf(refl[i].class)
       /\ Len(refl[i].methods) <= MethodMax

(* Calls into Java nested in calls keep one entry per class, with the       *)
(* object and the methods of its class, up to the first use of a table that *)
(* has moved (arm2x86_jni_reflect_and_call).                                *)
EntriesSound == ~reflStale => OneEntryPerClass /\ EntriesRight

(* Not true of the code; see the README: no call uses a pointer into a      *)
(* table that has moved; a class with a long name has one entry; a class    *)
(* with the name another is cut to gets its own object.                     *)
NoStaleEntry == ~reflStale
LongNamesOnce == \A i, j \in DOMAIN refl : refl[i].class = refl[j].class => i = j
OwnObject == \A i \in DOMAIN refl : refl[i].object \in {NullObject, refl[i].class}
=============================================================================
