----------------------------- MODULE Namespaces -----------------------------
(***************************************************************************)
(* modules/arm2x86_syscall.c: linker namespaces.  There is one namespace,  *)
(* the structure g_current_namespace that arm2x86_init_namespace fills, so *)
(* the one that a load is given is it.  A load saves a copy of it, and     *)
(* puts the copy back before the library is added; loading runs the        *)
(* library's JNI_OnLoad, which may load again, or initialise the namespace *)
(* anew.  What follows the use of a freed array is not defined: nsBroken.  *)
(***************************************************************************)
EXTENDS Integers, Sequences, FiniteSets

CONSTANTS
  Ns,            \* names of namespaces
  NsLib,         \* libraries
  IsolatedNs,    \* those of type ARM2X86_NS_ISOLATED
  Permitted,     \* Permitted[ns] is the set of libraries its paths permit
  NsFirstMax,    \* max_allowed at first (64)
  MaxNest,       \* how deep loads nest
  MaxNsLoads,    \* a bound on the libraries added
  MaxNsArrays    \* a bound on the arrays allocated

ASSUME NsAssumption == NsFirstMax \in Nat \ {0}

VARIABLES
  nsCurrent,     \* g_current_namespace: [ns, array, count, max]; array is an allocation number
  nsMem,         \* the contents of each array alive
  nsFrames,      \* the loads under way, innermost last: [lib, saved]
  nsNext,        \* the next allocation number
  nsBroken,      \* a freed array was used
  nsDone,        \* history: the libraries added so far
  nsBase,        \* history: those added before the namespace was initialised
  nsNested       \* history: a load or init ran inside a load since then

nsVars == <<nsCurrent, nsMem, nsFrames, nsNext, nsBroken, nsDone, nsBase, nsNested>>

-----------------------------------------------------------------------------
NoNs == [ns |-> "none", array |-> 0, count |-> 0, max |-> 0]
NoEntry == [at |-> 0, lib |-> "none"]

(* arm2x86_init_namespace; calloc may fail, and leaves max_allowed set.     *)
arm2x86_init_namespace(ns) ==
  /\ ~nsBroken /\ nsNext < MaxNsArrays
  /\ \/ /\ nsCurrent' = [ns |-> ns, array |-> nsNext, count |-> 0, max |-> NsFirstMax]
        /\ nsMem' = [a \in DOMAIN nsMem \union {nsNext} |->
                       IF a = nsNext THEN [i \in 1 .. NsFirstMax |-> NoEntry] ELSE nsMem[a]]
        /\ nsNext' = nsNext + 1
     \/ /\ nsCurrent' = [ns |-> ns, array |-> 0, count |-> 0, max |-> NsFirstMax]
        /\ UNCHANGED <<nsMem, nsNext>>
  /\ nsBase' = nsDone /\ nsNested' = (nsFrames # <<>>)
  /\ UNCHANGED <<nsFrames, nsBroken, nsDone>>

Permits(ns, lib) == ns \in IsolatedNs => lib \in Permitted[ns]

(* saved_ns, and the copy of the namespace onto itself.                     *)
LoadBegin(lib) ==
  /\ ~nsBroken /\ Len(nsFrames) < MaxNest
  /\ Permits(nsCurrent.ns, lib)
  /\ nsFrames' = Append(nsFrames, [lib |-> lib, saved |-> nsCurrent])
  /\ nsNested' = (nsNested \/ nsFrames # <<>>)
  /\ UNCHANGED <<nsCurrent, nsMem, nsNext, nsBroken, nsDone, nsBase>>

(* NativeBridgeLoadLibrary returned: restore.                               *)
SavedOutermost == nsFrames[1].saved
Saved == nsFrames[Len(nsFrames)].saved
Returned == nsFrames' = SubSeq(nsFrames, 1, Len(nsFrames) - 1)
LoadFailed ==
  /\ ~nsBroken /\ nsFrames # <<>>
  /\ nsCurrent' = Saved /\ Returned
  /\ UNCHANGED <<nsMem, nsNext, nsBroken, nsDone, nsBase, nsNested>>

(* arm2x86_add_lib_to_namespace on the namespace s just put back: in its    *)
(* array, or in one of twice the size, at the same place or another.        *)
Full(s) == s.count >= s.max
NsAlive(s) == s.array \in DOMAIN nsMem
Entry(lib) == [at |-> nsDone + 1, lib |-> lib]
AddInPlace(s, lib) ==
  /\ ~Full(s) /\ NsAlive(s)
  /\ nsCurrent' = [s EXCEPT !.count = @ + 1]
  /\ nsMem' = [nsMem EXCEPT ![s.array][s.count + 1] = Entry(lib)]
  /\ nsDone' = nsDone + 1
  /\ UNCHANGED <<nsNext, nsBroken>>
Grown(max) == max * 2
Regrown(old, n, k, e) ==
  [i \in 1 .. n |-> IF i = k THEN e ELSE IF i \in DOMAIN old THEN old[i] ELSE NoEntry]
AddGrown(s, lib, a) ==
  /\ Full(s) /\ NsAlive(s) /\ nsNext < MaxNsArrays
  /\ nsCurrent' = [s EXCEPT !.array = a, !.count = @ + 1, !.max = Grown(@)]
  /\ nsMem' = [b \in (DOMAIN nsMem \ {s.array}) \union {a} |->
                 IF b = a THEN Regrown(nsMem[s.array], Grown(s.max), s.count + 1, Entry(lib)) ELSE nsMem[b]]
  /\ nsNext' = nsNext + 1 /\ nsDone' = nsDone + 1
  /\ UNCHANGED nsBroken
(* realloc failed; or there is no such array, or none of any size, and what *)
(* happens is undefined.                                                    *)
NotAdded(s) ==
  /\ \/ Full(s) /\ UNCHANGED nsBroken
     \/ ~NsAlive(s) /\ nsBroken' = TRUE
  /\ nsCurrent' = s
  /\ UNCHANGED <<nsMem, nsNext, nsDone>>
LoadDone ==
  /\ ~nsBroken /\ nsFrames # <<>> /\ nsDone < MaxNsLoads
  /\ \/ AddInPlace(Saved, nsFrames[Len(nsFrames)].lib)
     \/ \E a \in {Saved.array, nsNext} : AddGrown(Saved, nsFrames[Len(nsFrames)].lib, a)
     \/ NotAdded(Saved)
  /\ Returned
  /\ UNCHANGED <<nsBase, nsNested>>

(* The destructor finishes the namespace (arm2x86_fini_namespace); exit may *)
(* be called in a load, which then never returns.                           *)
lib_fini ==
  /\ ~nsBroken /\ nsCurrent # NoNs
  /\ nsBroken' = (nsCurrent.array # 0 /\ ~NsAlive(nsCurrent))
  /\ nsMem' = [a \in DOMAIN nsMem \ {nsCurrent.array} |-> nsMem[a]]
  /\ nsCurrent' = NoNs /\ nsFrames' = <<>>
  /\ nsBase' = nsDone /\ nsNested' = FALSE
  /\ UNCHANGED <<nsNext, nsDone>>

NsInit ==
  /\ nsCurrent = NoNs /\ nsMem = [a \in {} |-> <<>>] /\ nsFrames = <<>> /\ nsNext = 1
  /\ nsBroken = FALSE /\ nsDone = 0 /\ nsBase = 0 /\ nsNested = FALSE
NsNext ==
  \/ \E ns \in Ns : arm2x86_init_namespace(ns)
  \/ \E lib \in NsLib : LoadBegin(lib)
  \/ LoadFailed \/ LoadDone \/ lib_fini
NsSpec == NsInit /\ [][NsNext]_nsVars

-----------------------------------------------------------------------------
(* The list of a namespace lies in its array, and holds libraries that its  *)
(* paths permit, in the order in which they were added, none twice.         *)
ListOf(s) ==
  s.array \in DOMAIN nsMem =>
    /\ s.count <= s.max /\ 1 .. s.max \subseteq DOMAIN nsMem[s.array]
    /\ \A i \in 1 .. s.count :
         /\ Permits(s.ns, nsMem[s.array][i].lib)
         /\ nsMem[s.array][i].at \in 1 .. nsDone
         /\ \A j \in 1 .. s.count : i < j => nsMem[s.array][i].at < nsMem[s.array][j].at

(* Across loads nested in loads, failed ones, growth and a namespace        *)
(* initialised anew inside a load, the current namespace lists only what    *)
(* was added, in order and by permission; and as long as no load was        *)
(* nested, all of it (arm2x86_load_library_in_namespace,                    *)
(* arm2x86_add_lib_to_namespace).                                           *)
NamespacesRight ==
  ~nsBroken => ListOf(nsCurrent) /\ (~nsNested => nsCurrent.count = nsDone - nsBase)

(* Not so: the copy put back after a nested load forgets what that added    *)
(* (arm2x86_syscall.c:1852).                                                *)
NestedListed == ~nsBroken => nsCurrent.count = nsDone - nsBase
(* Not so: the copy put back names the array that a nested load moved, or a *)
(* failed calloc left no array.                                             *)
NsArraysAlive == ~nsBroken
=============================================================================
