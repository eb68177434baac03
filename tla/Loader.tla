------------------------------- MODULE Loader -------------------------------
(***************************************************************************)
(* The native bridge (modules/arm2x86_nativebridge.c) over the ELF loader  *)
(* (modules/arm2x86_elf.c), with the table of native methods that          *)
(* jni_sim.c and jni_capture.c fill.                                       *)
(*                                                                         *)
(* Memory is a row of pages, each free or belonging to one mapping.  A     *)
(* library is described by what the loader looks at: its ELF class and     *)
(* machine, the pages of its file and of its PT_LOAD range, the methods    *)
(* its addon files name, the offset of JNI_OnLoad.  Loading is cut where   *)
(* another thread can get in between: ElfLoad reads the head of the list,  *)
(* then writes it; g_current_loading_module is one variable for all        *)
(* threads.                                                                *)
(***************************************************************************)
EXTENDS Naturals, Sequences, FiniteSets, Functions

CONSTANTS
  Thread,     \* threads of the runtime that call the bridge
  Lib,        \* library files
  Info,       \* [Lib -> what ElfLoad finds in the file]
  Mod,        \* addresses malloc gives to ElfModule structures
  NPage,      \* pages of the address space
  Method,     \* names of native methods, those with a stub among them
  Stubbed,    \* methods stub_method_table has a function for
  MaxMethods, \* bound: methods translated code registers in one module
  Null, NotHeap

Page == 1 .. NPage

(* What ElfLoad and the addon files say of a library, an entry of a        *)
(* module's table of native methods, and an ElfModule structure.           *)
LibInfo ==
  [class : {"64", "32", "none"}, short : BOOLEAN, file : Nat, vaddr : Nat,
   patches : BOOLEAN, onload : Nat, conf : Seq(Method)]
NativeMethod ==
  [class : {"l"}, name : Method, fn : Stubbed \cup {Null}]     \* load_native_method_stubs
    \cup [class : {Null}, name : Method, fn : Page]            \* RegisterNatives
ElfModule ==
  [lib : Lib, base : Page \cup {0}, size : Nat, mapped_size : Nat, next : Mod \cup {Null},
   methods : Seq(NativeMethod), patched : BOOLEAN]

ASSUME LoaderAssumption ==
  /\ NPage \in Nat /\ MaxMethods \in Nat
  /\ IsFiniteSet(Mod) /\ Stubbed \subseteq Method
  /\ Null \notin Mod /\ Null \notin Method /\ Null \notin Page /\ Null # "l"
  /\ NotHeap \notin ElfModule
  /\ \A l \in Lib : Info[l] \in LibInfo

VARIABLES
  heap,       \* [Mod -> ElfModule record or NotHeap]
  g_module_list, g_module_count, g_current_loading_module,
  page,       \* [1..NPage -> Mod \cup {Null, "code"}]: who mapped the page
  held,       \* handles loadLibrary returned, not unloaded since
  captured,   \* g_captured_methods, oldest first
  th,         \* [Thread -> the load a thread is in: pc, module, list head read]
  tramp,      \* the trampoline handed out last: {[m, at, code]}
  fault       \* what went wrong in memory, if anything has

loaderVars == <<heap, g_module_list, g_module_count, g_current_loading_module,
                page, held, captured, th, tramp, fault>>

ThIdle == [pc |-> "idle", m |-> Null, head |-> Null]

(* The modules reachable from the head through next; bounded by Mod        *)
(* because a list that lost its end is a fault of its own.                 *)
NextOf(m) == IF m = Null \/ heap[m] = NotHeap THEN Null ELSE heap[m].next
Walk ==
  LET at[i \in 0 .. Cardinality(Mod)] == IF i = 0 THEN g_module_list ELSE NextOf(at[i - 1])
  IN  at
List ==
  LET walk == Walk
  IN  [i \in 1 .. Cardinality({k \in DOMAIN walk : walk[k] # Null}) |-> walk[i - 1]]

-----------------------------------------------------------------------------
(* map_size: the PT_LOAD range of a 64-bit file, the file size otherwise. *)
map_size(l) == IF Info[l].class = "64" /\ Info[l].vaddr > 0
                 THEN Info[l].vaddr ELSE Info[l].file

(* mmap: the kernel picks any free run of pages. *)
Extent(b, n) == b .. (b + n - 1)
MmapAt(n) == {b \in Page : Extent(b, n) \subseteq Page /\ \A p \in Extent(b, n) : page[p] = Null}

(* munmap takes away whatever is mapped in the range. *)
Unmapped(b, n) == [p \in Page |-> IF p \in Extent(b, n) THEN Null ELSE page[p]]

NewModule(l, b) ==
  [lib |-> l, base |-> b, size |-> Info[l].file, mapped_size |-> map_size(l),
   next |-> Null, methods |-> <<>>, patched |-> FALSE]

(***************************************************************************)
(* ElfLoad up to the list; LoadFails, below, is every return before the    *)
(* module is listed that gives everything back, and a file shorter than    *)
(* the header buffer returns without releasing the structure.  Reading the *)
(* file past the mapping writes into the page behind it, or fails when     *)
(* there is none.                                                          *)
(***************************************************************************)
LoadShort(t, l) ==
  /\ th[t].pc = "idle" /\ Info[l].short
  /\ \E m \in Mod : /\ heap[m] = NotHeap
                    /\ heap' = [heap EXCEPT ![m] = NewModule(l, 0)]
  /\ UNCHANGED <<g_module_list, g_module_count, g_current_loading_module, page,
                 held, captured, th, tramp, fault>>

Overrun(l, b) == Extent(b + map_size(l), Info[l].file - map_size(l))
Readable(l, b) == Info[l].file <= map_size(l)
                    \/ \A p \in Overrun(l, b) : p \in Page /\ page[p] # Null

ElfLoad(t, l) ==
  /\ th[t].pc = "idle" /\ ~Info[l].short /\ Info[l].class # "none"
  /\ \E m \in Mod, b \in MmapAt(map_size(l)) :
       /\ heap[m] = NotHeap /\ Readable(l, b)
       /\ heap' = [heap EXCEPT ![m] = [NewModule(l, b) EXCEPT !.next = g_module_list]]
       /\ page' = [p \in Page |-> IF p \in Extent(b, map_size(l)) THEN m ELSE page[p]]
       /\ fault' = IF Info[l].file > map_size(l) THEN "overwrite" ELSE fault
       /\ th' = [th EXCEPT ![t] = [pc |-> "link", m |-> m, head |-> g_module_list]]
  /\ UNCHANGED <<g_module_list, g_module_count, g_current_loading_module, held, captured, tramp>>

ElfLink(t) ==
  /\ th[t].pc = "link"
  /\ g_module_list' = th[t].m
  /\ g_module_count' = g_module_count + 1
  /\ th' = [th EXCEPT ![t].pc = "relocate"]
  /\ UNCHANGED <<heap, g_current_loading_module, page, held, captured, tramp, fault>>

(***************************************************************************)
(* ElfUnload: unmaps size bytes, though mapped_size were mapped, unlinks   *)
(* the module if it is listed and frees it.                                *)
(***************************************************************************)
Prev(m) == {q \in Range(List) : heap[q] # NotHeap /\ heap[q].next = m}
Listed(m) == m \in Range(List)
unmap_size_mapped(m) == heap[m].size + 1
unmap_size(m) == heap[m].size
Unlinked(m) ==
  [q \in Mod |-> IF q = m THEN NotHeap
                 ELSE IF q \in Prev(m) THEN [heap[q] EXCEPT !.next = heap[m].next]
                 ELSE heap[q]]
HeadWithout(m) == IF g_module_list = m THEN heap[m].next ELSE g_module_list
CountWithout(m) == IF Listed(m) THEN g_module_count - 1 ELSE g_module_count
ElfUnload(m) ==
  /\ page' = Unmapped(heap[m].base, unmap_size(m))
  /\ heap' = Unlinked(m)
  /\ g_module_list' = HeadWithout(m)
  /\ g_module_count' = CountWithout(m)

(* ElfUnload of a module that was never listed, or the free of one. *)
LoadFails(t) ==
  /\ th[t].pc = "idle"
  /\ \E m \in Mod : heap[m] = NotHeap /\ g_module_count' = CountWithout(m)
  /\ UNCHANGED <<heap, g_module_list, g_current_loading_module, page, held, captured, th,
                 tramp, fault>>

(* A module that another thread has unloaded meanwhile is freed memory: no *)
(* more is said of the thread that is loading it.                          *)
Loading(t, pc) == th[t].pc = pc /\ heap[th[t].m] # NotHeap

(* ElfRelocate refuses every class but ELFCLASS64; the bridge then unloads. *)
RelocateFails(t) ==
  /\ Loading(t, "relocate") /\ Info[heap[th[t].m].lib].class # "64"
  /\ ElfUnload(th[t].m)
  /\ th' = [th EXCEPT ![t] = ThIdle]
  /\ UNCHANGED <<g_current_loading_module, held, captured, tramp, fault>>

(* ElfRelocate, then the patch file; simulate_jni_onload starts. *)
LoadRelocated(t) ==
  /\ Loading(t, "relocate") /\ Info[heap[th[t].m].lib].class = "64"
  /\ heap' = [heap EXCEPT ![th[t].m].patched = Info[heap[th[t].m].lib].patches]
  /\ g_current_loading_module' = th[t].m
  /\ th' = [th EXCEPT ![t].pc = "onload"]
  /\ UNCHANGED <<g_module_list, g_module_count, page, held, captured, tramp, fault>>

(***************************************************************************)
(* arm2x86_register_native_method, called for one method after another,    *)
(* appends each; a full table grows first (running out of memory there is  *)
(* not modelled).                                                          *)
(***************************************************************************)
Entry(c, n, f) == [class |-> c, name |-> n, fn |-> f]
find_stub_function(n) == IF n \in Stubbed THEN n ELSE Null
Registered(ms, es) == ms \o es

(* load_native_method_stubs, at the end of simulate_jni_onload. *)
load_native_method_stubs(m) ==
  IF heap[m].patched
    THEN LET conf == Info[heap[m].lib].conf
         IN  Registered(heap[m].methods,
                        [i \in DOMAIN conf |-> Entry("l", conf[i], find_stub_function(conf[i]))])
    ELSE heap[m].methods

simulate_jni_onload(t) ==
  /\ Loading(t, "onload")
  /\ heap' = [heap EXCEPT ![th[t].m].methods = load_native_method_stubs(th[t].m)]
  /\ g_current_loading_module' = Null
  /\ held' = held \cup {th[t].m}
  /\ th' = [th EXCEPT ![t] = ThIdle]
  /\ UNCHANGED <<g_module_list, g_module_count, page, captured, tramp, fault>>

(***************************************************************************)
(* arm2x86_intercept_register_natives, called by translated code: a method *)
(* whose function lies in the module being loaded is entered in its table; *)
(* every method is appended to the global list through a tail pointer that *)
(* starts as NULL in each call.                                            *)
(***************************************************************************)
InModule(m, p) == p \in Extent(heap[m].base, heap[m].mapped_size)
Intercept(ns, p) ==
  /\ \A m \in Mod : heap[m] # NotHeap => Len(heap[m].methods) < MaxMethods
  /\ LET m == g_current_loading_module
     IN  heap' = IF m # Null /\ heap[m] # NotHeap /\ InModule(m, p)
                   THEN [heap EXCEPT ![m].methods =
                           Registered(@, [i \in DOMAIN ns |-> Entry(Null, ns[i], p)])]
                   ELSE heap
  /\ IF captured # <<>> /\ ns # <<>>
       THEN fault' = "null tail" /\ UNCHANGED captured
       ELSE captured' = ns /\ UNCHANGED fault
  /\ UNCHANGED <<g_module_list, g_module_count, g_current_loading_module, page, held, th, tramp>>

FreeCaptured ==
  /\ captured # <<>> /\ captured' = <<>>
  /\ UNCHANGED <<heap, g_module_list, g_module_count, g_current_loading_module,
                 page, held, th, tramp, fault>>

(* arm2x86_lookup_native_method: the first entry that does not differ; an  *)
(* entry without a class matches every class.                              *)
Matches(e, c, n) == e.name = n /\ (e.class = Null \/ e.class = c)
lookup_native_method(m, c, n) ==
  LET hits == {i \in DOMAIN heap[m].methods : Matches(heap[m].methods[i], c, n)}
  IN  IF hits = {} THEN Null
      ELSE heap[m].methods[CHOOSE i \in hits : \A j \in hits : i <= j].fn

(***************************************************************************)
(* NativeBridgeUnloadLibrary takes no handle: it unloads the head of the   *)
(* list until the list is empty, then resets list and count.               *)
(***************************************************************************)
UnloadBegin(t) ==
  /\ th[t].pc = "idle"
  /\ th' = [th EXCEPT ![t].pc = "unload"]
  /\ held' = {}
  /\ UNCHANGED <<heap, g_module_list, g_module_count, g_current_loading_module,
                 page, captured, tramp, fault>>
UnloadNext(t) ==
  /\ th[t].pc = "unload" /\ g_module_list # Null
  /\ IF heap[g_module_list] = NotHeap
       THEN fault' = "freed module" /\ UNCHANGED <<heap, g_module_list, g_module_count, page>>
       ELSE ElfUnload(g_module_list) /\ UNCHANGED fault
  /\ UNCHANGED <<g_current_loading_module, held, captured, th, tramp>>
UnloadEnd(t) ==
  /\ th[t].pc = "unload" /\ g_module_list = Null
  /\ g_module_count' = 0
  /\ th' = [th EXCEPT ![t] = ThIdle]
  /\ UNCHANGED <<heap, g_module_list, g_current_loading_module, page, held,
                 captured, tramp, fault>>

(* nb_initialize, from the library constructor and again as the callback   *)
(* the runtime calls first: it forgets the list.  The code has no guard;   *)
(* that nothing is loaded yet (held = {}) is what Android's runtime does,  *)
(* which initialises a native bridge once, before its first loadLibrary.   *)
(* Called later, it would leave loaded modules mapped and unlisted.        *)
nb_initialize(t) ==
  /\ th[t].pc = "idle" /\ held = {}
  /\ g_module_list' = Null /\ g_module_count' = 0
  /\ UNCHANGED <<heap, g_current_loading_module, page, held, captured, th, tramp, fault>>

(***************************************************************************)
(* nb_getTrampoline for JNI_OnLoad: a patch at its offset is copied into   *)
(* memory of its own, which nothing releases; otherwise the DBT translates *)
(* into its code cache, and when it cannot the ARM address is returned.    *)
(***************************************************************************)
Patch(m) ==
  /\ heap[m].patched
  /\ \E b \in MmapAt(1) :
       /\ page' = [page EXCEPT ![b] = "code"]
       /\ tramp' = {[m |-> m, at |-> b, code |-> "x86"]}
Translated(m) ==
  /\ ~heap[m].patched
  /\ Info[heap[m].lib].onload < heap[m].mapped_size
  /\ tramp' = {[m |-> m, at |-> 0, code |-> "x86"]}
  /\ UNCHANGED page
Untranslated(m) ==
  /\ ~heap[m].patched
  /\ Info[heap[m].lib].onload < heap[m].mapped_size
  /\ tramp' = {[m |-> m, at |-> heap[m].base + Info[heap[m].lib].onload, code |-> "arm"]}
  /\ UNCHANGED page
nb_getTrampoline(t, m) ==
  /\ th[t].pc = "idle" /\ m \in held /\ heap[m] # NotHeap
  /\ Patch(m) \/ Translated(m) \/ Untranslated(m)
  /\ UNCHANGED <<heap, g_module_list, g_module_count, g_current_loading_module,
                 held, captured, th, fault>>

(* nb_isTrampoline looks in the listed modules and in the DBT code cache.  *)
nb_isTrampoline(a) ==
  \/ a = 0
  \/ \E m \in Range(List) : heap[m] # NotHeap /\ a \in Extent(heap[m].base, heap[m].size)

-----------------------------------------------------------------------------
LoaderInit ==
  /\ heap = [m \in Mod |-> NotHeap]
  /\ g_module_list = Null /\ g_module_count = 0 /\ g_current_loading_module = Null
  /\ page = [p \in Page |-> Null]
  /\ held = {} /\ captured = <<>> /\ tramp = {} /\ fault = "none"
  /\ th = [t \in Thread |-> ThIdle]

(* A NULL or freed pointer that was followed ends the process. *)
Alive == fault \notin {"null tail", "freed module"}

LoaderNext ==
  /\ Alive
  /\ \/ \E t \in Thread :
          \/ \E l \in Lib : LoadShort(t, l) \/ ElfLoad(t, l)
          \/ LoadFails(t) \/ ElfLink(t) \/ RelocateFails(t) \/ LoadRelocated(t) \/ simulate_jni_onload(t)
          \/ UnloadBegin(t) \/ UnloadNext(t) \/ UnloadEnd(t) \/ nb_initialize(t)
          \/ \E m \in Mod : nb_getTrampoline(t, m)
     \/ \E n \in Method, p \in Page : Intercept(<<n>>, p)
     \/ FreeCaptured

LoaderSpec == LoaderInit /\ [][LoaderNext]_loaderVars
-----------------------------------------------------------------------------
(* Type correctness of the loader's globals and of what a thread keeps. *)
LoaderTypeOK ==
  /\ \A m \in Mod : heap[m] # NotHeap =>
        heap[m].next \in Mod \cup {Null} /\ heap[m].base \in 0 .. NPage
  /\ g_module_list \in Mod \cup {Null} /\ g_module_count \in Nat
  /\ g_current_loading_module \in Mod \cup {Null}
  /\ page \in [Page -> Mod \cup {Null, "code"}]
  /\ held \subseteq Mod
  /\ \A t \in Thread : th[t].pc \in {"idle", "link", "relocate", "onload", "unload"}

(* g_module_list holds each live module once and nothing else, and         *)
(* g_module_count counts it, through loads that fail at any point and      *)
(* through ElfUnload taking a module from anywhere in the list.            *)
ListSound ==
  /\ Len(List) = g_module_count
  /\ \A i, j \in DOMAIN List : i # j => List[i] # List[j]
  /\ \A i \in DOMAIN List : heap[List[i]] # NotHeap

(* A handle the runtime holds is a live, listed module whose whole image   *)
(* is still mapped: no other load or unload takes any of its pages.        *)
HeldMapped ==
  \A m \in held :
    /\ heap[m] # NotHeap /\ Listed(m)
    /\ \A p \in Extent(heap[m].base, heap[m].mapped_size) : page[p] = m

(* A method entered by RegisterNatives points into the module it is        *)
(* entered in.                                                             *)
CapturedInModule ==
  \A m \in Mod : heap[m] # NotHeap =>
    \A i \in DOMAIN heap[m].methods :
      heap[m].methods[i].class = Null => page[heap[m].methods[i].fn] = m

(* A native method the configuration names and a stub exists for resolves  *)
(* to code, whatever translated code registered before.                    *)
StubsResolve ==
  \A m \in held : heap[m].patched =>
    \A i \in DOMAIN Info[heap[m].lib].conf :
      Info[heap[m].lib].conf[i] \in Stubbed
        => lookup_native_method(m, "l", Info[heap[m].lib].conf[i]) # Null

(* Through loads that fail anywhere, unloads and registrations, the module *)
(* list, the pages of each module and its methods agree (ElfLoad,          *)
(* ElfUnload, RegisterNatives).                                            *)
LoadedSound == LoaderTypeOK /\ ListSound /\ HeldMapped /\ CapturedInModule /\ StubsResolve

(* While a thread is in simulate_jni_onload, g_current_loading_module is   *)
(* its module (jni_sim.c calls the variable thread-local storage).         *)
CurrentModule ==
  \A t \in Thread : th[t].pc = "onload" => g_current_loading_module = th[t].m

(* Pages belong to live modules only: unloading gives the whole image back. *)
PagesReturned == \A p \in Page : page[p] \in Mod => heap[page[p]] # NotHeap

(* Everything getTrampoline returns is code for this machine. *)
TrampolineIsCode == \A x \in tramp : x.code = "x86"

(* nb_isTrampoline knows every trampoline of a module that is loaded. *)
TrampolineKnown == \A x \in tramp : x.m \in held => nb_isTrampoline(x.at)
=============================================================================
