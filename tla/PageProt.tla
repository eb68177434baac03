------------------------------ MODULE PageProt ------------------------------
(***************************************************************************)
(* Page protection as the library records it (modules/arm2x86_pageprot.c)  *)
(* beside the protection the kernel enforces.                              *)
(***************************************************************************)
EXTENDS Naturals, Sequences, FiniteSets

CONSTANTS
  PpPage,      \* pages, 1 .. n, in address order
  TrackMax,    \* PAGE_TRACK_MAX
  MaxSpan,     \* bound: pages one call covers
  Prots        \* the protections asked for

ASSUME PageProtAssumption ==
  /\ PpPage \subseteq Nat /\ TrackMax \in Nat /\ MaxSpan \in Nat
  /\ Prots \subseteq SUBSET {"r", "w", "x"} \ {{}}

VARIABLES
  pages,       \* pp->pages[0 .. count-1]: page_addr and prot
  real,        \* [PpPage -> the kernel's protection, {} before mmap]
  handled      \* [PpPage -> faults reported as handled since the program
               \* last set the protection of the page]

ppVars == <<pages, real, handled>>

Span(p, n) == p .. (p + n - 1)
TrackedAt(p) == {i \in DOMAIN pages : pages[i].page_addr = p}
Recorded(p) == pages[CHOOSE i \in TrackedAt(p) : TRUE].prot

(* page_protect_add: the pages of a range in order, while there is room. *)
AddPage(s, p, prot) ==
  IF \E i \in DOMAIN s : s[i].page_addr = p
    THEN [i \in DOMAIN s |-> IF s[i].page_addr = p THEN [s[i] EXCEPT !.prot = prot] ELSE s[i]]
    ELSE IF Len(s) >= TrackMax THEN s ELSE Append(s, [page_addr |-> p, prot |-> prot])
AddRange(s, p, n, prot) ==
  LET after[k \in 0 .. n] ==
        IF k = 0 THEN s
        ELSE IF Len(after[k - 1]) >= TrackMax THEN after[k - 1]
        ELSE AddPage(after[k - 1], p + k - 1, prot)
  IN  after[n]

PpInit == pages = <<>> /\ real = [p \in PpPage |-> {}] /\ handled = [p \in PpPage |-> 0]

Forgotten(S) == [q \in PpPage |-> IF q \in S THEN 0 ELSE handled[q]]

page_protect_mmap(p, n, prot) ==
  /\ Span(p, n) \subseteq PpPage
  /\ real' = [q \in PpPage |-> IF q \in Span(p, n) THEN prot ELSE real[q]]
  /\ pages' = AddRange(pages, p, n, prot)
  /\ handled' = Forgotten(Span(p, n))

(* mprotect, on one page or more: it fails where nothing is mapped and may  *)
(* fail anywhere else, and then changes nothing.                            *)
Reprotected(S, prot) ==
  {real} \cup IF \A q \in S : real[q] # {}
                THEN {[q \in PpPage |-> IF q \in S THEN prot ELSE real[q]]} ELSE {}

(* page_protect_modify, then mprotect: the record of the first page only,   *)
(* and whether or not the call succeeds.                                    *)
Modified(p, prot) == AddRange(pages, p, 1, prot)
page_protect_mprotect(p, n, prot) ==
  /\ Span(p, n) \subseteq PpPage
  /\ pages' = IF TrackedAt(p) # {} THEN AddPage(pages, p, prot) ELSE Modified(p, prot)
  /\ real' \in Reprotected(Span(p, n), prot)
  /\ handled' = Forgotten(Span(p, n))

(* page_protect_handle_fault, for an access of any kind: a page recorded as *)
(* readable and not writable is recorded as writable and opened up; the     *)
(* fault counts as handled whatever mprotect said.  A fault that is not     *)
(* handled changes nothing but fault_count, which is only printed.          *)
FaultHandled(p) == TrackedAt(p) # {} /\ "r" \in Recorded(p) /\ "w" \notin Recorded(p)
AfterFaultKept(prot) == prot
AfterFault(prot) == prot \cup {"w"}
Opened == {"r", "w", "x"}
page_protect_handle_fault(p) ==
  /\ real[p] # Opened /\ FaultHandled(p)
  /\ pages' = [i \in DOMAIN pages |-> IF pages[i].page_addr = p
                 THEN [pages[i] EXCEPT !.prot = AfterFault(@)] ELSE pages[i]]
  /\ real' \in Reprotected({p}, Opened)
  /\ handled' = [handled EXCEPT ![p] = @ + 1]

(* page_protect_check: a page that is not tracked is allowed everything. *)
page_protect_check(p, want) == TrackedAt(p) = {} \/ want \subseteq Recorded(p)

PpNext ==
  \E p \in PpPage :
    \/ \E n \in 1 .. MaxSpan, prot \in Prots :
         page_protect_mmap(p, n, prot) \/ page_protect_mprotect(p, n, prot)
    \/ page_protect_handle_fault(p)

PpSpec == PpInit /\ [][PpNext]_ppVars
-----------------------------------------------------------------------------
(* The table has one record per page and stays within its array, through   *)
(* overlapping mappings and changes of pages it did not know.              *)
TrackedOnce ==
  /\ Len(pages) <= TrackMax
  /\ \A i, j \in DOMAIN pages : i # j => pages[i].page_addr # pages[j].page_addr

(* A page is reported as handled once at most until the program sets its    *)
(* protection again: when the mprotect of page_protect_handle_fault, whose  *)
(* result it ignores, fails, the instruction that is started again faults   *)
(* again, and that fault must go to the next handler and not be handled     *)
(* and started again for ever.                                              *)
HandledOnce == \A p \in PpPage : handled[p] <= 1

(* The table has one record per page, and no fault is handled for ever      *)
(* (page_protect_add, page_protect_handle_fault).                           *)
PagesRight == TrackedOnce /\ HandledOnce

(* A fault reported as handled does not come back. *)
HandledWritable == \A p \in PpPage : handled[p] > 0 => "w" \in real[p]

(* page_protect_check grants no access the kernel would refuse. *)
CheckSound ==
  \A p \in PpPage : TrackedAt(p) # {} =>
    \A a \in {"r", "w", "x"} : page_protect_check(p, {a}) => a \in real[p]
=============================================================================
