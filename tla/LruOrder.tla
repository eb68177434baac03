------------------------------ MODULE LruOrder ------------------------------
(***************************************************************************)
(* What an LRU cache promises, without pointers: its blocks in order of    *)
(* last use, most recent first, and the block each client has been handed. *)
(* A client gets a block only by a use that brings it to the front, a new  *)
(* block enters at the front, and the only block that can be evicted is    *)
(* the last one.  TCache implements this with a doubly linked list.        *)
(***************************************************************************)
EXTENDS Sequences, SequencesExt

CONSTANTS Blocks, Clients, None

VARIABLES order, held

OrderInit == order = <<>> /\ held = [c \in Clients |-> None]

Use(c, i) == /\ held[c] = None
             /\ order' = <<order[i]>> \o RemoveAt(order, i)
             /\ held' = [held EXCEPT ![c] = order[i]]

Release(c) == held' = [held EXCEPT ![c] = None] /\ UNCHANGED order

Enter(b) == /\ \A i \in DOMAIN order : order[i] # b
            /\ order' = <<b>> \o order
            /\ UNCHANGED held

EvictOldest == order # <<>> /\ order' = Front(order) /\ UNCHANGED held

DropAll == order' = <<>> /\ UNCHANGED held

OrderNext == \/ \E c \in Clients : Release(c) \/ \E i \in DOMAIN order : Use(c, i)
             \/ \E b \in Blocks : Enter(b)
             \/ EvictOldest
             \/ DropAll

OrderSpec == OrderInit /\ [][OrderNext]_<<order, held>>
=============================================================================
