------------------------------ MODULE Signals ------------------------------
(***************************************************************************)
(* Signal handling (modules/arm2x86_signal.c): the internal handlers       *)
(* installed over the ones the process had, and the lists of user          *)
(* handlers they walk.  A signal runs on the thread it is delivered to,    *)
(* between any two steps of what that thread was doing; the internal       *)
(* handlers block all signals, so they do not nest.                        *)
(***************************************************************************)
EXTENDS Naturals, Sequences, FiniteSets

CONSTANTS
  SigThread,     \* threads of the process
  Sig,        \* signal types (0 .. SIGNAL_MAX_TYPE - 1)
  Handler,    \* user handler functions
  SigNode,       \* addresses malloc gives to list nodes
  Segv,       \* SIGNAL_SEGV
  SigNil, SigFreed

ASSUME SignalAssumption ==
  /\ SigNil \notin SigNode /\ Segv \in Sig
  /\ SigFreed \notin [h : Handler, next : SigNode \cup {SigNil}]

Disposition == {"default", "ignore", "function"}

VARIABLES
  disposition,     \* [Sig -> the installed disposition: one of Disposition, or "ours"]
  original,      \* [Sig -> what the process had installed before the library]
  saved,      \* g_original_handlers
  g_user_handlers,  \* [Sig -> head of the list]
  sigNode,       \* [SigNode -> [h, next] or SigFreed]
  g_signal_initialized,
  sigTh,         \* [SigThread -> what the thread is in outside handlers]
  sigWalk,       \* [SigThread -> the internal handler running on the thread, or none]
  sigDead        \* how the process ended

sigVars == <<disposition, original, saved, g_user_handlers, sigNode, g_signal_initialized,
             sigTh, sigWalk, sigDead>>

SigIdle == [pc |-> "idle", todo |-> {}, at |-> SigNil, sig |-> SigNil, h |-> SigNil]
NoWalk == [pc |-> "none", sig |-> SigNil, at |-> SigNil]
CanRun(t) == sigWalk[t].pc = "none" /\ sigDead = "no"

SigInit ==
  /\ original \in [Sig -> Disposition] /\ disposition = original
  /\ saved = [s \in Sig |-> "default"]
  /\ g_user_handlers = [s \in Sig |-> SigNil] /\ sigNode = [n \in SigNode |-> SigFreed]
  /\ g_signal_initialized = FALSE
  /\ sigTh = [t \in SigThread |-> SigIdle] /\ sigWalk = [t \in SigThread |-> NoWalk] /\ sigDead = "no"

(***************************************************************************)
(* signal_handler_init: per signal, save the disposition, then install     *)
(* ours; the flag is set at the end.  The install may fail.                *)
(***************************************************************************)
InitDue == ~g_signal_initialized
InitBegin(t) ==
  /\ CanRun(t) /\ sigTh[t].pc = "idle" /\ InitDue
  /\ sigTh' = [sigTh EXCEPT ![t] = [SigIdle EXCEPT !.pc = "init", !.todo = Sig]]
  /\ UNCHANGED <<disposition, original, saved, g_user_handlers, sigNode, g_signal_initialized, sigWalk, sigDead>>
InitOne(t) ==
  /\ CanRun(t) /\ sigTh[t].pc = "init"
  /\ \E s \in sigTh[t].todo, ok \in BOOLEAN :
       /\ saved' = [saved EXCEPT ![s] = disposition[s]]
       /\ disposition' = [disposition EXCEPT ![s] = IF ok THEN "ours" ELSE @]
       /\ sigTh' = [sigTh EXCEPT ![t].todo = @ \ {s}]
  /\ UNCHANGED <<original, g_user_handlers, sigNode, g_signal_initialized, sigWalk, sigDead>>
InitEnd(t) ==
  /\ CanRun(t) /\ sigTh[t].pc = "init" /\ sigTh[t].todo = {}
  /\ g_signal_initialized' = TRUE /\ sigTh' = [sigTh EXCEPT ![t] = SigIdle]
  /\ UNCHANGED <<disposition, original, saved, g_user_handlers, sigNode, sigWalk, sigDead>>

(***************************************************************************)
(* signal_handler_fini: per signal, restore the disposition, then free the *)
(* nodes one by one, then clear the head.                                  *)
(***************************************************************************)
FiniBegin(t) ==
  /\ CanRun(t) /\ sigTh[t].pc = "idle" /\ g_signal_initialized
  /\ sigTh' = [sigTh EXCEPT ![t] = [SigIdle EXCEPT !.pc = "fini", !.todo = Sig]]
  /\ UNCHANGED <<disposition, original, saved, g_user_handlers, sigNode, g_signal_initialized, sigWalk, sigDead>>
Restored(s) == saved[s]
FiniRestore(t) ==
  /\ CanRun(t) /\ sigTh[t].pc = "fini"
  /\ \E s \in sigTh[t].todo :
       /\ disposition' = [disposition EXCEPT ![s] = Restored(s)]
       /\ sigTh' = [sigTh EXCEPT ![t] = [SigIdle EXCEPT !.pc = "free",
                    !.todo = sigTh[t].todo \ {s}, !.at = g_user_handlers[s], !.sig = s]]
  /\ UNCHANGED <<original, saved, g_user_handlers, sigNode, g_signal_initialized, sigWalk, sigDead>>
FiniFree(t) ==
  /\ CanRun(t) /\ sigTh[t].pc = "free" /\ sigTh[t].at # SigNil
  /\ sigTh' = [sigTh EXCEPT ![t].at = IF sigNode[@] = SigFreed THEN SigNil ELSE sigNode[@].next]
  /\ sigNode' = [sigNode EXCEPT ![sigTh[t].at] = SigFreed]
  /\ UNCHANGED <<disposition, original, saved, g_user_handlers, g_signal_initialized, sigWalk, sigDead>>
FiniClear(t) ==
  /\ CanRun(t) /\ sigTh[t].pc = "free" /\ sigTh[t].at = SigNil
  /\ g_user_handlers' = [g_user_handlers EXCEPT ![sigTh[t].sig] = SigNil]
  /\ sigTh' = [sigTh EXCEPT ![t] = [SigIdle EXCEPT !.pc = "fini", !.todo = sigTh[t].todo]]
  /\ UNCHANGED <<disposition, original, saved, sigNode, g_signal_initialized, sigWalk, sigDead>>
FiniEnd(t) ==
  /\ CanRun(t) /\ sigTh[t].pc = "fini" /\ sigTh[t].todo = {}
  /\ g_signal_initialized' = FALSE /\ sigTh' = [sigTh EXCEPT ![t] = SigIdle]
  /\ UNCHANGED <<disposition, original, saved, g_user_handlers, sigNode, sigWalk, sigDead>>

(***************************************************************************)
(* signal_register_user_handler: fill the node, then write the head.       *)
(***************************************************************************)
RegisterNode(t, s, h) ==
  /\ CanRun(t) /\ sigTh[t].pc = "idle"
  /\ \E n \in SigNode :
       /\ sigNode[n] = SigFreed /\ \A u \in SigThread : sigTh[u].at # n
       /\ sigNode' = [sigNode EXCEPT ![n] = [h |-> h, next |-> g_user_handlers[s]]]
       /\ sigTh' = [sigTh EXCEPT ![t] = [SigIdle EXCEPT !.pc = "reg", !.at = n, !.sig = s]]
  /\ UNCHANGED <<disposition, original, saved, g_user_handlers, g_signal_initialized, sigWalk, sigDead>>
RegisterHead(t) ==
  /\ CanRun(t) /\ sigTh[t].pc = "reg"
  /\ g_user_handlers' = [g_user_handlers EXCEPT ![sigTh[t].sig] = sigTh[t].at]
  /\ sigTh' = [sigTh EXCEPT ![t] = SigIdle]
  /\ UNCHANGED <<disposition, original, saved, sigNode, g_signal_initialized, sigWalk, sigDead>>

(***************************************************************************)
(* signal_unregister_user_handler: pp goes along the list, from the head   *)
(* (SigNil) to the link of one node after the other; the first node of the *)
(* handler is unlinked, then freed.                                        *)
(***************************************************************************)
Pointed(s, pp) ==
  IF pp = SigNil THEN g_user_handlers[s]
  ELSE IF sigNode[pp] = SigFreed THEN SigNil ELSE sigNode[pp].next
ListEnds(n) == n = SigNil \/ sigNode[n] = SigFreed
NodeFound(t) == LET n == Pointed(sigTh[t].sig, sigTh[t].at)
            IN  ~ListEnds(n) /\ sigNode[n].h = sigTh[t].h
FindBegin(t, s, h) ==
  /\ CanRun(t) /\ sigTh[t].pc = "idle"
  /\ sigTh' = [sigTh EXCEPT ![t] = [SigIdle EXCEPT !.pc = "find", !.sig = s, !.h = h]]
  /\ UNCHANGED <<disposition, original, saved, g_user_handlers, sigNode, g_signal_initialized, sigWalk, sigDead>>
FindNext(t) ==
  /\ CanRun(t) /\ sigTh[t].pc = "find" /\ ~NodeFound(t)
  /\ LET n == Pointed(sigTh[t].sig, sigTh[t].at)
     IN  sigTh' = [sigTh EXCEPT ![t] = IF ListEnds(n) THEN SigIdle ELSE [@ EXCEPT !.at = n]]
  /\ UNCHANGED <<disposition, original, saved, g_user_handlers, sigNode, g_signal_initialized, sigWalk, sigDead>>
(* A mutant that only ever moves the head. *)
UnlinkNodeHeadOnly(t) ==
  /\ CanRun(t) /\ sigTh[t].pc = "find" /\ NodeFound(t)
  /\ LET s == sigTh[t].sig
         pp == sigTh[t].at
         n == Pointed(s, pp)
     IN  /\ g_user_handlers' = [g_user_handlers EXCEPT ![s] = IF pp = SigNil THEN sigNode[n].next ELSE @]
         /\ sigTh' = [sigTh EXCEPT ![t] = [SigIdle EXCEPT !.pc = "unreg", !.at = n]]
  /\ UNCHANGED <<disposition, original, saved, sigNode, g_signal_initialized, sigWalk, sigDead>>
UnlinkNode(t) ==
  /\ CanRun(t) /\ sigTh[t].pc = "find" /\ NodeFound(t)
  /\ LET s == sigTh[t].sig
         pp == sigTh[t].at
         n == Pointed(s, pp)
     IN  /\ IF pp = SigNil
              THEN /\ g_user_handlers' = [g_user_handlers EXCEPT ![s] = sigNode[n].next]
                   /\ UNCHANGED sigNode
              ELSE /\ sigNode' = [sigNode EXCEPT ![pp].next = sigNode[n].next]
                   /\ UNCHANGED g_user_handlers
         /\ sigTh' = [sigTh EXCEPT ![t] = [SigIdle EXCEPT !.pc = "unreg", !.at = n]]
  /\ UNCHANGED <<disposition, original, saved, g_signal_initialized, sigWalk, sigDead>>
FreeNode(t) ==
  /\ CanRun(t) /\ sigTh[t].pc = "unreg"
  /\ sigNode' = [sigNode EXCEPT ![sigTh[t].at] = SigFreed]
  /\ sigTh' = [sigTh EXCEPT ![t] = SigIdle]
  /\ UNCHANGED <<disposition, original, saved, g_user_handlers, g_signal_initialized, sigWalk, sigDead>>

(***************************************************************************)
(* The five internal handlers: walk the user handlers from the head, then  *)
(* hand over to the saved disposition; a SIGSEGV outside the code cache    *)
(* goes straight to it.  sa_sigaction and sa_handler share their storage:  *)
(* SIG_DFL is NULL and ends the process, SIG_IGN is not NULL and is        *)
(* called.                                                                 *)
(***************************************************************************)
UserList(s, inCodeCache) == IF s = Segv /\ ~inCodeCache THEN SigNil ELSE g_user_handlers[s]
Deliver(t, s) ==
  /\ CanRun(t)
  /\ IF disposition[s] = "ours"
       THEN /\ \E inCodeCache \in BOOLEAN :
                 sigWalk' = [sigWalk EXCEPT ![t] =
                               [pc |-> "walk", sig |-> s, at |-> UserList(s, inCodeCache)]]
            /\ UNCHANGED sigDead
       ELSE /\ sigDead' = IF disposition[s] = "default" THEN "signal" ELSE sigDead
            /\ UNCHANGED sigWalk
  /\ UNCHANGED <<disposition, original, saved, g_user_handlers, sigNode, g_signal_initialized, sigTh>>
CallHandler(t) ==
  /\ sigWalk[t].pc = "walk" /\ sigDead = "no" /\ sigWalk[t].at # SigNil
  /\ IF sigNode[sigWalk[t].at] = SigFreed
       THEN sigDead' = "freed node" /\ UNCHANGED sigWalk
       ELSE sigWalk' = [sigWalk EXCEPT ![t].at = sigNode[@].next] /\ UNCHANGED sigDead
  /\ UNCHANGED <<disposition, original, saved, g_user_handlers, sigNode, g_signal_initialized, sigTh>>
CallOriginal(t) ==
  /\ sigWalk[t].pc = "walk" /\ sigDead = "no" /\ sigWalk[t].at = SigNil
  /\ CASE saved[sigWalk[t].sig] = "default" -> sigDead' = "exit" /\ UNCHANGED sigWalk
       [] saved[sigWalk[t].sig] = "ignore" -> sigDead' = "call of SIG_IGN" /\ UNCHANGED sigWalk
       [] saved[sigWalk[t].sig] = "ours" -> sigDead' = "endless chain" /\ UNCHANGED sigWalk
       [] OTHER -> sigWalk' = [sigWalk EXCEPT ![t] = NoWalk] /\ UNCHANGED sigDead
  /\ UNCHANGED <<disposition, original, saved, g_user_handlers, sigNode, g_signal_initialized, sigTh>>

SigNext ==
  \E t \in SigThread :
    \/ InitBegin(t) \/ InitOne(t) \/ InitEnd(t)
    \/ FiniBegin(t) \/ FiniRestore(t) \/ FiniFree(t) \/ FiniClear(t) \/ FiniEnd(t)
    \/ \E s \in Sig, h \in Handler : RegisterNode(t, s, h) \/ FindBegin(t, s, h)
    \/ RegisterHead(t) \/ FindNext(t) \/ UnlinkNode(t) \/ FreeNode(t)
    \/ \E s \in Sig : Deliver(t, s)
    \/ CallHandler(t) \/ CallOriginal(t)

SigSpec == SigInit /\ [][SigNext]_sigVars
-----------------------------------------------------------------------------
(* No internal handler reads a list node after it was freed, wherever a    *)
(* signal interrupts registration, removal or fini.                        *)
NoFreedNode == sigDead # "freed node"

(* The library never chains to itself: what it saved is what the process   *)
(* had.                                                                    *)
NoSelfChain == sigDead # "endless chain" /\ \A s \in Sig : disposition[s] = "ours" => saved[s] = original[s]

(* Out of init and fini, the flag says whether the process has its own     *)
(* dispositions back.                                                      *)
FiniRestores ==
  (\A t \in SigThread : sigTh[t].pc \notin {"init", "fini", "free"})
     => (~g_signal_initialized => disposition = original)

(* Wherever a signal interrupts signal_handler_init, registration, removal or fini,*)
(* the handler walks live nodes, chains to the process and is taken back.  *)
HandlersSafe == NoFreedNode /\ NoSelfChain /\ FiniRestores

(* A signal the process ignored stays harmless. *)
IgnoredHarmless == sigDead # "call of SIG_IGN"
=============================================================================
