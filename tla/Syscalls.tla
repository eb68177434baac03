------------------------------ MODULE Syscalls ------------------------------
(***************************************************************************)
(* modules/arm2x86_syscall.c: the table of system call numbers, filled by  *)
(* the first thread that looks a number up and without any lock; and the   *)
(* signal handlers registered through the bridge, which a signal may       *)
(* interrupt between any two steps.  get_syscall_name fills and reads its  *)
(* own table in the same way as translate_syscall_number.                  *)
(***************************************************************************)
EXTENDS Integers, FiniteSets

CONSTANTS
  NrMax,          \* SYSCALL_TABLE_MAX_NR
  NrKnown,        \* length of syscall_table: it holds the numbers 0..NrKnown-1
  ScThread,
  BridgeSig,      \* signal numbers
  BridgeHandler,
  AppAction,      \* AppAction[s]: what the application had installed, "default" or "app"
  RegisterAgain   \* whether a handler is registered where one is registered already

ASSUME ScAssumption == NrMax \in Nat \ {0} /\ NrKnown \in 0..NrMax

VARIABLES
  lookup,         \* g_syscall_lookup
  lookupReady,    \* g_syscall_lookup_initialized
  scAt,           \* each thread: [at, i, nr]
  scResult,       \* the last number each thread got, or "none"
  bridge,         \* g_signal_handlers[s].handler, or "null"
  oldAction,      \* g_signal_handlers[s].old_action
  action,         \* what the kernel runs for each signal
  bridgeAt,       \* the registration under way: [at, sig]
  lost            \* the signals delivered to the wrapper with no handler

lookupVars == <<lookup, lookupReady, scAt, scResult>>
bridgeVars == <<bridge, oldAction, action, bridgeAt, lost>>
scVars == <<lookupVars, bridgeVars>>

-----------------------------------------------------------------------------
(* syscall_table: the x86-64 number of every entry is its ARM64 number.     *)
syscall_table == [nr \in 0..NrKnown - 1 |-> nr]

ScIdle == [at |-> "idle", i |-> 0, nr |-> 0]
translate_syscall_number(t, nr) ==
  /\ scAt[t].at = "idle"
  /\ scAt' = [scAt EXCEPT ![t] = [at |-> IF lookupReady THEN "read" ELSE "enter", i |-> 0,
                                  nr |-> nr]]
  /\ UNCHANGED <<lookup, lookupReady, scResult>>
InitLookupFlagFirst(t) ==
  /\ scAt[t].at = "enter"
  /\ scAt' = [scAt EXCEPT ![t].at = IF lookupReady THEN "read" ELSE "clear"]
  /\ lookupReady' = TRUE
  /\ UNCHANGED <<lookup, scResult>>
(* init_syscall_lookup: looks at the flag again, clears entry by entry,     *)
(* then fills entry by entry, then sets the flag.                           *)
init_syscall_lookup(t) ==
  /\ scAt[t].at = "enter"
  /\ scAt' = [scAt EXCEPT ![t].at = IF lookupReady THEN "read" ELSE "clear"]
  /\ UNCHANGED <<lookup, lookupReady, scResult>>
InitClear(t) ==
  /\ scAt[t].at = "clear"
  /\ lookup' = [lookup EXCEPT ![scAt[t].i] = -1]
  /\ \/ scAt[t].i + 1 < NrMax /\ scAt' = [scAt EXCEPT ![t].i = @ + 1]
     \/ scAt[t].i + 1 = NrMax
          /\ scAt' = [scAt EXCEPT ![t] = [at |-> "fill", i |-> 0, nr |-> scAt[t].nr]]
  /\ UNCHANGED <<lookupReady, scResult>>
InitFill(t) ==
  /\ scAt[t].at = "fill"
  /\ lookupReady' = (lookupReady \/ scAt[t].i = NrKnown)
  /\ \/ /\ scAt[t].i < NrKnown
        /\ lookup' = [lookup EXCEPT ![scAt[t].i] = syscall_table[scAt[t].i]]
        /\ scAt' = [scAt EXCEPT ![t].i = @ + 1]
     \/ /\ scAt[t].i = NrKnown
        /\ scAt' = [scAt EXCEPT ![t].at = "read"]
        /\ UNCHANGED lookup
  /\ UNCHANGED scResult
LookupReturn(t) ==
  /\ scAt[t].at = "read"
  /\ scResult' = [scResult EXCEPT ![t] =
       [nr |-> scAt[t].nr,
        got |-> IF scAt[t].nr \in 0..NrMax - 1 THEN lookup[scAt[t].nr] ELSE -1]]
  /\ scAt' = [scAt EXCEPT ![t] = ScIdle]
  /\ UNCHANGED <<lookup, lookupReady>>

-----------------------------------------------------------------------------
(* NativeBridgeRegisterSignalHandler: the handler is stored, then the       *)
(* wrapper installed; the old action is what was installed until then.      *)
RegisterStore(s, h) ==
  /\ bridgeAt.at = "idle"
  /\ RegisterAgain \/ bridge[s] = "null"
  /\ bridge' = [bridge EXCEPT ![s] = h]
  /\ bridgeAt' = [at |-> "install", sig |-> s]
  /\ UNCHANGED <<oldAction, action, lost>>
RegisterInstall ==
  /\ bridgeAt.at = "install"
  /\ action' = [action EXCEPT ![bridgeAt.sig] = "wrapper"]
  /\ oldAction' = [oldAction EXCEPT ![bridgeAt.sig] = action[bridgeAt.sig]]
  /\ bridgeAt' = [at |-> "idle", sig |-> 0]
  /\ UNCHANGED <<bridge, lost>>

(* SIG_DFL is the null pointer, which is also what a cleared entry holds:   *)
(* neither is put back.                                                     *)
OldRestored(s) == IF oldAction[s] = "default" THEN action[s] ELSE oldAction[s]
UnregisterNoRestore(s) == UNCHANGED action
(* NativeBridgeUnregisterSignalHandler: first the action is put back, then  *)
(* the handler is cleared.                                                  *)
UnregisterRestore(s) == action' = [action EXCEPT ![s] = OldRestored(s)]
UnregisterBegin(s) ==
  /\ bridgeAt.at = "idle"
  /\ UnregisterRestore(s)
  /\ bridgeAt' = [at |-> "clear", sig |-> s]
  /\ UNCHANGED <<bridge, oldAction, lost>>
UnregisterEnd ==
  /\ bridgeAt.at = "clear"
  /\ bridge' = [bridge EXCEPT ![bridgeAt.sig] = "null"]
  /\ oldAction' = [oldAction EXCEPT ![bridgeAt.sig] = "default"]
  /\ bridgeAt' = [at |-> "idle", sig |-> 0]
  /\ UNCHANGED <<action, lost>>
(* signal_wrapper calls the handler, or drops a signal that has none.       *)
signal_wrapper(s) ==
  /\ action[s] = "wrapper"
  /\ lost' = IF bridge[s] = "null" THEN lost \union {s} ELSE lost
  /\ UNCHANGED <<bridge, oldAction, action, bridgeAt>>

-----------------------------------------------------------------------------
ScInit ==
  /\ lookup = [nr \in 0..NrMax - 1 |-> 0] /\ lookupReady = FALSE
  /\ scAt = [t \in ScThread |-> ScIdle]
  /\ scResult = [t \in ScThread |-> [nr |-> NrMax, got |-> -1]]
  /\ bridge = [s \in BridgeSig |-> "null"]
  /\ oldAction = [s \in BridgeSig |-> "default"]
  /\ action = [s \in BridgeSig |-> AppAction[s]]
  /\ bridgeAt = [at |-> "idle", sig |-> 0] /\ lost = {}

LookupNext ==
  \E t \in ScThread :
    \/ \E nr \in -1..NrMax : translate_syscall_number(t, nr)
    \/ init_syscall_lookup(t) \/ InitClear(t) \/ InitFill(t) \/ LookupReturn(t)
BridgeNext ==
  \/ \E s \in BridgeSig, h \in BridgeHandler : RegisterStore(s, h)
  \/ \E s \in BridgeSig : UnregisterBegin(s) \/ signal_wrapper(s)
  \/ RegisterInstall \/ UnregisterEnd

LookupSpec == ScInit /\ [][LookupNext]_lookupVars
BridgeSpec == ScInit /\ [][BridgeNext]_bridgeVars
-----------------------------------------------------------------------------
(* Whatever threads fill the table at the same time, a lookup returns the   *)
(* number of the table or "unknown", never the zero of an entry that has    *)
(* not been cleared, which is a valid call (translate_syscall_number).      *)
NumberOrUnknown ==
  \A t \in ScThread :
    LET r == scResult[t]
    IN IF r.nr \in DOMAIN syscall_table THEN r.got \in {-1, syscall_table[r.nr]} ELSE r.got = -1

(* Not true of the code; see the README: a known number is found, also      *)
(* while a second thread still fills the table.                             *)
KnownFound ==
  \A t \in ScThread : scResult[t].nr \in DOMAIN syscall_table => scResult[t].got # -1

(* When each signal is registered once, over a handler of the application,  *)
(* no signal is dropped between the steps of registering and unregistering  *)
(* (NativeBridgeRegisterSignalHandler, NativeBridgeUnregisterSignalHandler).*)
NoSignalLost == lost = {}
=============================================================================
