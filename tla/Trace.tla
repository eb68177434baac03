------------------------------- MODULE Trace -------------------------------
(***************************************************************************)
(* The trace recorder of modules/arm2x86_trace.c: a ring whose head is the *)
(* next slot.  An export writes the number of entries before it takes the  *)
(* lock and the entries under it, so it is two steps.  traceLog is a       *)
(* history of what was recorded since the last clear.                      *)
(***************************************************************************)
EXTENDS Naturals, Sequences

CONSTANTS
  TraceMax,     \* capacity
  TraceEvent,   \* events with their addresses
  MaxRecords    \* bound: events recorded since a clear

ASSUME TraceAssumption == TraceMax \in Nat \ {0}

Blank == "blank"
NoFile == [header |-> 0, entries |-> <<>>, log |-> <<>>]

VARIABLES slots, head, traceCount, enabled, exporting, file, traceLog
traceVars == <<slots, head, traceCount, enabled, exporting, file, traceLog>>

TraceInit ==
  /\ slots = [i \in 0 .. TraceMax - 1 |-> Blank] /\ head = 0 /\ traceCount = 0
  /\ enabled = TRUE /\ exporting = FALSE /\ file = NoFile /\ traceLog = <<>>

NextHead == (head + 1) % TraceMax
trace_record(e) ==
  /\ enabled /\ Len(traceLog) < MaxRecords
  /\ slots' = [slots EXCEPT ![head] = e]
  /\ head' = NextHead
  /\ traceCount' = IF traceCount < TraceMax THEN traceCount + 1 ELSE traceCount
  /\ traceLog' = Append(traceLog, e)
  /\ UNCHANGED <<enabled, exporting, file>>

trace_enable ==
  /\ enabled' = ~enabled
  /\ UNCHANGED <<slots, head, traceCount, exporting, file, traceLog>>

trace_clear ==
  /\ slots' = [i \in 0 .. TraceMax - 1 |-> Blank] /\ head' = 0 /\ traceCount' = 0
  /\ traceLog' = <<>>
  /\ UNCHANGED <<enabled, exporting, file>>

(* The entries an export or arm2x86_trace_stats visits: count of them,     *)
(* starting at the head.                                                   *)
Visited == [i \in 1 .. traceCount |-> slots[(head + i - 1) % TraceMax]]

export_header ==
  /\ ~exporting /\ exporting' = TRUE
  /\ file' = [NoFile EXCEPT !.header = traceCount]
  /\ UNCHANGED <<slots, head, traceCount, enabled, traceLog>>
export_entries ==
  /\ exporting /\ exporting' = FALSE
  /\ file' = [file EXCEPT !.entries = Visited, !.log = traceLog]
  /\ UNCHANGED <<slots, head, traceCount, enabled, traceLog>>

TraceNext ==
  \/ \E e \in TraceEvent : trace_record(e)
  \/ trace_enable \/ trace_clear \/ export_header \/ export_entries
TraceSpec == TraceInit /\ [][TraceNext]_traceVars
-----------------------------------------------------------------------------
(* An export has an entry per event held, and walks the slots from the     *)
(* oldest on, wherever the head stands when the lock is taken: a ring that *)
(* has wrapped comes out as its newest events, oldest first; one that has  *)
(* not as its unused slots, and the oldest events as far as count reaches. *)
SlotOf(log, i) == IF Len(log) + i <= TraceMax THEN Blank ELSE log[Len(log) + i - TraceMax]
ExportNewest ==
  file.entries = [i \in 1 .. (IF Len(file.log) < TraceMax THEN Len(file.log) ELSE TraceMax) |->
                    SlotOf(file.log, i)]

(* An export holds what was recorded.  Not so before the ring wraps: the   *)
(* walk starts at the head, where nothing has been recorded yet.           *)
ExportRecorded ==
  (~exporting /\ Len(file.log) < TraceMax) => file.entries = file.log

(* The header counts the entries that follow.  Not so: it is read before   *)
(* the lock is taken.                                                      *)
HeaderCounts == ~exporting => file.header = Len(file.entries)
=============================================================================
