-------------------------------- MODULE Perf --------------------------------
(***************************************************************************)
(* The counters of modules/arm2x86_perf.c.  They are thread-local: every   *)
(* thread has its own, made by its first call, and a report shows those of *)
(* the thread that asks.                                                   *)
(***************************************************************************)
EXTENDS Naturals

CONSTANTS
  PerfThread,   \* threads
  PerfSize,     \* sizes of translated blocks
  MaxPerf       \* bound: events of a thread between resets

InstrClass == {"data", "ldst", "branch", "neon", "system", "unknown"}
Zero == [translations |-> 0, arm |-> 0, x86 |-> 0, time |-> 0, timed |-> 0, maxBlock |-> 0,
         executions |-> 0, cached |-> 0, uncached |-> 0,
         class |-> [c \in InstrClass |-> 0],
         blocks |-> 0, hot |-> 0, cold |-> 0, current |-> 0, peak |-> 0]

VARIABLES perfReady, perf
perfVars == <<perfReady, perf>>

PerfInit == perfReady = [t \in PerfThread |-> FALSE] /\ perf = [t \in PerfThread |-> Zero]

Busy(t) == perf[t].executions + perf[t].blocks + perf[t].timed < MaxPerf
Do(t, s) == perfReady' = [perfReady EXCEPT ![t] = TRUE] /\ perf' = [perf EXCEPT ![t] = s]

perf_init(t) == ~perfReady[t] /\ Do(t, Zero)
(* The four cumulative counters outlive a reset ("timed" counts the        *)
(* translations whose times are in "time": a history).                     *)
Kept(s) == [Zero EXCEPT !.translations = s.translations, !.arm = s.arm, !.x86 = s.x86]
perf_reset(t) == Do(t, IF perfReady[t] THEN Kept(perf[t]) ELSE Zero)

record_translation(t, x86) ==
  /\ Busy(t) /\ perf[t].translations < MaxPerf
  /\ Do(t, [perf[t] EXCEPT !.translations = @ + 1, !.arm = @ + 4, !.x86 = @ + x86,
                           !.time = @ + 1, !.timed = @ + 1,
                           !.maxBlock = IF x86 > @ THEN x86 ELSE @])
(* The switch over the instruction's type: one class counts it. *)
record_execution(t, cached, c) ==
  /\ Busy(t)
  /\ Do(t, [perf[t] EXCEPT !.executions = @ + 1,
                           !.cached = IF cached THEN @ + 1 ELSE @,
                           !.uncached = IF cached THEN @ ELSE @ + 1,
                           !.class[c] = @ + 1])
record_memory(t, current, peak) ==
  Do(t, [perf[t] EXCEPT !.current = current, !.peak = IF peak > @ THEN peak ELSE @])
record_block(t, is_hot) ==
  /\ Busy(t)
  /\ Do(t, [perf[t] EXCEPT !.blocks = @ + 1,
                           !.hot = IF is_hot THEN @ + 1 ELSE @,
                           !.cold = IF is_hot THEN @ ELSE @ + 1])

PerfNext ==
  \E t \in PerfThread :
    \/ perf_init(t) \/ perf_reset(t)
    \/ \E x \in PerfSize : record_translation(t, x)
    \/ \E cached \in BOOLEAN, c \in InstrClass : record_execution(t, cached, c)
    \/ \E x \in PerfSize, y \in PerfSize : x <= y /\ record_memory(t, x, y)
    \/ \E is_hot \in BOOLEAN : record_block(t, is_hot)
PerfSpec == PerfInit /\ [][PerfNext]_perfVars

(* The shares a report prints, as numerator and denominator: hits and      *)
(* classes of the accesses, hot and cold of the blocks, and the times per  *)
(* translation.                                                            *)
Accesses(s) == s.cached + s.uncached
Shares(s) ==
  {<<s.cached, Accesses(s)>>, <<s.hot, s.blocks>>, <<s.cold, s.blocks>>}
    \cup {<<s.class[c], Accesses(s)>> : c \in InstrClass}
-----------------------------------------------------------------------------
(* No report shows a share above 100%, with resets between the events.     *)
SharesBounded == \A t \in PerfThread : \A r \in Shares(perf[t]) : r[1] <= r[2]

(* The average time of a translation divides the times of the translations *)
(* that are counted.  Not so after a reset, which keeps the count and      *)
(* forgets the times.                                                      *)
AverageCovers == \A t \in PerfThread : perf[t].translations = perf[t].timed

(* A thread that asks for a report sees every execution.  Not so: the      *)
(* counters are thread-local, and the export uses those of the caller.     *)
ReportsAll == \A t, u \in PerfThread : perf[t].executions = perf[u].executions
=============================================================================
