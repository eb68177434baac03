----------------------------- MODULE Recorders -----------------------------
(***************************************************************************)
(* What the library records about itself: the profiler, the trace and the  *)
(* performance counters.  They share no variable; each keeps a bounded     *)
(* part of what happened and reports figures drawn from it.                *)
(***************************************************************************)
EXTENDS Profiler, Trace, Perf

RecorderSpec == ProfSpec /\ TraceSpec /\ PerfSpec

(* What profiler.c and trace.c export is the newest of what was recorded,   *)
(* slot for slot, and the averages and shares that profiler.c and perf.c    *)
(* report fit together, however often the rings wrapped, the clock was set  *)
(* back and the counters were reset.                                        *)
RecordingRight ==
  /\ RingNewest /\ AverageBelowMax
  /\ ExportNewest
  /\ SharesBounded
=============================================================================
