------------------------------ MODULE Profiler ------------------------------
(***************************************************************************)
(* The profiler of modules/arm2x86_profiler.c: a ring of events, counters  *)
(* derived from them, and named regions.  Every call holds the lock, so a  *)
(* call is one step and threads show as calls in any order.  Times are     *)
(* read from the wall clock, which may be set back; durations and sums of  *)
(* them wrap as uint64_t.  profLog is a history of the recorded events,    *)
(* which the program does not keep.                                        *)
(***************************************************************************)
EXTENDS Integers, Sequences, SequencesExt

CONSTANTS
  RingMax,      \* PROFILER_MAX_ENTRIES
  RegionMax,    \* PROFILER_MAX_REGIONS
  RegionName,   \* names of regions
  EventType,    \* types of recorded events
  ProfPc,       \* addresses of blocks
  MaxEvents,    \* bound: events recorded
  MaxCalls,     \* bound: calls of a region
  MaxTick,      \* bound: clock
  TimeWrap      \* 2^64

ASSUME ProfAssumption == RingMax \in Nat \ {0} /\ RegionMax \in Nat /\ MaxTick \in Nat /\ TimeWrap \in Nat \ {0}

Empty == [type |-> "none", pc |-> "none", at |-> 0, data |-> 0]
NoRegion == [name |-> "none", start |-> 0, active |-> FALSE, total |-> 0, calls |-> 0, max |-> 0]
NoTotals == [tstart |-> 0, tpc |-> "none", ttotal |-> 0, tcount |-> 0, tmax |-> 0, tmin |-> 0,
             slowest |-> "none", blocks |-> 0, instrs |-> 0, hits |-> 0, misses |-> 0,
             hot |-> 0, signals |-> 0]

VARIABLES
  profReady,    \* entries # NULL
  ring, start_idx, profCount,
  totals,       \* the counters of Arm2x86Profiler
  regions,      \* regions[0 .. region_count - 1]
  tick, profLog
profVars == <<profReady, ring, start_idx, profCount, totals, regions, tick, profLog>>

(* calloc in arm2x86_profiler_init, memset in arm2x86_profiler_destroy. *)
Cleared ==
  /\ ring' = [i \in 0 .. RingMax - 1 |-> Empty]
  /\ start_idx' = 0 /\ profCount' = 0 /\ totals' = NoTotals /\ regions' = <<>>
  /\ profLog' = <<>>

(* arm2x86_profiler_global_init does nothing the second time. *)
profiler_init == ~profReady /\ profReady' = TRUE /\ Cleared /\ UNCHANGED tick
profiler_destroy == profReady /\ profReady' = FALSE /\ Cleared /\ UNCHANGED tick

(* A difference of two times, and a sum of durations. *)
Duration(from, to) == (to - from) % TimeWrap
Added(total, d) == (total + d) % TimeWrap

(* The switch of arm2x86_profiler_record_event.  An END uses the last      *)
(* START, which no END takes back; a minimum of 0 counts as not set.       *)
Tallied(t, e) ==
  CASE e.type = "start" -> [t EXCEPT !.tstart = e.at, !.tpc = e.pc]
    [] e.type = "end" /\ t.tstart > 0 ->
         LET d == Duration(t.tstart, e.at)
         IN  [t EXCEPT !.ttotal = Added(@, d), !.tcount = @ + 1,
                       !.tmax = IF d > @ THEN d ELSE @,
                       !.slowest = IF d > t.tmax THEN t.tpc ELSE @,
                       !.tmin = IF d < @ \/ @ = 0 THEN d ELSE @]
    [] e.type = "block" -> [t EXCEPT !.blocks = @ + 1, !.instrs = @ + e.data]
    [] e.type = "hit" -> [t EXCEPT !.hits = @ + 1]
    [] e.type = "miss" -> [t EXCEPT !.misses = @ + 1]
    [] e.type = "retranslate" -> [t EXCEPT !.hot = @ + 1]
    [] e.type = "signal" -> [t EXCEPT !.signals = @ + 1]
    [] OTHER -> t

(* The oldest entry makes room when the ring is full. *)
FullStartKept == start_idx
FullStart == (start_idx + 1) % RingMax
record_event(type, pc, data) ==
  /\ profReady /\ Len(profLog) < MaxEvents
  /\ LET full == profCount >= RingMax
         first == IF full THEN FullStart ELSE start_idx
         held == IF full THEN profCount - 1 ELSE profCount
         e == [type |-> type, pc |-> pc, at |-> tick, data |-> data]
     IN  /\ start_idx' = first
         /\ ring' = [ring EXCEPT ![(first + held) % RingMax] = e]
         /\ profCount' = held + 1
         /\ totals' = Tallied(totals, e)
         /\ profLog' = Append(profLog, e)
  /\ UNCHANGED <<profReady, regions, tick>>

(* arm2x86_profiler_start_region: found or appended; a full table gives    *)
(* -1 and nothing changes.  Starting an active region starts it anew.      *)
Position(name) == {i \in DOMAIN regions : regions[i].name = name}
start_region(name) ==
  /\ \/ /\ Position(name) # {}
        /\ regions' = [i \in DOMAIN regions |->
                         IF i \in Position(name)
                           THEN [regions[i] EXCEPT !.start = tick, !.active = TRUE] ELSE regions[i]]
     \/ /\ Position(name) = {} /\ Len(regions) < RegionMax
        /\ regions' = Append(regions, [NoRegion EXCEPT !.name = name, !.start = tick, !.active = TRUE])
  /\ UNCHANGED <<profReady, ring, start_idx, profCount, totals, tick, profLog>>

Ended(r) ==
  LET d == Duration(r.start, tick)
  IN  [r EXCEPT !.total = Added(@, d), !.calls = @ + 1, !.active = FALSE, !.max = IF d > @ THEN d ELSE @]
end_region(name) ==
  /\ \E i \in Position(name) :
       regions[i].active /\ regions[i].calls < MaxCalls /\ regions' = [regions EXCEPT ![i] = Ended(@)]
  /\ UNCHANGED <<profReady, ring, start_idx, profCount, totals, tick, profLog>>

(* gettimeofday: the clock runs, or is set to any time. *)
ProfTick ==
  /\ tick' \in 1 .. MaxTick /\ tick' # tick
  /\ UNCHANGED <<profReady, ring, start_idx, profCount, totals, regions, profLog>>

ProfInit ==
  /\ profReady = FALSE /\ ring = [i \in 0 .. RingMax - 1 |-> Empty] /\ start_idx = 0
  /\ profCount = 0 /\ totals = NoTotals /\ regions = <<>> /\ tick = 1 /\ profLog = <<>>
ProfNext ==
  \/ profiler_init \/ profiler_destroy \/ ProfTick
  \/ \E type \in EventType, pc \in ProfPc : record_event(type, pc, IF type = "block" THEN 2 ELSE 0)
  \/ \E name \in RegionName : start_region(name) \/ end_region(name)
ProfSpec == ProfInit /\ [][ProfNext]_profVars

(* arm2x86_profiler_export_json: the events in the order of the ring. *)
Exported == [i \in 1 .. profCount |-> ring[(start_idx + i - 1) % RingMax]]
-----------------------------------------------------------------------------
(* Wrapping loses only the oldest events: what an export writes is the     *)
(* newest events, oldest first, however often the ring has wrapped.        *)
RingNewest ==
  /\ profCount = IF Len(profLog) < RingMax THEN Len(profLog) ELSE RingMax
  /\ Exported = SubSeq(profLog, Len(profLog) - profCount + 1, Len(profLog))

(* The slowest translation bounds the average, and the longest call that   *)
(* of its region, with STARTs and ENDs of several threads in any order, a  *)
(* region started again while it is active, and the clock set back.        *)
AverageBelowMax ==
  /\ totals.ttotal <= totals.tmax * totals.tcount
  /\ \A i \in DOMAIN regions : regions[i].total <= regions[i].max * regions[i].calls

(* The fastest one bounds it from below.  Not so: after a translation of   *)
(* 0 us the next one becomes the minimum.                                  *)
AverageAboveMin == totals.tmin * totals.tcount <= totals.ttotal

(* No region lasts longer than the clock has run.  Not so: a clock set     *)
(* back makes a duration of almost 2^64 us (arm2x86_profiler.c:240).       *)
RegionWithinClock == \A i \in DOMAIN regions : regions[i].total <= MaxTick
=============================================================================
