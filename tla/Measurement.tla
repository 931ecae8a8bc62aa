----------------------------- MODULE Measurement -----------------------------
(***************************************************************************)
(* The timing loops and what is made of their histograms: statistics of a  *)
(* column, the refreshes that stand out in it and the intervals between    *)
(* them.                                                                   *)
(*                                                                         *)
(* The memory is external.  A row of a loop begins with flushes and a      *)
(* fence, before the clock is read for the first time; a leg of it is the  *)
(* accesses between two readings: how long they take, and the ranks they   *)
(* reach.  Every rank is refreshed once in a period, which keeps it busy   *)
(* for RefreshTime: a leg waits for as much of that as it meets.  A        *)
(* refresh that begins while lines are flushed is over in part, or all of  *)
(* it, when the clock is read.                                             *)
(***************************************************************************)
EXTENDS Integers, Sequences, SequencesExt

CONSTANTS
  SUDOKU_CONFLICT_NUM_ITERATION,
  SUDOKU_REFRESH_NUM_ITERATION,
  SUDOKU_CONSECUTIVE_NUM_ITERATION,
  REFRESH_CYCLE_LOWER_BOUND,
  FlushTime,           \* of the flushes and the fence that begin a row
  AccessTime,          \* of a leg, in ticks of the clock
  ConflictTime,        \* what a conflict of rows adds to it
  RefreshTime,
  Stagger,             \* the distance of the refreshes of two ranks
  Periods              \* the refresh intervals of the memories

ASSUME MeasurementAssumption ==
  /\ {SUDOKU_CONFLICT_NUM_ITERATION, SUDOKU_REFRESH_NUM_ITERATION,
      SUDOKU_CONSECUTIVE_NUM_ITERATION, AccessTime} \cup Periods
       \subseteq Nat \ {0}
  /\ {REFRESH_CYCLE_LOWER_BOUND, FlushTime, ConflictTime, RefreshTime, Stagger}
       \subseteq Nat

-----------------------------------------------------------------------------
(* Statistics of a column or a vector; those of no values are 0.           *)
Sorted(values) ==
  [k \in DOMAIN values |->
     CHOOSE v \in Range(values) :
       /\ Cardinality({i \in DOMAIN values : values[i] < v}) < k
       /\ k <= Cardinality({i \in DOMAIN values : values[i] <= v})]

Total(values) == FoldLeft(LAMBDA x, y : x + y, 0, values)

GetAverage(values) ==
  IF values = <<>> THEN 0 ELSE Total(values) \div Len(values)

GetMedian(values) ==
  LET n == Len(values)
  IN  IF values = <<>> THEN 0
      ELSE IF n % 2 = 0
           THEN (Sorted(values)[n \div 2] + Sorted(values)[n \div 2 + 1]) \div 2
           ELSE Sorted(values)[n \div 2 + 1]

GetStatistics(values) ==
  IF values = <<>> THEN <<0, 0, 0, 0>>
  ELSE <<GetAverage(values), GetMedian(values),
         Sorted(values)[1], Sorted(values)[Len(values)]>>

Column(histogram, cidx) == [i \in DOMAIN histogram |-> histogram[i][cidx]]

-----------------------------------------------------------------------------
(* The loops.  A leg takes the time of its accesses, and longer if it      *)
(* meets a refresh of one of its ranks: leg.phases says when those begin.  *)
(* It waits for all of one that begins during the leg, and for what is     *)
(* left of one that began before.                                          *)
Begins(t, leg) == \E phase \in leg.phases : (t - phase) % leg.period = 0

Waits(at, leg) ==
  {IF t < at THEN t + RefreshTime - at ELSE RefreshTime :
     t \in {x \in at - RefreshTime + 1 .. at + leg.time - 1 : Begins(x, leg)}}

LegTime(at, leg) == leg.time + Max({0} \cup Waits(at, leg))

Row(at, legs) ==
  LET lead == LegTime(at, legs[1])
  IN  IF Len(legs) = 1 THEN <<at, lead>>
                       ELSE <<at, lead, LegTime(at + lead, legs[2])>>

(* An iteration begins when the one before has read the clock last, and    *)
(* flushes before it reads the clock.                                      *)
Measure(iterations, legs) ==
  LET row[i \in 1 .. iterations] ==
        Row((IF i = 1 THEN 0 ELSE Total(row[i - 1])) + FlushTime, legs)
  IN  row

(* Exposures: what of a pair of addresses the timings can tell.  `apart':  *)
(* the addresses lie in different ranks; `slow': they are slow to access   *)
(* in turn, as rows of one bank are, or banks of one group.                *)
Exposures == [apart : BOOLEAN, slow : BOOLEAN, period : Periods]

(* The moments at which the ranks of the addresses are refreshed, when the *)
(* loop starts at any time.                                                *)
Phases(e, p) == IF e.apart THEN {p, p + Stagger} ELSE {p}

PairLegs(e, p) ==
  <<[time |-> AccessTime + (IF e.slow THEN ConflictTime ELSE 0),
     phases |-> Phases(e, p), period |-> e.period]>>

SingleLegs(e, p) ==
  <<[time |-> AccessTime, phases |-> {p}, period |-> e.period]>>

AccessTimingSingleMemoryAccess(e, p) ==
  Measure(SUDOKU_CONFLICT_NUM_ITERATION, SingleLegs(e, p))

AccessTimingPairedMemoryAccess(e, p) ==
  Measure(SUDOKU_CONFLICT_NUM_ITERATION, PairLegs(e, p))

ReadReadLatency(e, p) ==
  Measure(SUDOKU_CONSECUTIVE_NUM_ITERATION, PairLegs(e, p))

MeasureRefreshSingleAccess(e, p) ==
  Measure(SUDOKU_REFRESH_NUM_ITERATION, SingleLegs(e, p))

MeasureRefreshPairedAccessCoarse(e, p) ==
  Measure(SUDOKU_REFRESH_NUM_ITERATION, PairLegs(e, p))

(* Fine: the second address is accessed when the first has been timed.     *)
MeasureRefreshPairedAccessFine(e, p) ==
  Measure(SUDOKU_REFRESH_NUM_ITERATION,
    SingleLegs(e, p) \o SingleLegs(e, IF e.apart THEN p + Stagger ELSE p))

-----------------------------------------------------------------------------
InOrder(rows) ==
  [n \in 1 .. Cardinality(rows) |->
     CHOOSE i \in rows : Cardinality({j \in rows : j <= i}) = n]

(* The times of the refreshes that stand out, in two or three columns.     *)
FilterRefreshTiming(histogram, num_cols) ==
  LET hits == InOrder({i \in DOMAIN histogram :
                         histogram[i][num_cols] > REFRESH_CYCLE_LOWER_BOUND})
      origin == histogram[1][1]
  IN  [n \in DOMAIN hits |->
         histogram[hits[n]][1] - origin +
           (IF num_cols = 3 THEN histogram[hits[n]][2] ELSE 0)]

(* A variant: the time up to the first refresh counts as an interval.     *)
IntervalsFromStart(refreshes) ==
  [n \in DOMAIN refreshes |->
     IF n = 1 THEN refreshes[1] ELSE refreshes[n] - refreshes[n - 1]]

ComputeRefreshIntervals(refreshes) ==
  [n \in 1 .. Len(refreshes) - 1 |-> refreshes[n + 1] - refreshes[n]]

Intervals(histogram, num_cols) ==
  ComputeRefreshIntervals(FilterRefreshTiming(histogram, num_cols))

StatRefreshIntervalSingleAccess(e, p) ==
  GetStatistics(Intervals(MeasureRefreshSingleAccess(e, p), 2))

StatRefreshIntervalPairedAccessCoarse(e, p) ==
  GetStatistics(Intervals(MeasureRefreshPairedAccessCoarse(e, p), 2))

StatRefreshIntervalPairedAccessFine(e, p) ==
  GetStatistics(Intervals(MeasureRefreshPairedAccessFine(e, p), 3))

AverageRefreshIntervalPairedAccessCoarse(e, p) ==
  GetAverage(Intervals(MeasureRefreshPairedAccessCoarse(e, p), 2))

(* It measures coarsely, into two columns, and filters as if there were a  *)
(* third: what is read there is what the memory happens to hold.  `read'   *)
(* says which rows show more than the threshold.                           *)
AverageRefreshIntervalPairedAccessFine(e, p, read) ==
  LET coarse == MeasureRefreshPairedAccessCoarse(e, p)
      third(i) == IF i \in read THEN REFRESH_CYCLE_LOWER_BOUND + 1 ELSE 0
  IN  GetAverage(Intervals([i \in DOMAIN coarse |-> Append(coarse[i], third(i))], 3))

StatAccessTimingSingleMemoryAccess(e, p) ==
  GetStatistics(Column(AccessTimingSingleMemoryAccess(e, p), 2))

StatAccessTimingPairedMemoryAccess(e, p) ==
  GetStatistics(Column(AccessTimingPairedMemoryAccess(e, p), 2))

StatReadReadLatency(e, p) == GetStatistics(Column(ReadReadLatency(e, p), 2))

AverageReadReadLatency(e, p) == GetAverage(Column(ReadReadLatency(e, p), 2))

-----------------------------------------------------------------------------
(* What the tools print is right, whenever they measure, on a memory that  *)
(* suits the loops.  The statistics of the intervals are the period of the *)
(* memory, or 0 if no two refreshes were seen, for one address and for a   *)
(* pair in one rank: off by less than a row with its flushes, and where a  *)
(* row was late by less than a refresh more.  The first row may show the   *)
(* rest of a refresh that the loop began in, and a refresh may begin while *)
(* no clock is read: it makes up no interval and none is twice as long.    *)
(* The coarse intervals of two ranks make up a period in turn.  The fine   *)
(* measurement may hide a refresh, which met the first access, but makes   *)
(* up none.  And the median of the latencies tells slow pairs from others, *)
(* refreshes or not.                                                       *)
LoopTime == AccessTime + ConflictTime

RowTime == FlushTime + LoopTime

NearPeriod(delta, period) ==
  delta - period \in 1 - (RowTime + RefreshTime) .. RowTime - 1

TimingsTell(e, p) ==
  LET deltas == Intervals(MeasureRefreshPairedAccessCoarse(e, p), 2)
      coarse == StatRefreshIntervalPairedAccessCoarse(e, p)
      fine == StatRefreshIntervalPairedAccessFine(e, p)
      printed == {StatRefreshIntervalSingleAccess(e, p)}
                 \cup IF e.apart THEN {} ELSE {coarse}
      fast == [e EXCEPT !.slow = FALSE]
      slow == [e EXCEPT !.slow = TRUE]
  IN  /\ \A statistics \in printed \ {<<0, 0, 0, 0>>} :
           \A n \in 1 .. 4 : NearPeriod(statistics[n], e.period)
      /\ fine[3] = 0 \/ fine[3] > e.period - (RowTime + RefreshTime)
      /\ e.apart => \A i \in 1 .. Len(deltas) - 1 :
           NearPeriod(deltas[i] + deltas[i + 1], e.period)
      /\ StatAccessTimingSingleMemoryAccess(e, p)[2]
           < StatAccessTimingPairedMemoryAccess(slow, p)[2]
      /\ StatAccessTimingPairedMemoryAccess(fast, p)[2]
           < StatAccessTimingPairedMemoryAccess(slow, p)[2]
      /\ StatReadReadLatency(fast, p)[2] < StatReadReadLatency(slow, p)[2]

(* Which memories suit the loops, an assumption on the hardware: a         *)
(* conflict costs time and does not pass for a refresh; what is left of a  *)
(* refresh after the flushes still does, so that none is hidden in the     *)
(* time that no reading covers; a row, its flushes and a refresh take no   *)
(* longer than the refreshes of two ranks are apart; and of the rows of    *)
(* fast accesses less than a half meet one, or a half if a refresh costs   *)
(* less than two conflicts.                                                *)
Nearer(s, T) == IF s <= T - s THEN s ELSE T - s

Closest(T) == Nearer(Stagger % T, T)

MostHits(n, T) ==
  1 + (n - 1) \div ((Closest(T) - RefreshTime) \div (FlushTime + AccessTime))

FewHits(n, T) ==
  \/ 2 * MostHits(n, T) < n
  \/ 2 * MostHits(n, T) = n /\ RefreshTime < 2 * ConflictTime

LoopsSuit ==
  /\ 0 < ConflictTime
  /\ LoopTime <= REFRESH_CYCLE_LOWER_BOUND
  /\ REFRESH_CYCLE_LOWER_BOUND < AccessTime + RefreshTime - FlushTime
  /\ \A T \in Periods :
       /\ RowTime + RefreshTime <= Closest(T)
       /\ FewHits(SUDOKU_CONFLICT_NUM_ITERATION, T)
       /\ FewHits(SUDOKU_CONSECUTIVE_NUM_ITERATION, T)
=============================================================================
