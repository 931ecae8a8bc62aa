----------------------------- MODULE ToolSession -----------------------------
(***************************************************************************)
(* A run of decompose_functions or of one of the testing tools, from the   *)
(* memory pool to its release.  Every method they call is a sequence of    *)
(* loops; a round of a loop draws addresses, at random or under            *)
(* constraints, prepares two streams of reads where it has to, and         *)
(* measures.                                                               *)
(*                                                                         *)
(* Addresses are numbers, words of masks are sets of bits.  The search     *)
(* under constraints is one step, as ConstrainedAddress shows what it      *)
(* returns; the machine is external and shows what Measurement makes of it.*)
(***************************************************************************)
EXTENDS AddressBits, Configuration, MemoryPool, Measurement

CONSTANTS
  max_bits_,
  CACHELINE_OFFSET,
  WordBits,                             \* 64
  SUDOKU_TEST_NUM_ITERATION,
  SUDOKU_NUM_EFFECTIVE_TRIAL,
  SUDOKU_TRIAL_SUCCESS_SCORE,
  CONSECUTIVE_LENGTH,
  REGULAR_REFRESH_INTERVAL_THRESHOLD,
  ShortestInterval,                     \* the 1000 of DecomposeUsingRefreshes
  Commands,                             \* tools with options, builds and machines
  Uninitialised,                        \* what column_bits_ may hold before it is set
  PastTheEnd,                           \* words that lie behind a vector
  Reads                                 \* rows whose missing column shows a refresh

LineBit == CACHELINE_OFFSET .. max_bits_ - 1

ASSUME SessionAssumption ==
  /\ {max_bits_, CACHELINE_OFFSET, WordBits, SUDOKU_TEST_NUM_ITERATION,
      SUDOKU_NUM_EFFECTIVE_TRIAL, SUDOKU_TRIAL_SUCCESS_SCORE,
      CONSECUTIVE_LENGTH, ShortestInterval,
      REGULAR_REFRESH_INTERVAL_THRESHOLD} \subseteq Nat
  /\ SUDOKU_TRIAL_SUCCESS_SCORE < SUDOKU_NUM_EFFECTIVE_TRIAL
  /\ ShortestInterval < REGULAR_REFRESH_INTERVAL_THRESHOLD
  /\ CACHELINE_OFFSET < max_bits_
  /\ granularity = 2^CACHELINE_OFFSET /\ OSPageSize % granularity = 0
  /\ \A c \in Commands :
       /\ c.zen4 \in BOOLEAN
       /\ {c.PCI_LOWER, c.PCI_UPPER} \subseteq {n \in Nat : n % granularity = 0}
       /\ c.PCI_LOWER <= c.PCI_UPPER
       /\ 2^max_bits_ + (c.PCI_UPPER - c.PCI_LOWER) <= 2^WordBits
       /\ {c.functions, c.same, c.diff} \subseteq Seq(SUBSET LineBit)
       /\ c.column_bits \subseteq LineBit
       /\ c.machine.ranks \cup c.machine.slow \subseteq SUBSET LineBit
       /\ c.machine.period \in Periods

VARIABLES
  command,            \* how the tool was built and called, and the machine
  column_bits_,
  calls,              \* the loops of the methods that main calls
  pc,
  loop,               \* the one that runs, from 1
  trials,
  sum,                \* reduced_interval_score or average_rdrd_latency
  first, second,      \* the address tuples, between the draw and the measurement
  faddrs, saddrs,     \* the streams
  rank_functions_,
  rdrd_latencies

session == <<trials, sum, first, second, faddrs, saddrs>>
results == <<rank_functions_, rdrd_latencies>>
vars == <<command, layout, pages, column_bits_, calls, pc, loop, session, results>>

-----------------------------------------------------------------------------
(* Numbers as words, and back, as tables.                                  *)
Bits == [n \in 0 .. 2^WordBits - 1 |->
           {b \in 0 .. WordBits - 1 : (n \div 2^b) % 2 = 1}]

Num == [word \in SUBSET (0 .. WordBits - 1) |->
          CHOOSE n \in 0 .. 2^WordBits - 1 : Bits[n] = word]

PCI_OFFSET == command.PCI_UPPER - command.PCI_LOWER

(* What the program takes for the DRAM address.                            *)
WithoutOffset(paddr) == Bits[(paddr - PCI_OFFSET) % 2^WordBits]

(* A variant: the offset is not added again.                               *)
SamePhysical(word) == Num[word]
Physical(word) == (Num[word] + PCI_OFFSET) % 2^WordBits

(* The methods, as their loops: how addresses are drawn and under which    *)
(* constraints, the length of the streams, what is done with the           *)
(* measurement, and how often.  All of `same' have to agree, in any order. *)
Loop(draw, oracle, length, rounds) ==
  [draw |-> draw, same |-> {}, diff |-> <<>>, oracle |-> oracle,
   length |-> length, rounds |-> rounds]

Under(same, diff, oracle, length, rounds) ==
  [Loop("partner", oracle, length, rounds) EXCEPT !.same = same, !.diff = diff]

StatSingleMemoryAccess == Loop("one", "log", 0, SUDOKU_TEST_NUM_ITERATION)
StatPairedMemoryAccess == Loop("two", "log", 0, SUDOKU_TEST_NUM_ITERATION)
CheckPairedMemoryAccess(c) ==
  Under(Masks(c.same), c.diff, "log", 0, SUDOKU_TEST_NUM_ITERATION)
WatchRefreshSingleAccess == Loop("one", "log", 0, 1)
StatRefIntervalSingleAccess == Loop("one", "log", 0, SUDOKU_TEST_NUM_ITERATION)
WatchRefreshPairedAccessCoarse == Loop("two", "log", 0, 1)
StatRefIntervalPairedAccessCoarse ==
  Loop("two", "log", 0, SUDOKU_TEST_NUM_ITERATION)
CheckRefIntervalPairedAccessCoarse(c) ==
  Under(Masks(c.same), c.diff, "log", 0, SUDOKU_TEST_NUM_ITERATION)
WatchRefreshPairedAccessFine == Loop("two", "log", 0, 1)
StatRefIntervalPairedAccessFine ==
  Loop("two", "log", 0, SUDOKU_TEST_NUM_ITERATION)
CheckRefIntervalPairedAccessFine(c) ==
  Under(Masks(c.same), c.diff, "log", 0, SUDOKU_TEST_NUM_ITERATION)
StatReadReadAccess(c) == Loop("two", "log", c.length, SUDOKU_NUM_EFFECTIVE_TRIAL)
CheckReadReadAccess(c) ==
  Under(Masks(c.same), c.diff, "log", c.length, SUDOKU_NUM_EFFECTIVE_TRIAL)

(* A variant: one copy of the function is left out.                        *)
ButOneCopy(functions, function) ==
  LET copy == CHOOSE n \in DOMAIN functions : functions[n] = function
  IN  {functions[n] : n \in DOMAIN functions \ {copy}}

other_functions(functions, function) == Masks(functions) \ {function}

DecomposeUsingRefreshes(functions) ==
  [k \in DOMAIN functions |->
     Under(other_functions(functions, functions[k]), <<functions[k]>>,
           "refresh", 0, SUDOKU_NUM_EFFECTIVE_TRIAL)]

DecomposeUsingConsecutiveAccesses(functions) ==
  [k \in DOMAIN functions |->
     Under(other_functions(functions, functions[k]), <<functions[k]>>,
           "rdrd", CONSECUTIVE_LENGTH, SUDOKU_NUM_EFFECTIVE_TRIAL)]

(* The tools, by their mode; no loops for a mode they do not know.         *)
watch_conflicts(c) ==
  CASE c.mode = "stat" -> <<StatSingleMemoryAccess, StatPairedMemoryAccess>>
    [] c.mode = "check" -> <<CheckPairedMemoryAccess(c)>>
    [] OTHER -> <<>>

watch_refreshes(c) ==
  CASE c.mode = "watch" ->
         <<WatchRefreshSingleAccess, WatchRefreshPairedAccessCoarse,
           WatchRefreshPairedAccessFine>>
    [] c.mode = "stat" ->
         <<StatRefIntervalSingleAccess, StatRefIntervalPairedAccessCoarse,
           StatRefIntervalPairedAccessFine>>
    [] c.mode = "check" ->
         <<CheckRefIntervalPairedAccessCoarse(c),
           CheckRefIntervalPairedAccessFine(c)>>
    [] OTHER -> <<>>

watch_consecutive_accesses(c) ==
  CASE c.mode = "stat" -> <<StatReadReadAccess(c)>>
    [] c.mode = "check" -> <<CheckReadReadAccess(c)>>
    [] OTHER -> <<>>

decompose_functions(c) ==
  DecomposeUsingRefreshes(c.functions)
    \o DecomposeUsingConsecutiveAccesses(c.functions)

Decomposes == command.tool = "decompose_functions"

Loops ==
  CASE Decomposes -> decompose_functions(command)
    [] command.tool = "watch_conflicts" -> watch_conflicts(command)
    [] command.tool = "watch_refreshes" -> watch_refreshes(command)
    [] OTHER -> watch_consecutive_accesses(command)

current == calls[loop]

(* Only decompose_functions sets the addressing functions.                 *)
addressing_functions_ == IF Decomposes THEN command.functions ELSE <<>>

-----------------------------------------------------------------------------
(* GenerateRandomAddressTupleWithConstraints, see ConstrainedAddress: any  *)
(* address of the memory that satisfies the constraints.                   *)
Wanted(same, diff, word) ==
  {x \in SUBSET LineBit :
     /\ \A f \in same : XORReductionWithMask(f, x) = XORReductionWithMask(f, word)
     /\ \A f \in diff : XORReductionWithMask(f, x) # XORReductionWithMask(f, word)}

(* GenerateRowBufferHitSequences: combinations of the column bits, used    *)
(* ones left out; and what lies behind them, if there are too few.  The    *)
(* order is random and is left out: a sequence is a set.  A variant does   *)
(* not leave out used bits.                                                *)
AllColumnCombinations == (SUBSET column_bits_) \ {{}}

Combinations ==
  (SUBSET (column_bits_ \ UNION Masks(addressing_functions_))) \ {{}}

RowBufferHitSequences(length) ==
  LET combinations == Combinations
      missing == length - Cardinality(combinations)
  IN  IF missing <= 0
      THEN kSubset(length, combinations)
      ELSE {combinations \cup Masks(behind) : behind \in [1 .. missing -> PastTheEnd]}

Stream(tuple, offsets) ==
  {PhysToVirt(paddr) : paddr \in
     {Physical(Xor(WithoutOffset(tuple.paddr), offset)) : offset \in offsets}}

AllFound(stream) == 0 \notin stream

-----------------------------------------------------------------------------
(* The machine: the memory below the hole keeps its addresses.             *)
DRAMAddress(paddr) ==
  Bits[IF paddr < command.PCI_LOWER THEN paddr ELSE paddr - PCI_OFFSET]

Separates(functions, x, y) ==
  \E f \in functions : XORReductionWithMask(f, x) # XORReductionWithMask(f, y)

Exposure ==
  LET x == DRAMAddress(first.paddr)
      y == DRAMAddress(second.paddr)
  IN  [apart |-> Separates(command.machine.ranks, x, y),
       slow |-> Separates(command.machine.slow, x, y),
       period |-> command.machine.period]

(* What the oracles may return for a pair, whenever they measure: tables,  *)
(* which depend on the machine alone.                                      *)
CoarseAverages == UNION {
  {<<e, AverageRefreshIntervalPairedAccessCoarse(e, p)>> : p \in 0 .. e.period - 1} :
  e \in Exposures}

FineAverages == UNION {
  {<<e, AverageRefreshIntervalPairedAccessFine(e, p, read)>> :
     p \in 0 .. e.period - 1, read \in Reads} :
  e \in Exposures}

Latencies == UNION {
  {<<e, AverageReadReadLatency(e, p)>> : p \in 0 .. e.period - 1} : e \in Exposures}

ShownBy(table, e) == {entry[2] : entry \in {other \in table : other[1] = e}}

refresh_oracle(e) ==
  ShownBy(IF command.type = "DDR4" THEN FineAverages ELSE CoarseAverages, e)

rdrd_oracle(e) == ShownBy(Latencies, e)

(* A variant: no refresh at all is a short interval, as on Zen 4.          *)
ShortOrNone(interval) == interval < REGULAR_REFRESH_INTERVAL_THRESHOLD

Reduced(interval) ==
  /\ interval < REGULAR_REFRESH_INTERVAL_THRESHOLD
  /\ command.zen4 \/ interval > ShortestInterval

-----------------------------------------------------------------------------
NoTuple == [vaddr |-> 0, paddr |-> 0]

(* The pages are free memory of the machine.                               *)
Fits ==
  \A part \in DOMAIN layout.frame :
    LET p == layout.frame[part] * OSPageSize
    IN  /\ p + OSPageSize <= command.PCI_LOWER \/ p >= command.PCI_UPPER
        /\ p + OSPageSize <= 2^max_bits_ + PCI_OFFSET

Init ==
  /\ command \in Commands
  /\ InitPool
  /\ Fits
  /\ column_bits_ \in IF Decomposes THEN {command.column_bits} ELSE Uninitialised
  /\ calls = Loops
  /\ pc = "start" /\ loop = 1 /\ trials = 0 /\ sum = 0
  /\ first = NoTuple /\ second = NoTuple
  /\ faddrs = {} /\ saddrs = {}
  /\ rank_functions_ = <<>> /\ rdrd_latencies = <<>>

Initialize ==
  /\ pc = "start"
  /\ InitMemoryPool
  /\ pc' = "loop"
  /\ UNCHANGED <<command, column_bits_, calls, loop, session, results>>

InitializeFails ==
  /\ pc = "start"
  /\ MapFails
  /\ pc' = "exit"
  /\ UNCHANGED <<command, column_bits_, calls, loop, session, results>>

UnsupportedMode ==
  /\ pc = "loop"
  /\ ~Decomposes /\ calls = <<>>
  /\ pc' = "exit"
  /\ UNCHANGED <<command, layout, pages, column_bits_, calls, loop, session, results>>

(* A step of a round, which leaves everything else alone.                  *)
Round == UNCHANGED <<command, layout, pages, column_bits_, calls, loop, results>>

DrawFirst ==
  /\ pc = "loop"
  /\ loop <= Len(calls)
  /\ trials < current.rounds
  /\ first' \in RandomAddressTuples
  /\ pc' = IF current.draw = "one" THEN "measure" ELSE current.draw
  /\ Round
  /\ UNCHANGED <<trials, sum, second, faddrs, saddrs>>

Prepared == IF current.length = 0 THEN "measure" ELSE "streams"

(* It draws again until the addresses differ.                              *)
DrawSecond ==
  /\ pc = "two"
  /\ second' \in RandomAddressTuples
  /\ second'.vaddr # first.vaddr
  /\ pc' = Prepared
  /\ Round
  /\ UNCHANGED <<trials, sum, first, faddrs, saddrs>>

(* An address that satisfies the constraints and is in the pool; another   *)
(* is drawn for the same first if it is not, or if there is none.          *)
Candidates ==
  {[vaddr |-> PhysToVirt(paddr), paddr |-> paddr] : paddr \in
     {Physical(x) : x \in Wanted(current.same, Masks(current.diff),
                                WithoutOffset(first.paddr))}}

DrawPartner ==
  /\ pc = "partner"
  /\ second' \in {tuple \in Candidates : tuple.vaddr # 0}
  /\ pc' = Prepared
  /\ Round
  /\ UNCHANGED <<trials, sum, first, faddrs, saddrs>>

PartnerMissed ==
  /\ pc = "partner"
  /\ Candidates = {} \/ \E tuple \in Candidates : tuple.vaddr = 0
  /\ UNCHANGED vars

Streams(tuple) ==
  {Stream(tuple, offsets) : offsets \in RowBufferHitSequences(current.length)}

DrawStreams ==
  /\ pc = "streams"
  /\ faddrs' \in {stream \in Streams(first) : AllFound(stream)}
  /\ saddrs' \in {stream \in Streams(second) : AllFound(stream)}
  /\ pc' = "measure"
  /\ Round
  /\ UNCHANGED <<trials, sum, first, second>>

(* What was prepared is not read again.                                    *)
Forget ==
  /\ first' = NoTuple /\ second' = NoTuple
  /\ faddrs' = {} /\ saddrs' = {}
  /\ pc' = "loop"

(* The round does not count.                                               *)
StreamsMissed ==
  /\ pc = "streams"
  /\ \E stream \in Streams(first) \cup Streams(second) : ~AllFound(stream)
  /\ Forget
  /\ Round
  /\ UNCHANGED <<trials, sum>>

Measured(oracle) ==
  /\ pc = "measure"
  /\ current.oracle = oracle
  /\ trials' = trials + 1
  /\ Forget
  /\ Round

LogStatistics == Measured("log") /\ UNCHANGED sum

ScoreInterval ==
  /\ Measured("refresh")
  /\ \E interval \in refresh_oracle(Exposure) :
       sum' = IF Reduced(interval) THEN sum + 1 ELSE sum

AddLatency ==
  /\ Measured("rdrd")
  /\ \E latency \in rdrd_oracle(Exposure) : sum' = sum + latency

EndLoop(oracle) ==
  /\ pc = "loop"
  /\ loop <= Len(calls)
  /\ trials = current.rounds
  /\ current.oracle = oracle
  /\ loop' = loop + 1
  /\ trials' = 0
  /\ UNCHANGED <<command, layout, pages, column_bits_, calls, pc, first, second,
                 faddrs, saddrs>>

EndLog == EndLoop("log") /\ UNCHANGED <<sum, results>>

(* A variant: the score of the function before is kept.                    *)
LabelAndKeepScore ==
  /\ EndLoop("refresh")
  /\ rank_functions_' = IF sum > SUDOKU_TRIAL_SUCCESS_SCORE
                        THEN rank_functions_ \o current.diff ELSE rank_functions_
  /\ UNCHANGED <<sum, rdrd_latencies>>

LabelFunction ==
  /\ EndLoop("refresh")
  /\ rank_functions_' = IF sum > SUDOKU_TRIAL_SUCCESS_SCORE
                        THEN rank_functions_ \o current.diff ELSE rank_functions_
  /\ sum' = 0
  /\ UNCHANGED rdrd_latencies

(* std::sort by latency: equal ones come in any order.                     *)
Sortings(latencies) ==
  {sorted \in {[k \in DOMAIN latencies |-> latencies[place[k]]] :
                 place \in Bijection(DOMAIN latencies, DOMAIN latencies)} :
     \A i, j \in DOMAIN sorted : i < j => sorted[i].latency <= sorted[j].latency}

(* The last one sorts them.                                                *)
RecordLatency ==
  /\ EndLoop("rdrd")
  /\ LET all == Append(rdrd_latencies,
                       [function |-> current.diff[1], latency |-> sum \div trials])
     IN  rdrd_latencies' \in IF loop = Len(calls) THEN Sortings(all) ELSE {all}
  /\ sum' = 0
  /\ UNCHANGED rank_functions_

Finalize ==
  /\ pc = "loop"
  /\ loop > Len(calls) /\ (Decomposes \/ calls # <<>>)
  /\ FreeMemoryPool
  /\ pc' = "done"
  /\ UNCHANGED <<command, column_bits_, calls, loop, session, results>>

Terminated ==
  /\ pc \in {"done", "exit"}
  /\ UNCHANGED vars

Next ==
  \/ Initialize \/ InitializeFails \/ UnsupportedMode
  \/ DrawFirst \/ DrawSecond \/ DrawPartner \/ PartnerMissed
  \/ DrawStreams \/ StreamsMissed
  \/ LogStatistics \/ ScoreInterval \/ AddLatency
  \/ EndLog \/ LabelFunction \/ RecordLatency
  \/ Finalize \/ Terminated

(* The program runs, and what a draw can hit it hits some time.            *)
Spec ==
  /\ Init /\ [][Next]_vars
  /\ WF_vars(Next)
  /\ SF_vars(DrawPartner) /\ SF_vars(DrawStreams)

-----------------------------------------------------------------------------
Tuples == [vaddr : Nat, paddr : 0 .. 2^WordBits - 1]

TypeOK ==
  /\ IsPrefix(pages, layout.pages)
  /\ pc \in {"start", "loop", "two", "partner", "streams", "measure", "done", "exit"}
  /\ loop \in 1 .. Len(calls) + 1
  /\ trials \in 0 .. IF loop <= Len(calls) THEN current.rounds ELSE 0
  /\ loop <= Len(calls) /\ current.oracle = "refresh" => sum <= trials
  /\ loop <= Len(calls) /\ current.oracle = "log" => sum = 0
  /\ {first, second} \subseteq Tuples
  /\ Masks(rank_functions_) \subseteq Masks(command.functions)
  /\ {rdrd_latencies[k].function : k \in DOMAIN rdrd_latencies}
       \subseteq Masks(command.functions)

(* What is measured is what was asked for: both addresses are lines of the *)
(* pool with their physical addresses, and if constraints were given they  *)
(* hold of the addresses themselves, which were found by adding the offset *)
(* that had been taken off, and translating back.                          *)
IsLine(tuple) ==
  tuple.vaddr \in PoolLines /\ tuple.paddr = VirtToPhys(tuple.vaddr)

PairsAsAsked ==
  pc \in {"streams", "measure"} =>
    /\ IsLine(first)
    /\ current.draw # "one" =>
         IsLine(second) /\ (current.draw = "two" => second # first)
    /\ current.draw = "partner" =>
         LET x == Bits[(first.paddr - PCI_OFFSET) % 2^WordBits]
             y == Bits[(second.paddr - PCI_OFFSET) % 2^WordBits]
         IN  /\ ~Separates(current.same, x, y)
             /\ \A f \in Masks(current.diff) : Separates({f}, x, y)

(* Decomposing, the streams read what consecutive accesses are about: with *)
(* enough column bits each stays in the bank and the row of its base, on   *)
(* any machine with these functions, and reads no line twice.              *)
InRow(stream, tuple) ==
  /\ Cardinality(stream) = current.length
  /\ stream \subseteq PoolLines
  /\ \A vaddr \in stream :
       LET x == DRAMAddress(VirtToPhys(vaddr))
           base == DRAMAddress(tuple.paddr)
       IN  /\ ~Separates(Masks(command.functions), x, base)
           /\ Xor(x, base) \subseteq command.column_bits

EnoughColumns(length) ==
  2^Cardinality(column_bits_ \ UNION Masks(addressing_functions_)) > length

StreamsStayInRow ==
  Decomposes /\ pc = "measure" /\ current.length > 0 /\ EnoughColumns(current.length)
    => InRow(faddrs, first) /\ InRow(saddrs, second)

(* The decomposition is right.  With pages above the hole, and the memory's*)
(* own functions, only those are labelled that refreshes tell apart, and   *)
(* all of them if refreshes are frequent enough to be seen in every        *)
(* measurement; the slow ones sort last.  Zen 4 does not look whether any  *)
(* refresh was seen: there the labels are right only if some always is.    *)
AboveHole ==
  \A part \in DOMAIN layout.frame : layout.frame[part] * OSPageSize >= command.PCI_UPPER

OnMachine == {e \in Exposures : e.period = command.machine.period}

Seen == \A e \in OnMachine : 0 \notin refresh_oracle(e)

DecompositionIsRight ==
  /\ Decomposes /\ pc = "done" /\ AboveHole
  /\ command.type # "DDR4"
  /\ command.machine.ranks \cup command.machine.slow \subseteq Masks(command.functions)
  => /\ Seen \/ ~command.zen4 => Masks(rank_functions_) \subseteq command.machine.ranks
     /\ Seen => command.machine.ranks \subseteq Masks(rank_functions_)
     /\ EnoughColumns(CONSECUTIVE_LENGTH) =>
          \A i, j \in DOMAIN rdrd_latencies :
            /\ rdrd_latencies[i].function \in command.machine.slow
            /\ rdrd_latencies[j].function \notin command.machine.slow
            => j < i

(* The configuration that a session starts with is consistent.             *)
BitsAddUp == pc = "start" => AddUp

(* What the statistics make of a pair, on the memory of a session as on    *)
(* any.                                                                    *)
AllTimingsTell == \A e \in Exposures : \A p \in 0 .. e.period - 1 : TimingsTell(e, p)

(* Intervals that tell ranks apart are short, others are not, and no fast  *)
(* pair takes as long as a slow one, on any average: what the thresholds   *)
(* are chosen for.                                                         *)
OraclesTell ==
  /\ \A e \in OnMachine : ~e.apart =>
       \A interval \in refresh_oracle(e) \ {0} : ~Reduced(interval)
  /\ Seen => \A e \in OnMachine : e.apart =>
       \A interval \in refresh_oracle(e) : Reduced(interval)
  /\ \A e \in OnMachine : rdrd_oracle(e) # {} /\ rdrd_oracle(e) \subseteq Nat
  /\ \A slow, fast \in OnMachine : slow.slow /\ ~fast.slow =>
       \A m \in rdrd_oracle(fast), n \in rdrd_oracle(slow) : m < n

(* They are chosen well for a memory if the average of intervals of one    *)
(* rank is not below the threshold; if that of two ranks is, and is longer *)
(* than the shortest, provided that refreshes are seen at all; and if the  *)
(* refreshes of a loop take less than conflicts in all of its rows would.  *)
ThresholdsSuit ==
  Decomposes /\ command.type # "DDR4" =>
  LET T == command.machine.period
      n == SUDOKU_CONSECUTIVE_NUM_ITERATION
  IN  /\ REGULAR_REFRESH_INTERVAL_THRESHOLD + RowTime + RefreshTime <= T + 1
      /\ Seen => /\ T - Closest(T) + RowTime <= REGULAR_REFRESH_INTERVAL_THRESHOLD
                 /\ ShortestInterval + RowTime + RefreshTime <= Closest(T)
      /\ RefreshTime * MostHits(n, T) < ConflictTime * n

StatisticsTellPairs ==
  pc = "start" =>
    /\ AllTimingsTell
    /\ Decomposes /\ command.type # "DDR4" => OraclesTell

(* The session ends, if what was asked for is in the pool: every line has  *)
(* a partner for every function, or for the constraints, and streams for   *)
(* reads.  Without, the retries have no bound.                             *)
HasPartners(same, diff) ==
  \A v \in PoolLines :
    \E x \in Wanted(same, diff, WithoutOffset(VirtToPhys(v))) :
      PhysToVirt(Physical(x)) # 0

HasStreams(length) ==
  \A v \in PoolLines : \E s \in RowBufferHitSequences(length) :
    AllFound(Stream(Tuple(v), s))

Answerable ==
  IF Decomposes
  THEN /\ \A f \in Masks(command.functions) :
            HasPartners(Masks(command.functions) \ {f}, {f})
       /\ HasStreams(CONSECUTIVE_LENGTH)
  ELSE /\ command.mode = "check" =>
            HasPartners(Masks(command.same), Masks(command.diff))
       /\ command.tool = "watch_consecutive_accesses" => HasStreams(command.length)

SessionEnds ==
  (pc = "loop" /\ loop = 1 /\ trials = 0 /\ Answerable) ~> pc \in {"done", "exit"}

-----------------------------------------------------------------------------
(* "Auto-refresh on paired memory accesses (fine-grained measurements)":   *)
(* a function of a DDR4 memory is labelled only if the fine measurement    *)
(* could show short intervals.                                             *)
LabelsAreFine ==
  pc = "done" /\ command.type = "DDR4" /\ rank_functions_ # <<>> =>
    \E e \in OnMachine, p \in 0 .. command.machine.period - 1 :
        Reduced(GetAverage(Intervals(MeasureRefreshPairedAccessFine(e, p), 3)))
=============================================================================
