# Sudoku in TLA+

Sudoku reverse-engineers how a memory controller maps physical addresses to
DRAM channels, ranks, banks, rows and columns. It draws random addresses from a
pool of huge pages, times accesses to them, and infers from the timings the
*addressing functions* (the XORs of address bits that choose the bank), the row
bits and the column bits. The program is one thread that runs one method of
`Addressing` per tool; nothing is persisted. What is hard in it is not
concurrency but long loops over noisy data whose bookkeeping must be right, and
linear algebra over GF(2) that is done by counting and bit tricks.

## 1. The system

| component | state | operations | depends on |
|---|---|---|---|
| configuration (`internal/config.*`, arch headers) | `DRAMConfig`, `MemoryConfig`, constants | table lookup, `GetNumBanks` | - |
| memory pool (`internal/pool.*`) | pages, config | `InitMemoryPool`, `FreeMemoryPool`, `VirtToPhys`, `PhysToVirt` | OS |
| measurement (`internal/conflicts.*`, `refreshes.*`, `consecutive_accesses.*`) | a histogram per call | timing loops, filter of refreshes, statistics | `assembly.h`, `utils` |
| `Sudoku` (`sudoku.*`) | functions, row and column bits, pool | random addresses, addresses under constraints, row-hit sequences | pool, utils |
| same-bank collection (`sudoku_addressing.cc` 943-1004, 1226-1271) | `sbdr_pairs_`, used addresses | collect, prune, filter, slide | measurement, pool |
| function derivation (1042-1088) | candidate functions | enumerate masks, reduce, compare the number | `NextBitPermutation`, `ReduceFunctions` |
| disjoint sets (1007-1040) | the vector of sets, flags | merge passes | - |
| bit identification (599-681, 1090-1224) | `row_functions_`, `column_functions_`, scores | trials per mask, extraction of bits | measurement, merge, reduce |
| mapping validation (683-735, 1273-1368) | row bits, column bits, incomplete sets | check, resolve, check again | merge |
| decomposition (737-939) | scores per function | trials per function | constraint generation, measurement |
| tools (`reverse_functions`, `identify_bits`, `validate_mapping`, `decompose_functions`, `testing/watch_*`) | arguments | call one method each | all |

A user runs the tools one after the other and passes the result of one on the
command line of the next: *reverse functions* -> *identify bits* -> *validate
mapping* -> *decompose functions*. What makes each part correct:

- collection: a set holds addresses of one bank, no address twice, and the loop
  stops; the filter removes strangers and empties nothing;
- derivation: no bank function is lost, and the verdict on the number of
  functions is enough to know that they are the bank functions;
- merge: exactly the connected groups of bits;
- identification: labels of bits are consistent with the timings;
- validation: a correct mapping is accepted as it is, and one that is accepted
  is one-to-one;
- constraint generation: the address returned satisfies every constraint, and the retries around
  it end if there is one in the pool;
- memory pool: the two translations are inverse on its lines;
- configuration: functions, row, column and line bits make up an address;
- measurement: statistics tell pairs apart that the hardware treats differently;
- decomposition: exactly the functions that refreshes tell apart are labelled, and slow pairs
  are recorded as such, from streams that stay in a row.

## 2. Modules

A word (`uint64_t`) used as a mask is the set of its bit positions
(`AddressBits`): `&` is `\cap`, `|` is `\cup`, `^` is `Xor`, `popcount` is
`Cardinality`. Physical addresses that take part in arithmetic are numbers
modulo `Word`. Vectors are sequences, indexed from 1.

| module | models | remarks |
|---|---|---|
| `AddressBits` | masks, parity; the reference definitions `DisjointSets`, `Span`, `Greedy` | no state |
| `MergeFunctions` | `MergeFunctionsToDisjointSets` | one action per loop step; `pc` is the place in the loops |
| `OverlapMerge` | what merging promises: a bag of sets, one overlapping pair merged at a time | abstract |
| `MergeRefinement` | the bag read off the loop variables | `ImplementsOverlapMerge` |
| `ValidateMapping` | `ValidateAddressMapping`, `CheckInjectivity`, `ResolveAddressMapping` | the merge is one step: `MergeFunctions` shows what it returns |
| `SameBankPairs` | `CollectSameBankPairs`, `EnoughSameBankPairs`, `FilterSameBankPairs`, `SlideOffsets` | timings are nondeterministic |
| `BankTimings` | a machine for the collection: the bank and row of every address, and what exact and noisy timings of pairs show of them | `SetsAreBanks`, `OneBankAfterFilter` |
| `ReduceFunctions` | `ReduceFunctions` of `utils.cc` | operators; no state |
| `DeriveFunctions` | `DeriveFunctions`, the verdict of `ReverseAddressingFunctions` | uses `ReduceFunctions`; the run also checks what that returns |
| `BitTrials` | the trials of one mask in `CheckUnusedBits` and `CheckUsedBits` | the two operations in one module: they differ in one test |
| `IdentifyBits` | `IdentifyBits`: the masks tried, reduction and extraction of bits | the trials of a mask are one step: `BitTrials` shows how they end |
| `ConstrainedAddress` | `GenerateRandomAddressTupleWithConstraints` of `sudoku.cc` | one action per bit |
| `Configuration` | the DIMM table, `DRAMConfig`, `max_bits_`, numbers of banks and functions | operators; no state |
| `MemoryPool` | the pool and the translations of addresses | `layout` is what the operating system hands out |
| `Measurement` | timing loops, filter of refreshes, intervals, averages and statistics | operators; the memory is external |
| `ToolSession` | a run of `decompose_functions` or of a testing tool | composes the three above with random addresses, addresses under constraints and streams |
| `MC*` | values for the constants of the configurations | |
| `*Proofs` | theorems | checked by TLAPS |

Modules compose by contract: `MergeFunctions` proves that the passes return
`DisjointSets`, and `ValidateMapping` uses `DisjointSets` as one step; in the same
way `ConstrainedAddress` returns any address of the memory that satisfies the constraints, or none if
there is none, which is what `Wanted` of `ToolSession` says, and `BitTrials` shows that exact timings lead to the right label or to none
(`ExactVerdict`), which is what a step of `IdentifyBits` does.

How state and actions follow the code:

- `MergeFunctions`: `merged_functions`, `merged`, `curr_merged_functions`,
  `merged_value`, `changed`, `i`, `j` are the locals of the function. `StartPass` is
  the top of the do-while, `StartSet` the outer loop body up to the inner loop,
  `Absorb`/`PassOver` one inner iteration, `EmitSet` the `push_back`, `EndPass` the
  move and the loop test.
- `ValidateMapping`: `FirstCheck` and `SecondCheck` are the two calls of
  `CheckInjectivity`, `AddColumnBit` and `AddRowBit` one turn of the two
  `while`s, which look for the lowest, respectively highest, bit of an incomplete
  set without the label. `ColumnsEnd` and `RowsEnd` are the ways out: the count
  is met, or no bit is left. `given` is a history variable with the input.
- `SameBankPairs`: `CollectAddress(a)` is one turn of the collection with the address
  `a` drawn, the search for a conflicting set and the insertion included;
  `RedrawUsed` the early `continue`. `PruneSet` is `erase` with the iterator stepped
  back. `DeleteAddress`/`KeepAddress` score one address against its whole set. A
  measured pair shows any outcome of `CollectLatency`/`FilterLatency`: a conflict
  (between the bounds), a hit (below) or an outlier.
- `ReduceFunctions`: `Matrices` are the states of the matrix from pivot to pivot, `AddPivot` a turn of
  the loop over pivots. The matrix is the sequence of its columns as sets of bits,
  because columns are what the elimination adds; the first row that holds a pivot's
  column is its highest bit.
- `DeriveFunctions`: `memory` is the machine: its bank functions, unknown to the
  program, and the collected sets. Each of `SkipLowMask`, `AcceptMask`, `RejectMask`
  is one turn of the `while` with the call of `NextBitPermutation` it ends in.

- `BitTrials`: one turn of `while (trials++ < SUDOKU_MAX_NUM_TRIALS && ...)` is `Miss`
  (the partner of the address is not in the pool) or `Measure`; `RunOut` is the failing
  test, which increments `trials` all the same. The four ways the function goes on
  with the mask are `CallFailed`, `CallRow`, `CallColumn` and `CallOutlier`. `shown` is what pairs of this mask may show on the machine; empty
  means that no partner is in the pool.
- `IdentifyBits`: `memory` is the machine. Its functions are independent, as those that the derivation
  accepts are, its rows lie above its columns, and a bit in no function selects a row or a column
  (otherwise two lines would be one). `Classify` is the top of `IdentifyBits` up to the
  two checks; each of `SkipMask`, `InsertRowFunction`, `InsertColumnFunction` and
  `FailToIdentify` is one mask; `UnusedEnd` goes from `CheckUnusedBits` to `CheckUsedBits`,
  `NextDisjointSet` to its next set; `Extract` reduces both vectors and replaces them by
  one-bit masks. `unlabelled` is a history variable.
- `ConstrainedAddress`: `base_functions`, `expected`, `pivot_row`, `row`, `bit` and `solution` are
  the locals. A bit of the elimination loop is `SkipBit` (no candidate) or `PivotBit`, with
  the swap and all additions; `GiveUp` is the early `return false`. `SubstituteBit` is a bit
  of the back-substitution, `RandomiseBit` a bit of the last two loops: a free bit's null
  vector is added or not. `Lookup` is `PhysToVirt`. `query` is what the caller passes; its
  functions are within the line bits, as are those that the derivation returns.

- `ToolSession`: `command` is how the tool was built and called, with the machine it runs on. A method
  of `Addressing` that draws and measures is a record of its loop (`Loop`, `Under`): how addresses are
  drawn, the length of the streams, what is done with a measurement, and how often; `calls` lists the
  loops that `main` calls, one per function for the decomposition. `DrawFirst` is
  `GenerateRandomAddressTuple`, `DrawSecond` the do-while of `GenerateTwoRandomAddressTuples`,
  `DrawPartner` and `PartnerMissed` the two outcomes of a turn of the empty `while` around
  `GenerateRandomAddressTupleWithConstraints`, `DrawStreams` and `StreamsMissed` those of the two
  calls of `GenerateRowBufferHitSequences` with the translations after them. `LogStatistics`,
  `ScoreInterval` and `AddLatency` measure; `LabelFunction` and `RecordLatency` end the loop of a
  function. Addresses are numbers (`Num`) where the offset of the PCI hole is added or
  taken off, modulo the word, and sets of bits (`Bits`) where functions are applied; both are tables. The
  functions on which two addresses must agree are a set (`same`), as all have to; `Sortings` is what
  `std::sort` may make of the latencies. `SessionAssumption` says what a machine is: its memory and the
  hole fit into a word, and the hole and the pages consist of whole lines.
- `MemoryPool`: `InitMemoryPool` takes the pages that `mmap` hands out, in their order; `VirtToPhys` reads
  the page map; `PhysToVirt` is the search through the pages with its two tests (`Holds`,
  `HoldsBackwards`).
- `Measurement`: an iteration of a timing loop is a `Row` of the histogram: the time of the first
  reading of the clock and the time until the next. Before it the code flushes one or two lines and waits
  for a fence, `FlushTime` ticks that no reading covers. The external memory refreshes each rank once in
  a period and is busy with it for `RefreshTime`, whatever the loop does meanwhile; a leg waits
  for what it meets of that, so a refresh that begins before the first reading is seen in part or not
  at all (`Waits`, `LegTime`). Everything made of the histogram follows the code.
- `Configuration`: `Entries` is the search of the constructor, `Accepted` the exit if it fails.

Operators named "variant" in the modules are slips that the code does not make;
they are no part of `Next` and serve to show that a property notices them.

## 3. Runs

| run | module | instance | shows |
|---|---|---|---|
| `merge` | `MCMergeFunctions` | all vectors of up to 4 functions over 3 bits | result is `DisjointSets`; inductive invariant; refinement of `OverlapMerge` with termination |
| `validate` | `MCValidateMapping` | all multisets of up to 2 functions, all labels, 5 bits, one below the line | `AcceptsEveryBijection`, `IndependentPassIsOneToOne`, `OneSetIsResolved`, `CompleteStaysComplete`; `Terminates`, also with more labels than the DIMM has |
| `injective_after_resolving` | same | same | violated: a bit gets a second output |
| `samebank_exact` | `MCSameBankPairs` | 7 addresses in 3 banks, exact timings | `SetsAreBanks`, `SetsMatchBanks`, `CollectionEnds` |
| `samebank_noisy` | same | same, noisy collection, exact filter | bookkeeping under noise, what the filter achieves |
| `derive` | `MCDeriveFunctions` | 9 sets of bank functions, every choice of collected addresses, 5 bits; for the reduction all vectors of up to 4 functions over 4 bits | `NoBankFunctionLost`, `FoundIsRight`, `ShortestBasis`, `EnumerationEnds`; `KeepsGreedyBasis` |
| `all_masks_tried` | same | same | violated: the last mask of a size is not tried |
| `trials` | `BitTrials` | 10 trials, 6 measurements, score 4; both operations, every set of outcomes | `LabelsRestOnMeasurements`, `ExactVerdict`, inductive invariant |
| `identify` | `MCIdentifyBits` | every machine with 1 to 3 bank functions, any rows and columns, 4 line bits | `LabelsAreIndependent`, `UncoveredBitsIdentified`, `MovableRowsFound` |
| `constraints` | `MCConstrainedAddress` | up to 3 functions over 3 line bits, the last to differ, every first address | `AnswerIsWanted`, `GivesUpRightly`, `EveryAnswerCanBeDrawn`, inductive invariant |
| `session` | `MCToolSession` | two pages of eight lines, 15 commands, 4 layouts, 2 refresh periods | `PairsAsAsked`, `StreamsStayInRow`, `DecompositionIsRight`, `TranslationsInvert`, `SessionEnds`; before the first draw `BitsAddUp` and `StatisticsTellPairs` |
| `fine_average` | same | same | violated: a DDR4 function is labelled by what lies behind a row |

**Bounds.** Three bits and four functions are the smallest instance in which an
overlap shows only in the second pass and another only in the third. In `validate`
two functions, a row bit and a column bit make four line bits: sets that are
complete, lack one label, lack two, overlap, repeat; a fifth bit lies inside the
cache line, where functions may reach but labels may not. In the same-bank runs
bank 0 has two addresses in one row, so an address may found a second set for its bank,
and bank 2 has one address, so its set is pruned; the set sizes and scores are
scaled down with the code's order `DRAMA_MINIMUM_SET_SIZE > SUDOKU_FILTER_SCORE` kept
(64 and 4 in the code). `PCI_OFFSET` is larger than some addresses so that
subtraction wraps. Four columns are needed for a pivot of the reduction to change
columns on both sides and for sums of three. In `trials` the limits 16384, 1024 and 960 of the
code become 10, 6 and 4 with their order kept, and more than half of the measurements
needed for a label, so that no mask can have both. In `identify` four line bits admit a
mask of four bits, which `CheckUsedBits` does not try, and three functions a row bit
in more than two, which masks of at most three bits cannot move without changing bank.
Two of its properties assume
`RowsOnTop`, the layout the extraction rests on: in a set of functions the row bits are
the highest. Of the 2784 machines 1879 have it, and in 433 of these functions reach row
bits; on every machine any mask may fail to get a label.

In `constraints` every vector
of functions over three bits occurs, zero, repeated and dependent ones included, so that
rows are swapped, contradictions arise and rows without a pivot are left over; half of the
memory is in the pool.

In `session` a memory of 128 bytes has 64 lines, a pool of two pages holds a quarter of them, so that
partners and streams are found and missed. A page has two frames; pages lie above the PCI hole, below
it, on both sides, in either order, and once `mmap` runs out after one. The hole ends inside a
page's worth of addresses, so that the offset is no mask. Two lines are read per stream: four of the
code come from three column bits, two from two. The commands cover every tool and mode, builds with and
without the hole, DDR4 and DDR5, a function typed twice, dependent functions, and too few column
bits. A row of the histogram takes a tick for the flushes and two for the accesses, or four, and a refresh keeps a
rank busy for four: whenever it begins in a row, three ticks of it at least meet an access. What the row
then shows is above the bound of four; a row of a slow pair without a refresh is not. Twenty rows span at least two refreshes of the
short period, 28, and one or two of the long one, 56, so that an interval of 0 occurs; ranks are refreshed 14 and 14 or
14 and 42 apart, and the threshold of 20 lies between half a period and a period of 28.
`StatisticsTellPairs` looks at every phase of the memory's refreshes against the loop, those at which a refresh
begins during the flushes and those at which one is going on when the loop begins among them. `BitsAddUp` looks
at all arguments with modules of 1 to 64 GB, 1 to 4 ranks and 1 to 3 DIMMs.
`DecompositionIsRight` speaks of pages above the hole only, because the offset taken off any other page
makes the program see another address than the memory controller; of Zen 4 it asks the right labels
only if every measurement sees refreshes.

**Fairness.** There is one thread and no blocking call: weak fairness of the next
step is that the program runs; the specifications with a liveness property assume it.
`DeriveFunctions` splits it into that of the enumeration and that of the step to `done`: fairness does
not look into what the reduction returns. Only random draws need more. Those of the
collection: `WF` of `CollectAddress(a)` for each address says that a uniform
generator draws an address that stays unused sooner or later. Liveness of the collection
is checked with a pool in which two of four banks can be filled, because with fewer
addresses the code never stops.

`ToolSession` assumes `SF` of `DrawPartner` and of `DrawStreams`: a turn of a retry loop that
finds an address draws uniformly among all solutions (`EveryAnswerCanBeDrawn` of `ConstrainedAddress`
shows that each can be drawn), so if one lies in the pool it is found some time. `SessionEnds` is
stated for pools in which every line has a partner and streams; for others the loops of the code have no
bound, and do not end.

**Runs that are violated.** Each of them states a sentence of the log, the header or a
comment and is listed with its source line in `PROJECT.json`:

1. `InjectiveAfterResolving`. The extra step takes the lowest bit of an incomplete set
   even if it is a row bit or an addressing function of its own, and the count is then met.
2. `AllMasksTried`. The mask of the top bits of each size ends the loop untried.
3. `LabelsAreFine`. `AverageRefreshIntervalPairedAccessFine`, which labels DDR4 functions, measures
   coarsely into two columns and reads a third; a function is labelled on a machine where no fine
   measurement could show the short intervals that the label stands for.

**Observations** made on the way, which no run states:

- Bits that no function covers belong to no disjoint set; if identification left one without a label,
  validation passes without it, although a comment (`sudoku_addressing.cc:675`) relies on validation
  for such bits.
- `watch_consecutive_accesses` sets neither functions nor column bits: `column_bits_` is read
  uninitialised, and the model takes any value. With too few column combinations
  `GenerateRowBufferHitSequences` copies words from behind its vector (`PastTheEnd`), and
  `GenerateAllCombinations` does not end if the word has bit 63.
- A page below the PCI hole is shifted with the others; what is read of it is consistent inside the
  program, but is not the address that the memory controller sees.
- Dependent functions on the command line of `decompose_functions` make constraints contradictory, a
  function of bits that no two pages differ in never finds a partner: both retry for ever.
- Lines are flushed and a fence is awaited between the last reading of one row and the first of the next. What a
  refresh takes of that time no column shows: it is shortened, or hidden if it is no longer than the flushes and
  the bound for a refresh less the accesses, and intervals include the flushes. The first row may
  show the rest of a refresh that began before the loop, so the first interval counts from there.
- The fine measurement sees the refreshes that meet its second access, and may miss one that meets the
  first. On Zen 4 a measurement without any refresh counts as one with short intervals.
- Three DIMMs with three ranks each break the sum of the floors of the logarithms in `GetNumFunctions`.
- An unsupported mode exits without `Finalize`. `MedianAccessTimingSingleMemoryAccess` and
  `AverageAccessTimingSingleMemoryAccess` read column 2 of 2, and have no callers.
  `MedianRefreshIntervalPairedAccessFine` is declared and defined under another name.

`CheckUnusedBits` differs from `CheckUsedBits` in one more place: it tests
`trials >= SUDOKU_MAX_NUM_TRIALS` where the other tests `>`, so a mask whose last needed
measurement was made in the last allowed trial is reported as one that "exceeds the maximum
attempts". `BitTrials` models both tests (`OutOfTrials`); no label is wrong for it.

The first check alone only counts, too: a repeated or dependent function, or a bit that is
both row and column, stands in for a missing output, so "the injectivity" it reports is
a necessary condition. `IndependentPassIsOneToOne` says how far counting goes: with
independent outputs it is a proof.

## 4. Proofs

Seven modules hold what is proved about the components, `AddressBitsProofs` what they share.

| theorem | of | argument |
|---|---|---|
| `AddressBitsProofs!ReductionIsGreedy` | the lemma behind `KeepsGreedyBasis` | from pivot to pivot the elimination adds columns only, so the columns at pivots are independent and the others sums of earlier pivots: its result is the greedy basis |
| `MergeFunctionsProofs!Invariance`, `MergeInvariant`, `MergingFindsComponents` | `IInv`, `MergeInv`, `MergedAreComponents` | below |
| `MergeFunctionsProofs!PassesRefineMerging` | the safety part of `ImplementsOverlapMerge` | below |
| `DeriveFunctionsProofs!Invariance`, `EnumerationIsComplete`, `ReductionKeepsBasis`, `BankFunctionsAreKept`, `VerdictIsRight`, `BasisIsShortest` | `IInv`, `EnumerationInv`, `KeepsGreedyBasis`, `NoBankFunctionLost`, `FoundIsRight`, `ShortestBasis` | below |
| `ValidateMappingProofs!TypeCorrect`, `ResolvingSparesCompleteSets` | `TypeOK`, `CompleteStaysComplete` | a candidate lies in an incomplete set; disjoint sets share no bit, so a complete set receives no label and its count stays |
| `ValidateMappingProofs!BijectionsAreAccepted` | `AcceptsEveryBijection` | below |
| `ValidateMappingProofs!IndependentPassIsProof` | `IndependentPassIsOneToOne` | below |
| `ValidateMappingProofs!MissingLabelsAreFound` | `OneSetIsResolved` | with one incomplete set, what it lacks is what the DIMM lacks; each turn labels one of its bits, so the loops meet the counts before the bits run out |
| `SameBankPairsProofs!TypeCorrect`, `FilterEmptiesNoSet`, `FilterBoundsScores` | `TypeOK`, `NoSetEmptied`, `KeptScores` | an address is deleted only with more than `SUDOKU_FILTER_SCORE` others in its set that count against it, so more than that many stay; deletions behind a kept address only lower its score |
| `SameBankPairsProofs!AddressesStayApart` | `EachAddressOnce` | while addresses are collected, every one in a set is used (`OnceInv`); erasing moves places one to one, and taking off the offset modulo the word is one to one |
| `SameBankPairsProofs!SetsAreCounted` | `SetsMatchBanks` | an address makes one set full at most; the prune passes full sets only and removes none of them, which a bijection shows (`SizesInv`) |
| `SameBankPairsProofs!ExactSetsAreBanks` | `SetsAreBanks`, if `CollectLatency = ExactLatency` | a set is led by its base, and the others conflict with it; an address founds a set only if it conflicts with no base, so two bases of one bank share its row, and whatever conflicts with both joins the first (`BankInv`) |
| `SameBankPairsProofs!FilterLeavesOneBank` | `OneBankAfterFilter`, if `FilterLatency = ExactLatency` | two addresses of different banks are strangers to all others of the set between them, so their scores, both bounded by `KeptScores`, add up to its size |
| `IdentifyBitsProofs!TrialsInvariance`, `LabelsAreMeasured`, `VerdictsAreExact` | `TrialsIInv`, `LabelsRestOnMeasurements`, `ExactVerdict` | every measurement counts for one of the scores; the loop is left only with enough measurements or after one increment too many, and both tests recognise the latter |
| `IdentifyBitsProofs!IdentifyInvariance`, `LabelsAreConsistent`, `UncoveredBitsAreFound`, `MovableRowsAreFound` | `IInv`, `LabelsAreIndependent`, `UncoveredBitsIdentified`, `MovableRowsFound` | below |
| `ConstrainedAddressProofs!AlwaysIInv`, `AnswersAreWanted`, `GivesUpOnlyIfUnsolvable`, `EveryAnswerIsWithinReach` | `IInv`, `AnswerIsWanted`, `GivesUpRightly`, `EveryAnswerCanBeDrawn` | below |
| `ToolSessionProofs!SessionTyped` | `TypeOK` of `ToolSession` | `SessionInv`, below |
| `ToolSessionProofs!PairsMeasuredAreAsked` | `PairsAsAsked`, if pages are contiguous | below |
| `ToolSessionProofs!StreamsHitTheRow` | `StreamsStayInRow`, if pages are contiguous and `HoleAligned` | below |
| `ToolSessionProofs!FunctionsAreDecomposed` | `DecompositionIsRight`, if pages are contiguous and `OraclesTell` | below |
| `ToolSessionProofs!StatisticsTell` | `StatisticsTellPairs`, if `LoopsSuit` and `ThresholdsSuit` | below |
| `ToolSessionProofs!DecompositionOnSuchMemory` | `DecompositionIsRight`, if pages are contiguous, `LoopsSuit` and `ThresholdsSuit` | the two theorems above together: `OraclesTell` is no hypothesis any more |
| `ToolSessionProofs!ModulesAddUp` | `BitsAddUp`, if `CachelineBits = 6` and all modules satisfy `ChipsFill` | below |
| `ToolSessionProofs!PoolTranslates` | `TranslationsInvert` | in a contiguous page both kinds of addresses advance together, so a page that finds a physical address finds it at its own virtual one; frames are shared by no two pages, so one page at most finds it |

They hold for every value of the constants under the modules' `ASSUME`s: inputs are
sequences of masks; the cache line offset is below the number of address bits;
a full set is larger than the filter's score; a measurement shows something; the three
limits of the trials are ordered as in the code, and a label needs at least half of the
measurements; the functions of a machine whose bits are identified are independent, its rows lie
above its columns, and a bit in no function selects one or the other; in the search under
constraints the functions and the first address are sets
of line bits; a page of the pool is a multiple of its size, which is one of the cache line and
of the system's pages; the memory and its hole fit into a word, and the hole begins and ends on a
line. What the theorems on statistics assume of the memory is not an `ASSUME` but a hypothesis, `LoopsSuit`
and `ThresholdsSuit`. That pages are contiguous and share no frame is part of
`TranslationsInvert`, and that timings are exact a hypothesis of the two theorems on banks: `samebank_exact`
and `samebank_noisy` are instances of them. In most modules an invariant `IInv` joins
the types with what is inductive.

**Linear algebra.** A sum of functions is a set of places of a vector, and its bits are those that an
odd number of the places hold (`Span`). That parity is additive, that spans are closed under `Xor`, and that
an independent vector has 2^n sums are proved by induction over finite sets of places; so are the
exchange arguments that count: a vector of n masks inside the span of n
independent ones spans the same if it is independent. A recursive function, such as that of the greedy basis or of the states of the
matrix, is a function of its argument by a lemma that constructs it (`RecursionExists`), and what
is said of it goes by the least number at which it would be wrong. `Ascending`, a sorted sequence, is handled through the ranks of its words.

**Merging.** `MergedAreComponents` is not inductive: it speaks of the end. `MergeInv` adds what
the passes keep. The *live* sets are those a pass still has to hand on: what it has
emitted, the set it grows, and the entries not absorbed. Every input function is
inside a live set (`NoFunctionLost`), no live set crosses a closed set of bits
(`NothingOvermerged`), and as long as `changed` is false the emitted
sets overlap neither each other nor what is still to come (`QuietPass`), so a pass that
ends quietly ends with disjoint sets (`DisjointAtEnd`). Disjoint sets that contain
every function and cross no border are the connected groups, which a lemma about
`DisjointSets` shows.

For the refinement the bag of live sets is that of a finite family: an index for every place that is
live. A step that changes neither indices nor sets leaves the bag alone; `StartSet`, `EmitSet` and
`EndPass` rename indices one to one; `Absorb` takes two indices and gives their union to one, which is a merge of
`OverlapMerge`; and the end of a quiet pass is its `Finish`, because two overlapping elements of
the bag would be two places that overlap.

**Derivation.** `EnumerationInv` says that every mask of a size passed, and every mask up to
`function_mask` of the size being tried, is kept if it holds on all sets, in the order of sizes and numbers;
`LastMask` is the greatest of its size: it is the only mask left untried, and that no bank function is one of
those is what `BanksReached`, the hypothesis of the two properties about bank functions, says.
The masks that hold on all sets contain the bank functions; the greedy
basis of what is kept spans the same, and each of its members is a shortest one that
was no sum of those before. As many functions as the DIMM has, independent, with the bank functions
among their sums, are the bank functions up to the choice of a basis: that is the verdict, and it is an exchange argument.

**Validation.** A difference of addresses that changes no output is 0 if the mapping is a bijection
(`Bijective`), so each disjoint set has at least as many outputs as bits: the differences inside
it are 2 to the number of its bits, and what they do to its outputs 2 to the number of these at most
(`InjectionNeedsOutputs`). Both add up to the number of line bits (`PartSizes`), so no set has more, and all are
complete. Conversely, as many independent outputs as a set has bits span every single bit of it, and what changes
no output then changes no bit.

**Identification.** The masks come block by block: those of uncovered bits first, then the disjoint sets
(`MasksInv`). What is kept is a mask of its block that changes no function and the row, or the column alone (`FoundInv`); a mask that
must find a label is still awaited, or its row bit is the highest, or its column bit the lowest, of a kept one, and
the greedy reduction keeps the first of those that lead with a bit. A label is thus the highest bit of a row mask or the lowest of a column mask.
That labels and functions are independent is a contradiction of parities. A sum of them that is empty
meets the mask of its highest column bit, or of its lowest row bit, in that bit alone as far as labels
go; but a mask that changes no function meets every sum of functions in an even number of bits.

**Addresses under constraints.** `AnswerIsWanted` speaks of the end, too. `SearchInv` adds that every step of the elimination keeps
the set of solutions (`SystemKept`: parity is linear in the function, and a swap or the addition
of one row to others can be undone), that a passed bit is in one row if it has a pivot and
in no row below the pivots otherwise (`Echelon`), and what the rows without a pivot say
(`VerdictInv`). From reduced echelon form the two loops that follow are right row by row: a row
meets the solution in its pivot only, and a null vector in two bits or none. The difference of two solutions
is the sum of the null vectors of the free bits it holds, so every solution can be drawn.

**A session.** `SessionInv` says where a session is, that the loop that runs is one of its
command, what it has counted, that every address fits into a word, and what it has found. With it, `Asked`
is kept: both addresses are lines of the pool with their physical addresses, and their words satisfy the
constraints. A partner is found by adding the offset to a word and translating back; taking the offset off
again gives that word, because both work modulo the word (`OffsetRoundTrip`), and on contiguous pages
what the search returns for the address of a line is a line with that address (`FoundIsLine`). That
pages share no frame is not needed.

A stream adds offsets to the DRAM address and translates back, too, but the memory below the hole does not
subtract anything. The row is hit all the same if the hole consists of whole blocks
of the addresses that differ in the column bits used (`HoleAligned`): a block then lies on one side of the hole, and
moving it changes no bit below its size (`LowBitsArrive`). The hole of the Zen 4
build, from 0xA0000000 to 0x100000000, has it for all column bits below 29; that of `session`, from 40 to 64,
for those below 3. With enough column bits, every
offset is a combination of those in no function, and two offsets never give one line.

The decomposition: above the hole the program's DRAM address is the memory's (`AboveHoleIsRight`), so a pair that
differs in one function and no other is exposed exactly if that function is one of the ranks, or
of the slow ones (`PairTells`). `Verdicts` then holds of every state: the score equals
the number of measurements for a function of the ranks and is 0 for another, and the latencies lie on their
sides of one `Threshold`, from the sum of a loop to the sorted result. What the oracles may return is a
hypothesis, `OraclesTell`: it says of the averages that a pair of ranks shows short intervals, another
does not, and slow reads take longer than fast ones. `StatisticsTell` derives it from the timings of the memory;
the hypotheses of `DecompositionIsRight`, that pages lie above the hole and the
machine's functions are those of the command, are part of it. It speaks of memories that are
not DDR4, for which `LabelsAreFine` is violated.

**Statistics.** A loop is a walk over the clock: row follows row, each counted from where the last reading of the one
before left off, so that its first `FlushTime` ticks are measured by nothing; it takes `w` ticks, and up to `RefreshTime`
more if a refresh begins in it (`Walks`). The memory's refreshes begin when they do, also during the flushes. That
each of them shows is the first of the named assumptions, `REFRESH_CYCLE_LOWER_BOUND < AccessTime + RefreshTime
- FlushTime`: what is left of a refresh after the flushes exceeds the bound (`ClearRow`, `ClearRowIs`); without it a
refresh may hide there and an interval be two periods, as it is in the configuration of `session` with 3 ticks for the
flushes, 30 rows and a period of 30. Refreshes are further apart
than a row with its flushes and one of them is long, so a row begins when the refreshes of before are over (`Clear`): each row
that stands out meets one moment, and none is between two of them that follow each other (`Meetings`).
The first row is an exception: the loop may begin during a refresh, whose rest may stand out or not, and the row then counts from
before that refresh or from 0 (`FirstRowIs`). An interval is then the distance of two
moments that follow each other, off by less than a row and its flushes, and to the low side by less than a refresh
more, as a row before may have been late (`NearPeriod`): a period for one rank
(`IntervalsOfOneRank`), for two their distances in turn, which make up a period (`IntervalsOfTwoRanks`). `TotalIsSum` says what
the fold of an average returns, by recursion over the positions with `RecursionExists`; averages, medians, least and
greatest values lie where the values do (`StatisticsWithin`). Of the second legs of a fine measurement
only one direction is shown, as a refresh can hide in the first leg: every row that stands out meets
a moment, and two of them different ones (`Seconds`).

Latencies are not bounded that way, as a row with a refresh is longer than a slow row without. But rows with one are
few: as many rows lie between two of them as fit between two refreshes (`HitsAreFew`,
`MostHits`). If they are less than half, the median is that of a row without (`FastMedian`), and if they are exactly
half, the sum of the two middle ones still falls short. The average of the oracle adds all rows up
(`LoopTakes`): it is below a slow row if the refreshes take less than a conflict per row would. `LoopsSuit` and `ThresholdsSuit`, in
`Measurement` and `ToolSession`, collect these conditions. They are those the
code relies on without saying so: a threshold between half a period and a period, by the length of a row at least, and refreshes
that are far apart for a row. With the 300 and 512 iterations, the bound of 500 and the threshold of 5000 of the code for
12th-generation DDR5, a memory with a period of 9000 ticks, ranks 4500 apart, flushes of 100 ticks, accesses of 200 and 300
and refreshes of 700 has them. So do all memories of `session`: TLC evaluates `LoopsSuit` and `ChipsFill` as an assumption of `MCToolSession`, and
there `ThresholdsSuit` holds of every command, refreshes seen or not.

**Configuration.** `Log2` is the one exponent with 2^k <= n < 2^(k + 1) (`LogarithmIs`), and adds up with a factor that is
a power of two. Looking up the table leaves of a module what the size of a chip, ranks and DIMMs make of it, if the division by the
number of chips has no remainder or the remainder is too small to reach the next power: `ChipsFill`. Without it, the rounded size of an odd module
may exceed the sum of its parts.

**Model-checked only.** Liveness (`Terminates`, `CollectionEnds`,
`EnumerationEnds`, `SessionEnds`, the fairness part of `ImplementsOverlapMerge`) is out of the prover's reach.
Every other property of the passing runs is stated by a theorem; what the theorems assume beyond the modules' `ASSUME`s is
named with them above. The three runs that expect a violation are TLC's alone.

## 5. What could follow

1. **`NextBitPermutation` on words** (integers with `Bitwise`, for TLC only), against
   the order on masks that `DeriveFunctions` assumes, at the widths where the trick overflows.
2. **Composition**: `IdentifyBits` followed by `ValidateMapping`. What the first
   promises (`LabelsAreIndependent`) is what the second needs for `IndependentPassIsOneToOne`.
3. **Refinement**: `IdentifyBits` with the trials of `BitTrials` in place of their contract.

## 6. Not modelled, and why

- `UpdateMemoryPool`, the medians, `GetMinimum`, `GetMaximum`, `GetNumRows`, `GetNumColumns`,
  `GetNumRankDimms` and several setters and getters have no callers.
- What a timing is (`assembly.h`, and the hardware under it) is external: `Measurement` says what
  a memory with refreshes shows, `SameBankPairs` and `BitTrials` take any outcome or the one that the
  machine's geometry implies, and say which.
- Parsing of command lines, the text of the logs, allocation of histograms and of tuples. The
  logs' own failures (a logger's name that is taken) end a tool in the library.
- The main of `reverse_functions` calls the collection and the derivation, which are modelled
  each in its module; the other mains are `command`s of `ToolSession` or initial states.
- Failures to read the page map, which end the program; setting of CPU affinity.
