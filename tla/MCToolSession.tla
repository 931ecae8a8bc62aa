---------------------------- MODULE MCToolSession ----------------------------
(* A memory of 128 bytes in lines of two, pages of 16 and a PCI hole of    *)
(* 24: a byte for 64 MB, so that the hole ends inside a page.              *)
EXTENDS ToolSession

(* Pages of mmap from 160 on, on the given physical pages.                 *)
LayoutOn(physical) ==
  [pages |-> [k \in DOMAIN physical |-> 144 + 16 * k],
   frame |-> [part \in 20 .. 19 + 2 * Len(physical) |->
                (physical[((part - 20) \div 2) + 1] \div 8) + (part % 2)]]

MCLayouts == {LayoutOn(p) : p \in {<<48, 32>>, <<96, 64>>, <<64, 0>>, <<64>>}}

Built(zen4) == [zen4 |-> zen4, PCI_LOWER |-> IF zen4 THEN 40 ELSE 0,
                PCI_UPPER |-> IF zen4 THEN 64 ELSE 0]

Machine(period) == [ranks |-> {{3, 5}}, slow |-> {{4}}, period |-> period]

None == [tool |-> "", mode |-> "", type |-> "DDR5", functions |-> <<>>,
         column_bits |-> {}, same |-> <<>>, diff |-> <<>>, length |-> 0,
         machine |-> Machine(28)]

Decompose(type, functions, column_bits, period) ==
  [None EXCEPT !.tool = "decompose_functions", !.type = type,
     !.functions = functions, !.column_bits = column_bits,
     !.machine = Machine(period)]

Watch(tool, mode, same, diff) ==
  [None EXCEPT !.tool = tool, !.mode = mode, !.same = same, !.diff = diff,
     !.length = 1]

BankFunctions == <<{3, 5}, {4}>>

IntelCommands ==
  {Decompose("DDR5", BankFunctions, {1, 2, 3}, period) : period \in {28, 56}}
  \cup
  {Decompose("DDR4", BankFunctions, {1, 2}, 28),
   Decompose("DDR5", <<{4}, {3, 5}, {4}>>, {1, 2}, 28),    \* one typed twice
   Watch("watch_conflicts", "check", <<{4}>>, <<{3, 5}>>),
   Watch("watch_refreshes", "stat", <<>>, <<>>),
   Watch("watch_consecutive_accesses", "stat", <<>>, <<>>)}

Zen4Commands ==
  {Decompose("DDR5", BankFunctions, {1, 2, 3}, 28),
   Decompose("DDR5", BankFunctions, {1, 3}, 56),           \* too few columns
   Decompose("DDR5", <<{3}, {4}, {3, 4}>>, {1, 2}, 28),    \* a dependent one
   Watch("watch_conflicts", "stat", <<>>, <<>>),
   Watch("watch_conflicts", "other", <<>>, <<>>),
   Watch("watch_refreshes", "watch", <<>>, <<>>),
   Watch("watch_refreshes", "check", <<{4}>>, <<{3}>>),
   Watch("watch_consecutive_accesses", "check", <<>>, <<{4}>>)}

MCCommands ==
  {c @@ Built(FALSE) : c \in IntelCommands} \cup {c @@ Built(TRUE) : c \in Zen4Commands}

(* What rows of the missing column show: no refresh, two, or every other.  *)
MCReads == {{}, {2, 5}, {k \in 1 .. SUDOKU_REFRESH_NUM_ITERATION : k % 2 = 0}}

MCOptions ==
  [type : {"DDR4", "DDR5"}, module_size : {2^k : k \in 10 .. 16},
   num_ranks : {1, 2, 3, 4}, dq : {4, 8, 16, 32}, num_dimms : {1, 2, 3}]

(* The memories are such as the theorems about the statistics and the      *)
(* configuration ask for.                                                  *)
ASSUME MCMemoriesSuit ==
  LoopsSuit /\ \A o \in Options : Accepted(o) => ChipsFill(o)
=============================================================================
