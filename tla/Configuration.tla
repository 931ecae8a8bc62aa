---------------------------- MODULE Configuration ----------------------------
(***************************************************************************)
(* What the program derives from the arguments that describe the DRAM: the *)
(* row of the address table that fits, and the numbers of functions, row   *)
(* and column bits that the other components expect to find.  A pair of    *)
(* arguments that fits no row ends the program.                            *)
(*                                                                         *)
(* Sizes are in MB.  Chip sizes of the table are in Mbit.                  *)
(***************************************************************************)
EXTENDS Integers

CONSTANTS
  CachelineBits,       \* CACHELINE_OFFSET, 6
  Options              \* records of parsed arguments and the memory they describe

ASSUME ConfigurationAssumption ==
  /\ CachelineBits \in Nat
  /\ Options \subseteq [type : {"DDR4", "DDR5"}, module_size : Nat \ {0},
                        num_ranks : Nat \ {0}, dq : {4, 8, 16, 32},
                        num_dimms : Nat \ {0}]

(* std::log2 of a positive number, converted to an integer.                *)
Log2(n) == CHOOSE k \in 0 .. n : 2^k <= n /\ n < 2^(k + 1)

PowerOfTwo(n) == n = 2^Log2(n)

Entry(type, chip_size, bg, row, burst_length) ==
  [type |-> type, chip_size |-> chip_size, dq |-> 8, num_bank_group_bits |-> bg,
   num_bank_address_bits |-> 2, num_row_bits |-> row, num_column_bits |-> 10,
   burst_length |-> burst_length]

DRAMAddressTable ==
  {Entry("DDR4", 8192, 2, 16, 8),
   Entry("DDR4", 16384, 2, 17, 8),
   Entry("DDR5", 16384, 3, 16, 16)}

ChipSize(o) == (o.module_size \div ((o.num_ranks * 64) \div o.dq)) * 8

(* The rows that fit; at most one does.                                    *)
Entries(o) ==
  {e \in DRAMAddressTable :
     e.type = o.type /\ e.chip_size = ChipSize(o) /\ e.dq = o.dq}

Accepted(o) == Entries(o) # {}

(* A variant: a column bit for every column, those of a burst included.    *)
DRAMConfigOfColumns(o) ==
  LET entry == CHOOSE e \in Entries(o) : TRUE
  IN  [num_subchannel_bits |-> IF o.type = "DDR4" THEN 0 ELSE 1,
       num_rank_bits |-> Log2(o.num_ranks),
       num_bank_group_bits |-> entry.num_bank_group_bits,
       num_bank_address_bits |-> entry.num_bank_address_bits,
       num_row_bits |-> entry.num_row_bits,
       num_column_bits |-> entry.num_column_bits]

DRAMConfig(o) ==
  LET entry == CHOOSE e \in Entries(o) : TRUE
  IN  [num_subchannel_bits |-> IF o.type = "DDR4" THEN 0 ELSE 1,
       num_rank_bits |-> Log2(o.num_ranks),
       num_bank_group_bits |-> entry.num_bank_group_bits,
       num_bank_address_bits |-> entry.num_bank_address_bits,
       num_row_bits |-> entry.num_row_bits,
       num_column_bits |-> entry.num_column_bits - Log2(entry.burst_length)]

(* The tools describe one memory controller with one channel.              *)
max_bits(o) == 20 + Log2(o.module_size * o.num_dimms)

GetNumRanks(o) ==
  o.num_dimms * 2^DRAMConfig(o).num_subchannel_bits * 2^DRAMConfig(o).num_rank_bits

GetNumBanks(o) ==
  GetNumRanks(o) * 2^DRAMConfig(o).num_bank_group_bits
                 * 2^DRAMConfig(o).num_bank_address_bits

(* sudoku::GetNumFunctions, from the number of banks.                      *)
GetNumFunctions(o) == Log2(GetNumBanks(o))

(* Sudoku::GetNumFunctions, the number of functions that the derivation    *)
(* expects to find.                                                        *)
Sudoku_GetNumFunctions(o) ==
  Log2(o.num_dimms) + DRAMConfig(o).num_subchannel_bits
    + DRAMConfig(o).num_rank_bits + DRAMConfig(o).num_bank_group_bits
    + DRAMConfig(o).num_bank_address_bits

-----------------------------------------------------------------------------
(* The bits of an address are used up: for every memory that is accepted,  *)
(* functions, row bits, column bits and the bits of a cache line make up   *)
(* an address of max_bits_ bits, which is what counting labels in the      *)
(* validation rests on.  Rounded logarithms add up only if the ranks or    *)
(* the DIMMs are a power of two.  The banks that the collection waits for  *)
(* are as many as the functions that are derived from them separate.       *)
AddUp ==
  \A o \in Options :
    Accepted(o) /\ (PowerOfTwo(o.num_ranks) \/ PowerOfTwo(o.num_dimms)) =>
      /\ Sudoku_GetNumFunctions(o) + DRAMConfig(o).num_row_bits
           + DRAMConfig(o).num_column_bits + CachelineBits = max_bits(o)
      /\ GetNumFunctions(o) = Sudoku_GetNumFunctions(o)
      /\ PowerOfTwo(o.num_dimms) =>
           GetNumBanks(o) = 2^Sudoku_GetNumFunctions(o)

(* It does if a module is whole chips, or if its ranks are too few for the *)
(* rest of the division to matter.                                         *)
ChipsFill(o) ==
  \/ o.module_size % ((o.num_ranks * 64) \div o.dq) = 0
  \/ o.num_ranks * o.num_dimms < 1024
=============================================================================
