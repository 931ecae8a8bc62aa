----------------------------- MODULE BankTimings -----------------------------
(***************************************************************************)
(* The collection on a machine: every address of the pool has a bank and a *)
(* row.  Two addresses conflict if one bank has to close the row of the    *)
(* one to open that of the other.                                          *)
(***************************************************************************)
EXTENDS SameBankPairs

CONSTANTS
  BankOf,      \* the bank of every address
  RowOf        \* and its row in it

ASSUME MachineAssumption == Addr \subseteq DOMAIN BankOf /\ Addr \subseteq DOMAIN RowOf

Conflicts(a, b) == BankOf[a] = BankOf[b] /\ RowOf[a] # RowOf[b]

(* A pair shows a conflict exactly when it is one.                         *)
ExactLatency ==
  [p \in Addr \X Addr |->
     IF Conflicts(p[1], p[2]) THEN {"conflict"} ELSE {"hit"}]

(* Any pair may show a conflict, and a pair that conflicts an outlier.     *)
NoisyLatency ==
  [p \in Addr \X Addr |->
     IF Conflicts(p[1], p[2])
     THEN {"conflict", "outlier"} ELSE {"hit", "conflict"}]

-----------------------------------------------------------------------------
(* With exact measurements the sets are the banks: addresses that share a  *)
(* set share a bank, and two sets of two or more never share theirs, even  *)
(* though an address of the row of a base founds a set of its own.         *)
SetsAreBanks ==
  pc # "done" =>
    \A k, l \in DOMAIN sbdr_pairs :
      \A n \in DOMAIN sbdr_pairs[k], m \in DOMAIN sbdr_pairs[l] :
        Len(sbdr_pairs[k]) > 1 /\ Len(sbdr_pairs[l]) > 1 =>
          (BankOf[sbdr_pairs[k][n]] = BankOf[sbdr_pairs[l][m]] <=> k = l)

(* What the filter is for: noise while collecting may mix banks, but after *)
(* filtering with exact timings a set of more than twice the score is of   *)
(* one bank.                                                               *)
OneBankAfterFilter ==
  pc = "slide" =>
    \A k \in DOMAIN sbdr_pairs :
      Len(sbdr_pairs[k]) > 2 * SUDOKU_FILTER_SCORE =>
        \A n, m \in DOMAIN sbdr_pairs[k] :
          BankOf[sbdr_pairs[k][n]] = BankOf[sbdr_pairs[k][m]]
=============================================================================
