--------------------------- MODULE ReduceFunctions ---------------------------
(***************************************************************************)
(* ReduceFunctions: Gaussian elimination over GF(2) that keeps a linearly  *)
(* independent part of a vector of functions.  The functions are the       *)
(* columns of a matrix, its rows are the bits from the highest down.  Each *)
(* column in turn is a pivot: unless it has become zero its function is    *)
(* kept, as it was given, and the column is added to every other column    *)
(* that has the pivot's highest bit.                                       *)
(***************************************************************************)
EXTENDS AddressBits

PivotBit(column) == CHOOSE bit \in column : \A c \in column : c <= bit

AddPivot(mtx_t, pvt_col) ==
  LET pivot == mtx_t[pvt_col]
      others == {c \in DOMAIN mtx_t \ {pvt_col} : PivotBit(pivot) \in mtx_t[c]}
  IN  IF pivot = {} THEN mtx_t
      ELSE [c \in DOMAIN mtx_t |-> IF c \in others THEN Xor(mtx_t[c], pivot) ELSE mtx_t[c]]

(* The matrix before the first pivot and after each pivot.                 *)
Matrices(v) ==
  LET mtx_t[pvt_col \in 0 .. Len(v)] ==
        IF pvt_col = 0 THEN v ELSE AddPivot(mtx_t[pvt_col - 1], pvt_col)
  IN  mtx_t

(* A variant: the column is kept in place of its function.                 *)
KeepColumns(v) ==
  LET mtx_t == Matrices(v)
      filtered[pvt_col \in 0 .. Len(v)] ==
        IF pvt_col = 0 THEN <<>>
        ELSE IF mtx_t[pvt_col - 1][pvt_col] = {}
             THEN filtered[pvt_col - 1]
             ELSE Append(filtered[pvt_col - 1], mtx_t[pvt_col - 1][pvt_col])
  IN  filtered[Len(v)]

ReducedFunctions(v) ==
  LET mtx_t == Matrices(v)
      filtered[pvt_col \in 0 .. Len(v)] ==
        IF pvt_col = 0 THEN <<>>
        ELSE IF mtx_t[pvt_col - 1][pvt_col] = {}
             THEN filtered[pvt_col - 1]
             ELSE Append(filtered[pvt_col - 1], v[pvt_col])
  IN  filtered[Len(v)]

-----------------------------------------------------------------------------
(* The functions kept are those that are no sum of the ones before them:   *)
(* the elimination decides independence although it only looks at one bit  *)
(* of each column.  Functions come with few bits first, so the shortest of *)
(* equivalent ones are kept.                                               *)
KeepsGreedyBasisOf(v) == ReducedFunctions(v) = Greedy(v)
=============================================================================
