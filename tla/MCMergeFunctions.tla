--------------------------- MODULE MCMergeFunctions ---------------------------
(* Every vector of at most MaxFunctions functions over the bits, the       *)
(* function without bits and repeated functions included.                  *)
EXTENDS MergeRefinement

CONSTANT MaxFunctions

MCInputs == UNION {[1 .. n -> SUBSET AddressBit] : n \in 0 .. MaxFunctions}
=============================================================================
