------------------------- MODULE MCConstrainedAddress -------------------------
(* Vectors of functions, one of which is to differ, and every parity that  *)
(* a first address can give them.                                          *)
EXTENDS ConstrainedAddress

CONSTANT MaxFunctions

MCVectors == UNION {[1 .. n -> SUBSET LineBit] : n \in 0 .. MaxFunctions - 1}

MCQueries == [first : SUBSET LineBit, same : MCVectors,
              diff : [{1} -> SUBSET LineBit]]

(* The lower half of the memory.                                           *)
MCPool == SUBSET (LineBit \ {MaxBits - 1})
=============================================================================
