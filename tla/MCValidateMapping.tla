-------------------------- MODULE MCValidateMapping --------------------------
(* Every multiset of at most MaxFunctions functions, kept as one vector    *)
(* each: the program only iterates over the vector and counts.             *)
EXTENDS ValidateMapping, FiniteSetsExt

CONSTANT MaxFunctions

Weight(f) == SumSet({2 ^ b : b \in f})

MCFunctionVectors ==
  UNION {{v \in [1 .. n -> SUBSET AddressBit] :
            \A k \in 1 .. n - 1 : Weight(v[k]) <= Weight(v[k + 1])} :
         n \in 0 .. MaxFunctions}
=============================================================================
