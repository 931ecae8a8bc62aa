--------------------------- MODULE MCIdentifyBits ---------------------------
(* Every machine over the line bits with one to MaxFunctions bank          *)
(* functions, in which row bits are above column bits and addresses are    *)
(* one-to-one with bank, row and column.  The order of functions does not  *)
(* matter to the program and is fixed.                                     *)
EXTENDS IdentifyBits

CONSTANT MaxFunctions

Vectors ==
  UNION {{v \in [1 .. n -> (SUBSET LineBit) \ {{}}] :
            \A k \in 1 .. n - 1 : Less(v[k], v[k + 1])} :
         n \in 1 .. MaxFunctions}

OneToOne(v, labels) ==
  \A d \in (SUBSET LineBit) \ {{}} :
    Overlap(d, labels) \/ \E f \in Masks(v) : XORReductionWithMask(f, d) = 1

MCMemories ==
  {m \in [functions : Vectors, row : SUBSET LineBit, column : SUBSET LineBit] :
     /\ \A r \in m.row, c \in m.column : c < r
     /\ Len(m.functions) + Cardinality(m.row) + Cardinality(m.column)
          = Cardinality(LineBit)
     /\ OneToOne(m.functions, m.row \cup m.column)}
=============================================================================
