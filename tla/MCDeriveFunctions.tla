-------------------------- MODULE MCDeriveFunctions --------------------------
(* Memories with one or two bank functions.  Half of the banks have been   *)
(* found, as the collection asks for, each with any of its addresses.      *)
EXTENDS DeriveFunctions

BankFunctions ==
  {<<{1}>>, <<{1, 2}>>, <<{4}>>, <<{1, 3, 4}>>,
   <<{1}, {2, 3}>>, <<{1, 3}, {2, 4}>>, <<{1, 2}, {2, 3, 4}>>,
   <<{2}, {3, 4}>>, <<{1, 2, 3}, {1, 4}>>}

Banks(f) ==
  {{x \in SUBSET LineBit :
      \A k \in DOMAIN f :
        XORReductionWithMask(f[k], x) = bank[k]} :
   bank \in [DOMAIN f -> {0, 1}]}

SomeOf(S) == (SUBSET S) \ {{}}

MCMemories ==
  UNION {
    IF Len(f) = 1
    THEN {[functions |-> f, sets |-> {s}] : s \in UNION {SomeOf(x) : x \in Banks(f)}}
    ELSE UNION {{[functions |-> f, sets |-> {s, t}] :
                   s \in SomeOf(x), t \in SomeOf(CHOOSE z \in Banks(f) : TRUE)} :
                x \in Banks(f) \ {CHOOSE z \in Banks(f) : TRUE}} :
    f \in BankFunctions}

(* Every vector of at most four functions.                                *)
MCInputs == UNION {[1 .. n -> (SUBSET (1 .. 4)) \ {{}}] : n \in 0 .. 4}
=============================================================================
