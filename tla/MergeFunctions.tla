---------------------------- MODULE MergeFunctions ----------------------------
(***************************************************************************)
(* Addressing::MergeFunctionsToDisjointSets: addressing functions that     *)
(* share a physical address bit are merged, pass after pass, until no two  *)
(* of the remaining sets overlap.  IdentifyBits and ValidateAddressMapping *)
(* both split the mapping into independent blocks with it.                 *)
(*                                                                         *)
(* One pass walks the vector merged_functions; the entry at i that no      *)
(* earlier entry has absorbed absorbs, in merged_value, every later entry  *)
(* it overlaps.  merged_value grows on the way, so an entry that was       *)
(* skipped early in the walk may overlap it in the end: `changed' asks for *)
(* another pass.  pc is the place in the loops: "do" at the top of the     *)
(* do-while body, "outer" at the for over i, "inner" at the for over j.    *)
(***************************************************************************)
EXTENDS AddressBits

CONSTANTS
  AddressBit,       \* the bit positions of a physical address
  Inputs            \* the vectors of functions the operation is called with

ASSUME InputsAssumption == Inputs \subseteq Seq(SUBSET AddressBit)

VARIABLES
  functions,              \* the argument
  merged_functions,       \* the working vector, the result at the end
  merged,                 \* which entries of it this pass has absorbed
  curr_merged_functions,  \* what this pass has produced so far
  merged_value,           \* the set being grown
  i, j,                   \* loop indices, from 1
  changed,
  pc

vars == <<functions, merged_functions, merged, curr_merged_functions,
          merged_value, i, j, changed, pc>>

Init ==
  /\ functions \in Inputs
  /\ merged_functions = functions
  /\ merged = <<>>
  /\ curr_merged_functions = <<>>
  /\ merged_value = {}
  /\ i = 1
  /\ j = 1
  /\ changed = FALSE
  /\ pc = "do"

(* Variants with a slip, one per property: an absorption that is not       *)
(* reported or that forgets what was gathered, a single pass.  None is a   *)
(* part of Next.                                                           *)
AbsorbInto(value, reported) ==
  /\ pc = "inner"
  /\ j <= Len(merged_functions)
  /\ ~merged[j]
  /\ Overlap(merged_value, merged_functions[j])
  /\ merged_value' = value
  /\ merged' = [merged EXCEPT ![j] = TRUE]
  /\ changed' = reported
  /\ j' = j + 1
  /\ UNCHANGED <<functions, merged_functions, curr_merged_functions, i, pc>>

AbsorbUnreported == AbsorbInto(merged_value \cup merged_functions[j], changed)

AbsorbOverwriting == AbsorbInto(merged_functions[j], TRUE)

SinglePass ==
  /\ pc = "outer"
  /\ i > Len(merged_functions)
  /\ merged_functions' = curr_merged_functions
  /\ pc' = "done"
  /\ UNCHANGED <<functions, merged, curr_merged_functions, merged_value, i, j,
                 changed>>

StartPass ==
  /\ pc = "do"
  /\ changed' = FALSE
  /\ merged' = [k \in 1 .. Len(merged_functions) |-> FALSE]
  /\ curr_merged_functions' = <<>>
  /\ i' = 1
  /\ pc' = "outer"
  /\ UNCHANGED <<functions, merged_functions, merged_value, j>>

SkipMerged ==
  /\ pc = "outer"
  /\ i <= Len(merged_functions)
  /\ merged[i]
  /\ i' = i + 1
  /\ UNCHANGED <<functions, merged_functions, merged, curr_merged_functions,
                 merged_value, j, changed, pc>>

StartSet ==
  /\ pc = "outer"
  /\ i <= Len(merged_functions)
  /\ ~merged[i]
  /\ merged_value' = merged_functions[i]
  /\ merged' = [merged EXCEPT ![i] = TRUE]
  /\ j' = 1
  /\ pc' = "inner"
  /\ UNCHANGED <<functions, merged_functions, curr_merged_functions, i, changed>>

Absorb ==
  /\ pc = "inner"
  /\ j <= Len(merged_functions)
  /\ ~merged[j]
  /\ Overlap(merged_value, merged_functions[j])
  /\ merged_value' = merged_value \cup merged_functions[j]
  /\ merged' = [merged EXCEPT ![j] = TRUE]
  /\ changed' = TRUE
  /\ j' = j + 1
  /\ UNCHANGED <<functions, merged_functions, curr_merged_functions, i, pc>>

PassOver ==
  /\ pc = "inner"
  /\ j <= Len(merged_functions)
  /\ merged[j] \/ ~Overlap(merged_value, merged_functions[j])
  /\ j' = j + 1
  /\ UNCHANGED <<functions, merged_functions, merged, curr_merged_functions,
                 merged_value, i, changed, pc>>

EmitSet ==
  /\ pc = "inner"
  /\ j > Len(merged_functions)
  /\ curr_merged_functions' = Append(curr_merged_functions, merged_value)
  /\ i' = i + 1
  /\ pc' = "outer"
  /\ UNCHANGED <<functions, merged_functions, merged, merged_value, j, changed>>

EndPass ==
  /\ pc = "outer"
  /\ i > Len(merged_functions)
  /\ merged_functions' = curr_merged_functions
  /\ pc' = IF changed THEN "do" ELSE "done"
  /\ UNCHANGED <<functions, merged, curr_merged_functions, merged_value, i, j,
                 changed>>

Terminated ==
  /\ pc = "done"
  /\ UNCHANGED vars

Next ==
  \/ StartPass
  \/ SkipMerged
  \/ StartSet
  \/ Absorb
  \/ PassOver
  \/ EmitSet
  \/ EndPass
  \/ Terminated

(* The operation is a plain function call on one thread: nothing can keep  *)
(* it from taking its next step.                                           *)
Spec == Init /\ [][Next]_vars /\ WF_vars(Next)

-----------------------------------------------------------------------------
TypeOK ==
  /\ functions \in Seq(SUBSET AddressBit)
  /\ merged_functions \in Seq(SUBSET AddressBit)
  /\ merged \in Seq(BOOLEAN)
  /\ curr_merged_functions \in Seq(SUBSET AddressBit)
  /\ merged_value \in SUBSET AddressBit
  /\ i \in Nat \ {0}
  /\ j \in Nat \ {0}
  /\ changed \in BOOLEAN
  /\ pc \in {"do", "outer", "inner", "done"}

(* The result is exactly the finest grouping of the bits: no two sets      *)
(* overlap, no function is split or lost, and nothing is merged that no    *)
(* chain of overlapping functions connects.  IdentifyBits tests the sets   *)
(* one by one and CheckInjectivity counts inside each, so both rely on it. *)
MergedAreComponents ==
  pc = "done" => Masks(merged_functions) = DisjointSets(Masks(functions))

-----------------------------------------------------------------------------
(***************************************************************************)
(* The inductive invariant.  The live sets are those a pass still has to   *)
(* hand on: what it has produced, the set it is growing and the entries    *)
(* not absorbed yet.                                                       *)
(***************************************************************************)
Unabsorbed == {k \in DOMAIN merged_functions : ~merged[k]}

Live ==
  IF pc \in {"do", "done"}
  THEN Masks(merged_functions)
  ELSE Masks(curr_merged_functions)
         \cup {merged_functions[k] : k \in Unabsorbed}
         \cup (IF pc = "inner" THEN {merged_value} ELSE {})

(* Every entry before i is absorbed, and i itself while its set grows.     *)
LoopBounds ==
  pc \in {"outer", "inner"} =>
    /\ DOMAIN merged = DOMAIN merged_functions
    /\ i <= Len(merged_functions) + 1
    /\ \A k \in DOMAIN merged_functions : k < i => merged[k]
    /\ pc = "inner" => /\ i <= Len(merged_functions)
                       /\ merged[i]
                       /\ j <= Len(merged_functions) + 1

(* Every function given to the operation is inside some live set; one      *)
(* without bits overlaps nothing and stays a set of its own.               *)
NoFunctionLost ==
  /\ \A f \in Masks(functions) : \E v \in Live : f \subseteq v
  /\ {} \in Masks(functions) => {} \in Live

(* A live set never joins bits that some closed set of bits keeps apart.   *)
NothingOvermerged ==
  \A v \in Live :
    /\ v \subseteq UNION Masks(functions)
    /\ v = {} => {} \in Masks(functions)
    /\ \A C \in SUBSET UNION Masks(functions) :
         Closed(C, Masks(functions)) => v \cap C = {} \/ v \subseteq C

PairwiseDisjoint(vector) ==
  \A a, b \in DOMAIN vector : a # b => ~Overlap(vector[a], vector[b])

(* A pass that has not set `changed' has found no overlap so far.          *)
QuietPass ==
  pc \in {"outer", "inner"} /\ ~changed =>
    /\ PairwiseDisjoint(curr_merged_functions)
    /\ \A a \in DOMAIN curr_merged_functions :
         /\ \A k \in Unabsorbed :
              ~Overlap(curr_merged_functions[a], merged_functions[k])
         /\ pc = "inner" => ~Overlap(curr_merged_functions[a], merged_value)
    /\ pc = "inner" =>
         \A k \in Unabsorbed :
           k < j => ~Overlap(merged_value, merged_functions[k])

DisjointAtEnd == pc = "done" => PairwiseDisjoint(merged_functions)

(* What keeps MergedAreComponents true across the passes: the bookkeeping  *)
(* of `merged' and `changed' never loses a function and never overmerges.  *)
MergeInv ==
  /\ LoopBounds
  /\ NoFunctionLost
  /\ NothingOvermerged
  /\ QuietPass
  /\ DisjointAtEnd

IInv == TypeOK /\ MergeInv
=============================================================================
