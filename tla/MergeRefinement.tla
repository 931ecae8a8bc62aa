--------------------------- MODULE MergeRefinement ---------------------------
(***************************************************************************)
(* The passes of MergeFunctions implement OverlapMerge.  The bag of the    *)
(* abstract specification is read off the vectors of the loops: the sets   *)
(* the pass has emitted, the one it grows, and the entries not absorbed.   *)
(***************************************************************************)
EXTENDS MergeFunctions, Bags

LiveIndex ==
  CASE pc \in {"do", "done"} -> {<<"vector", k>> : k \in DOMAIN merged_functions}
    [] pc = "outer" -> {<<"vector", k>> : k \in Unabsorbed}
                         \cup {<<"emitted", k>> : k \in DOMAIN curr_merged_functions}
    [] pc = "inner" -> {<<"vector", k>> : k \in Unabsorbed}
                         \cup {<<"emitted", k>> : k \in DOMAIN curr_merged_functions}
                         \cup {<<"growing", 0>>}

SetAt(x) ==
  CASE x[1] = "vector"  -> merged_functions[x[2]]
    [] x[1] = "emitted" -> curr_merged_functions[x[2]]
    [] x[1] = "growing" -> merged_value

LiveBag == [v \in Live |-> Cardinality({x \in LiveIndex : SetAt(x) = v})]

Abstract == INSTANCE OverlapMerge WITH
              sets <- LiveBag, finished <- (pc = "done")

(* Every step of the loops is the merge of one overlapping pair, the end,  *)
(* or nothing at all; and the loops do end with no overlap left, however   *)
(* late in a walk an overlap only shows.                                   *)
ImplementsOverlapMerge == Abstract!Spec
=============================================================================
