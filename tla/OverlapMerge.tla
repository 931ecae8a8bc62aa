----------------------------- MODULE OverlapMerge -----------------------------
(***************************************************************************)
(* What merging promises, without the passes: a bag of sets of bits in     *)
(* which any two overlapping members may be replaced by their union, one   *)
(* pair at a time, until no two members overlap.                           *)
(***************************************************************************)
EXTENDS Bags, Naturals

VARIABLES
  sets,       \* a bag of sets of bits
  finished

vars == <<sets, finished>>

(* Two different members, or two copies of one member, that share a bit.   *)
OverlappingPair(s, t) ==
  /\ s \cap t # {}
  /\ s = t => sets[s] >= 2

With(bag, s) == bag (+) SetToBag({s})

Without(bag, s) == bag (-) SetToBag({s})

Init ==
  /\ IsABag(sets)
  /\ finished = FALSE

Merge ==
  /\ ~finished
  /\ \E s, t \in BagToSet(sets) :
       /\ OverlappingPair(s, t)
       /\ sets' = With(Without(Without(sets, s), t), s \cup t)
  /\ UNCHANGED finished

Finish ==
  /\ ~finished
  /\ \A s, t \in BagToSet(sets) : ~OverlappingPair(s, t)
  /\ finished' = TRUE
  /\ UNCHANGED sets

Next == Merge \/ Finish

(* Merging goes on as long as there is something to merge, then it ends.   *)
Spec == Init /\ [][Next]_vars /\ WF_vars(Next)
=============================================================================
