---------------------------- MODULE MCAllocator -----------------------------
(* Two choice keys of two items and one of one item, for TLC.              *)
EXTENDS Allocator

Keys == [i \in Item |-> (i + 1) \div 2]

\* Costs and values of the items: the first key's are enumerated, those of the other
\* keys are fixed, one that is dear and worth much, one that is worth nothing.
Inputs ==
    {[cost |-> [i \in Item |-> CASE i = 1 -> x [] i = 2 -> y [] i = 3 -> 3 [] i = 4 -> z [] OTHER -> 2],
      value |-> [i \in Item |-> CASE i = 1 -> v [] i = 2 -> w [] i = 3 -> 4 [] i = 4 -> 1 [] OTHER -> u],
      budget |-> b, scale |-> s, exact |-> e, cells |-> n] :
        x \in 0..4, y \in 1..4, z \in {0, 2}, v \in {0, 2, 3}, w \in {2, 5}, u \in {-1, 2},
        b \in 0..6, s \in 1..3, e \in BOOLEAN, n \in {9, 100}}
=============================================================================
