------------------------------ MODULE Merging -------------------------------
(***************************************************************************)
(* What find_circles promises while it runs: people are in blocks, alone   *)
(* at first, and taking an edge merges the blocks of its ends, in whatever *)
(* order the edges are taken.                                              *)
(***************************************************************************)
CONSTANTS Node, Edge

VARIABLES
    left,   \* edges not taken yet
    blocks  \* who is together

Init == left \in SUBSET Edge /\ blocks = {{n} : n \in Node}

Touched(e) == {b \in blocks : e[1] \in b \/ e[2] \in b}

Take(e) ==
    /\ left' = left \ {e}
    /\ blocks' = (blocks \ Touched(e)) \cup {UNION Touched(e)}

Next == \E e \in left : Take(e)

Spec == Init /\ [][Next]_<<left, blocks>>
=============================================================================
