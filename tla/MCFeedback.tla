----------------------------- MODULE MCFeedback -----------------------------
(* Two users whose arms differ and who change places in a second            *)
(* experiment, for TLC.                                                     *)
EXTENDS Feedback, TLC

CONSTANTS u1, u2

First == u1 :> "ENGINE" @@ u2 :> "CONTROL"
Other == u1 :> "CONTROL" @@ u2 :> "ENGINE"

Arms == [e \in Experiment |-> IF e = 1 THEN First ELSE Other]

Symmetric == Permutations(Replica)
=============================================================================
