----------------------------- MODULE MCDecision -----------------------------
(* Two users who trade with each other, their circle and an incentive of    *)
(* each kind, for TLC.                                                      *)
EXTENDS Decision, TLC

CONSTANTS u1, u2, ring

Ring == ring :> {u1, u2}

Settings == {[control |-> 1, naive |-> 1], [control |-> 2, naive |-> 0]}

\* Bucket 0 is CONTROL, 1 is NAIVE or CONTROL, by the setting, 2 is ENGINE.
Bucket(x, y, z) == u1 :> x @@ u2 :> y @@ ring :> z

Buckets == {Bucket(2, 0, 2), Bucket(1, 2, 2), Bucket(0, 1, 0), Bucket(2, 1, 1)}

Calm == [users |-> {u1, u2}, circles |-> {ring}, available |-> TRUE, late |-> {},
         capped |-> {}, excluded |-> {}, atRisk |-> {u1, u2}]

Situations ==
    {Calm,
     [Calm EXCEPT !.late = {u1}],
     [Calm EXCEPT !.excluded = {u2}, !.atRisk = {u2}],
     [Calm EXCEPT !.users = {u1}, !.capped = {u1}],
     [Calm EXCEPT !.available = FALSE]}
=============================================================================
