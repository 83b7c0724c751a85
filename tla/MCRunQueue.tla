----------------------------- MODULE MCRunQueue -----------------------------
(***************************************************************************)
(* Small instances of RunQueue for TLC.                                    *)
(***************************************************************************)
EXTENDS RunQueue, TLC

\* Every run belongs to the one tenant.
OneTenant == [r \in Run |-> 1]

\* The runs go to two tenants in turn, the first run to the last tenant.
Alternating == [r \in Run |-> IF r % 2 = 1 THEN 2 ELSE 1]

\* Replicas are interchangeable.
Interchangeable == Permutations(Worker)

=============================================================================
