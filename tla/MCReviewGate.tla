---------------------------- MODULE MCReviewGate ----------------------------
(***************************************************************************)
(* Small instances of ReviewGate for TLC.                                  *)
(***************************************************************************)
EXTENDS ReviewGate, TLC

CONSTANTS t1, t2, r1, r2, a1, s1, alice, bob

\* Sibling rows: one subject, one allocation run.
OneRunRunOf == [r \in Rec |-> a1]

OneSubjectOf == [r \in Rec |-> s1]

=============================================================================
