------------------------------ MODULE MCSchema ------------------------------
(* The schema has no parameters: the run visits all its states. *)
EXTENDS Access

=============================================================================
