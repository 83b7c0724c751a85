------------------------------ MODULE MCIngest ------------------------------
(***************************************************************************)
(* Small instances of Ingest for TLC.                                      *)
(***************************************************************************)
EXTENDS Ingest

CONSTANTS a, b, c      \* events
CONSTANTS known, other \* event types

\* The last event has a type of its own.
OneStranger == [e \in Event |-> IF e = c THEN other ELSE known]

\* Two batches in opposite orders and one that repeats an event.
OppositeBodies == {<<a, b>>, <<b, a, c>>, <<a, a>>}

=============================================================================
