----------------------------- MODULE MCCircles ------------------------------
(* Five people and all graphs among them, for TLC.                          *)
EXTENDS Circles

\* A pair interacted once too rarely or just often enough.
Around == [Pair -> {MinInteractions - 1, MinInteractions}]
=============================================================================
