---------------------------- MODULE MCTransforms ----------------------------
(* A small instance of TransformRegistry for TLC: two edits, no faults.      *)
EXTENDS TransformRegistry

MCBounds == {[writes |-> 2, changes |-> 0, faults |-> 0]}
=============================================================================
