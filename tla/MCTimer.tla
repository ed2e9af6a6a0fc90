------------------------------- MODULE MCTimer ------------------------------
(* Instances of Timer for TLC. *)
EXTENDS Timer

SomeTimes == {0, 1, 5}
SomeIntervals == {0, 3}
=============================================================================
