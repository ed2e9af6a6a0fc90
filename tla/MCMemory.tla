------------------------------ MODULE MCMemory ------------------------------
(* Memory for TLC: two RAM untypeds, and the smallest Mega_Page that has   *)
(* an inside.                                                              *)
EXTENDS Memory

RamTwo == <<1, 2>>
=============================================================================
