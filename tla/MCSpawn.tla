------------------------------ MODULE MCSpawn -------------------------------
(* Instances of Spawn for TLC. *)
EXTENDS Spawn

RamFour == <<1, 3>>
TwoStdio == <<"in", "out">>
Program(from, image, relro, mf) ==
    [from |-> from, image |-> image, relro |-> relro, mf |-> mf]
FivePrograms == {Program("cpio", "static", 0, 0), Program("cpio", "bad", 0, 0),
                 Program("cpio", "dyn", 2, 0), Program("fs", "dyn", 1, 1),
                 Program("fs", "static", 0, 2)}
=============================================================================
