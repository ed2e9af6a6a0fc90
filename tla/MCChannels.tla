----------------------------- MODULE MCChannels -----------------------------
(* Small instances of Channels for TLC: pid 2 has two threads, pid 3 one. *)
EXTENDS Channels

MCThreads == {<<2, 1>>, <<2, 2>>, <<3, 1>>}
MCFlags == {{}, {"direct", "global"}}
PlainFlags == {{}}
(* pid 2 is given two slots, pid 3 three. *)
MCSlots == [p \in {2, 3} |-> p]
=============================================================================
