----------------------------- MODULE MCProcess -----------------------------
(* Small instances of Process for TLC. *)
EXTENDS Process

MCThreads1 == {"main"}
MCThreads2 == {"main", "worker"}
=============================================================================
