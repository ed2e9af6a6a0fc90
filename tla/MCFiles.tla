------------------------------- MODULE MCFiles ------------------------------
(* Instances of Files for TLC. *)
EXTENDS Files

Entry(name) == [name |-> name, link |-> <<>>]
ThreeEntries == <<Entry(<<"sbin", "init">>), Entry(<<"bin", "qsh">>),
                  [name |-> <<"sbin", "sh">>, link |-> <<"bin", "qsh">>]>>
TwoChildren == <<"dev", "sbin">>
OneDev == <<"null">>
OneSys == <<"board">>
TableOf == <<3, 2>>
SomePaths == {<<>>, <<"sbin">>, <<"sbin", "sh">>, <<"dev">>, <<"dev", "null">>,
              <<"sys">>, <<"sys", "board">>, <<"proc">>, <<"proc", 3>>, <<"proc", 3, "info">>}
=============================================================================
