-------------------------------- MODULE MCMsg -------------------------------
(* Instances of Msg for TLC. *)
EXTENDS Msg, TLC

OwnPids == "c1" :> 2 @@ "c2" :> 3
=============================================================================
