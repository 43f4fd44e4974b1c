---------------------------- MODULE MC_RemoteCmd ----------------------------
(* Instances of RemoteCmd for TLC: the pytest process and a sai CLI beside it. *)
EXTENDS RemoteCmd, TLC

CONSTANTS pytest, cli

TwoAndOne == pytest :> 2 @@ cli :> 1
=============================================================================
