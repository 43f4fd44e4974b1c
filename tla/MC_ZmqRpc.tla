----------------------------- MODULE MC_ZmqRpc ------------------------------
(* Instances of ZmqRpc for TLC: the pytest process and a sai CLI beside it. *)
EXTENDS ZmqRpc, TLC

CONSTANTS pytest, cli

TwoAndOne == pytest :> 2 @@ cli :> 1
OneAlone == pytest :> 1
ThreeAndOne == pytest :> 3 @@ cli :> 1
=============================================================================
