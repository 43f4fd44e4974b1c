---------------------------- MODULE MC_RedisRpc -----------------------------
(* Instances of RedisRpc for TLC: the pytest process and a sai CLI beside it. *)
EXTENDS RedisRpc, TLC

CONSTANTS pytest, cli

TwoAndOne == pytest :> 2 @@ cli :> 1
TwoAlone == pytest :> 2
=============================================================================
