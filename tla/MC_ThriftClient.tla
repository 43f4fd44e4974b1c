-------------------------- MODULE MC_ThriftClient --------------------------
(* Two object types and two numbers, so that a number is used again for    *)
(* another type; one entry key, listed up to twice in a bulk call, so that *)
(* the second entry fails; one fault: a crash, a lost connection or an     *)
(* interrupted call.                                                       *)
EXTENDS ThriftClient
=============================================================================
