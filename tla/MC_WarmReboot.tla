--------------------------- MODULE MC_WarmReboot ---------------------------
(* Instances of WarmReboot for TLC. *)
EXTENDS WarmReboot
=============================================================================
