---------------------------- MODULE MC_RecReplay ----------------------------
(* An instance of RecReplay for TLC: all recordings with few objects. *)
EXTENDS RecReplay
=============================================================================
