---------------------------- MODULE MC_VidAlloc ----------------------------
(* Instances of VidAlloc for TLC. *)
EXTENDS VidAlloc, TLC

Symmetry == Permutations(Clients)
=============================================================================
