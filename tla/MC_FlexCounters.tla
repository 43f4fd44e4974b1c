-------------------------- MODULE MC_FlexCounters --------------------------
(* A test and the sai command; one object that both may have polled, in    *)
(* two groups, as counters are kept by object; one request that is given   *)
(* up on and carried out later.                                            *)
EXTENDS FlexCounters
=============================================================================
