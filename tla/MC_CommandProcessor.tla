------------------------ MODULE MC_CommandProcessor ------------------------
(* A VLAN, a VLAN member and an FDB entry, as in tests/test_l2_basic_dd.py; *)
(* every list of up to three creates, and of one create and another command. *)
EXTENDS CommandProcessor

DdNames == {"vlan", "member", "fdb"}
DdRefs == [n \in DdNames |-> IF n = "vlan" THEN {} ELSE {"vlan"}]

DdCommand(k) == [op : k, name : DdNames]
DdLists ==
  UNION {[1..k -> DdCommand({"create"})] : k \in 1..3}
    \cup {<<k>> : k \in DdCommand({"remove", "set", "get"})}
    \cup {<<j, k>> : j \in DdCommand({"create"}), k \in DdCommand({"remove", "get"})}
=============================================================================
