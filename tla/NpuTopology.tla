---------------------------- MODULE NpuTopology -----------------------------
(***************************************************************************)
(* What SaiNpu and the two test topologies do to the switch: SaiNpu.init() *)
(* with or without an SKU, cleanup(), SaiPtfTopologyMixin.setup() and      *)
(* teardown(), and dc_t1.config().  Each handler is the sequence of calls  *)
(* it makes, run on a machine of SaiSwitch; the call at bad fails (0:      *)
(* none).  Port numbers and layouts are the code's.                        *)
(***************************************************************************)
EXTENDS SaiSwitch

ListNames == {"ports", "bps", "saved", "BP", "LAG", "LAGM", "VLAN", "VLANM", "RIF"}

Blank ==
  [objs |-> <<>>, pvid |-> <<>>, next |-> 0, attr |-> <<>>,
   lists |-> [l \in ListNames |-> <<>>], ok |-> TRUE]

(* What create_switch leaves on a switch of n ports: the default VLAN, the *)
(* ports, their bridge ports and some of these in the default VLAN.        *)
Boot(n, implicit) ==
  Flat(<< <<Make("VLAN", {}, DefaultVlanId, DefaultVlan, "")>>,
          [i \in 1..n |-> Make("PORT", {}, "", <<"sw", i>>, "")],
          [i \in 1..n |-> Make("BP", {<<"sw", i>>}, "", <<"swbp", i>>, "")],
          [i \in 1..implicit |->
             Make("VLANM", {DefaultVlan, <<"swbp", i>>}, "untagged", <<>>, "")] >>)

(* The switch after boot; the Python objects keep what they know.          *)
Booted(m, n, implicit) ==
  LET new == Run(Blank, Boot(n, implicit), 0)
  IN  [new EXCEPT !.attr = (DefaultVlan :> @[DefaultVlan]) @@ m.attr, !.lists = m.lists]

-----------------------------------------------------------------------------
(* SaiNpu                                                                  *)

RemoveBridgePort(h) == <<Touch(h), Flush(h), Drop(h)>>

MemberOf(m, vlan, bp) ==
  {x \in OfKind(m, "VLANM") : m.objs[x].of = {vlan, bp}}

(* set_sku_mode(): remove the ports there are, create those of the SKU.    *)
SetSkuMode(m, sku) ==
  LET port(i) == m.lists.ports[i]
      bp(i) == m.lists.bps[i]
      member(i) == MemberOf(m, m.attr[DefaultVlan], bp(i))
      gone(i) == (IF member(i) = {} THEN <<>> ELSE <<Drop(CHOOSE x \in member(i) : TRUE)>>)
                 \o RemoveBridgePort(bp(i)) \o <<Drop(port(i))>>
  IN  Flat(<< Flat([i \in 1..Len(m.lists.bps) |-> gone(i)]),
              <<Track("ports", <<>>), Track("bps", <<>>)>>,
              [i \in 1..sku |-> Make("PORT", {}, "", <<"sku", i>>, "ports")],
              [i \in 1..sku |-> Make("BP", {<<"sku", i>>}, "", <<>>, "bps")],
              [i \in 1..sku |-> Join(i)] >>)

(* init(): learn the ports; then the SKU's, or the missing VLAN members.   *)
(* sku = 0: none is configured.                                            *)
LearnPorts == <<Refresh("ports", "PORT"), Refresh("bps", "BP")>>

InitCalls(m, sku) ==
  LET known == Run(m, LearnPorts, 0)
  IN  LearnPorts \o IF sku = 0 THEN [i \in 1..Len(known.lists.bps) |-> Join(i)]
                    ELSE SetSkuMode(known, sku)

(* Sai.cleanup() empties the switch; SaiNpu.cleanup() then its own lists.  *)
Cleanup(m) ==
  [m EXCEPT !.objs = <<>>, !.pvid = <<>>, !.next = 0,
            !.lists.ports = <<>>, !.lists.bps = <<>>]

(* reset() = cleanup() and init([]); board: [ports, implicit, sku]         *)
Reset(m, board, bad) ==
  LET booted == Booted(Cleanup(m), board.ports, board.implicit)
  IN  Run(booted, InitCalls(booted, board.sku), bad)

-----------------------------------------------------------------------------
(* SaiPtfTopologyMixin                                                     *)

Layouts == {"l2_basic", "l2_advanced", "l3_basic", "l3_advanced"}
Ports == 0..23

Port(i) == <<"port", i>>
PortBp(i) == <<"port_bp", i>>
Lag(i) == <<"lag", i>>
LagBp(i) == <<"lag_bp", i>>
Vlan(i) == <<"vlan", i>>
Saved(i) == <<"saved", i>>
Tag(i) == <<"tag", i>>

(* Members of the default VLAN, by id: kept as (port, tag), then removed.  *)
RemoveDefaultVlanMembers(m) ==
  LET vlan == m.attr[DefaultVlan]
      members == InOrder({x \in OfKind(m, "VLANM") : vlan \in m.objs[x].of})
      port(x) == CHOOSE p \in m.objs[CHOOSE b \in m.objs[x].of : b # vlan].of : TRUE
      save(i) == <<Touch(members[i]),
                   Let(Saved(i), port(members[i])), Let(Tag(i), m.objs[members[i]].key),
                   Track("saved", [j \in 1..i |-> Saved(j)]), Drop(members[i])>>
  IN  Flat([i \in 1..Len(members) |-> save(i)])

RemoveDefaultBridgePorts(m) ==
  Flat([i \in 1..Len(m.lists.ports) |->
          IF i <= Len(m.lists.bps) THEN RemoveBridgePort(m.lists.bps[i])
          ELSE <<Touch(<<"IndexError">>)>>])

CreateBridgePorts(ports) ==
  [i \in DOMAIN ports |-> Make("BP", {Port(ports[i])}, "", PortBp(ports[i]), "BP")]

CreateLag(l, ports) ==
  <<Make("LAG", {}, "", Lag(l), "LAG"), Make("BP", {Lag(l)}, "", LagBp(l), "BP")>>
  \o [i \in DOMAIN ports |-> Make("LAGM", {Lag(l), Port(ports[i])}, "", <<>>, "LAGM")]

CreateVlan(v, bps, tags) ==
  <<Make("VLAN", {}, v, Vlan(v), "VLAN")>>
  \o [i \in DOMAIN bps |-> Make("VLANM", {Vlan(v), bps[i]}, tags[i], <<>>, "VLANM")]

CreateRoutingInterfaces(on) ==
  [i \in DOMAIN on |-> Make("RIF", {on[i]}, "", <<>>, "RIF")]

Route(prefix) == Make("ROUTE", {}, prefix, <<>>, "")
CreateDefaultRoutes == <<Route("v4"), Route("v6")>>

(* create_sai_helper_topology(); members 2 of VLANs 10 and 20 are listed   *)
(* for removal when both have been created.                                *)
L2Basic ==
  Flat(<<CreateBridgePorts(<<0, 1, 2, 3>>),
         CreateVlan(10, <<PortBp(0), PortBp(1)>>, <<"untagged", "tagged">>),
         CreateVlan(20, <<PortBp(2), PortBp(3)>>, <<"untagged", "tagged">>),
         <<Pvid(Port(0), 10), Pvid(Port(2), 20)>> >>)

Second(v) == <<"vlan_member2", v>>

L2Advanced ==
  Flat(<<CreateLag(1, <<4, 5, 6>>), CreateLag(2, <<7, 8, 9>>),
         <<Make("VLANM", {Vlan(10), LagBp(1)}, "untagged", Second(10), ""),
           Make("VLANM", {Vlan(20), LagBp(2)}, "untagged", Second(20), ""),
           Extend("VLANM", <<Second(10), Second(20)>>),
           Pvid(Lag(1), 10)>> >>)

L3Basic ==
  CreateRoutingInterfaces([i \in 1..4 |-> Port(9 + i)]) \o CreateDefaultRoutes

L3Advanced ==
  Flat(<<CreateBridgePorts(<<20, 21>>), CreateLag(3, <<14, 15, 16>>),
         CreateLag(4, <<17, 18, 19>>), CreateLag(5, <<22, 23>>),
         CreateVlan(30, <<PortBp(20), PortBp(21), LagBp(5)>>,
                    <<"untagged", "tagged", "untagged">>),
         CreateRoutingInterfaces(<<Vlan(30), Lag(3), Lag(4)>>)>>)

HelperTopology(layout) ==
  L2Basic \o CASE layout = "l2_basic" -> <<>>
               [] layout = "l2_advanced" -> L2Advanced
               [] layout = "l3_basic" -> L2Advanced \o L3Basic
               [] layout = "l3_advanced" -> L2Advanced \o L3Basic \o L3Advanced

(* setup() up to the test of the number of ports                           *)
Forget(m) ==
  [m EXCEPT !.lists = [l \in ListNames |-> IF l \in {"ports", "bps"} THEN @[l] ELSE <<>>]]

TooFewPorts(m) == Len(m.lists.ports) < Cardinality(Ports)

SetupCalls(m, layout) ==
  Flat(<< [i \in 1..Cardinality(Ports) |-> Let(Port(i - 1), m.lists.ports[i])],
          RemoveDefaultVlanMembers(m), RemoveDefaultBridgePorts(m),
          HelperTopology(layout) >>)

Setup(m, layout, bad) ==
  IF TooFewPorts(m) THEN Forget(m)
  ELSE Run(Forget(m), SetupCalls(m, layout), bad)

(* The loops that remove what is on a list, and then clear the list.       *)
Removed(list, s) == For(s, LAMBDA o : <<Drop(o)>>) \o <<Track(list, <<>>)>>
Reversed(s) == [i \in DOMAIN s |-> s[Len(s) + 1 - i]]

DestroyDefaultRoutes == <<Drop(<<"ROUTE", "v4">>), Drop(<<"ROUTE", "v6">>)>>
DestroyRoutingInterfaces(m) == Removed("RIF", Reversed(m.lists.RIF))

\* Mutant: VLANs are removed before their members.
DestroyVlansFirst(m) == Removed("VLAN", m.lists.VLAN) \o Removed("VLANM", m.lists.VLANM)

DestroyVlans(m) == Removed("VLANM", m.lists.VLANM) \o Removed("VLAN", m.lists.VLAN)
DestroyBridgePorts(m) ==
  For(Reversed(m.lists.BP), RemoveBridgePort) \o <<Track("BP", <<>>)>>
DestroyLags(m) == Removed("LAGM", m.lists.LAGM) \o Removed("LAG", m.lists.LAG)

\* Mutant: npu.dot1q_bp_oids is not read again.
RestoreUnlisted(m) ==
  [i \in DOMAIN m.lists.saved |-> Make("BP", {Saved(i)}, "", Saved(i), "")]

RestoreDefaultBridgePorts(m) ==
  [i \in DOMAIN m.lists.saved |-> Make("BP", {Saved(i)}, "", Saved(i), "")]
  \o <<Refresh("bps", "BP")>>

RestoreDefaultVlanMembers(m) ==
  [i \in DOMAIN m.lists.saved |->
     Make("VLANM", {DefaultVlan, Saved(i)}, m.attr[Tag(i)], <<>>, "")]

TeardownCalls(m, layout) ==
  Flat(<< <<Pvid(Port(2), 0), Pvid(Port(0), 0)>>,
          IF layout = "l2_basic" THEN <<>> ELSE <<Pvid(Lag(1), 0)>>,
          IF layout \in {"l3_basic", "l3_advanced"} THEN DestroyDefaultRoutes ELSE <<>>,
          DestroyRoutingInterfaces(m), DestroyVlans(m), DestroyBridgePorts(m),
          DestroyLags(m), RestoreDefaultBridgePorts(m), RestoreDefaultVlanMembers(m) >>)

Teardown(m, layout, bad) == Run(m, TeardownCalls(m, layout), bad)

-----------------------------------------------------------------------------
(* dc_t1.config()                                                          *)

LoRif == <<"lo_rif">>
LoRoutes == <<"v4", "v6", "lo", "link_local">>

DcT1Setup(m, bad) ==
  LET vlan == m.attr[DefaultVlan]
      members == InOrder({x \in OfKind(m, "VLANM") : vlan \in m.objs[x].of})
      bps == InOrder(OfKind(m, "BP"))
  IN  Run(m, Flat(<< <<Make("RIF", {}, "", LoRif, "")>>,
                     For(members, LAMBDA o : <<Drop(o)>>), For(bps, RemoveBridgePort),
                     <<Track("bps", <<>>)>>, For(LoRoutes, LAMBDA r : <<Route(r)>>) >>), bad)

DcT1Teardown(m, bad) ==
  LET n == Len(m.lists.ports)
      port(i) == m.lists.ports[i]
  IN  Run(m, Flat(<< For(Reversed(LoRoutes), LAMBDA r : <<Drop(<<"ROUTE", r>>)>>),
                     [i \in 1..n |-> Make("BP", {port(i)}, "", <<"dcbp", i>>, "bps")],
                     Flat([i \in 1..n |->
                       <<Make("VLANM", {DefaultVlan, <<"dcbp", i>>}, "untagged", <<>>, ""),
                         Pvid(port(i), DefaultVlanId)>>]),
                     <<Drop(LoRif)>> >>), bad)
=============================================================================
