--------------------------- MODULE MC_TestSession ---------------------------
EXTENDS TestSession

M(kind, tests) == [kind |-> kind, tests |-> tests]
Board(ports, implicit, sku) == [ports |-> ports, implicit |-> implicit, sku |-> sku]
Suite(mode, board, modules, points) ==
  [mode |-> mode, board |-> board, modules |-> modules, points |-> points]

(* 25 ports or an SKU of 24 are enough for a topology, an SKU of 2 is not. *)
MCSuites ==
  {Suite("none", Board(25, 24, 0),
         <<M("l2_advanced", 2), M("l3_advanced", 2), M("plain", 1)>>, {3, 40, 110, 180}),
   Suite("none", Board(3, 0, 24),
         <<M("dc_t1", 2), M("l2_basic", 1), M("l3_basic", 1)>>, {20, 90}),
   Suite("none", Board(24, 24, 2),
         <<M("plain", 2), M("l2_basic", 2), M("plain", 1)>>, {60}),
   Suite("sonic", Board(1, 1, 0), <<M("plain", 2)>>, {}),
   Suite("sonic-restore", Board(1, 1, 0), <<M("dc_t1", 1)>>, {})}
=============================================================================
