---------------------------- MODULE TestSession -----------------------------
(***************************************************************************)
(* pytest sessions on one testbed (tests/conftest.py, SaiTestbed): the DUT *)
(* and the NPU are initialised, the modules of a suite run one after the   *)
(* other, the testbed is shut down.  A test has a setup phase (fixtures,   *)
(* module fixtures first), a call and a teardown phase; the hook           *)
(* pytest_runtest_makereport() turns their outcomes into the flag          *)
(* _previous_test_failed, which tells the next test's fixture to reset the *)
(* NPU.  The switch is NpuTopology's machine, the DUT the module SonicDut. *)
(***************************************************************************)
EXTENDS NpuTopology, SonicDut

CONSTANTS
  Suites,     \* [mode, board : [ports, implicit, sku], modules : sequence of [kind,
              \* tests], points : the calls of a handler that may fail of themselves]
  MaxFaults   \* how many do, in a session

(* Kinds of test modules: a layout stands for tests/native, whose modules  *)
(* build it; "plain" modules reset the NPU after a failure (test_l2_basic),*)
(* "dc_t1" is test_dc_t1, which does not.                                  *)
ModuleKinds == Layouts \cup {"plain", "dc_t1"}

ASSUME SessionAssumption ==
  /\ \A s \in Suites : /\ s.mode \in {"none", "sonic", "sonic-restore"}
                       /\ s.board.ports \in Nat \ {0} /\ s.board.sku \in Nat
                       /\ s.board.implicit \in 0..s.board.ports
                       /\ s.points \subseteq Nat \ {0}
                       /\ s.modules \in Seq([kind : ModuleKinds, tests : Nat \ {0}])
                       /\ s.modules # <<>>
  /\ MaxFaults \in Nat

VARIABLES
  suite,      \* the suite and testbed of this run
  phase,      \* where the session is
  k, t,       \* module and test, counted from 1
  sw,         \* the switch and what the Python objects know of it
  fix,        \* the module fixture: "none", "up", "error" or "skip"
  flag,       \* _previous_test_failed
  current, previous, lastFailed,   \* names in conftest.py, 0 for None
  faults,     \* calls that failed for no reason of the model's, this session
  failedIn,   \* history: modules with a failed call phase
  unreset,    \* history: something has failed, and no test has recovered since
  forgot      \* history: ... and the flag was cleared all the same

sessionVars == <<suite, phase, k, t, sw, fix, flag, current, previous, lastFailed,
                 faults, failedIn, unreset, forgot>>
trackVars == <<current, previous, lastFailed>>
vars == <<sessionVars, dutVars>>

Init ==
  /\ suite \in Suites
  /\ phase = "idle" /\ k = 1 /\ t = 1
  /\ sw = Blank /\ fix = "none" /\ flag = FALSE
  /\ current = 0 /\ previous = 0 /\ lastFailed = 0
  /\ faults = 0 /\ failedIn = {} /\ unreset = FALSE /\ forgot = FALSE
  /\ DutInit

Module == suite.modules[k]
Native == Module.kind \in Layouts
HasDut == suite.mode # "none"

Points == suite.points \cup {0}

(* Nothing fails, or one of the calls of a handler does.                   *)
Bad(b) == b # 0 => b \in suite.points /\ faults < MaxFaults
Count(b) == faults' = IF b = 0 THEN faults ELSE faults + 1

(* Who called has caught the exception: the machine can be used again.     *)
Caught(m) ==
  [objs |-> m.objs, pvid |-> m.pvid, next |-> m.next, attr |-> m.attr, lists |-> m.lists,
   ok |-> TRUE]

(* The report of a phase that failed, passed or was skipped.               *)
SetupFailed == flag' = TRUE /\ unreset' = TRUE /\ UNCHANGED forgot
SetupDone == flag' = FALSE /\ forgot' = (forgot \/ flag) /\ UNCHANGED unreset
\* Mutant: only a failed setup is noted.
LaterFailedUnnoted == unreset' = TRUE /\ UNCHANGED <<flag, forgot>>

LaterFailed == flag' = TRUE /\ unreset' = TRUE /\ UNCHANGED forgot

-----------------------------------------------------------------------------
(* testbed_instance: a new process, SaiTestbed.init().  A session starts   *)
(* when the device has run what the one before has sent.                   *)
Begin ==
  /\ phase = "idle" /\ Drained
  /\ IF HasDut THEN Call("init", InitSteps) ELSE UNCHANGED dutVars
  /\ phase' = "starting"
  /\ k' = 1 /\ t' = 1 /\ sw' = Blank /\ fix' = "none" /\ flag' = FALSE
  /\ current' = 0 /\ previous' = 0 /\ lastFailed' = 0
  /\ faults' = 0 /\ failedIn' = {} /\ unreset' = FALSE /\ forgot' = FALSE
  /\ UNCHANGED suite

(* npu.reset() starts with Sai.cleanup(), which calls dut.cleanup() first. *)
StartReset(next) ==
  /\ phase' = next
  /\ IF HasDut THEN Call("cleanup", CleanupSteps) ELSE UNCHANGED dutVars

DutReady ==
  /\ phase = "starting" /\ prog = <<>>
  /\ IF gaveUp THEN phase' = "idle" /\ UNCHANGED dutVars ELSE StartReset("booting")
  /\ UNCHANGED <<suite, k, t, sw, fix, flag, trackVars, faults, failedIn, unreset, forgot>>

(* An error in testbed_instance ends the session: every test has it.       *)
NpuReady ==
  /\ phase = "booting" /\ prog = <<>>
  /\ \/ gaveUp /\ phase' = "idle" /\ UNCHANGED <<sw, faults>>
     \/ ~gaveUp /\ \E b \in Points :
          /\ Bad(b) /\ Count(b)
          /\ sw' = Caught(Reset(sw, suite.board, b))
          /\ phase' = IF Reset(sw, suite.board, b).ok THEN "module" ELSE "idle"
  /\ UNCHANGED <<suite, k, t, fix, flag, trackVars, failedIn, unreset, forgot, dutVars>>

-----------------------------------------------------------------------------
(* Setup phase.                                                            *)

(* A test with a skip mark: no fixture runs.                               *)
MarkedSkip ==
  /\ phase = "module"
  /\ phase' = "after" /\ SetupDone
  /\ UNCHANGED <<suite, k, t, sw, fix, trackVars, faults, failedIn, dutVars>>

\* Mutant: a failure of a module before the last one is not forgotten.
TrackKeepsFailure == previous' = current /\ current' = k /\ UNCHANGED lastFailed

(* track_module, at the first test of a module that has fixtures run       *)
Track_module ==
  /\ previous' = current /\ current' = k
  /\ lastFailed' = IF current # lastFailed THEN 0 ELSE lastFailed

(* register_topology: a new topology object, setup(layout); dc_t1_topology *)
FixtureSetup(b) ==
  LET fresh == [sw EXCEPT !.attr = (DefaultVlan :> @[DefaultVlan]),
                          !.lists = Forget(sw).lists]
  IN  CASE Native -> Setup(fresh, Module.kind, b)
        [] Module.kind = "dc_t1" -> DcT1Setup(fresh, b)
        [] OTHER -> fresh

ModuleSetup ==
  /\ phase = "module" /\ fix = "none"
  /\ Track_module
  /\ \E b \in Points :
       LET after == FixtureSetup(b)
       IN  /\ Bad(b) /\ (b = 0 \/ Module.kind # "plain") /\ Count(b)
           /\ sw' = Caught(after)
           /\ \/ ~after.ok /\ fix' = "error" /\ SetupFailed /\ phase' = "after"
              \/ /\ after.ok /\ Native /\ TooFewPorts(sw)
                 /\ fix' = "skip" /\ SetupDone /\ phase' = "after"
              \/ /\ after.ok /\ ~(Native /\ TooFewPorts(sw))
                 /\ fix' = "up" /\ phase' = "function" /\ UNCHANGED <<flag, unreset, forgot>>
  /\ UNCHANGED <<suite, k, t, failedIn, dutVars>>

(* The fixture's result, or its error, is kept for the module's tests.     *)
ModuleSetupKept ==
  /\ phase = "module" /\ fix # "none"
  /\ \/ fix = "error" /\ SetupFailed /\ phase' = "after"
     \/ fix = "skip" /\ SetupDone /\ phase' = "after"
     \/ fix = "up" /\ phase' = "function" /\ UNCHANGED <<flag, unreset, forgot>>
  /\ UNCHANGED <<suite, k, t, sw, fix, trackVars, faults, failedIn, dutVars>>

(* on_prev_test_failure: npu.reset(), and _topo.setup() in native tests    *)
FunctionSetup ==
  /\ phase = "function"
  /\ IF flag /\ Module.kind # "dc_t1"
       THEN StartReset("recovering") /\ UNCHANGED <<flag, unreset, forgot>>
       ELSE phase' = "body" /\ SetupDone /\ UNCHANGED dutVars
  /\ UNCHANGED <<suite, k, t, sw, fix, trackVars, faults, failedIn>>

(* setup() skips the test if the reset has left too few ports.             *)
Recover ==
  /\ phase = "recovering" /\ prog = <<>>
  /\ \/ gaveUp /\ SetupFailed /\ phase' = "after" /\ UNCHANGED <<sw, faults>>
     \/ ~gaveUp /\ \E b, c \in Points :
          LET reset == Reset(sw, suite.board, b)
              rebuild == reset.ok /\ Native
              after == IF rebuild THEN Setup(reset, Module.kind, c) ELSE reset
          IN  /\ 0 \in {b, c} /\ Bad(b) /\ Bad(c) /\ (c = 0 \/ rebuild) /\ Count(b + c)
              /\ sw' = Caught(after)
              /\ \/ ~after.ok /\ SetupFailed /\ phase' = "after"
                 \/ rebuild /\ TooFewPorts(reset) /\ SetupDone /\ phase' = "after"
                 \/ /\ after.ok /\ ~(rebuild /\ TooFewPorts(reset))
                    /\ flag' = FALSE /\ unreset' = FALSE /\ forgot' = FALSE
                    /\ phase' = "body"
  /\ UNCHANGED <<suite, k, t, fix, trackVars, failedIn, dutVars>>

-----------------------------------------------------------------------------
(* Call phase.                                                             *)

Fdb(vlan, bp) == Make("FDB", {vlan, bp}, "static", <<>>, "")

(* test_l2_access_to_access_vlan(), up to the try and in its finally part; *)
(* a test of tests/native; test_basic_route().                             *)
BodyCalls ==
  LET bp == IF sw.lists.bps = <<>> THEN <<"IndexError">> ELSE sw.lists.bps[1]
      member == MemberOf(sw, sw.attr[DefaultVlan], bp)
  IN  CASE Native -> <<Fdb(Vlan(10), PortBp(0)), Drop(<<"FDB", "static">>)>>
        [] Module.kind = "dc_t1" -> <<Route("test"), Drop(<<"ROUTE", "test">>)>>
        [] OTHER ->
             <<Make("VLAN", {}, 10, <<"v">>, ""),
               Drop(IF member = {} THEN <<"None">> ELSE CHOOSE x \in member : TRUE),
               Make("VLANM", {<<"v">>, bp}, "untagged", <<"vm">>, ""),
               Pvid(sw.lists.ports[1], 10), Fdb(<<"v">>, bp),
               Drop(<<"FDB", "static">>), Drop(<<"vm">>),
               Make("VLANM", {DefaultVlan, bp}, "untagged", <<>>, ""),
               Pvid(sw.lists.ports[1], DefaultVlanId), Drop(<<"v">>)>>

CallFailed ==
  /\ LaterFailed
  /\ failedIn' = failedIn \cup {current} /\ lastFailed' = current

(* The body passes or skips, fails in its checks, or a call of it raises.  *)
Body ==
  /\ phase = "body"
  /\ \E b \in 0..Len(BodyCalls) :
       LET after == Run(sw, BodyCalls, b)
       IN  /\ sw' = Caught(after)
           /\ \/ after.ok /\ UNCHANGED <<flag, unreset, forgot, failedIn, lastFailed>>
              \/ CallFailed
  /\ phase' = "after"
  /\ UNCHANGED <<suite, k, t, fix, current, previous, faults, dutVars>>

-----------------------------------------------------------------------------
(* Teardown phase, and on to the next test.                                *)

LastTest == t = Module.tests
FixtureTeardown(b) ==
  IF Native THEN Teardown(sw, Module.kind, b) ELSE DcT1Teardown(sw, b)

ModuleTeardown ==
  /\ phase = "after" /\ LastTest /\ fix = "up" /\ Module.kind # "plain"
  /\ \E b \in Points :
       LET after == FixtureTeardown(b)
       IN  /\ Bad(b) /\ Count(b)
           /\ sw' = Caught(after)
           /\ \/ after.ok /\ UNCHANGED <<flag, unreset, forgot>>
              \/ ~after.ok /\ LaterFailed
  /\ fix' = "none"
  /\ UNCHANGED <<suite, phase, k, t, trackVars, failedIn, dutVars>>

NextTest ==
  /\ phase = "after"
  /\ \/ ~LastTest /\ t' = t + 1 /\ phase' = "module" /\ UNCHANGED <<k, fix>>
     \/ /\ LastTest /\ (fix # "up" \/ Module.kind = "plain")
        /\ fix' = "none" /\ t' = 1
        /\ IF k < Len(suite.modules) THEN k' = k + 1 /\ phase' = "module"
           ELSE UNCHANGED k /\ phase' = "ending"
  /\ UNCHANGED <<suite, sw, flag, trackVars, faults, failedIn, unreset, forgot, dutVars>>

(* SaiTestbed.deinit(): of the DUT; the clients' deinit() does nothing.    *)
End ==
  /\ phase = "ending" /\ prog = <<>>
  /\ IF suite.mode = "sonic-restore" THEN Call("deinit", DeinitSteps(suite.mode))
     ELSE UNCHANGED dutVars
  /\ phase' = "idle"
  /\ UNCHANGED <<suite, k, t, sw, fix, flag, trackVars, faults, failedIn, unreset, forgot>>

DutStep == DutNext /\ UNCHANGED sessionVars

Next ==
  \/ Begin \/ DutReady \/ NpuReady \/ MarkedSkip \/ ModuleSetup \/ ModuleSetupKept
  \/ FunctionSetup \/ Recover \/ Body \/ ModuleTeardown \/ NextTest \/ End \/ DutStep

Spec == Init /\ [][Next]_vars

-----------------------------------------------------------------------------
TypeOK ==
  /\ phase \in {"idle", "starting", "booting", "module", "function", "recovering",
                "body", "after", "ending"}
  /\ k \in 1..Len(suite.modules) /\ t \in 1..Module.tests
  /\ fix \in {"none", "up", "error", "skip"} /\ sw.ok
  /\ {current, previous, lastFailed} \subseteq 0..Len(suite.modules)
  /\ faults \in 0..MaxFaults /\ {flag, unreset, forgot} \subseteq BOOLEAN
  /\ DutTypeOK

(* What init() leaves: ports with a bridge port each, in the order of the  *)
(* lists, each an untagged member of the default VLAN, and nothing else.   *)
(* Only PVIDs differ: a topology's teardown() leaves 0 on two ports.       *)
AsInitLeftIt(m) ==
  LET ports == m.lists.ports
      bps == m.lists.bps
      all == DOMAIN ports
      vlan == m.attr[DefaultVlan]
  IN  /\ Len(bps) = Len(ports)
      /\ OfKind(m, "PORT") = {ports[i] : i \in all}
      /\ OfKind(m, "BP") = {bps[i] : i \in all}
      /\ \A i \in all : m.objs[bps[i]].of = {ports[i]}
      /\ {m.objs[x] : x \in OfKind(m, "VLANM")}
           = {[of |-> {vlan, bps[i]}, key |-> "untagged"] : i \in all}
      /\ Cardinality(DOMAIN m.objs) = 3 * Len(ports) + 1
      /\ \A i \in all : m.pvid[ports[i]] \in IF i \in {1, 3} THEN {0, DefaultVlanId}
                                             ELSE {DefaultVlanId}

(* Unless something has failed since the last reset, a test module finds   *)
(* the switch as SaiNpu.init() leaves it, whatever the modules before it   *)
(* set up, and whatever ports the switch or its SKU has.                   *)
RoundTrip ==
  phase = "module" /\ fix = "none" /\ ~unreset => AsInitLeftIt(sw)

(* The calls of init(), set_sku_mode(), setup(), teardown() and dc_t1 are  *)
(* in an order that a switch accepts: since a reset, what fails first is a *)
(* call that fails by itself, the DUT, or the body of a test.              *)
OnlyAfterFailure ==
  [][~unreset /\ unreset' => faults' > faults \/ phase = "body" \/ gaveUp]_vars

Objects(m, kind) == Cardinality(OfKind(m, kind))

(* tests/native/README.md:13: a native test runs on its topology, also     *)
(* after a failure, unless a test that did not reset the NPU (it was       *)
(* skipped, or belongs to test_dc_t1) has cleared the flag in between.     *)
TopologyInPlace ==
  phase = "body" /\ Native /\ ~forgot
    => /\ \A i \in {0, 1, 2, 3} : Exists(sw, Resolve(sw, PortBp(i)))
       /\ OfKind(sw, "FDB") = {}
       /\ Objects(sw, "LAG") = Len(sw.lists.LAG) /\ Objects(sw, "RIF") = Len(sw.lists.RIF)
       /\ Objects(sw, "VLANM") = Len(sw.lists.VLANM)

(* prev_module_failed is true only if the previous module had a failed     *)
(* call phase, and then is, until the module itself has one.               *)
PrevModuleTold ==
  LET told == lastFailed # 0 /\ lastFailed # current
      failed == previous \in failedIn
  IN  phase = "body" => /\ told => failed
                        /\ failed /\ current \notin failedIn => told
=============================================================================
