----------------------------- MODULE WarmReboot -----------------------------
(***************************************************************************)
(* SaiNpu.perform_warm_reboot() and the three steps of the Redis client it *)
(* runs: pre_shutdown(), warm_shutdown(), verify_restore_after_...().      *)
(*                                                                         *)
(* The client PUBLISHes PRE-SHUTDOWN and WARM to syncd and polls one field *)
(* of STATE_DB, WARM_RESTART_TABLE|warm-shutdown state, which syncd writes *)
(* and only a reboot that got that far deletes.  FDB aging and learning    *)
(* are off while syncd is away and are restored at the end.                *)
(***************************************************************************)
EXTENDS Naturals, Sequences, FiniteSets

CONSTANTS
  BridgePorts,        \* dot1q_bp_oids
  Tout,         \* seconds to wait for a state: tout + 1 reads of the field
  MaxReboots,   \* bound: calls of perform_warm_reboot between two resets
  MaxMishaps     \* bound: syncd crashes and failed shutdowns

ASSUME WarmAssumption ==
  Tout \in Nat /\ MaxReboots \in Nat /\ MaxMishaps \in Nat

VARIABLES
  pc, left, ports, saved,   \* client: next step, reads left, bridge ports to do, aging time read
  state, enable,            \* STATE_DB: the polled field, WARM_RESTART_ENABLE_TABLE|syncd
  syncd, msgs, boot,        \* process, its unread messages, how it was started
  aging, learning,          \* FDB aging time as configured or zero, ports that learn
  reboots, mishaps,
  restarted, raised         \* history: syncd restarted in this call; a call raised

clientVars == <<pc, left, ports, saved>>
syncdVars == <<syncd, msgs, boot>>
asicVars == <<aging, learning>>
warmVars == <<clientVars, state, enable, syncdVars, asicVars, reboots, mishaps, restarted, raised>>

Subscribed == syncd \in {"running", "paused", "exiting"}
AsicQuiet == aging = "zero" /\ learning = {}
States == {"none", "pre-shutdown-succeeded", "pre-shutdown-failed",
           "warm-shutdown-succeeded", "warm-shutdown-failed"}

WarmInit ==
  /\ pc = "idle" /\ left = 0 /\ ports = {} /\ saved = "none"
  /\ state = "none" /\ enable = FALSE
  /\ syncd = "running" /\ msgs = <<>> /\ boot = "cold"
  /\ aging = "configured" /\ learning = BridgePorts
  /\ reboots = 0 /\ mishaps = 0 /\ restarted = FALSE /\ raised = FALSE

-----------------------------------------------------------------------------
(* The client.  A SAI call is answered by a syncd that is running.  With   *)
(* no answer, or one that an assertion refuses, it raises, as does a state *)
(* that does not come.                                                     *)

Raises ==
  /\ pc' = "idle" /\ raised' = TRUE
  /\ UNCHANGED <<left, ports, saved, state, enable, syncdVars, asicVars, reboots, mishaps, restarted>>

CallRaises ==
  /\ pc \in {"aging", "learning", "check", "relearn", "reage"}
  /\ Raises

BeginReboot ==
  /\ pc = "idle" /\ reboots < MaxReboots
  /\ pc' = "aging" /\ reboots' = reboots + 1 /\ restarted' = FALSE
  /\ UNCHANGED <<left, ports, saved, state, enable, syncdVars, asicVars, mishaps, raised>>

(* The aging time is read, kept, and set to 0.                             *)
DisableAging ==
  /\ pc = "aging" /\ syncd = "running"
  /\ saved' = aging /\ aging' = "zero"
  /\ ports' = BridgePorts /\ pc' = "learning"
  /\ UNCHANGED <<left, state, enable, syncdVars, learning, reboots, mishaps, restarted, raised>>

\* Mutant: the first port is enough.
DisableLearningOnce ==
  /\ pc = "learning" /\ syncd = "running"
  /\ \E p \in ports : learning' = learning \ {p}
  /\ ports' = {} /\ pc' = "pre"
  /\ UNCHANGED <<left, saved, state, enable, syncdVars, aging, reboots, mishaps, restarted, raised>>

DisableLearning ==
  /\ pc = "learning" /\ syncd = "running"
  /\ \/ \E p \in ports : learning' = learning \ {p} /\ ports' = ports \ {p} /\ pc' = pc
     \/ ports = {} /\ pc' = "pre" /\ UNCHANGED <<learning, ports>>
  /\ UNCHANGED <<left, saved, state, enable, syncdVars, aging, reboots, mishaps, restarted, raised>>

\* PUBLISH reaches the current subscriber only.
Publish(m) == msgs' = IF Subscribed THEN Append(msgs, m) ELSE msgs

PreShutdown ==
  /\ pc = "pre"
  /\ Publish("PRE-SHUTDOWN")
  /\ left' = Tout + 1 /\ pc' = "preWait"
  /\ UNCHANGED <<ports, saved, state, enable, syncd, boot, asicVars, reboots, mishaps, restarted, raised>>

\* One read of the field; the wait is over when it is the wanted state.
Await(label, wanted, next) ==
  /\ pc = label
  /\ \/ /\ left > 0 /\ left' = left - 1
        /\ pc' = IF state = wanted THEN next ELSE pc
        /\ UNCHANGED <<ports, saved, state, enable, syncdVars, asicVars, reboots, mishaps, restarted, raised>>
     \/ left = 0 /\ Raises

AwaitPre == Await("preWait", "pre-shutdown-succeeded", "enable")

\* Mutant: any state syncd reports is taken for success.
AwaitWarmAny ==
  /\ pc = "warmWait"
  /\ \/ /\ left > 0 /\ left' = left - 1
        /\ pc' = IF state # "none" THEN "clear" ELSE pc
        /\ UNCHANGED <<ports, saved, state, enable, syncdVars, asicVars, reboots, mishaps, restarted, raised>>
     \/ left = 0 /\ Raises

\* Mutant: the wait has no limit.
AwaitWarmForever ==
  /\ pc = "warmWait"
  /\ pc' = IF state = "warm-shutdown-succeeded" THEN "clear" ELSE pc
  /\ UNCHANGED <<left, ports, saved, state, enable, syncdVars, asicVars, reboots, mishaps, restarted, raised>>

AwaitWarm == Await("warmWait", "warm-shutdown-succeeded", "clear")

\* Mutant: syncd is told to shut down before it is told how to start.
EnableSkipped ==
  /\ pc = "enable" /\ pc' = "warm"
  /\ UNCHANGED <<left, ports, saved, state, enable, syncdVars, asicVars, reboots, mishaps, restarted, raised>>

SetEnable ==
  /\ pc = "enable"
  /\ enable' = TRUE /\ pc' = "warm"
  /\ UNCHANGED <<left, ports, saved, state, syncdVars, asicVars, reboots, mishaps, restarted, raised>>

WarmShutdown ==
  /\ pc = "warm"
  /\ Publish("WARM")
  /\ left' = Tout + 1 /\ pc' = "warmWait"
  /\ UNCHANGED <<ports, saved, state, enable, syncd, boot, asicVars, reboots, mishaps, restarted, raised>>

ClearState ==
  /\ pc = "clear"
  /\ state' = "none" /\ pc' = "verify"
  /\ UNCHANGED <<left, ports, saved, enable, syncdVars, asicVars, reboots, mishaps, restarted, raised>>

(* __assert_syncd_running() counts subscribers, be it the old syncd.       *)
VerifyRestore ==
  /\ pc = "verify"
  /\ \/ /\ Subscribed /\ pc' = "check"
        /\ UNCHANGED <<left, ports, saved, state, enable, syncdVars, asicVars, reboots, mishaps, restarted, raised>>
     \/ ~Subscribed /\ Raises

(* _verify_warm_boot(): get after get.                                     *)
VerifyWarmBoot ==
  /\ pc = "check" /\ syncd = "running"
  /\ ports' = BridgePorts /\ pc' = "relearn"
  /\ UNCHANGED <<left, saved, state, enable, syncdVars, asicVars, reboots, mishaps, restarted, raised>>

\* Mutant: learning is enabled on the first port.
EnableLearningOnce ==
  /\ pc = "relearn" /\ syncd = "running"
  /\ \E p \in ports : learning' = learning \cup {p}
  /\ ports' = {} /\ pc' = "reage"
  /\ UNCHANGED <<left, saved, state, enable, syncdVars, aging, reboots, mishaps, restarted, raised>>

EnableLearning ==
  /\ pc = "relearn" /\ syncd = "running"
  /\ \/ \E p \in ports : learning' = learning \cup {p} /\ ports' = ports \ {p} /\ pc' = pc
     \/ ports = {} /\ pc' = "reage" /\ UNCHANGED <<learning, ports>>
  /\ UNCHANGED <<left, saved, state, enable, syncdVars, aging, reboots, mishaps, restarted, raised>>

\* Mutant: learning is restored, aging is not.
AgingForgotten ==
  /\ pc = "reage" /\ syncd = "running" /\ pc' = "idle"
  /\ UNCHANGED <<left, ports, saved, state, enable, syncdVars, asicVars, reboots, mishaps, restarted, raised>>

RestoreAging ==
  /\ pc = "reage" /\ syncd = "running"
  /\ aging' = saved /\ pc' = "idle"
  /\ UNCHANGED <<left, ports, saved, state, enable, syncdVars, learning, reboots, mishaps, restarted, raised>>

(* reset(): FLUSHALL, a new Redis, a new syncd and a switch made anew.     *)
ResetNpu ==
  /\ pc = "idle"
  /\ state' = "none" /\ enable' = FALSE
  /\ syncd' = "running" /\ msgs' = <<>> /\ boot' = "cold"
  /\ aging' = "configured" /\ learning' = BridgePorts
  /\ reboots' = 0 /\ restarted' = FALSE /\ raised' = FALSE
  /\ UNCHANGED <<clientVars, mishaps>>

-----------------------------------------------------------------------------
(* syncd and supervisord, as docs/warm_reboot.md and the client use them.  *)

Faulty == mishaps < MaxMishaps /\ mishaps' = mishaps + 1

SyncdPreShutdown ==
  /\ syncd \in {"running", "paused"} /\ msgs # <<>> /\ Head(msgs) = "PRE-SHUTDOWN"
  /\ msgs' = Tail(msgs) /\ syncd' = "paused"
  /\ \/ state' = "pre-shutdown-succeeded" /\ UNCHANGED mishaps
     \/ state' = "pre-shutdown-failed" /\ Faulty
  /\ UNCHANGED <<clientVars, enable, boot, asicVars, reboots, restarted, raised>>

SyncdWarmShutdown ==
  /\ syncd \in {"running", "paused"} /\ msgs # <<>> /\ Head(msgs) = "WARM"
  /\ msgs' = Tail(msgs) /\ syncd' = "exiting"
  /\ \/ state' = "warm-shutdown-succeeded" /\ UNCHANGED mishaps
     \/ state' = "warm-shutdown-failed" /\ Faulty
  /\ UNCHANGED <<clientVars, enable, boot, asicVars, reboots, restarted, raised>>

SyncdExit ==
  /\ syncd = "exiting"
  /\ syncd' = "down" /\ msgs' = <<>>
  /\ UNCHANGED <<clientVars, state, enable, boot, asicVars, reboots, mishaps, restarted, raised>>

SyncdCrash ==
  /\ Subscribed /\ Faulty
  /\ syncd' = "down" /\ msgs' = <<>>
  /\ UNCHANGED <<clientVars, state, enable, boot, asicVars, reboots, restarted, raised>>

SyncdStart ==
  /\ syncd = "down"
  /\ syncd' = "running" /\ boot' = IF enable THEN "warm" ELSE "cold"
  /\ restarted' = TRUE
  /\ UNCHANGED <<clientVars, state, enable, msgs, asicVars, reboots, mishaps, raised>>

Client ==
  \/ BeginReboot \/ DisableAging \/ DisableLearning \/ PreShutdown \/ AwaitPre
  \/ SetEnable \/ WarmShutdown \/ AwaitWarm \/ ClearState \/ VerifyRestore
  \/ VerifyWarmBoot \/ EnableLearning \/ RestoreAging \/ CallRaises

Syncd == SyncdPreShutdown \/ SyncdWarmShutdown \/ SyncdExit \/ SyncdCrash \/ SyncdStart

WarmNext == Client \/ ResetNpu \/ Syncd

WarmSpec == WarmInit /\ [][WarmNext]_warmVars

(* The test keeps running; nothing is assumed of syncd.                    *)
FairWarmSpec == WarmSpec /\ WF_warmVars(pc # "idle" /\ Client)

-----------------------------------------------------------------------------
WarmTypeOK ==
  /\ pc \in {"idle", "aging", "learning", "pre", "preWait", "enable", "warm",
             "warmWait", "clear", "verify", "check", "relearn", "reage"}
  /\ left \in 0..Tout + 1 /\ ports \subseteq BridgePorts
  /\ saved \in {"none", "configured", "zero"}
  /\ pc = "reage" => saved # "none" /\ learning = BridgePorts
  /\ state \in States /\ enable \in BOOLEAN
  /\ syncd \in {"running", "paused", "exiting", "down"}
  /\ msgs \in Seq({"PRE-SHUTDOWN", "WARM"}) /\ boot \in {"cold", "warm"}
  /\ aging \in {"configured", "zero"} /\ learning \subseteq BridgePorts
  /\ reboots \in 0..MaxReboots /\ mishaps \in 0..MaxMishaps
  /\ restarted \in BOOLEAN /\ raised \in BOOLEAN

Succeeds == pc = "reage" /\ pc' = "idle" /\ raised' = raised

(* syncd shuts down for a warm reboot only while aging and learning are    *)
(* off, unless an earlier call had given up on it, and until it is down    *)
(* the flag that makes it start warm is set.                               *)
ShutdownPrepared ==
  [][syncd' = "exiting" => enable' /\ (syncd = "exiting" \/ AsicQuiet \/ raised)]_warmVars

(* A warm reboot that returns has had syncd restart during the call and    *)
(* start warm, although the polled field may be left over from an earlier  *)
(* call and the subscriber counted may be the old syncd; and aging and     *)
(* learning are what they were before, unless an earlier call had raised.  *)
RestoredUnlessGaveUp == ~raised => aging' = "configured" /\ learning' = BridgePorts
SuccessMeansWarmRestart ==
  [][Succeeds => restarted /\ boot = "warm" /\ RestoredUnlessGaveUp]_warmVars

(* "restore FDB aging and learning for the switch and bridge ports": a     *)
(* reboot that returns leaves the aging time that was configured.          *)
AgingRestored == [][Succeeds => aging' = "configured"]_warmVars

(* perform_warm_reboot() ends, whatever syncd does.                        *)
RebootEnds == pc # "idle" ~> pc = "idle"
=============================================================================
