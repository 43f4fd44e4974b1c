-------------------------- MODULE Lifecycle_proofs --------------------------
(***************************************************************************)
(* Proofs about what happens around the SAI calls: warm reboots of the     *)
(* switch (WarmReboot, first part), and test sessions with the DUT that    *)
(* they drive (TestSession and SonicDut, second part), for every suite,    *)
(* set of bridge ports, timeout and bound.                                 *)
(***************************************************************************)
EXTENDS TestSession, WarmReboot, Integers, SequenceTheorems, TLAPS

-----------------------------------------------------------------------------
(* Warm reboots.                                                           *)

Warned == \E i \in 1..Len(msgs) : msgs[i] = "WARM"

BehindAging ==
  {"learning", "pre", "preWait", "enable", "warm", "warmWait", "clear", "verify",
   "check", "relearn", "reage"}

(* The aging time has been read, and the ports that do not learn yet are   *)
(* those still to be done.                                                 *)
WarmProgress ==
  /\ pc \in BehindAging => saved # "none"
  /\ pc = "relearn" => BridgePorts \subseteq learning \cup ports

(* Syncd is never told WARM before the flag is set, and only a reset, which *)
(* takes away the messages as well, clears the flag.                       *)
EnabledFirst == Warned \/ syncd = "exiting" \/ pc \in {"warm", "warmWait"} => enable

(* Behind the first wait, the state that ends the second one can only have *)
(* come from a shutdown during this call.                                  *)
Restarting == enable /\ (syncd \in {"exiting", "down"} \/ (restarted /\ boot = "warm"))

ComesBackWarm ==
  /\ pc \in {"enable", "warm", "warmWait"} /\ state = "warm-shutdown-succeeded" => Restarting
  /\ pc \in {"clear", "verify", "check"} => Restarting
  /\ pc \in {"relearn", "reage"} => enable /\ restarted /\ boot = "warm"

(* As long as no call has raised: what was configured is what was saved,   *)
(* aging and learning are off from the first to the last step that needs   *)
(* it, and WARM is on its way only while the client waits for its effect.  *)
NoneRaised ==
  ~raised =>
    /\ pc \in {"idle", "aging"} => aging = "configured" /\ learning = BridgePorts
    /\ pc \in BehindAging => aging = "zero" /\ saved = "configured"
    /\ pc = "learning" => learning \subseteq ports
    /\ pc \in BehindAging \ {"learning", "relearn", "reage"} => learning = {}
    /\ Warned => pc = "warmWait" /\ state # "warm-shutdown-succeeded"
    /\ \A i \in 1..Len(msgs) : msgs[i] = "WARM" => i = Len(msgs)
    /\ state = "warm-shutdown-succeeded" => pc \in {"warmWait", "clear"}

WarmInv == WarmTypeOK /\ WarmProgress /\ EnabledFirst /\ ComesBackWarm /\ NoneRaised

-----------------------------------------------------------------------------
LEMMA WarmNextCases ==
  ASSUME [WarmNext]_warmVars
  PROVE  \/ BeginReboot \/ DisableAging \/ DisableLearning \/ PreShutdown \/ AwaitPre \/ SetEnable
         \/ WarmShutdown \/ AwaitWarm \/ ClearState \/ VerifyRestore \/ VerifyWarmBoot
         \/ EnableLearning \/ RestoreAging \/ CallRaises \/ ResetNpu
         \/ SyncdPreShutdown \/ SyncdWarmShutdown \/ SyncdExit \/ SyncdCrash \/ SyncdStart
         \/ UNCHANGED warmVars
BY DEF WarmNext, Client, Syncd

(* Relearning ends when no port is left, so that all of them learn.        *)
LEMMA WarmTypeStep == WarmTypeOK /\ WarmProgress /\ [WarmNext]_warmVars => WarmTypeOK'
<1> SUFFICES ASSUME WarmTypeOK, WarmProgress, [WarmNext]_warmVars PROVE WarmTypeOK'
  OBVIOUS
<1> USE DEF clientVars, syncdVars, asicVars, WarmTypeOK, WarmProgress, BehindAging, States
<1>1. CASE BeginReboot
  <2>1. reboots' \in 0..MaxReboots
    BY <1>1, WarmAssumption DEF BeginReboot
  <2>2. QED
    BY <1>1, <2>1 DEF BeginReboot
<1>2. CASE DisableAging
  BY <1>2 DEF DisableAging
<1>3. CASE DisableLearning
  BY <1>3 DEF DisableLearning
<1>4. CASE PreShutdown
  BY <1>4 DEF PreShutdown, Publish
<1>5. CASE AwaitPre
  <2>1. left' \in 0..Tout + 1
    BY <1>5, WarmAssumption DEF AwaitPre, Await, Raises
  <2>2. QED
    BY <1>5, <2>1 DEF AwaitPre, Await, Raises
<1>6. CASE SetEnable
  BY <1>6 DEF SetEnable
<1>7. CASE WarmShutdown
  BY <1>7 DEF WarmShutdown, Publish
<1>8. CASE AwaitWarm
  <2>1. left' \in 0..Tout + 1
    BY <1>8, WarmAssumption DEF AwaitWarm, Await, Raises
  <2>2. QED
    BY <1>8, <2>1 DEF AwaitWarm, Await, Raises
<1>9. CASE ClearState
  BY <1>9 DEF ClearState
<1>10. CASE VerifyRestore
  BY <1>10 DEF VerifyRestore, Raises
<1>11. CASE VerifyWarmBoot
  BY <1>11 DEF VerifyWarmBoot
<1>12. CASE EnableLearning
  BY <1>12 DEF EnableLearning
<1>13. CASE RestoreAging
  BY <1>13 DEF RestoreAging
<1>14. CASE CallRaises
  BY <1>14 DEF CallRaises, Raises
<1>15. CASE ResetNpu
  <2>1. reboots' \in 0..MaxReboots /\ msgs' \in Seq({"PRE-SHUTDOWN", "WARM"})
    BY <1>15, WarmAssumption DEF ResetNpu
  <2>2. QED
    BY <1>15, <2>1 DEF ResetNpu
<1>16. CASE SyncdPreShutdown
  <2>1. mishaps' \in 0..MaxMishaps
    BY <1>16, WarmAssumption DEF SyncdPreShutdown, Faulty
  <2>2. msgs' \in Seq({"PRE-SHUTDOWN", "WARM"})
    BY <1>16 DEF SyncdPreShutdown
  <2>3. QED
    BY <1>16, <2>1, <2>2 DEF SyncdPreShutdown
<1>17. CASE SyncdWarmShutdown
  <2>1. mishaps' \in 0..MaxMishaps
    BY <1>17, WarmAssumption DEF SyncdWarmShutdown, Faulty
  <2>2. msgs' \in Seq({"PRE-SHUTDOWN", "WARM"})
    BY <1>17 DEF SyncdWarmShutdown
  <2>3. QED
    BY <1>17, <2>1, <2>2 DEF SyncdWarmShutdown
<1>18. CASE SyncdExit
  BY <1>18 DEF SyncdExit
<1>19. CASE SyncdCrash
  <2>1. mishaps' \in 0..MaxMishaps /\ msgs' \in Seq({"PRE-SHUTDOWN", "WARM"})
    BY <1>19, WarmAssumption DEF SyncdCrash, Faulty
  <2>2. QED
    BY <1>19, <2>1 DEF SyncdCrash
<1>20. CASE SyncdStart
  BY <1>20 DEF SyncdStart
<1>21. CASE UNCHANGED warmVars
  BY <1>21 DEF warmVars
<1>22. QED
  BY <1>1, <1>2, <1>3, <1>4, <1>5, <1>6, <1>7, <1>8, <1>9, <1>10, <1>11, <1>12, <1>13, <1>14, <1>15,
     <1>16, <1>17, <1>18, <1>19, <1>20, <1>21, WarmNextCases

(* A port leaves the ones to be done when it learns.                       *)
LEMMA WarmProgressStep == WarmTypeOK /\ WarmProgress /\ [WarmNext]_warmVars => WarmProgress'
<1> SUFFICES ASSUME WarmTypeOK, WarmProgress, [WarmNext]_warmVars PROVE WarmProgress'
  OBVIOUS
<1> USE DEF clientVars, syncdVars, asicVars, WarmTypeOK, WarmProgress, BehindAging
<1>1. CASE BeginReboot
  BY <1>1 DEF BeginReboot
<1>2. CASE DisableAging
  BY <1>2 DEF DisableAging
<1>3. CASE DisableLearning
  BY <1>3 DEF DisableLearning
<1>4. CASE PreShutdown
  BY <1>4 DEF PreShutdown, Publish
<1>5. CASE AwaitPre
  BY <1>5 DEF AwaitPre, Await, Raises
<1>6. CASE SetEnable
  BY <1>6 DEF SetEnable
<1>7. CASE WarmShutdown
  BY <1>7 DEF WarmShutdown, Publish
<1>8. CASE AwaitWarm
  BY <1>8 DEF AwaitWarm, Await, Raises
<1>9. CASE ClearState
  BY <1>9 DEF ClearState
<1>10. CASE VerifyRestore
  BY <1>10 DEF VerifyRestore, Raises
<1>11. CASE VerifyWarmBoot
  BY <1>11 DEF VerifyWarmBoot
<1>12. CASE EnableLearning
  BY <1>12 DEF EnableLearning
<1>13. CASE RestoreAging
  BY <1>13 DEF RestoreAging
<1>14. CASE CallRaises
  BY <1>14 DEF CallRaises, Raises
<1>15. CASE ResetNpu
  BY <1>15 DEF ResetNpu
<1>16. CASE SyncdPreShutdown
  BY <1>16 DEF SyncdPreShutdown, Faulty
<1>17. CASE SyncdWarmShutdown
  BY <1>17 DEF SyncdWarmShutdown, Faulty
<1>18. CASE SyncdExit
  BY <1>18 DEF SyncdExit
<1>19. CASE SyncdCrash
  BY <1>19 DEF SyncdCrash, Faulty
<1>20. CASE SyncdStart
  BY <1>20 DEF SyncdStart
<1>21. CASE UNCHANGED warmVars
  BY <1>21 DEF warmVars
<1>22. QED
  BY <1>1, <1>2, <1>3, <1>4, <1>5, <1>6, <1>7, <1>8, <1>9, <1>10, <1>11, <1>12, <1>13, <1>14, <1>15,
     <1>16, <1>17, <1>18, <1>19, <1>20, <1>21, WarmNextCases

(* SetEnable is passed before WARM is published.                           *)
LEMMA EnabledFirstStep == WarmTypeOK /\ EnabledFirst /\ [WarmNext]_warmVars => EnabledFirst'
<1> SUFFICES ASSUME WarmTypeOK, EnabledFirst, [WarmNext]_warmVars PROVE EnabledFirst'
  OBVIOUS
<1> USE DEF clientVars, syncdVars, asicVars, WarmTypeOK, EnabledFirst, Warned
<1>1. CASE BeginReboot
  BY <1>1 DEF BeginReboot
<1>2. CASE DisableAging
  BY <1>2 DEF DisableAging
<1>3. CASE DisableLearning
  BY <1>3 DEF DisableLearning
<1>4. CASE PreShutdown
  BY <1>4 DEF PreShutdown, Publish
<1>5. CASE AwaitPre
  BY <1>5 DEF AwaitPre, Await, Raises
<1>6. CASE SetEnable
  BY <1>6 DEF SetEnable
<1>7. CASE WarmShutdown
  BY <1>7 DEF WarmShutdown, Publish
<1>8. CASE AwaitWarm
  BY <1>8 DEF AwaitWarm, Await, Raises
<1>9. CASE ClearState
  BY <1>9 DEF ClearState
<1>10. CASE VerifyRestore
  BY <1>10 DEF VerifyRestore, Raises
<1>11. CASE VerifyWarmBoot
  BY <1>11 DEF VerifyWarmBoot
<1>12. CASE EnableLearning
  BY <1>12 DEF EnableLearning
<1>13. CASE RestoreAging
  BY <1>13 DEF RestoreAging
<1>14. CASE CallRaises
  BY <1>14 DEF CallRaises, Raises
<1>15. CASE ResetNpu
  BY <1>15 DEF ResetNpu
<1>16. CASE SyncdPreShutdown
  BY <1>16 DEF SyncdPreShutdown, Faulty
<1>17. CASE SyncdWarmShutdown
  BY <1>17 DEF SyncdWarmShutdown, Faulty
<1>18. CASE SyncdExit
  BY <1>18 DEF SyncdExit
<1>19. CASE SyncdCrash
  BY <1>19 DEF SyncdCrash, Faulty
<1>20. CASE SyncdStart
  BY <1>20 DEF SyncdStart
<1>21. CASE UNCHANGED warmVars
  BY <1>21 DEF warmVars
<1>22. QED
  BY <1>1, <1>2, <1>3, <1>4, <1>5, <1>6, <1>7, <1>8, <1>9, <1>10, <1>11, <1>12, <1>13, <1>14, <1>15,
     <1>16, <1>17, <1>18, <1>19, <1>20, <1>21, WarmNextCases

(* A syncd that exits with the flag set starts warm.                       *)
LEMMA ComesBackWarmStep == WarmTypeOK /\ EnabledFirst /\ ComesBackWarm /\ [WarmNext]_warmVars => ComesBackWarm'
<1> SUFFICES ASSUME WarmTypeOK, EnabledFirst, ComesBackWarm, [WarmNext]_warmVars PROVE ComesBackWarm'
  OBVIOUS
<1> USE DEF clientVars, syncdVars, asicVars, WarmTypeOK, EnabledFirst, ComesBackWarm, Restarting, Warned
<1>1. CASE BeginReboot
  BY <1>1 DEF BeginReboot
<1>2. CASE DisableAging
  BY <1>2 DEF DisableAging
<1>3. CASE DisableLearning
  BY <1>3 DEF DisableLearning
<1>4. CASE PreShutdown
  BY <1>4 DEF PreShutdown, Publish
<1>5. CASE AwaitPre
  BY <1>5 DEF AwaitPre, Await, Raises
<1>6. CASE SetEnable
  BY <1>6 DEF SetEnable
<1>7. CASE WarmShutdown
  BY <1>7 DEF WarmShutdown, Publish
<1>8. CASE AwaitWarm
  BY <1>8 DEF AwaitWarm, Await, Raises
<1>9. CASE ClearState
  BY <1>9 DEF ClearState
<1>10. CASE VerifyRestore
  BY <1>10 DEF VerifyRestore, Raises
<1>11. CASE VerifyWarmBoot
  BY <1>11 DEF VerifyWarmBoot
<1>12. CASE EnableLearning
  BY <1>12 DEF EnableLearning
<1>13. CASE RestoreAging
  BY <1>13 DEF RestoreAging
<1>14. CASE CallRaises
  BY <1>14 DEF CallRaises, Raises
<1>15. CASE ResetNpu
  BY <1>15 DEF ResetNpu
<1>16. CASE SyncdPreShutdown
  BY <1>16 DEF SyncdPreShutdown, Faulty
<1>17. CASE SyncdWarmShutdown
  BY <1>17 DEF SyncdWarmShutdown, Faulty
<1>18. CASE SyncdExit
  BY <1>18 DEF SyncdExit
<1>19. CASE SyncdCrash
  BY <1>19 DEF SyncdCrash, Faulty
<1>20. CASE SyncdStart
  BY <1>20 DEF SyncdStart
<1>21. CASE UNCHANGED warmVars
  BY <1>21 DEF warmVars
<1>22. QED
  BY <1>1, <1>2, <1>3, <1>4, <1>5, <1>6, <1>7, <1>8, <1>9, <1>10, <1>11, <1>12, <1>13, <1>14, <1>15,
     <1>16, <1>17, <1>18, <1>19, <1>20, <1>21, WarmNextCases

(* The field is cleared before the call goes on, and WARM is read before   *)
(* the state that ends the wait is written.                                *)
LEMMA NoneRaisedStep == WarmTypeOK /\ NoneRaised /\ [WarmNext]_warmVars => NoneRaised'
<1> SUFFICES ASSUME WarmTypeOK, NoneRaised, [WarmNext]_warmVars PROVE NoneRaised'
  OBVIOUS
<1> USE DEF clientVars, syncdVars, asicVars, WarmTypeOK, NoneRaised, Warned, BehindAging
<1>1. CASE BeginReboot
  BY <1>1 DEF BeginReboot
<1>2. CASE DisableAging
  BY <1>2 DEF DisableAging
<1>3. CASE DisableLearning
  BY <1>3 DEF DisableLearning
<1>4. CASE PreShutdown
  BY <1>4 DEF PreShutdown, Publish
<1>5. CASE AwaitPre
  BY <1>5 DEF AwaitPre, Await, Raises
<1>6. CASE SetEnable
  BY <1>6 DEF SetEnable
<1>7. CASE WarmShutdown
  BY <1>7 DEF WarmShutdown, Publish
<1>8. CASE AwaitWarm
  BY <1>8 DEF AwaitWarm, Await, Raises
<1>9. CASE ClearState
  BY <1>9 DEF ClearState
<1>10. CASE VerifyRestore
  BY <1>10 DEF VerifyRestore, Raises
<1>11. CASE VerifyWarmBoot
  BY <1>11 DEF VerifyWarmBoot
<1>12. CASE EnableLearning
  BY <1>12 DEF EnableLearning
<1>13. CASE RestoreAging
  BY <1>13 DEF RestoreAging
<1>14. CASE CallRaises
  BY <1>14 DEF CallRaises, Raises
<1>15. CASE ResetNpu
  BY <1>15 DEF ResetNpu
<1>16. CASE SyncdPreShutdown
  BY <1>16 DEF SyncdPreShutdown, Faulty
<1>17. CASE SyncdWarmShutdown
  BY <1>17 DEF SyncdWarmShutdown, Faulty
<1>18. CASE SyncdExit
  BY <1>18 DEF SyncdExit
<1>19. CASE SyncdCrash
  BY <1>19 DEF SyncdCrash, Faulty
<1>20. CASE SyncdStart
  BY <1>20 DEF SyncdStart
<1>21. CASE UNCHANGED warmVars
  BY <1>21 DEF warmVars
<1>22. QED
  BY <1>1, <1>2, <1>3, <1>4, <1>5, <1>6, <1>7, <1>8, <1>9, <1>10, <1>11, <1>12, <1>13, <1>14, <1>15,
     <1>16, <1>17, <1>18, <1>19, <1>20, <1>21, WarmNextCases

LEMMA WarmInvInit == WarmInit => WarmInv
<1> SUFFICES ASSUME WarmInit PROVE WarmInv
  OBVIOUS
<1>1. msgs \in Seq({"PRE-SHUTDOWN", "WARM"}) /\ Len(msgs) = 0
  BY DEF WarmInit
<1>2. left \in 0..Tout + 1 /\ reboots \in 0..MaxReboots /\ mishaps \in 0..MaxMishaps
  BY WarmAssumption DEF WarmInit
<1>3. WarmTypeOK
  BY <1>1, <1>2 DEF WarmInit, WarmTypeOK, States
<1>4. QED
  BY <1>1, <1>3 DEF WarmInit, WarmInv, WarmProgress, EnabledFirst, ComesBackWarm, NoneRaised,
                    Warned, BehindAging

LEMMA WarmInvStep == WarmInv /\ [WarmNext]_warmVars => WarmInv'
BY WarmTypeStep, WarmProgressStep, EnabledFirstStep, ComesBackWarmStep, NoneRaisedStep DEF WarmInv

LEMMA WarmInvariance == WarmSpec => []WarmInv
BY WarmInvInit, WarmInvStep, PTL DEF WarmSpec

(* The client's counters, the messages and states on their way between it  *)
(* and syncd, and the switch attributes keep their types; all ports learn  *)
(* and the saved time is a real one when the aging time is written back.   *)
THEOREM WarmTypeCorrect == WarmSpec => []WarmTypeOK
BY WarmInvariance, PTL DEF WarmInv

(* Whatever crashes, is late or is left over from an attempt that failed,  *)
(* syncd shuts down for a warm reboot only with the flag set that brings   *)
(* it back warm, and with aging and learning off unless a call had raised. *)
THEOREM ShutsDownPrepared == WarmSpec => ShutdownPrepared
<1> DEFINE Prepared == syncd' = "exiting" => enable' /\ (syncd = "exiting" \/ AsicQuiet \/ raised)
<1>1. WarmInv /\ [WarmNext]_warmVars => [Prepared]_warmVars
  <2> SUFFICES ASSUME WarmInv, WarmNext, syncd' = "exiting"
               PROVE  enable' /\ (syncd = "exiting" \/ AsicQuiet \/ raised)
    OBVIOUS
  <2> USE DEF WarmInv
  <2>1. enable'
    BY EnabledFirstStep, WarmTypeStep DEF EnabledFirst
  <2>2. CASE SyncdWarmShutdown
    <3>1. Warned
      BY <2>2 DEF SyncdWarmShutdown, Warned, WarmTypeOK
    <3>2. raised \/ AsicQuiet
      BY <3>1 DEF NoneRaised, AsicQuiet, BehindAging
    <3>3. QED
      BY <2>1, <3>2
  <2>3. CASE ~SyncdWarmShutdown
    <3> USE DEF clientVars, syncdVars, asicVars
    <3>1. CASE Client
      <4>1. syncd' = syncd
        <5>1. CASE BeginReboot \/ DisableAging \/ DisableLearning \/ PreShutdown \/ SetEnable
                   \/ WarmShutdown
          BY <5>1 DEF BeginReboot, DisableAging, DisableLearning, PreShutdown, SetEnable, WarmShutdown
        <5>2. CASE AwaitPre \/ AwaitWarm
          BY <5>2 DEF AwaitPre, AwaitWarm, Await, Raises
        <5>3. CASE ClearState \/ VerifyRestore \/ VerifyWarmBoot \/ EnableLearning \/ RestoreAging
                   \/ CallRaises
          BY <5>3 DEF ClearState, VerifyRestore, VerifyWarmBoot, EnableLearning, RestoreAging,
                      CallRaises, Raises
        <5>4. QED
          BY <3>1, <5>1, <5>2, <5>3 DEF Client
      <4>2. QED
        BY <2>1, <4>1
    <3>2. CASE ResetNpu
      BY <3>2 DEF ResetNpu
    <3>3. CASE SyncdPreShutdown \/ SyncdExit \/ SyncdCrash \/ SyncdStart
      BY <3>3 DEF SyncdPreShutdown, SyncdExit, SyncdCrash, SyncdStart
    <3>4. QED
      BY <2>3, <3>1, <3>2, <3>3 DEF WarmNext, Syncd
  <2>4. QED
    BY <2>2, <2>3
<1>2. QED
  BY <1>1, WarmInvariance, PTL DEF WarmSpec, ShutdownPrepared

(* A warm reboot that returns has seen syncd start warm during the call,   *)
(* and unless a call had raised since the last reset, aging and learning   *)
(* are what was configured.                                                *)
THEOREM SuccessIsReal == WarmSpec => SuccessMeansWarmRestart
<1> DEFINE Real == Succeeds => restarted /\ boot = "warm" /\ RestoredUnlessGaveUp
<1>1. WarmInv /\ [WarmNext]_warmVars => [Real]_warmVars
  <2> SUFFICES ASSUME WarmInv, WarmNext, Succeeds
               PROVE  restarted /\ boot = "warm" /\ RestoredUnlessGaveUp
    OBVIOUS
  <2>1. pc = "reage" /\ pc' = "idle" /\ raised' = raised
    BY DEF Succeeds
  <2>2. restarted /\ boot = "warm"
    BY <2>1 DEF WarmInv, ComesBackWarm
  <2>3. ASSUME ~raised PROVE aging' = "configured" /\ learning' = BridgePorts
    <3>1. RestoreAging
      <4> USE DEF clientVars
      <4>1. ~(BeginReboot \/ DisableAging \/ DisableLearning \/ PreShutdown \/ AwaitPre \/ SetEnable
              \/ WarmShutdown \/ AwaitWarm \/ ClearState \/ VerifyRestore \/ VerifyWarmBoot
              \/ EnableLearning \/ ResetNpu)
        BY <2>1 DEF BeginReboot, DisableAging, DisableLearning, PreShutdown, AwaitPre, SetEnable,
                    WarmShutdown, AwaitWarm, Await, ClearState, VerifyRestore,
                    VerifyWarmBoot, EnableLearning, ResetNpu
      <4>2. ~CallRaises
        BY <2>1, <2>3 DEF CallRaises, Raises
      <4>3. ~Syncd
        BY <2>1 DEF Syncd, SyncdPreShutdown, SyncdWarmShutdown, SyncdExit, SyncdCrash, SyncdStart
      <4>4. QED
        BY <4>1, <4>2, <4>3 DEF WarmNext, Client
    <3>2. saved = "configured" /\ learning = BridgePorts
      BY <2>1, <2>3 DEF WarmInv, NoneRaised, BehindAging, WarmTypeOK
    <3>3. QED
      BY <3>1, <3>2 DEF RestoreAging
  <2>4. QED
    BY <2>2, <2>3 DEF RestoredUnlessGaveUp
<1>2. QED
  BY <1>1, WarmInvariance, PTL DEF WarmSpec, SuccessMeansWarmRestart

-----------------------------------------------------------------------------
(* Test sessions.                                                          *)

-----------------------------------------------------------------------------
(* The steps of the methods of SonicDut.                                   *)

Left == {prog[i] : i \in DOMAIN prog}

ServiceCmds == [verb : {"stop", "mask", "unmask", "restart"}, what : Names]
OtherCmds ==
  [verb : {"docker_start", "docker_stop"}, what : Containers]
  \cup [verb : {"save"}, what : {"database"}]

(* What runs between "stopping" and the end of the services.               *)
Calming ==
  [step : {"send"}, verb : {"stop", "mask"}, what : Names]
  \cup [step : {"send"}, verb : {"docker_start", "docker_stop"}, what : Containers]
  \cup [step : {"wait"}, state : {"inactive"}, what : Names]
  \cup [step : {"wait"}, state : {"up", "down"}, what : Containers]
  \cup {Do("stopping")}

Rousing == [step : {"send"}, verb : {"unmask", "restart"}, what : Names]
Database == {Do("read_metadata"), Do("flushall"), Do("flushdb"), Do("write_metadata")}

(* The body of an "if the database is up" that notes the stop has the      *)
(* waits for all services.                                                 *)
AllWaits(s) ==
  (\E i \in DOMAIN s : s[i].step = "stopping")
    => \A n \in Names : \E i \in DOMAIN s : s[i] = WaitInactive(n)
IfUps == {p \in [step : {"if_up"}, what : Containers, then : Seq(Calming)] : AllWaits(p.then)}
Starts == {StartService(s) : s \in Names}

Harmless == Calming \cup IfUps \cup Database
Steps == Harmless \cup Rousing \cup Starts

-----------------------------------------------------------------------------
(* The inductive invariant of the DUT.                                     *)

DutTypes ==
  /\ svc \in [Names -> {"active", "inactive", "failed"}]
  /\ masked \subseteq Names /\ up \subseteq Containers
  /\ metadata \subseteq {"file", "config_db"}
  /\ cmds \subseteq ServiceCmds \cup OtherCmds
  /\ gaveUp \in BOOLEAN /\ stopped \in BOOLEAN
  /\ called \in {"init", "deinit"}
  /\ late \subseteq Names /\ early \subseteq Names /\ skipped \subseteq Names

(* DEVICE_METADATA is read first, and nothing is waited for after the      *)
(* flushall.                                                               *)
Ordered(s) ==
  /\ \A i \in DOMAIN s : s[i].step = "read_metadata" => i = 1
  /\ \A i, j \in DOMAIN s : s[i].step = "flushall" /\ i < j => s[j].step # "wait"

Method == prog \in Seq(Steps) /\ Ordered(prog)

(* As long as a flushall is ahead, nothing is there to rouse a service;    *)
(* what "stopping" has noted, or will, is still waited for or true.        *)
FlushDue == \E p \in Left : p.step = "flushall"
Calm ==
  FlushDue =>
    /\ Left \subseteq Harmless /\ \A c \in cmds : c.verb # "restart"
    /\ stopped \/ (\E p \in Left : p.step = "stopping")
         => \A s \in Names : svc[s] = "inactive" \/ WaitInactive(s) \in Left

(* ... and the metadata is safe once it has been read.                     *)
SaveSent == \E c \in cmds : c.verb = "save"
Safe ==
  /\ FlushDue => "file" \in metadata \/ SaveSent \/ \E p \in Left : p.step = "read_metadata"
  /\ MetadataKept

(* deinit(): what is still ahead of a service, from "if it is inactive" to *)
(* the unmask and the restart that have run.                               *)
Cmd(verb, s) == [verb |-> verb, what |-> s]
Unmasked(s) == Send("unmask", s) \in Left \/ Cmd("unmask", s) \in cmds \/ s \notin masked
Restarted(s) ==
  Send("restart", s) \in Left \/ Cmd("restart", s) \in cmds \/ svc[s] = "active" \/ s \in early

Stops == {"stop", "mask"}
Returning ==
  called = "deinit" =>
    /\ \A c \in cmds : c.verb \in Stops => c.what \in late
    /\ \A p \in Left : p.step = "send" => p.verb \notin Stops
    /\ \A p \in Left : p.step # "if_up"
    /\ ~gaveUp => \A s \in Names \ (skipped \cup late) :
                    StartService(s) \in Left \/ (Unmasked(s) /\ Restarted(s))

DutInv == DutTypes /\ Method /\ Calm /\ Safe /\ Returning

-----------------------------------------------------------------------------
(* Sequences of steps.                                                     *)

(* The tail of a method.                                                   *)
LEMMA TailOf ==
  ASSUME NEW S, NEW s \in Seq(S), s # <<>>
  PROVE  /\ Head(s) = s[1] /\ 1 \in DOMAIN s /\ s[1] \in S /\ Tail(s) \in Seq(S)
         /\ \A i \in DOMAIN Tail(s) : i + 1 \in DOMAIN s /\ Tail(s)[i] = s[i + 1]
         /\ \A i \in DOMAIN s : i # 1 => i - 1 \in DOMAIN Tail(s) /\ Tail(s)[i - 1] = s[i]
<1>1. Len(s) \in Nat /\ Len(s) > 0 /\ DOMAIN s = 1..Len(s) OBVIOUS
<1>2. Tail(s) \in Seq(S) /\ Len(Tail(s)) = Len(s) - 1 /\ DOMAIN Tail(s) = 1..(Len(s) - 1)
      /\ \A i \in 1..(Len(s) - 1) : Tail(s)[i] = s[i + 1]
  BY <1>1
<1>3. Head(s) = s[1] /\ s[1] \in S BY <1>1
<1> QED BY <1>1, <1>2, <1>3

(* What is behind the step that comes next.                                *)
Behind == {Tail(prog)[i] : i \in DOMAIN Tail(prog)}

LEMMA NextStep ==
  ASSUME Method, prog # <<>>
  PROVE  /\ Head(prog) \in Steps /\ Head(prog) \in Left /\ Head(prog) = prog[1]
         /\ Tail(prog) \in Seq(Steps) /\ Ordered(Tail(prog))
         /\ Behind \subseteq Left /\ \A p \in Left : p # Head(prog) => p \in Behind
         /\ \A p \in Behind : p.step # "read_metadata"
<1> DEFINE tail == Tail(prog)
<1>1. /\ Head(prog) = prog[1] /\ 1 \in DOMAIN prog /\ prog[1] \in Steps /\ tail \in Seq(Steps)
      /\ \A i \in DOMAIN tail : i + 1 \in DOMAIN prog /\ tail[i] = prog[i + 1]
      /\ \A i \in DOMAIN prog : i # 1 => i - 1 \in DOMAIN tail /\ tail[i - 1] = prog[i]
  BY TailOf DEF Method
<1>2. DOMAIN prog \subseteq Nat /\ DOMAIN tail \subseteq Nat
  <2>1. prog \in Seq(Steps) /\ tail \in Seq(Steps) BY <1>1 DEF Method
  <2> QED BY <2>1
<1> DEFINE behind == {tail[i] : i \in DOMAIN tail}
<1>0. behind = Behind BY DEF Behind
<1> HIDE DEF tail
<1>3. \A i \in DOMAIN prog : prog[i].step = "read_metadata" => i = 1 BY DEF Method, Ordered
<1>4. \A i, j \in DOMAIN prog : prog[i].step = "flushall" /\ i < j => prog[j].step # "wait"
  BY DEF Method, Ordered
<1>5. \A i \in DOMAIN tail : tail[i].step # "read_metadata"
  BY <1>1, <1>2, <1>3
<1>6. \A i, j \in DOMAIN tail : tail[i].step = "flushall" /\ i < j => tail[j].step # "wait"
  BY <1>1, <1>2, <1>4
<1>7. Ordered(tail) BY <1>5, <1>6 DEF Ordered
<1>8. behind \subseteq Left BY <1>1 DEF Left
<1>9. ASSUME NEW i \in DOMAIN prog, prog[i] # Head(prog) PROVE prog[i] \in behind
  BY <1>1, <1>9
<1>10. Head(prog) \in Left BY <1>1 DEF Left
<1>11. \A p \in behind : p.step # "read_metadata" BY <1>5
<1>12. \A p \in Left : p # Head(prog) => p \in behind BY <1>9 DEF Left
<1> QED BY <1>0, <1>1, <1>7, <1>8, <1>10, <1>11, <1>12 DEF tail

(* A step that is done, and nothing else happens to the method.            *)
LEMMA Advance ==
  ASSUME Method, prog # <<>>, prog' = Tail(prog)
  PROVE  /\ Head(prog) \in Steps /\ Head(prog) \in Left /\ Head(prog) = prog[1]
         /\ Method' /\ Left' \subseteq Left /\ \A p \in Left : p # Head(prog) => p \in Left'
<1>1. Left' = Behind BY DEF Left, Behind
<1>2. Method' BY NextStep DEF Method
<1> QED BY <1>1, <1>2, NextStep

-----------------------------------------------------------------------------
(* Steps of the DUT.                                                       *)

(* A flushall that comes next has nothing to wait for behind it.           *)
LEMMA QuietAtFlush == Method /\ Calm /\ First("flushall") => QuietFlush
<1> SUFFICES ASSUME Method, Calm, First("flushall"), stopped, NEW s \in Names
             PROVE  svc[s] = "inactive"
  BY DEF QuietFlush
<1>1. prog \in Seq(Steps) /\ prog # <<>> /\ Head(prog) = prog[1] /\ 1 \in DOMAIN prog
      /\ prog[1].step = "flushall"
  BY TailOf DEF Method, First
<1>2. FlushDue BY <1>1 DEF FlushDue, Left
<1>3. SUFFICES ASSUME WaitInactive(s) \in Left PROVE FALSE BY <1>2 DEF Calm
<1>4. PICK j \in DOMAIN prog : prog[j] = WaitInactive(s) BY <1>3 DEF Left
<1>5. prog[j].step = "wait" BY <1>4 DEF WaitInactive
<1>6. j # 1 /\ j \in Nat /\ j > 0
  <2>1. DOMAIN prog = 1..Len(prog) /\ Len(prog) \in Nat BY <1>1
  <2> QED BY <1>1, <1>5, <2>1
<1>7. 1 < j BY <1>6
<1>8. \A i \in DOMAIN prog : prog[1].step = "flushall" /\ 1 < i => prog[i].step # "wait"
  BY <1>1 DEF Method, Ordered
<1> QED BY <1>1, <1>5, <1>7, <1>8

(* Nothing is ahead of a method that has ended.                            *)
LEMMA Ended ==
  ASSUME prog' = <<>>
  PROVE  Method' /\ Left' = {} /\ ~FlushDue'
<1>1. DOMAIN prog' = {} /\ prog' \in Seq(Steps) OBVIOUS
<1>2. Left' = {} BY <1>1 DEF Left
<1> QED BY <1>1, <1>2 DEF Method, Ordered, FlushDue

(* A method that raises leaves no invariant but those of the device.       *)
LEMMA GaveUpStep ==
  ASSUME DutInv, DutTypes', prog' = <<>>, MetadataKept',
         gaveUp' \/ called' # "deinit",
         called' = "deinit" => called = "deinit" /\ late' = late /\ cmds' \subseteq cmds
  PROVE  DutInv'
<1>1. Method' /\ Left' = {} /\ ~FlushDue' BY Ended
<1>2. Calm' BY <1>1 DEF Calm
<1>3. Safe' BY <1>1 DEF Safe
<1>4. Returning' BY <1>1 DEF DutInv, Returning
<1> QED BY <1>1, <1>2, <1>3, <1>4 DEF DutInv

(* The kinds of steps.                                                     *)
LEMMA Kinds ==
  /\ \A s : WaitInactive(s).step = "wait" /\ WaitInactive(s).state = "inactive"
            /\ WaitInactive(s).what = s
  /\ \A s : StartService(s).step = "if_inactive" /\ StartService(s).what = s
  /\ \A v, s : Send(v, s).step = "send" /\ Send(v, s).verb = v /\ Send(v, s).what = s
  /\ \A v, s : Cmd(v, s).verb = v /\ Cmd(v, s).what = s
<1> QED BY DEF WaitInactive, StartService, IfInactive, Send, Cmd

(* What a step that is sent can be, and what the command is.               *)
LEMMA Sendable ==
  ASSUME NEW p \in Steps, p.step = "send"
  PROVE  /\ Cmd(p.verb, p.what) \in ServiceCmds \cup OtherCmds
         /\ p = Send(p.verb, p.what)
         /\ p \in Harmless => p.verb # "restart"
<1>1. p \in Calming \cup Rousing
  BY DEF Steps, Harmless, Calming, IfUps, Database, Rousing, Starts, Do, StartService, IfInactive
<1>2. CASE p \in Rousing
  <2>1. p \in [step : {"send"}, verb : {"unmask", "restart"}, what : Names] BY <1>2 DEF Rousing
  <2>2. p \notin Harmless
    BY <2>1 DEF Harmless, Calming, IfUps, Database, Do
  <2> QED BY <2>1, <2>2 DEF Cmd, Send, ServiceCmds
<1>3. CASE p \in Calming
  <2>1. p \in [step : {"send"}, verb : {"stop", "mask"}, what : Names]
        \/ p \in [step : {"send"}, verb : {"docker_start", "docker_stop"}, what : Containers]
    BY <1>3 DEF Calming, Do
  <2>2. CASE p \in [step : {"send"}, verb : {"stop", "mask"}, what : Names]
    BY <2>2 DEF Cmd, Send, ServiceCmds
  <2>3. CASE p \in [step : {"send"}, verb : {"docker_start", "docker_stop"}, what : Containers]
    BY <2>3 DEF Cmd, Send, OtherCmds
  <2> QED BY <2>1, <2>2, <2>3
<1> QED BY <1>1, <1>2, <1>3

(* A command is sent.                                                      *)
LEMMA SendItStep == DutInv /\ SendIt => DutInv'
<1> SUFFICES ASSUME DutInv, SendIt PROVE DutInv'
  OBVIOUS
<1> USE DEF DutInv
<1> DEFINE h == Head(prog)
<1>1. /\ prog # <<>> /\ h.step = "send" /\ prog' = Tail(prog)
      /\ cmds' = cmds \cup {Cmd(h.verb, h.what)}
      /\ UNCHANGED <<svc, masked, up, metadata, gaveUp, called, history>>
  BY DEF SendIt, First, Cmd
<1>2. /\ h \in Steps /\ h \in Left /\ Method' /\ Left' \subseteq Left
      /\ \A p \in Left : p # h => p \in Left'
  BY <1>1, Advance
<1>3. /\ Cmd(h.verb, h.what) \in ServiceCmds \cup OtherCmds /\ h = Send(h.verb, h.what)
      /\ h \in Harmless => h.verb # "restart"
  BY <1>1, <1>2, Sendable
<1> HIDE DEF h
<1>4. DutTypes' BY <1>1, <1>3 DEF DutTypes, history
<1>5. Calm'
  <2>1. SUFFICES ASSUME FlushDue' PROVE
          /\ Left' \subseteq Harmless /\ \A c \in cmds' : c.verb # "restart"
          /\ stopped' \/ (\E p \in Left' : p.step = "stopping")
               => \A s \in Names : svc'[s] = "inactive" \/ WaitInactive(s) \in Left'
    BY DEF Calm
  <2>2. FlushDue BY <2>1, <1>2 DEF FlushDue
  <2>3. Left' \subseteq Harmless /\ \A c \in cmds' : c.verb # "restart"
    BY <2>2, <1>1, <1>2, <1>3, Kinds DEF Calm
  <2>4. ASSUME stopped' \/ (\E p \in Left' : p.step = "stopping"), NEW s \in Names
        PROVE  svc'[s] = "inactive" \/ WaitInactive(s) \in Left'
    BY <2>2, <2>4, <1>1, <1>2, Kinds DEF Calm, history
  <2> QED BY <2>3, <2>4
<1>6. Safe'
  <2>1. SaveSent => SaveSent' BY <1>1 DEF SaveSent
  <2>2. FlushDue' => FlushDue BY <1>2 DEF FlushDue
  <2>3. (\E p \in Left : p.step = "read_metadata") => \E p \in Left' : p.step = "read_metadata"
    BY <1>1, <1>2
  <2>4. MetadataKept' BY <1>1, <2>1 DEF Safe, MetadataKept, SaveSent
  <2> QED BY <1>1, <2>1, <2>2, <2>3, <2>4 DEF Safe
<1>7. Returning'
  <2>1. SUFFICES ASSUME called' = "deinit" PROVE
          /\ \A c \in cmds' : c.verb \in Stops => c.what \in late'
          /\ \A p \in Left' : p.step = "send" => p.verb \notin Stops
          /\ \A p \in Left' : p.step # "if_up"
          /\ ~gaveUp' => \A s \in Names \ (skipped' \cup late') :
                          StartService(s) \in Left' \/ (Unmasked(s)' /\ Restarted(s)')
    BY DEF Returning
  <2>2. h.verb \notin Stops BY <2>1, <1>1, <1>2 DEF Returning
  <2>3. \A c \in cmds' : c.verb \in Stops => c.what \in late'
    BY <2>1, <2>2, <1>1, Kinds DEF Returning, history
  <2>4. ASSUME ~gaveUp', NEW s \in Names \ (skipped' \cup late')
        PROVE  StartService(s) \in Left' \/ (Unmasked(s)' /\ Restarted(s)')
    <3>1. StartService(s) \in Left \/ (Unmasked(s) /\ Restarted(s))
      BY <2>1, <2>4, <1>1 DEF Returning, history
    <3>2. StartService(s) \in Left => StartService(s) \in Left' BY <1>1, <1>2, Kinds
    <3>3. Unmasked(s) => Unmasked(s)'
      BY <1>1, <1>2, <1>3, Kinds DEF Unmasked, history
    <3>4. Restarted(s) => Restarted(s)'
      BY <1>1, <1>2, <1>3, Kinds DEF Restarted, history
    <3> QED BY <3>1, <3>2, <3>3, <3>4
  <2> QED BY <2>1, <2>3, <2>4, <1>1, <1>2 DEF Returning
<1> QED BY <1>2, <1>4, <1>5, <1>6, <1>7

(* Where nothing of the services changes, what is ahead of them stays.     *)
LEMMA ReturningOn ==
  ASSUME Returning, Left' \subseteq Left,
         \A p \in Left : p.step \in {"send", "if_inactive"} => p \in Left',
         UNCHANGED <<svc, masked, gaveUp, called, late, early, skipped>>,
         cmds \subseteq cmds', \A c \in cmds' : c \in cmds \/ c.verb \notin Stops
  PROVE  Returning'
<1>1. SUFFICES ASSUME called' = "deinit", ~gaveUp', NEW s \in Names \ (skipped' \cup late')
               PROVE  StartService(s) \in Left' \/ (Unmasked(s)' /\ Restarted(s)')
  BY DEF Returning
<1>2. StartService(s) \in Left \/ (Unmasked(s) /\ Restarted(s))
  BY <1>1 DEF Returning
<1>3. StartService(s) \in Left => StartService(s) \in Left' BY Kinds
<1>4. Unmasked(s) => Unmasked(s)' BY Kinds DEF Unmasked
<1>5. Restarted(s) => Restarted(s)' BY Kinds DEF Restarted
<1> QED BY <1>2, <1>3, <1>4, <1>5

(* A state that was waited for is there.                                   *)
LEMMA WaitOverStep == DutInv /\ WaitOver => DutInv'
<1> SUFFICES ASSUME DutInv, WaitOver PROVE DutInv'
  OBVIOUS
<1> USE DEF DutInv
<1> DEFINE h == Head(prog)
<1>1. /\ prog # <<>> /\ h.step = "wait" /\ prog' = Tail(prog) /\ Holds(h)
      /\ UNCHANGED <<svc, masked, up, metadata, cmds, gaveUp, called, history>>
  BY DEF WaitOver, First
<1>2. /\ h \in Steps /\ h \in Left /\ Method' /\ Left' \subseteq Left
      /\ \A p \in Left : p # h => p \in Left'
  BY <1>1, Advance
<1>3. \A s \in Names : h = WaitInactive(s) => svc[s] = "inactive"
  <2>1. ASSUME NEW s \in Names, h = WaitInactive(s) PROVE svc[s] = "inactive"
    <3>1. h.state = "inactive" /\ h.what = s BY <2>1, Kinds
    <3> QED BY <1>1, <3>1 DEF Holds
  <2> QED BY <2>1
<1> HIDE DEF h
<1>4. DutTypes' BY <1>1 DEF DutTypes, history
<1>5. FlushDue' => FlushDue BY <1>2 DEF FlushDue
<1>6. Calm'
  <2>1. SUFFICES ASSUME FlushDue' PROVE
          /\ Left' \subseteq Harmless /\ \A c \in cmds' : c.verb # "restart"
          /\ stopped' \/ (\E p \in Left' : p.step = "stopping")
               => \A s \in Names : svc'[s] = "inactive" \/ WaitInactive(s) \in Left'
    BY DEF Calm
  <2>2. Left' \subseteq Harmless /\ \A c \in cmds' : c.verb # "restart"
    BY <2>1, <1>1, <1>2, <1>5 DEF Calm
  <2>3. ASSUME stopped' \/ (\E p \in Left' : p.step = "stopping"), NEW s \in Names
        PROVE  svc'[s] = "inactive" \/ WaitInactive(s) \in Left'
    BY <2>1, <2>3, <1>1, <1>2, <1>3, <1>5 DEF Calm, history
  <2> QED BY <2>2, <2>3
<1>7. Safe'
  <2>1. (\E p \in Left : p.step = "read_metadata") => \E p \in Left' : p.step = "read_metadata"
    BY <1>1, <1>2
  <2> QED BY <1>1, <1>5, <2>1 DEF Safe, SaveSent, MetadataKept
<1>8. Returning' BY <1>1, <1>2, ReturningOn DEF history
<1> QED BY <1>2, <1>4, <1>6, <1>7, <1>8

(* The state does not come in time.                                        *)
LEMMA GiveUpKeeps == DutInv /\ GiveUp => DutInv'
<1> SUFFICES ASSUME DutInv, GiveUp PROVE DutInv'
  OBVIOUS
<1>1. /\ prog' = <<>> /\ gaveUp' = TRUE
      /\ UNCHANGED <<svc, masked, up, metadata, cmds, called, history>>
  BY DEF GiveUp
<1>2. DutTypes' BY <1>1 DEF DutInv, DutTypes, history
<1>3. MetadataKept' BY <1>1 DEF DutInv, Safe, MetadataKept
<1> QED BY <1>1, <1>2, <1>3, GaveUpStep DEF history

(* History only: a step that is noted.                                     *)
LEMMA NoteStoppingStep == DutInv /\ NoteStopping => DutInv'
<1> SUFFICES ASSUME DutInv, NoteStopping PROVE DutInv'
  OBVIOUS
<1> USE DEF DutInv
<1> DEFINE h == Head(prog)
<1>1. /\ prog # <<>> /\ h.step = "stopping" /\ prog' = Tail(prog) /\ stopped' = TRUE
      /\ UNCHANGED <<svc, masked, up, metadata, cmds, gaveUp, called, late, early, skipped>>
  BY DEF NoteStopping, First
<1>2. /\ h \in Left /\ Method' /\ Left' \subseteq Left
      /\ \A p \in Left : p # h => p \in Left'
  BY <1>1, Advance
<1> HIDE DEF h
<1>3. DutTypes' BY <1>1 DEF DutTypes
<1>4. FlushDue' => FlushDue BY <1>2 DEF FlushDue
<1>5. Calm'
  <2>1. SUFFICES ASSUME FlushDue' PROVE
          /\ Left' \subseteq Harmless /\ \A c \in cmds' : c.verb # "restart"
          /\ \A s \in Names : svc'[s] = "inactive" \/ WaitInactive(s) \in Left'
    BY DEF Calm
  <2>2. Left' \subseteq Harmless /\ \A c \in cmds' : c.verb # "restart"
    BY <2>1, <1>1, <1>2, <1>4 DEF Calm
  <2>3. ASSUME NEW s \in Names PROVE svc'[s] = "inactive" \/ WaitInactive(s) \in Left'
    BY <2>1, <1>1, <1>2, <1>4, Kinds DEF Calm
  <2> QED BY <2>2, <2>3
<1>6. Safe'
  <2>1. (\E p \in Left : p.step = "read_metadata") => \E p \in Left' : p.step = "read_metadata"
    BY <1>1, <1>2
  <2> QED BY <1>1, <1>4, <2>1 DEF Safe, SaveSent, MetadataKept
<1>7. Returning' BY <1>1, <1>2, ReturningOn
<1> QED BY <1>2, <1>3, <1>5, <1>6, <1>7

(* The metadata is read, or is saved.                                      *)
LEMMA ReadMetadataStep == DutInv /\ ReadMetadata => DutInv'
<1> SUFFICES ASSUME DutInv, ReadMetadata PROVE DutInv'
  OBVIOUS
<1> DEFINE h == Head(prog)
           save == [verb |-> "save", what |-> "database"]
<1>1. /\ prog # <<>> /\ h.step = "read_metadata"
      /\ UNCHANGED <<svc, masked, up, metadata, called, stopped, late, early, skipped>>
  BY DEF ReadMetadata, First, history
<1>2. CASE prog' = <<>> /\ gaveUp' = TRUE /\ UNCHANGED cmds
  <2>1. DutTypes' BY <1>1, <1>2 DEF DutInv, DutTypes
  <2>2. MetadataKept' BY <1>1, <1>2 DEF DutInv, Safe, MetadataKept
  <2> QED BY <1>1, <1>2, <2>1, <2>2, GaveUpStep
<1>3. CASE /\ prog' = Tail(prog) /\ UNCHANGED gaveUp
           /\ \/ "file" \in metadata /\ cmds' = cmds
              \/ cmds' = cmds \cup {save}
  <2> USE DEF DutInv
  <2>1. /\ h \in Left /\ Method' /\ Left' \subseteq Left
        /\ \A p \in Left : p # h => p \in Left'
    BY <1>1, <1>3, Advance
  <2>2. cmds \subseteq cmds' /\ \A c \in cmds' : c \in cmds \/ c = save
    BY <1>3
  <2>3. "file" \in metadata \/ SaveSent'
    <3>1. save.verb = "save" OBVIOUS
    <3> QED BY <1>3, <3>1 DEF SaveSent
  <2>4. save \in ServiceCmds \cup OtherCmds BY DEF OtherCmds, Containers
  <2>5. save.verb # "restart" /\ save.verb \notin Stops BY DEF Stops
  <2> HIDE DEF h, save
  <2>6. DutTypes' BY <1>1, <1>3, <2>4 DEF DutTypes
  <2>7. FlushDue' => FlushDue BY <2>1 DEF FlushDue
  <2>8. Calm'
    <3>1. SUFFICES ASSUME FlushDue' PROVE
            /\ Left' \subseteq Harmless /\ \A c \in cmds' : c.verb # "restart"
            /\ stopped' \/ (\E p \in Left' : p.step = "stopping")
                 => \A s \in Names : svc'[s] = "inactive" \/ WaitInactive(s) \in Left'
      BY DEF Calm
    <3>2. Left' \subseteq Harmless /\ \A c \in cmds' : c.verb # "restart"
      BY <3>1, <2>1, <2>2, <2>5, <2>7 DEF Calm
    <3>3. ASSUME stopped' \/ (\E p \in Left' : p.step = "stopping"), NEW s \in Names
          PROVE  svc'[s] = "inactive" \/ WaitInactive(s) \in Left'
      BY <3>1, <3>3, <1>1, <2>1, <2>7, Kinds DEF Calm
    <3> QED BY <3>2, <3>3
  <2>9. Safe'
    <3>1. MetadataKept' BY <1>1, <2>3 DEF MetadataKept, SaveSent
    <3> QED BY <1>1, <2>3, <3>1 DEF Safe
  <2>10. Returning' BY <1>1, <1>3, <2>1, <2>2, <2>5, ReturningOn
  <2> QED BY <2>1, <2>6, <2>8, <2>9, <2>10
<1> QED BY <1>2, <1>3 DEF ReadMetadata

(* Redis is used: the flushall is behind the read_metadata.                *)
LEMMA UseRedisStep == DutInv /\ UseRedis => DutInv'
<1> SUFFICES ASSUME DutInv, UseRedis PROVE DutInv'
  OBVIOUS
<1> DEFINE h == Head(prog)
<1>1. /\ prog # <<>> /\ h.step \in {"flushall", "flushdb", "write_metadata"}
      /\ UNCHANGED <<svc, masked, up, cmds, called, stopped, late, early, skipped>>
  BY DEF UseRedis, First, history
<1>2. CASE prog' = <<>> /\ gaveUp' = TRUE /\ UNCHANGED metadata
  <2>1. DutTypes' BY <1>1, <1>2 DEF DutInv, DutTypes
  <2>2. MetadataKept' BY <1>1, <1>2 DEF DutInv, Safe, MetadataKept
  <2> QED BY <1>1, <1>2, <2>1, <2>2, GaveUpStep
<1>3. CASE /\ prog' = Tail(prog) /\ UNCHANGED gaveUp
           /\ metadata' = CASE First("flushall") -> metadata \ {"config_db"}
                            [] First("write_metadata") -> metadata \cup {"config_db"}
                            [] OTHER -> metadata
  <2> USE DEF DutInv
  <2>1. /\ h \in Left /\ h = prog[1] /\ Method' /\ Left' \subseteq Left
        /\ \A p \in Left : p # h => p \in Left'
    BY <1>1, <1>3, Advance
  <2>2. metadata' \subseteq {"file", "config_db"} BY <1>3 DEF DutTypes
  <2>3. "file" \in metadata => "file" \in metadata' BY <1>3
  <2>4. First("flushall") => h.step = "flushall" BY DEF First
  <2>5. ~First("flushall") => metadata \subseteq metadata' BY <1>3
  <2>6. DutTypes' BY <1>1, <1>3, <2>2 DEF DutTypes
  <2>7. FlushDue' => FlushDue BY <2>1 DEF FlushDue
  <2>8. First("flushall") => FlushDue /\ \A p \in Left : p.step # "read_metadata"
    <3>1. SUFFICES ASSUME First("flushall") PROVE FlushDue /\ \A p \in Left : p.step # "read_metadata"
      OBVIOUS
    <3>2. FlushDue BY <3>1, <2>1, <2>4 DEF FlushDue
    <3>3. \A i \in DOMAIN prog : prog[i].step # "read_metadata"
      BY <1>1, <2>1 DEF Method, Ordered
    <3> QED BY <3>2, <3>3 DEF Left
  <2> HIDE DEF h
  <2>9. Calm'
    <3>1. SUFFICES ASSUME FlushDue' PROVE
            /\ Left' \subseteq Harmless /\ \A c \in cmds' : c.verb # "restart"
            /\ stopped' \/ (\E p \in Left' : p.step = "stopping")
                 => \A s \in Names : svc'[s] = "inactive" \/ WaitInactive(s) \in Left'
      BY DEF Calm
    <3>2. Left' \subseteq Harmless /\ \A c \in cmds' : c.verb # "restart"
      BY <3>1, <1>1, <2>1, <2>7 DEF Calm
    <3>3. ASSUME stopped' \/ (\E p \in Left' : p.step = "stopping"), NEW s \in Names
          PROVE  svc'[s] = "inactive" \/ WaitInactive(s) \in Left'
      BY <3>1, <3>3, <1>1, <2>1, <2>7, Kinds DEF Calm
    <3> QED BY <3>2, <3>3
  <2>10. SaveSent' <=> SaveSent BY <1>1 DEF SaveSent
  <2>11. MetadataKept'
    <3>1. CASE First("flushall")
      <4>1. "file" \in metadata \/ SaveSent BY <3>1, <2>8 DEF Safe
      <4> QED BY <4>1, <2>3, <1>1 DEF MetadataKept, SaveSent
    <3>2. CASE ~First("flushall") BY <3>2, <2>5, <1>1 DEF Safe, MetadataKept
    <3> QED BY <3>1, <3>2
  <2>12. Safe'
    <3>1. (\E p \in Left : p.step = "read_metadata") => \E p \in Left' : p.step = "read_metadata"
      BY <1>1, <2>1
    <3> QED BY <2>3, <2>7, <2>10, <2>11, <3>1 DEF Safe
  <2>13. Returning' BY <1>1, <1>3, <2>1, ReturningOn
  <2> QED BY <2>1, <2>6, <2>9, <2>12, <2>13
<1> QED BY <1>2, <1>3 DEF UseRedis

(* A command runs: what it does, by its verb.                              *)
LEMMA ExecuteDoes ==
  ASSUME DutTypes, NEW c \in cmds, Execute(c)
  PROVE  /\ cmds' = cmds \ {c}
         /\ UNCHANGED <<prog, gaveUp, called, stopped, late, skipped>>
         /\ DutTypes'
         /\ \A s \in Names : svc[s] = "inactive" => svc'[s] = "inactive" \/ c = Cmd("restart", s)
         /\ \A s \in Names : svc[s] = "active" => svc'[s] = "active" \/ c = Cmd("stop", s)
         /\ \A s \in Names : s \in masked' => s \in masked \/ c = Cmd("mask", s)
         /\ metadata \subseteq metadata' /\ (c.verb = "save" => "file" \in metadata')
         /\ early \subseteq early'
         /\ \A s \in Names : c = Cmd("unmask", s) => s \notin masked'
         /\ \A s \in Names : c = Cmd("restart", s) => svc'[s] = "active" \/ s \in early'
<1>1. /\ cmds' = cmds \ {c} /\ UNCHANGED <<prog, gaveUp, called, stopped, late, skipped>>
      /\ c \in ServiceCmds \cup OtherCmds
  BY DEF Execute, DutTypes
<1>2. c \in ServiceCmds => c.what \in Names /\ c.verb \in {"stop", "mask", "unmask", "restart"}
                           /\ c = Cmd(c.verb, c.what)
  BY DEF ServiceCmds, Cmd
<1>3. c \in OtherCmds => c.verb \in {"docker_start", "docker_stop", "save"}
  BY DEF OtherCmds
<1>4. \A v : \A s : c = Cmd(v, s) => c.verb = v /\ c.what = s BY Kinds
<1>5. CASE c.verb = "stop" /\ Stop(c.what)
  <2>1. c.what \in Names /\ c = Cmd("stop", c.what) BY <1>1, <1>2, <1>3, <1>5
  <2>2. PICK r \in {"inactive", "failed", svc[c.what]} :
          /\ svc' = [svc EXCEPT ![c.what] = r]
          /\ svc[c.what] = "inactive" => r = "inactive"
    BY <1>5 DEF Stop
  <2>3. svc[c.what] \in {"active", "inactive", "failed"} BY <2>1 DEF DutTypes
  <2>4. svc' \in [Names -> {"active", "inactive", "failed"}] BY <2>1, <2>2, <2>3 DEF DutTypes
  <2>5. up' \subseteq up /\ UNCHANGED <<masked, metadata, early>> BY <1>5 DEF Stop
  <2>6. DutTypes' BY <1>1, <2>4, <2>5 DEF DutTypes
  <2>7. \A s \in Names : svc[s] = "inactive" => svc'[s] = "inactive" BY <2>1, <2>2 DEF DutTypes
  <2>8. \A s \in Names : svc[s] = "active" => svc'[s] = "active" \/ c = Cmd("stop", s)
    BY <2>1, <2>2 DEF DutTypes
  <2> QED BY <1>1, <1>4, <1>5, <2>5, <2>6, <2>7, <2>8
<1>6. CASE c.verb = "restart" /\ Restart(c.what)
  <2>1. c.what \in Names BY <1>1, <1>2, <1>3, <1>6
  <2>2. CASE c.what \in masked
    <3>1. early' = early \cup {c.what} /\ UNCHANGED <<svc, up, masked, metadata>>
      BY <1>6, <2>2 DEF Restart
    <3>2. DutTypes' BY <1>1, <2>1, <3>1 DEF DutTypes
    <3> QED BY <1>1, <1>4, <1>6, <3>1, <3>2
  <2>3. CASE c.what \notin masked
    <3>1. /\ svc' = [svc EXCEPT ![c.what] = "active"] /\ up' = up \cup Runs(c.what)
          /\ UNCHANGED <<early, masked, metadata>>
      BY <1>6, <2>3 DEF Restart
    <3>2. up' \subseteq Containers BY <3>1 DEF Runs, DutTypes
    <3>3. svc' \in [Names -> {"active", "inactive", "failed"}] BY <2>1, <3>1 DEF DutTypes
    <3>4. DutTypes' BY <1>1, <3>1, <3>2, <3>3 DEF DutTypes
    <3>5. \A s \in Names : svc'[s] = IF s = c.what THEN "active" ELSE svc[s]
      BY <2>1, <3>1 DEF DutTypes
    <3>6. c = Cmd("restart", c.what) BY <1>1, <1>2, <1>3, <1>6
    <3> QED BY <1>1, <1>4, <1>6, <2>1, <3>1, <3>4, <3>5, <3>6
  <2> QED BY <2>2, <2>3
<1>7. CASE /\ c.verb \in {"mask", "unmask"}
           /\ masked' = IF c.verb = "mask" THEN masked \cup {c.what} ELSE masked \ {c.what}
           /\ UNCHANGED <<svc, up, metadata, early>>
  <2>1. c.what \in Names /\ c = Cmd(c.verb, c.what) BY <1>1, <1>2, <1>3, <1>7
  <2>2. masked' \subseteq Names BY <1>7, <2>1 DEF DutTypes
  <2>3. DutTypes' BY <1>1, <1>7, <2>2 DEF DutTypes
  <2> QED BY <1>1, <1>4, <1>7, <2>1, <2>3
<1>8. CASE /\ c.verb \in {"docker_start", "docker_stop"}
           /\ up' = IF c.verb = "docker_start" THEN up \cup {c.what} ELSE up \ {c.what}
           /\ UNCHANGED <<svc, masked, metadata, early>>
  <2>1. c.what \in Containers BY <1>1, <1>2, <1>8 DEF OtherCmds
  <2>2. up' \subseteq Containers BY <1>8, <2>1 DEF DutTypes
  <2>3. DutTypes' BY <1>1, <1>8, <2>2 DEF DutTypes
  <2> QED BY <1>1, <1>4, <1>8, <2>3
<1>9. CASE /\ c.verb = "save" /\ metadata' = metadata \cup {"file"}
           /\ UNCHANGED <<svc, masked, up, early>>
  <2>1. metadata' \subseteq {"file", "config_db"} BY <1>9 DEF DutTypes
  <2>2. DutTypes' BY <1>1, <1>9, <2>1 DEF DutTypes
  <2> QED BY <1>1, <1>4, <1>9, <2>2
<1> QED BY <1>5, <1>6, <1>7, <1>8, <1>9 DEF Execute

(* The device runs a command.                                              *)
LEMMA ExecuteStep == DutInv /\ (\E c \in cmds : Execute(c)) => DutInv'
<1> SUFFICES ASSUME DutInv, NEW c \in cmds, Execute(c) PROVE DutInv'
  OBVIOUS
<1> USE DEF DutInv
<1>1. /\ cmds' = cmds \ {c}
      /\ UNCHANGED <<prog, gaveUp, called, stopped, late, skipped>>
      /\ DutTypes'
      /\ \A s \in Names : svc[s] = "inactive" => svc'[s] = "inactive" \/ c = Cmd("restart", s)
      /\ metadata \subseteq metadata' /\ (c.verb = "save" => "file" \in metadata')
  BY ExecuteDoes
<1>2. /\ \A s \in Names : svc[s] = "active" => svc'[s] = "active" \/ c = Cmd("stop", s)
      /\ \A s \in Names : s \in masked' => s \in masked \/ c = Cmd("mask", s)
      /\ early \subseteq early'
      /\ \A s \in Names : c = Cmd("unmask", s) => s \notin masked'
      /\ \A s \in Names : c = Cmd("restart", s) => svc'[s] = "active" \/ s \in early'
  BY ExecuteDoes
<1>3. Left' = Left /\ (FlushDue' <=> FlushDue) BY <1>1 DEF Left, FlushDue
<1>4. Method' BY <1>1 DEF Method
<1>5. Calm'
  <2>1. SUFFICES ASSUME FlushDue' PROVE
          /\ Left' \subseteq Harmless /\ \A d \in cmds' : d.verb # "restart"
          /\ stopped' \/ (\E p \in Left' : p.step = "stopping")
               => \A s \in Names : svc'[s] = "inactive" \/ WaitInactive(s) \in Left'
    BY DEF Calm
  <2>2. c.verb # "restart" BY <2>1, <1>3 DEF Calm
  <2>3. \A s \in Names : c # Cmd("restart", s) BY <2>2, Kinds
  <2> QED BY <2>1, <2>3, <1>1, <1>3 DEF Calm
<1>6. Safe'
  <2>1. "file" \in metadata \/ SaveSent => "file" \in metadata' \/ SaveSent'
    BY <1>1 DEF SaveSent
  <2>2. MetadataKept' BY <2>1, <1>1 DEF Safe, MetadataKept, SaveSent
  <2> QED BY <1>3, <2>1, <2>2 DEF Safe
<1>7. Returning'
  <2>1. SUFFICES ASSUME called' = "deinit" PROVE
          /\ \A d \in cmds' : d.verb \in Stops => d.what \in late'
          /\ \A p \in Left' : p.step = "send" => p.verb \notin Stops
          /\ \A p \in Left' : p.step # "if_up"
          /\ ~gaveUp' => \A s \in Names \ (skipped' \cup late') :
                          StartService(s) \in Left' \/ (Unmasked(s)' /\ Restarted(s)')
    BY DEF Returning
  <2>2. \A d \in cmds : d.verb \in Stops => d.what \in late BY <2>1, <1>1 DEF Returning
  <2>3. ASSUME ~gaveUp', NEW s \in Names \ (skipped' \cup late')
        PROVE  StartService(s) \in Left' \/ (Unmasked(s)' /\ Restarted(s)')
    <3>1. StartService(s) \in Left \/ (Unmasked(s) /\ Restarted(s))
      BY <2>1, <2>3, <1>1 DEF Returning
    <3>2. c # Cmd("stop", s) /\ c # Cmd("mask", s) BY <2>2, <2>3, <1>1, Kinds DEF Stops
    <3>3. Unmasked(s) => Unmasked(s)' BY <1>1, <1>2, <1>3, <3>2 DEF Unmasked
    <3>4. Restarted(s) => Restarted(s)' BY <1>1, <1>2, <1>3, <3>2 DEF Restarted
    <3> QED BY <1>3, <3>1, <3>3, <3>4
  <2> QED BY <1>1, <1>3, <2>1, <2>2, <2>3 DEF Returning
<1> QED BY <1>1, <1>4, <1>5, <1>6, <1>7

(* The steps of two sequences in a row.                                    *)
LEMMA JoinedSteps ==
  ASSUME NEW S, NEW s \in Seq(S), NEW u \in Seq(S)
  PROVE  /\ s \o u \in Seq(S)
         /\ \A i \in DOMAIN (s \o u) : \/ i \in DOMAIN s /\ (s \o u)[i] = s[i]
                                       \/ i - Len(s) \in DOMAIN u /\ (s \o u)[i] = u[i - Len(s)]
         /\ \A i \in DOMAIN s : i \in DOMAIN (s \o u) /\ (s \o u)[i] = s[i]
         /\ \A i \in DOMAIN u : i + Len(s) \in DOMAIN (s \o u) /\ (s \o u)[i + Len(s)] = u[i]
<1>1. /\ Len(s) \in Nat /\ Len(u) \in Nat /\ DOMAIN s = 1..Len(s) /\ DOMAIN u = 1..Len(u)
      /\ s \o u \in Seq(S) /\ DOMAIN (s \o u) = 1..(Len(s) + Len(u))
      /\ \A i \in 1..(Len(s) + Len(u)) :
           (s \o u)[i] = IF i <= Len(s) THEN s[i] ELSE u[i - Len(s)]
  OBVIOUS
<1> QED BY <1>1

(* What a branch puts in front leaves the method in order.                 *)
LEMMA BranchMethod ==
  ASSUME NEW s \in Seq(Steps), NEW u \in Seq(Steps), Ordered(u),
         \A i \in DOMAIN u : u[i].step # "read_metadata",
         \A i \in DOMAIN s : s[i].step \notin {"read_metadata", "flushall"}
  PROVE  s \o u \in Seq(Steps) /\ Ordered(s \o u)
<1>1. /\ s \o u \in Seq(Steps)
      /\ \A i \in DOMAIN (s \o u) : \/ i \in DOMAIN s /\ (s \o u)[i] = s[i]
                                    \/ i - Len(s) \in DOMAIN u /\ (s \o u)[i] = u[i - Len(s)]
  BY JoinedSteps
<1>2. Len(s) \in Nat /\ DOMAIN s = 1..Len(s) /\ DOMAIN u \subseteq Nat
  OBVIOUS
<1>3. \A i \in DOMAIN (s \o u) : (s \o u)[i].step # "read_metadata" BY <1>1
<1>4. ASSUME NEW i \in DOMAIN (s \o u), NEW j \in DOMAIN (s \o u),
             (s \o u)[i].step = "flushall", i < j
      PROVE  (s \o u)[j].step # "wait"
  <2>1. i - Len(s) \in DOMAIN u /\ u[i - Len(s)].step = "flushall" BY <1>1, <1>4
  <2>2. i \in Nat /\ j \in Nat
    <3>1. DOMAIN (s \o u) = 1..Len(s \o u) BY <1>1
    <3> QED BY <3>1
  <2>3. i > Len(s)
    <3>1. DOMAIN u = 1..Len(u) /\ Len(u) \in Nat OBVIOUS
    <3> QED BY <3>1, <2>1, <2>2, <1>2
  <2>4. j \notin DOMAIN s BY <2>2, <2>3, <1>2, <1>4
  <2>5. j - Len(s) \in DOMAIN u /\ (s \o u)[j] = u[j - Len(s)] BY <2>4, <1>1
  <2>6. i - Len(s) < j - Len(s) BY <2>2, <1>2, <1>4
  <2> QED BY <2>1, <2>5, <2>6 DEF Ordered
<1> QED BY <1>1, <1>3, <1>4 DEF Ordered

(* The branches there are.                                                 *)
LEMMA BranchOf ==
  ASSUME NEW p \in Steps
  PROVE  /\ p.step = "if_up" => p \in IfUps
         /\ p.step = "if_inactive" => p \in Starts
<1> QED BY DEF Steps, Harmless, Calming, Database, Rousing, IfUps, Starts, StartService, IfInactive, Do

(* The method after a branch.                                              *)
LEMMA BranchLeft ==
  ASSUME NEW front \in Seq(Steps), Tail(prog) \in Seq(Steps), prog' = front \o Tail(prog)
  PROVE  /\ \A p \in Left' : p \in Behind \/ \E i \in DOMAIN front : p = front[i]
         /\ Behind \subseteq Left' /\ \A i \in DOMAIN front : front[i] \in Left'
<1> DEFINE tail == Tail(prog)
<1>1. /\ \A i \in DOMAIN prog' : \/ i \in DOMAIN front /\ prog'[i] = front[i]
                                 \/ i - Len(front) \in DOMAIN tail
                                    /\ prog'[i] = tail[i - Len(front)]
      /\ \A i \in DOMAIN front : i \in DOMAIN prog' /\ prog'[i] = front[i]
      /\ \A i \in DOMAIN tail : i + Len(front) \in DOMAIN prog'
                                /\ prog'[i + Len(front)] = tail[i]
  BY JoinedSteps
<1> DEFINE behind == {tail[i] : i \in DOMAIN tail}
<1>2. behind = Behind BY DEF Behind
<1> HIDE DEF tail
<1>3. \A p \in Left' : p \in behind \/ \E i \in DOMAIN front : p = front[i] BY <1>1 DEF Left
<1>4. behind \subseteq Left' BY <1>1 DEF Left
<1>5. \A i \in DOMAIN front : front[i] \in Left' BY <1>1 DEF Left
<1> QED BY <1>2, <1>3, <1>4, <1>5

(* A branch on a container is taken or not, before a flushall or after.    *)
LEMMA BranchUp == DutInv /\ Branch /\ First("if_up") => DutInv'
<1> SUFFICES ASSUME DutInv, Branch, First("if_up") PROVE DutInv'
  OBVIOUS
<1> USE DEF DutInv
<1> DEFINE h == Head(prog)
<1>1. /\ prog # <<>> /\ h.step = "if_up"
      /\ UNCHANGED <<svc, masked, up, metadata, cmds, gaveUp, called, stopped, late, early>>
      /\ skipped' = skipped
  BY DEF Branch, First
<1>2. PICK front : front \in {<<>>, h.then} /\ prog' = front \o Tail(prog)
  BY DEF Branch
<1>3. /\ h \in Steps /\ h \in Left /\ Tail(prog) \in Seq(Steps) /\ Ordered(Tail(prog))
      /\ Behind \subseteq Left /\ \A p \in Left : p # h => p \in Behind
      /\ \A p \in Behind : p.step # "read_metadata"
  BY <1>1, NextStep
<1>4. h.then \in Seq(Calming) /\ AllWaits(h.then) BY <1>1, <1>3, BranchOf DEF IfUps
<1>5. front \in Seq(Calming) /\ AllWaits(front)
  <2>1. CASE front = h.then BY <2>1, <1>4
  <2>2. CASE front = <<>>
    <3>1. front \in Seq(Calming) /\ DOMAIN front = {} BY <2>2
    <3> QED BY <3>1 DEF AllWaits
  <2> QED BY <1>2, <2>1, <2>2
<1>6. called # "deinit" BY <1>1, <1>3 DEF Returning
<1> HIDE DEF h
<1>7. front \in Seq(Steps)
  <2>1. Calming \subseteq Steps BY DEF Steps, Harmless
  <2> QED BY <2>1, <1>5
<1>8. \A i \in DOMAIN front : front[i] \in Calming BY <1>5
<1>9. \A p \in Calming : p.step \in {"send", "wait", "stopping"} BY DEF Calming, Do
<1>10. \A i \in DOMAIN Tail(prog) : Tail(prog)[i].step # "read_metadata" BY <1>3 DEF Behind
<1>11. Method' BY <1>2, <1>3, <1>7, <1>8, <1>9, <1>10, BranchMethod DEF Method
<1>12. /\ \A p \in Left' : p \in Behind \/ \E i \in DOMAIN front : p = front[i]
       /\ Behind \subseteq Left' /\ \A i \in DOMAIN front : front[i] \in Left'
  BY <1>2, <1>3, <1>7, BranchLeft
<1>13. FlushDue' => FlushDue BY <1>3, <1>8, <1>9, <1>12 DEF FlushDue
<1>14. Calm'
  <2>1. SUFFICES ASSUME FlushDue' PROVE
          /\ Left' \subseteq Harmless /\ \A c \in cmds' : c.verb # "restart"
          /\ stopped' \/ (\E p \in Left' : p.step = "stopping")
               => \A s \in Names : svc'[s] = "inactive" \/ WaitInactive(s) \in Left'
    BY DEF Calm
  <2>2. Calming \subseteq Harmless BY DEF Harmless
  <2>3. Left' \subseteq Harmless /\ \A c \in cmds' : c.verb # "restart"
    BY <2>1, <2>2, <1>1, <1>3, <1>8, <1>12, <1>13 DEF Calm
  <2>4. ASSUME stopped' \/ (\E p \in Left' : p.step = "stopping"), NEW s \in Names
        PROVE  svc'[s] = "inactive" \/ WaitInactive(s) \in Left'
    <3>1. CASE \E i \in DOMAIN front : front[i].step = "stopping"
      BY <3>1, <1>5, <1>12 DEF AllWaits
    <3>2. CASE stopped \/ \E p \in Left : p.step = "stopping"
      <4>1. svc[s] = "inactive" \/ WaitInactive(s) \in Left BY <2>1, <3>2, <1>13 DEF Calm
      <4> QED BY <4>1, <1>1, <1>3, <1>12, Kinds
    <3> QED BY <2>4, <3>1, <3>2, <1>1, <1>3, <1>12
  <2> QED BY <2>3, <2>4
<1>15. Safe'
  <2>1. (\E p \in Left : p.step = "read_metadata") => \E p \in Left' : p.step = "read_metadata"
    BY <1>1, <1>3, <1>12
  <2> QED BY <1>1, <1>13, <2>1 DEF Safe, SaveSent, MetadataKept
<1>16. DutTypes' BY <1>1 DEF DutTypes
<1> QED BY <1>1, <1>6, <1>11, <1>14, <1>15, <1>16 DEF Returning

(* A service is started, or left as it is.                                 *)
LEMMA BranchInactive == DutInv /\ Branch /\ First("if_inactive") => DutInv'
<1> SUFFICES ASSUME DutInv, Branch, First("if_inactive") PROVE DutInv'
  OBVIOUS
<1> USE DEF DutInv
<1>1. /\ prog # <<>> /\ Head(prog).step = "if_inactive"
      /\ UNCHANGED <<svc, masked, up, metadata, cmds, gaveUp, called, stopped, late, early>>
  BY DEF Branch, First
<1>2. /\ Head(prog) \in Steps /\ Head(prog) \in Left
      /\ Tail(prog) \in Seq(Steps) /\ Ordered(Tail(prog))
      /\ Behind \subseteq Left /\ \A p \in Left : p # Head(prog) => p \in Behind
      /\ \A p \in Behind : p.step # "read_metadata"
  BY <1>1, NextStep
<1>3. PICK x \in Names : Head(prog) = StartService(x) BY <1>1, <1>2, BranchOf DEF Starts
<1> DEFINE start == <<Send("unmask", x), Send("restart", x)>>
           front == IF svc[x] = "inactive" THEN start ELSE <<>>
<1>4. Head(prog).what = x /\ Head(prog).then = start
  BY <1>3 DEF StartService, IfInactive
<1>5. /\ prog' = front \o Tail(prog)
      /\ skipped' = IF svc[x] = "inactive" THEN skipped ELSE skipped \cup {x}
  BY <1>1, <1>4 DEF Branch, First
<1>6. front \in Seq(Steps) /\ \A i \in DOMAIN front : front[i].step = "send"
  <2>1. Send("unmask", x) \in Steps /\ Send("restart", x) \in Steps
    BY DEF Send, Steps, Rousing
  <2>2. start \in Seq(Steps) /\ DOMAIN start = 1..2 BY <2>1
  <2>3. \A i \in 1..2 : start[i].step = "send" BY Kinds
  <2>4. <<>> \in Seq(Steps) /\ DOMAIN <<>> = {} OBVIOUS
  <2> QED BY <2>2, <2>3, <2>4
<1>7. svc[x] = "inactive" =>
        /\ \E i \in DOMAIN front : front[i] = Send("unmask", x)
        /\ \E i \in DOMAIN front : front[i] = Send("restart", x)
        /\ \A i \in DOMAIN front : front[i] \in {Send("unmask", x), Send("restart", x)}
  <2>1. DOMAIN start = 1..2 /\ start[1] = Send("unmask", x) /\ start[2] = Send("restart", x)
    OBVIOUS
  <2> QED BY <2>1
<1>8. svc[x] # "inactive" => DOMAIN front = {} OBVIOUS
<1> HIDE DEF front
<1>9. \A i \in DOMAIN Tail(prog) : Tail(prog)[i].step # "read_metadata" BY <1>2 DEF Behind
<1>10. Method' BY <1>2, <1>5, <1>6, <1>9, BranchMethod DEF Method
<1>11. /\ \A p \in Left' : p \in Behind \/ \E i \in DOMAIN front : p = front[i]
       /\ Behind \subseteq Left' /\ \A i \in DOMAIN front : front[i] \in Left'
  BY <1>2, <1>5, <1>6, BranchLeft
<1>12. ~FlushDue'
  <2>1. StartService(x) \notin Harmless
    BY DEF Harmless, Calming, IfUps, Database, Do, StartService, IfInactive
  <2>2. ~FlushDue BY <1>2, <1>3, <2>1 DEF Calm
  <2> QED BY <2>2, <1>2, <1>6, <1>11 DEF FlushDue
<1>13. Calm' BY <1>12 DEF Calm
<1>14. Safe' BY <1>1, <1>12 DEF Safe, MetadataKept
<1>15. DutTypes' BY <1>1, <1>5 DEF DutTypes
<1>16. Returning'
  <2>1. SUFFICES ASSUME called' = "deinit" PROVE
          /\ \A c \in cmds' : c.verb \in Stops => c.what \in late'
          /\ \A p \in Left' : p.step = "send" => p.verb \notin Stops
          /\ \A p \in Left' : p.step # "if_up"
          /\ ~gaveUp' => \A s \in Names \ (skipped' \cup late') :
                          StartService(s) \in Left' \/ (Unmasked(s)' /\ Restarted(s)')
    BY DEF Returning
  <2>2. Send("unmask", x).verb \notin Stops /\ Send("restart", x).verb \notin Stops
    BY Kinds DEF Stops
  <2>3. \A i \in DOMAIN front : front[i].verb \notin Stops BY <2>2, <1>7, <1>8
  <2>4. \A p \in Left' : p.step = "send" => p.verb \notin Stops
    BY <2>1, <2>3, <1>1, <1>2, <1>11 DEF Returning
  <2>5. \A p \in Left' : p.step # "if_up" BY <2>1, <1>1, <1>2, <1>6, <1>11 DEF Returning
  <2>6. ASSUME ~gaveUp', NEW s \in Names \ (skipped' \cup late')
        PROVE  StartService(s) \in Left' \/ (Unmasked(s)' /\ Restarted(s)')
    <3>1. s \notin skipped BY <2>6, <1>5
    <3>2. StartService(s) \in Left \/ (Unmasked(s) /\ Restarted(s))
      BY <2>1, <2>6, <3>1, <1>1 DEF Returning
    <3>3. CASE StartService(s) \in Left /\ s = x
      <4>1. svc[x] = "inactive" BY <3>3, <2>6, <1>5
      <4>2. Send("unmask", s) \in Left' /\ Send("restart", s) \in Left'
        BY <4>1, <3>3, <1>7, <1>11
      <4> QED BY <4>2 DEF Unmasked, Restarted
    <3>4. CASE StartService(s) \in Left /\ s # x
      BY <3>4, <1>2, <1>3, <1>11, Kinds
    <3>5. CASE Unmasked(s) /\ Restarted(s)
      <4>1. Unmasked(s)' BY <3>5, <1>1, <1>2, <1>11, Kinds DEF Unmasked
      <4>2. Restarted(s)' BY <3>5, <1>1, <1>2, <1>11, Kinds DEF Restarted
      <4> QED BY <4>1, <4>2
    <3> QED BY <3>2, <3>3, <3>4, <3>5
  <2> QED BY <1>1, <2>1, <2>4, <2>5, <2>6 DEF Returning
<1> QED BY <1>10, <1>13, <1>14, <1>15, <1>16

(* Every step of the DUT keeps its invariant.                              *)
LEMMA DutStepKeeps == DutInv /\ DutNext => DutInv'
<1>1. Branch => First("if_up") \/ First("if_inactive") BY DEF Branch
<1> QED
  BY <1>1, SendItStep, WaitOverStep, GiveUpKeeps, BranchUp, BranchInactive, ReadMetadataStep,
     UseRedisStep, NoteStoppingStep, ExecuteStep DEF DutNext

-----------------------------------------------------------------------------
(* The methods that are called.                                            *)

Has(s, p) == \E i \in DOMAIN s : s[i] = p

(* The steps of a sequence of sequences.                                   *)
LEMMA JoinedHas ==
  ASSUME NEW S, NEW s \in Seq(S), NEW u \in Seq(S)
  PROVE  /\ s \o u \in Seq(S)
         /\ \A p : Has(s \o u, p) <=> Has(s, p) \/ Has(u, p)
<1>1. /\ \A i \in DOMAIN (s \o u) : \/ i \in DOMAIN s /\ (s \o u)[i] = s[i]
                                    \/ i - Len(s) \in DOMAIN u /\ (s \o u)[i] = u[i - Len(s)]
      /\ \A i \in DOMAIN s : i \in DOMAIN (s \o u) /\ (s \o u)[i] = s[i]
      /\ \A i \in DOMAIN u : i + Len(s) \in DOMAIN (s \o u) /\ (s \o u)[i + Len(s)] = u[i]
      /\ s \o u \in Seq(S)
  BY JoinedSteps
<1> DEFINE both == s \o u
           n == Len(s)
<1> HIDE DEF both, n
<1>2. /\ \A i \in DOMAIN both : \/ i \in DOMAIN s /\ both[i] = s[i]
                                \/ i - n \in DOMAIN u /\ both[i] = u[i - n]
      /\ \A i \in DOMAIN s : i \in DOMAIN both /\ both[i] = s[i]
      /\ \A i \in DOMAIN u : i + n \in DOMAIN both /\ both[i + n] = u[i]
  BY <1>1 DEF both, n
<1>3. \A p : Has(both, p) <=> Has(s, p) \/ Has(u, p) BY <1>2 DEF Has
<1> QED BY <1>1, <1>3 DEF both

(* stop, mask, and the wait for it.                                        *)
LEMMA StopServiceSteps ==
  ASSUME NEW s \in Names
  PROVE  StopService(s) \in Seq(Calming) /\ Has(StopService(s), WaitInactive(s))
<1>1. Send("stop", s) \in Calming /\ Send("mask", s) \in Calming /\ WaitInactive(s) \in Calming
  BY DEF Calming, Send, WaitInactive
<1>2. StopService(s) \in Seq(Calming) BY <1>1 DEF StopService
<1>3. StopService(s)[3] = WaitInactive(s) /\ 3 \in DOMAIN StopService(s) BY DEF StopService
<1> QED BY <1>2, <1>3 DEF Has

(* The services of the device.                                             *)
LEMMA FourServices ==
  /\ Services[1] = "monit" /\ Services[2] = "pmon" /\ Services[3] = "sonic.target"
  /\ Services[4] = "database" /\ Len(Services) = 4 /\ DOMAIN Services = 1..4
  /\ Names = {Services[1], Services[2], Services[3], Services[4]}
<1>1. /\ Services[1] = "monit" /\ Services[2] = "pmon" /\ Services[3] = "sonic.target"
      /\ Services[4] = "database" /\ Len(Services) = 4 /\ DOMAIN Services = 1..4
  BY DEF Services
<1>2. \A i : i \in 1..4 <=> i = 1 \/ i = 2 \/ i = 3 \/ i = 4 OBVIOUS
<1>3. Names = {Services[1], Services[2], Services[3], Services[4]} BY <1>1, <1>2 DEF Names
<1> QED BY <1>1, <1>3

(* All services are waited for.                                            *)
LEMMA StopServicesSteps ==
  /\ <<Do("stopping")>> \o StopServices \in Seq(Calming)
  /\ AllWaits(<<Do("stopping")>> \o StopServices)
<1> DEFINE s1 == StopService(Services[1])
           s2 == StopService(Services[2])
           s3 == StopService(Services[3])
           s4 == StopService(Services[4])
           end == <<Send("docker_stop", "syncd"), WaitDown("syncd")>>
           note == <<Do("stopping")>>
<1>1. Services[1] \in Names /\ Services[2] \in Names /\ Services[3] \in Names /\ Services[4] \in Names
  BY FourServices
<1>2. /\ s1 \in Seq(Calming) /\ Has(s1, WaitInactive(Services[1]))
      /\ s2 \in Seq(Calming) /\ Has(s2, WaitInactive(Services[2]))
      /\ s3 \in Seq(Calming) /\ Has(s3, WaitInactive(Services[3]))
      /\ s4 \in Seq(Calming) /\ Has(s4, WaitInactive(Services[4]))
  BY <1>1, StopServiceSteps
<1>3. end \in Seq(Calming)
  <2>1. Send("docker_stop", "syncd") \in Calming /\ WaitDown("syncd") \in Calming
    BY DEF Send, WaitDown, Calming, Containers
  <2> QED BY <2>1
<1>4. note \in Seq(Calming)
  <2>1. Do("stopping") \in Calming BY DEF Calming
  <2> QED BY <2>1
<1>5. StopServices = (((s1 \o s2) \o s3) \o s4) \o end BY DEF StopServices
<1> HIDE DEF s1, s2, s3, s4, end, note
<1>6. s1 \o s2 \in Seq(Calming) /\ \A p : Has(s1 \o s2, p) <=> Has(s1, p) \/ Has(s2, p)
  BY <1>2, JoinedHas
<1> DEFINE t2 == s1 \o s2
<1> HIDE DEF t2
<1>7. t2 \o s3 \in Seq(Calming) /\ \A p : Has(t2 \o s3, p) <=> Has(t2, p) \/ Has(s3, p)
  BY <1>2, <1>6, JoinedHas DEF t2
<1> DEFINE t3 == t2 \o s3
<1> HIDE DEF t3
<1>8. t3 \o s4 \in Seq(Calming) /\ \A p : Has(t3 \o s4, p) <=> Has(t3, p) \/ Has(s4, p)
  BY <1>2, <1>7, JoinedHas DEF t3
<1> DEFINE t4 == t3 \o s4
<1> HIDE DEF t4
<1>9. t4 \o end \in Seq(Calming) /\ \A p : Has(t4 \o end, p) <=> Has(t4, p) \/ Has(end, p)
  BY <1>3, <1>8, JoinedHas DEF t4
<1> DEFINE all == t4 \o end
<1> HIDE DEF all
<1>10. note \o all \in Seq(Calming) /\ \A p : Has(note \o all, p) <=> Has(note, p) \/ Has(all, p)
  BY <1>4, <1>9, JoinedHas DEF all
<1>11. StopServices = all BY <1>5 DEF all, t4, t3, t2
<1>12. \A n \in Names : Has(note \o all, WaitInactive(n))
  <2>1. Has(t2, WaitInactive(Services[1])) /\ Has(t2, WaitInactive(Services[2]))
    BY <1>2, <1>6 DEF t2
  <2>2. Has(t3, WaitInactive(Services[1])) /\ Has(t3, WaitInactive(Services[2]))
        /\ Has(t3, WaitInactive(Services[3]))
    BY <1>2, <1>7, <2>1 DEF t3
  <2>3. Has(t4, WaitInactive(Services[1])) /\ Has(t4, WaitInactive(Services[2]))
        /\ Has(t4, WaitInactive(Services[3])) /\ Has(t4, WaitInactive(Services[4]))
    BY <1>2, <1>8, <2>2 DEF t4
  <2>4. /\ Has(note \o all, WaitInactive(Services[1])) /\ Has(note \o all, WaitInactive(Services[2]))
        /\ Has(note \o all, WaitInactive(Services[3])) /\ Has(note \o all, WaitInactive(Services[4]))
    BY <1>9, <1>10, <2>3 DEF all
  <2> QED BY <2>4, FourServices
<1> QED BY <1>10, <1>11, <1>12 DEF AllWaits, Has, note

(* init() is called when everything that was sent has run.                 *)
LEMMA CallInit == DutInv /\ Call("init", InitSteps) /\ cmds = {} => DutInv'
<1> SUFFICES ASSUME DutInv, Call("init", InitSteps), cmds = {} PROVE DutInv'
  OBVIOUS
<1>1. /\ prog' = InitSteps /\ gaveUp' = FALSE
      /\ called' = "init" /\ stopped' = FALSE /\ early' = {} /\ skipped' = {} /\ late' = {}
      /\ UNCHANGED <<svc, masked, up, metadata, cmds>>
  BY DEF Call
<1> DEFINE halt == <<Do("stopping")>> \o StopServices
           down == <<Send("docker_stop", "database"), WaitDown("database")>>
           e1 == Do("read_metadata")
           e2 == IfUp("database", halt)
           e3 == IfUp("database", down)
           e4 == Send("docker_start", "database")
           e5 == WaitUp("database")
           e6 == Do("flushall")
           e7 == Do("write_metadata")
<1>2. prog' = <<e1, e2, e3, e4, e5, e6, e7>> BY <1>1 DEF InitSteps
<1>3. /\ e1.step = "read_metadata" /\ e2.step = "if_up" /\ e3.step = "if_up" /\ e4.step = "send"
      /\ e5.step = "wait" /\ e6.step = "flushall" /\ e7.step = "write_metadata"
  BY DEF Do, IfUp, Send, WaitUp
<1>4. e1 \in Harmless /\ e6 \in Harmless /\ e7 \in Harmless BY DEF Harmless, Database
<1>5. e4 \in Harmless /\ e5 \in Harmless BY DEF Harmless, Calming, Send, WaitUp, Containers
<1>6. e2 \in Harmless
  <2>1. halt \in Seq(Calming) /\ AllWaits(halt) BY StopServicesSteps
  <2> HIDE DEF halt
  <2> QED BY <2>1 DEF Harmless, IfUps, IfUp, Containers
<1>7. e3 \in Harmless
  <2>1. /\ Send("docker_stop", "database") \in Calming /\ WaitDown("database") \in Calming
        /\ Send("docker_stop", "database").step # "stopping"
        /\ WaitDown("database").step # "stopping"
    BY DEF Calming, Send, WaitDown, Containers
  <2>2. down \in Seq(Calming) /\ \A i \in DOMAIN down : down[i].step # "stopping" BY <2>1
  <2>3. AllWaits(down) BY <2>2 DEF AllWaits
  <2> HIDE DEF down
  <2> QED BY <2>2, <2>3 DEF Harmless, IfUps, IfUp, Containers
<1> HIDE DEF e1, e2, e3, e4, e5, e6, e7
<1>8. /\ DOMAIN prog' = 1..7 /\ prog'[1] = e1 /\ prog'[2] = e2 /\ prog'[3] = e3 /\ prog'[4] = e4
      /\ prog'[5] = e5 /\ prog'[6] = e6 /\ prog'[7] = e7
  BY <1>2
<1>9. \A i : i \in 1..7 <=> i = 1 \/ i = 2 \/ i = 3 \/ i = 4 \/ i = 5 \/ i = 6 \/ i = 7
  OBVIOUS
<1>10. Left' = {e1, e2, e3, e4, e5, e6, e7} BY <1>8, <1>9 DEF Left
<1>11. prog' \in Seq(Harmless) BY <1>2, <1>4, <1>5, <1>6, <1>7
<1>12. prog' \in Seq(Steps)
  <2>1. Harmless \subseteq Steps BY DEF Steps
  <2> QED BY <1>11, <2>1
<1>13. Ordered(prog')
  <2>1. \A i \in DOMAIN prog' : prog'[i].step = "read_metadata" => i = 1 BY <1>3, <1>8, <1>9
  <2>2. \A i \in DOMAIN prog' : prog'[i].step = "flushall" => i = 6 BY <1>3, <1>8, <1>9
  <2>3. \A j \in DOMAIN prog' : 6 < j => j = 7 BY <1>8
  <2>4. prog'[7].step # "wait" BY <1>3, <1>8
  <2> QED BY <2>1, <2>2, <2>3, <2>4 DEF Ordered
<1>14. Method' BY <1>12, <1>13 DEF Method
<1>15. DutTypes' BY <1>1 DEF DutInv, DutTypes
<1>16. Calm'
  <2>1. Left' \subseteq Harmless BY <1>4, <1>5, <1>6, <1>7, <1>10
  <2>2. \A p \in Left' : p.step # "stopping" BY <1>3, <1>10
  <2> QED BY <1>1, <2>1, <2>2 DEF Calm
<1>17. Safe' BY <1>1, <1>3, <1>10 DEF DutInv, Safe, MetadataKept
<1>18. Returning' BY <1>1 DEF Returning
<1> QED BY <1>14, <1>15, <1>16, <1>17, <1>18 DEF DutInv

(* cleanup(), which comes between init() and deinit().                     *)
LEMMA CallCleanup ==
  DutInv /\ Call("cleanup", CleanupSteps) /\ called # "deinit" => DutInv'
<1> SUFFICES ASSUME DutInv, Call("cleanup", CleanupSteps), called # "deinit" PROVE DutInv'
  OBVIOUS
<1>1. /\ prog' = CleanupSteps /\ gaveUp' = FALSE
      /\ UNCHANGED <<called, late, early, skipped, stopped, svc, masked, up, metadata, cmds>>
  BY DEF Call
<1> DEFINE e1 == Send("docker_stop", "syncd")
           e2 == WaitDown("syncd")
           e3 == Do("flushdb")
           e4 == Send("docker_start", "syncd")
<1>2. prog' = <<e1, e2, e3, e4>> BY <1>1 DEF CleanupSteps
<1>3. e1.step = "send" /\ e2.step = "wait" /\ e3.step = "flushdb" /\ e4.step = "send"
  BY DEF Do, Send, WaitDown
<1>4. e1 \in Steps /\ e2 \in Steps /\ e3 \in Steps /\ e4 \in Steps
  BY DEF Steps, Harmless, Calming, Database, Send, WaitDown, Containers
<1> HIDE DEF e1, e2, e3, e4
<1>5. prog' \in Seq(Steps) BY <1>2, <1>4
<1>6. \A i \in DOMAIN prog' : prog'[i].step \notin {"read_metadata", "flushall"} BY <1>2, <1>3
<1>7. Method' BY <1>5, <1>6 DEF Method, Ordered
<1>8. ~FlushDue' BY <1>6 DEF FlushDue, Left
<1>9. DutTypes' BY <1>1 DEF DutInv, DutTypes
<1>10. Calm' /\ Safe' BY <1>1, <1>8 DEF DutInv, Calm, Safe, MetadataKept
<1>11. Returning' BY <1>1 DEF Returning
<1> QED BY <1>7, <1>9, <1>10, <1>11 DEF DutInv

(* deinit() has all services ahead of it.                                  *)
LEMMA CallDeinit ==
  DutInv /\ Call("deinit", DeinitSteps("sonic-restore")) => DutInv'
<1> SUFFICES ASSUME DutInv, Call("deinit", DeinitSteps("sonic-restore")) PROVE DutInv'
  OBVIOUS
<1>1. /\ prog' = DeinitSteps("sonic-restore") /\ gaveUp' = FALSE
      /\ called' = "deinit" /\ stopped' = FALSE /\ early' = {} /\ skipped' = {}
      /\ late' = {c.what : c \in {d \in cmds : d.verb \in {"stop", "mask"}}}
      /\ UNCHANGED <<svc, masked, up, metadata, cmds>>
  BY DEF Call
<1> DEFINE e1 == Send("docker_stop", "syncd")
           e2 == WaitDown("syncd")
           e3 == Send("docker_stop", "database")
           e4 == WaitDown("database")
           down == <<e1, e2, e3, e4>>
           back == [i \in 1..Len(Services) |-> StartService(Services[Len(Services) + 1 - i])]
<1>2. prog' = down \o back BY <1>1 DEF DeinitSteps
<1>3. e1.step = "send" /\ e2.step = "wait" /\ e3.step = "send" /\ e4.step = "wait"
      /\ e1.verb \notin Stops /\ e3.verb \notin Stops
  BY DEF Send, WaitDown, Stops
<1>4. e1 \in Steps /\ e2 \in Steps /\ e3 \in Steps /\ e4 \in Steps
  BY DEF Steps, Harmless, Calming, Send, WaitDown, Containers
<1>5. /\ back \in [1..4 -> Starts] /\ DOMAIN back = 1..4
      /\ back[1] = StartService(Services[4]) /\ back[2] = StartService(Services[3])
      /\ back[3] = StartService(Services[2]) /\ back[4] = StartService(Services[1])
  <2>1. back = [i \in 1..4 |-> StartService(Services[5 - i])] BY FourServices
  <2>2. \A i \in 1..4 : 5 - i \in 1..4 /\ Services[5 - i] \in Names
    BY FourServices DEF Names
  <2>3. \A i \in 1..4 : StartService(Services[5 - i]) \in Starts BY <2>2 DEF Starts
  <2>4. back \in [1..4 -> Starts] /\ DOMAIN back = 1..4 BY <2>1, <2>3
  <2>5. \A i \in 1..4 : back[i] = StartService(Services[5 - i]) BY <2>1
  <2>6. 5 - 1 = 4 /\ 5 - 2 = 3 /\ 5 - 3 = 2 /\ 5 - 4 = 1 OBVIOUS
  <2>7. 1 \in 1..4 /\ 2 \in 1..4 /\ 3 \in 1..4 /\ 4 \in 1..4 OBVIOUS
  <2> HIDE DEF back
  <2> QED BY <2>4, <2>5, <2>6, <2>7
<1> HIDE DEF e1, e2, e3, e4, back
<1>6. back \in Seq(Steps)
  <2>1. Starts \subseteq Steps BY DEF Steps
  <2>2. back \in [1..4 -> Steps] BY <1>5, <2>1
  <2>3. 4 \in Nat OBVIOUS
  <2> QED BY <2>2, <2>3, SeqDef
<1>7. down \in Seq(Steps) BY <1>4
<1>8. \A i \in DOMAIN down : /\ down[i].step \in {"send", "wait"}
                             /\ down[i].step = "send" => down[i].verb \notin Stops
  BY <1>3
<1>9. \A p \in Starts : p.step = "if_inactive" BY Kinds DEF Starts
<1> HIDE DEF down
<1>10. /\ \A i \in DOMAIN (down \o back) : Has(down, (down \o back)[i]) \/ Has(back, (down \o back)[i])
       /\ \A i \in DOMAIN back : Has(down \o back, back[i])
       /\ down \o back \in Seq(Steps)
  <2>1. \A p : Has(down \o back, p) <=> Has(down, p) \/ Has(back, p)
    BY <1>6, <1>7, JoinedHas
  <2>2. down \o back \in Seq(Steps) BY <1>6, <1>7, JoinedHas
  <2>3. \A i \in DOMAIN (down \o back) : Has(down \o back, (down \o back)[i]) BY DEF Has
  <2>4. \A i \in DOMAIN back : Has(back, back[i]) BY DEF Has
  <2> QED BY <2>1, <2>2, <2>3, <2>4
<1>11. \A i \in DOMAIN prog' : /\ prog'[i].step \in {"send", "wait", "if_inactive"}
                               /\ prog'[i].step = "send" => prog'[i].verb \notin Stops
  <2>1. SUFFICES ASSUME NEW i \in DOMAIN prog', NEW p, p = prog'[i]
                 PROVE /\ p.step \in {"send", "wait", "if_inactive"}
                       /\ p.step = "send" => p.verb \notin Stops
    OBVIOUS
  <2>2. Has(down, p) \/ Has(back, p) BY <1>2, <1>10, <2>1
  <2>3. CASE Has(down, p) BY <2>3, <1>8 DEF Has
  <2>4. CASE Has(back, p) BY <2>4, <1>5, <1>9 DEF Has
  <2> QED BY <2>2, <2>3, <2>4
<1>12. \A s \in Names : StartService(s) \in Left'
  <2>1. /\ Has(prog', StartService(Services[1])) /\ Has(prog', StartService(Services[2]))
        /\ Has(prog', StartService(Services[3])) /\ Has(prog', StartService(Services[4]))
    BY <1>2, <1>5, <1>10
  <2> QED BY <2>1, FourServices DEF Has, Left
<1>13. Method' BY <1>2, <1>10, <1>11 DEF Method, Ordered
<1>14. ~FlushDue' BY <1>11 DEF FlushDue, Left
<1>15. late' \subseteq Names
  <2>1. ASSUME NEW c \in cmds, c.verb \in {"stop", "mask"} PROVE c.what \in Names
    BY <2>1 DEF DutInv, DutTypes, ServiceCmds, OtherCmds
  <2> QED BY <1>1, <2>1
<1>16. DutTypes' BY <1>1, <1>15 DEF DutInv, DutTypes
<1>17. Calm' /\ Safe' BY <1>1, <1>14 DEF DutInv, Calm, Safe, MetadataKept
<1>18. Returning'
  <2>1. \A c \in cmds' : c.verb \in Stops => c.what \in late' BY <1>1 DEF Stops
  <2>2. \A p \in Left' : /\ p.step = "send" => p.verb \notin Stops
                         /\ p.step # "if_up"
    BY <1>11 DEF Left
  <2> QED BY <2>1, <2>2, <1>12 DEF Returning
<1> QED BY <1>13, <1>16, <1>17, <1>18 DEF DutInv

(* What the invariant says of the two properties.                          *)
LEMMA DutInvMeans == DutInv => FlushHarmless /\ ServicesBack /\ DutTypeOK
<1> SUFFICES ASSUME DutInv PROVE FlushHarmless /\ ServicesBack /\ DutTypeOK
  OBVIOUS
<1>1. FlushHarmless BY QuietAtFlush DEF DutInv, Safe, FlushHarmless, QuietFlush
<1>2. ServicesBack
  <2>1. Drained => Left = {} /\ cmds = {}
    <3>1. prog = <<>> => DOMAIN prog = {} OBVIOUS
    <3> QED BY <3>1 DEF Drained, Left
  <2> QED BY <2>1 DEF DutInv, Returning, ServicesBack, Unmasked, Restarted
<1>3. DutTypeOK
  <2>1. \A c \in cmds : c.what \in Names \cup Containers
    BY DEF DutInv, DutTypes, ServiceCmds, OtherCmds, Containers
  <2> QED BY <2>1 DEF DutInv, DutTypes, DutTypeOK
<1> QED BY <1>1, <1>2, <1>3

-----------------------------------------------------------------------------
(* The inductive invariant of a session.                                   *)

SessionTypes ==
  /\ suite \in Suites
  /\ phase \in {"idle", "starting", "booting", "module", "function", "recovering",
                "body", "after", "ending"}
  /\ k \in 1..Len(suite.modules) /\ t \in 1..Module.tests
  /\ fix \in {"none", "up", "error", "skip"} /\ sw.ok
  /\ {current, previous, lastFailed} \subseteq 0..Len(suite.modules)
  /\ faults \in 0..MaxFaults
  /\ flag \in BOOLEAN /\ unreset \in BOOLEAN /\ forgot \in BOOLEAN

(* current is the last module whose fixtures have run: this one, once they *)
(* have, and one before it as long as they have not.                       *)
Stage ==
  /\ current <= k
  /\ phase \in {"starting", "booting"} => fix = "none"
  /\ phase \in {"function", "recovering", "body"} => fix = "up"
  /\ fix # "none" => current = k
  /\ phase \in {"starting", "booting", "module"} /\ fix = "none" => current < k
  /\ phase = "after" /\ fix = "none" /\ ~LastTest => current < k

(* A failure is remembered for the module in which it happened and for the *)
(* one after it.                                                           *)
Tracked ==
  /\ failedIn \subseteq 1..current
  /\ lastFailed # 0 => lastFailed \in failedIn /\ lastFailed \in {current, previous}
  /\ current \in failedIn => lastFailed = current
  /\ previous \in failedIn /\ current \notin failedIn => lastFailed = previous

(* From the start of a session to its end the DUT has been initialised.    *)
Started == HasDut /\ phase # "idle" => called = "init"

SessionInv == SessionTypes /\ Stage /\ Tracked /\ Started /\ DutInv

-----------------------------------------------------------------------------
(* The suites and the failures of their calls.                             *)

LEMMA SuiteOf ==
  ASSUME NEW s \in Suites
  PROVE  /\ Len(s.modules) \in Nat \ {0} /\ s.points \subseteq Nat \ {0}
         /\ \A i \in 1..Len(s.modules) : s.modules[i].tests \in Nat \ {0}
<1>1. s.modules \in Seq([kind : ModuleKinds, tests : Nat \ {0}]) /\ s.modules # <<>>
      /\ s.points \subseteq Nat \ {0}
  BY SessionAssumption
<1>2. Len(s.modules) \in Nat \ {0} BY <1>1
<1>3. ASSUME NEW i \in 1..Len(s.modules) PROVE s.modules[i].tests \in Nat \ {0}
  <2>1. s.modules[i] \in [kind : ModuleKinds, tests : Nat \ {0}] BY <1>1, <1>3, ElementOfSeq
  <2> QED BY <2>1
<1> QED BY <1>1, <1>2, <1>3

(* A call that fails of itself is counted.                                 *)
LEMMA Counted ==
  ASSUME SessionTypes, NEW b \in Points, Bad(b), Count(b)
  PROVE  faults' \in 0..MaxFaults
<1>1. suite.points \subseteq Nat \ {0} /\ faults \in 0..MaxFaults /\ MaxFaults \in Nat
  BY SuiteOf, SessionAssumption DEF SessionTypes
<1> QED BY <1>1 DEF Bad, Count

(* The same of two calls of which one may fail.                            *)
LEMMA CountedTwo ==
  ASSUME SessionTypes, NEW b \in Points, NEW c \in Points, 0 \in {b, c}, Bad(b), Bad(c),
         Count(b + c)
  PROVE  faults' \in 0..MaxFaults
<1>1. suite.points \subseteq Nat \ {0}
  BY SuiteOf DEF SessionTypes
<1>2. b \in Nat /\ c \in Nat BY <1>1 DEF Points
<1>3. b + c \in {b, c} BY <1>2
<1> QED BY <1>3, Counted

(* What was caught can be used again.                                      *)
LEMMA CaughtIsOk == \A m : Caught(m).ok
<1> QED BY DEF Caught

(* A report leaves flags.                                                  *)
LEMMA Reports ==
  ASSUME SessionTypes, SetupFailed \/ SetupDone \/ LaterFailed \/ UNCHANGED <<flag, unreset, forgot>>
  PROVE  flag' \in BOOLEAN /\ unreset' \in BOOLEAN /\ forgot' \in BOOLEAN
<1> QED BY DEF SessionTypes, SetupFailed, SetupDone, LaterFailed

-----------------------------------------------------------------------------
(* The invariant of the DUT in a session.                                  *)

LEMMA DutFrame == DutInv /\ UNCHANGED dutVars => DutInv'
<1> SUFFICES ASSUME DutInv, UNCHANGED dutVars PROVE DutInv'
  OBVIOUS
<1>1. UNCHANGED <<svc, masked, up, metadata, cmds, prog, gaveUp, called, stopped, late, early, skipped>>
  BY DEF dutVars, history
<1>2. Left' = Left BY <1>1 DEF Left
<1>3. DutTypes' /\ Method' BY <1>1 DEF DutInv, DutTypes, Method
<1>4. Calm' BY <1>1, <1>2 DEF DutInv, Calm, FlushDue
<1>5. Safe' BY <1>1, <1>2 DEF DutInv, Safe, FlushDue, SaveSent, MetadataKept
<1>6. Returning' BY <1>1, <1>2 DEF DutInv, Returning, Unmasked, Restarted
<1> QED BY <1>3, <1>4, <1>5, <1>6 DEF DutInv

(* Every step of a session keeps the invariant of the DUT.                 *)
LEMMA DutInvStep == DutInv /\ Started /\ Next => DutInv'
<1> SUFFICES ASSUME DutInv, Started, Next PROVE DutInv'
  OBVIOUS
<1>1. CASE Begin
  <2>1. Drained BY <1>1 DEF Begin
  <2> QED BY <1>1, <2>1, CallInit, DutFrame DEF Begin, Drained
<1>2. CASE DutReady
  BY <1>2, CallCleanup, DutFrame DEF DutReady, StartReset, Started
<1>3. CASE FunctionSetup
  BY <1>3, CallCleanup, DutFrame DEF FunctionSetup, StartReset, Started
<1>4. CASE End
  <2>1. CASE suite.mode = "sonic-restore"
    <3>1. Call("deinit", DeinitSteps("sonic-restore")) BY <1>4, <2>1 DEF End
    <3> QED BY <3>1, CallDeinit
  <2>2. CASE suite.mode # "sonic-restore" BY <1>4, <2>2, DutFrame DEF End
  <2> QED BY <2>1, <2>2
<1>5. CASE DutStep BY <1>5, DutStepKeeps DEF DutStep
<1>6. CASE NpuReady \/ MarkedSkip \/ ModuleSetup \/ ModuleSetupKept \/ Recover \/ Body
           \/ ModuleTeardown \/ NextTest
  <2>1. UNCHANGED dutVars
    BY <1>6 DEF NpuReady, MarkedSkip, ModuleSetup, ModuleSetupKept, Recover, Body,
                ModuleTeardown, NextTest
  <2> QED BY <2>1, DutFrame
<1> QED BY <1>1, <1>2, <1>3, <1>4, <1>5, <1>6 DEF Next

(* Which method was called last.                                           *)
LEMMA DutStepCalled == DutNext => called' = called
<1> QED BY DEF DutNext, SendIt, WaitOver, GiveUp, Branch, ReadMetadata, UseRedis, NoteStopping,
               Execute, history

LEMMA StartedStep == Started /\ Next => Started'
<1> SUFFICES ASSUME Started, Next PROVE Started'
  OBVIOUS
<1>1. CASE Begin
  <2>1. HasDut' <=> HasDut BY <1>1 DEF Begin, HasDut
  <2>2. HasDut => called' = "init" BY <1>1 DEF Begin, Call
  <2> QED BY <2>1, <2>2 DEF Started
<1>2. CASE ~Begin /\ ~End /\ ~DutStep
  <2>1. UNCHANGED suite /\ phase # "idle"
    BY <1>2 DEF Next, DutReady, NpuReady, MarkedSkip, ModuleSetup, ModuleSetupKept, FunctionSetup,
                Recover, Body, ModuleTeardown, NextTest
  <2>2. called' = called
    <3>1. CASE DutReady \/ FunctionSetup
      BY <3>1 DEF DutReady, FunctionSetup, StartReset, Call, dutVars
    <3>2. CASE ~DutReady /\ ~FunctionSetup
      <4>1. UNCHANGED dutVars
        BY <1>2, <3>2 DEF Next, NpuReady, MarkedSkip, ModuleSetup, ModuleSetupKept,
                    Recover, Body, ModuleTeardown, NextTest
      <4> QED BY <4>1 DEF dutVars
    <3> QED BY <3>1, <3>2
  <2> QED BY <2>1, <2>2 DEF Started, HasDut
<1>3. CASE End BY <1>3 DEF End, Started
<1>4. CASE DutStep BY <1>4, DutStepCalled DEF DutStep, sessionVars, Started, HasDut
<1> QED BY <1>1, <1>2, <1>3, <1>4

-----------------------------------------------------------------------------
(* The types of a session.                                                 *)

LEMMA SessionTypesStep == SessionTypes /\ Stage /\ Next => SessionTypes'
<1> SUFFICES ASSUME SessionTypes, Stage, Next PROVE SessionTypes'
  OBVIOUS
<1>0. /\ Len(suite.modules) \in Nat \ {0} /\ MaxFaults \in Nat
      /\ \A i \in 1..Len(suite.modules) : suite.modules[i].tests \in Nat \ {0}
  BY SuiteOf, SessionAssumption DEF SessionTypes
<1>1. CASE Begin
  <2>1. /\ phase' = "starting" /\ k' = 1 /\ t' = 1 /\ sw' = Blank /\ fix' = "none" /\ flag' = FALSE
        /\ current' = 0 /\ previous' = 0 /\ lastFailed' = 0
        /\ faults' = 0 /\ unreset' = FALSE /\ forgot' = FALSE /\ suite' = suite
    BY <1>1 DEF Begin
  <2>2. t' \in 1..Module'.tests /\ k' \in 1..Len(suite.modules) BY <1>0, <2>1 DEF Module
  <2>3. sw'.ok BY <2>1 DEF Blank
  <2>4. {current', previous', lastFailed'} \subseteq 0..Len(suite.modules) /\ faults' \in 0..MaxFaults
    BY <1>0, <2>1
  <2> QED BY <2>1, <2>2, <2>3, <2>4 DEF SessionTypes
<1>2. CASE DutReady
  <2>1. UNCHANGED <<suite, k, t, sw, fix, flag, current, previous, lastFailed, faults, unreset, forgot>>
        /\ phase' \in {"idle", "booting"}
    BY <1>2 DEF DutReady, StartReset, trackVars
  <2> QED BY <2>1 DEF SessionTypes, Module
<1>3. CASE NpuReady
  <2>1. UNCHANGED <<suite, k, t, fix, flag, current, previous, lastFailed, unreset, forgot>>
        /\ phase' \in {"idle", "module"}
    BY <1>3 DEF NpuReady, trackVars
  <2>2. faults' \in 0..MaxFaults /\ sw'.ok
    <3>1. CASE UNCHANGED <<sw, faults>> BY <3>1 DEF SessionTypes
    <3>2. CASE \E b \in Points : Bad(b) /\ Count(b) /\ sw' = Caught(Reset(sw, suite.board, b))
      BY <3>2, Counted, CaughtIsOk
    <3> QED BY <1>3, <3>1, <3>2 DEF NpuReady
  <2> QED BY <2>1, <2>2 DEF SessionTypes, Module
<1>4. CASE MarkedSkip \/ ModuleSetupKept \/ FunctionSetup
  <2>1. UNCHANGED <<suite, k, t, sw, fix, current, previous, lastFailed, faults>>
        /\ phase' \in {"after", "function", "recovering", "body"}
    BY <1>4 DEF MarkedSkip, ModuleSetupKept, FunctionSetup, StartReset, trackVars
  <2>2. SetupFailed \/ SetupDone \/ LaterFailed \/ UNCHANGED <<flag, unreset, forgot>>
    BY <1>4 DEF MarkedSkip, ModuleSetupKept, FunctionSetup
  <2> QED BY <2>1, <2>2, Reports DEF SessionTypes, Module
<1>5. CASE ModuleSetup
  <2>1. UNCHANGED <<suite, k, t>> /\ Track_module
    BY <1>5 DEF ModuleSetup
  <2>2. PICK b \in Points : Bad(b) /\ Count(b) /\ sw' = Caught(FixtureSetup(b))
    BY <1>5 DEF ModuleSetup
  <2>3. /\ fix' \in {"error", "skip", "up"} /\ phase' \in {"after", "function"}
        /\ SetupFailed \/ SetupDone \/ UNCHANGED <<flag, unreset, forgot>>
    BY <1>5 DEF ModuleSetup
  <2>4. {current', previous', lastFailed'} \subseteq 0..Len(suite.modules)
    BY <1>0, <2>1 DEF Track_module, SessionTypes
  <2>5. faults' \in 0..MaxFaults /\ sw'.ok BY <2>2, Counted, CaughtIsOk
  <2> QED BY <2>1, <2>3, <2>4, <2>5, Reports DEF SessionTypes, Module
<1>6. CASE Recover
  <2>1. UNCHANGED <<suite, k, t, fix, current, previous, lastFailed>>
    BY <1>6 DEF Recover, trackVars
  <2>2. phase' \in {"after", "body"}
        /\ flag' \in BOOLEAN /\ unreset' \in BOOLEAN /\ forgot' \in BOOLEAN
    <3>1. /\ phase' \in {"after", "body"}
          /\ SetupFailed \/ SetupDone \/ (flag' = FALSE /\ unreset' = FALSE /\ forgot' = FALSE)
      BY <1>6 DEF Recover
    <3> QED BY <3>1, Reports
  <2>3. faults' \in 0..MaxFaults /\ sw'.ok
    <3>1. CASE UNCHANGED <<sw, faults>> BY <3>1 DEF SessionTypes
    <3>2. CASE \E b, c \in Points : \E m : 0 \in {b, c} /\ Bad(b) /\ Bad(c) /\ Count(b + c)
                                           /\ sw' = Caught(m)
      BY <3>2, CountedTwo, CaughtIsOk
    <3> QED BY <1>6, <3>1, <3>2 DEF Recover
  <2> QED BY <2>1, <2>2, <2>3 DEF SessionTypes, Module
<1>7. CASE Body
  <2>1. UNCHANGED <<suite, k, t, fix, current, previous, faults>> /\ phase' = "after"
    BY <1>7 DEF Body
  <2>2. PICK b \in 0..Len(BodyCalls) :
          /\ sw' = Caught(Run(sw, BodyCalls, b))
          /\ CallFailed \/ UNCHANGED <<flag, unreset, forgot, lastFailed>>
    BY <1>7 DEF Body
  <2>3. lastFailed' \in 0..Len(suite.modules) BY <2>2 DEF CallFailed, SessionTypes
  <2>4. flag' \in BOOLEAN /\ unreset' \in BOOLEAN /\ forgot' \in BOOLEAN
    BY <2>2, Reports DEF CallFailed
  <2>5. sw'.ok BY <2>2, CaughtIsOk
  <2> QED BY <2>1, <2>3, <2>4, <2>5 DEF SessionTypes, Module
<1>8. CASE ModuleTeardown
  <2>1. UNCHANGED <<suite, phase, k, t, current, previous, lastFailed>> /\ fix' = "none"
    BY <1>8 DEF ModuleTeardown, trackVars
  <2>2. PICK b \in Points :
          /\ Bad(b) /\ Count(b) /\ sw' = Caught(FixtureTeardown(b))
          /\ LaterFailed \/ UNCHANGED <<flag, unreset, forgot>>
    BY <1>8 DEF ModuleTeardown
  <2>3. faults' \in 0..MaxFaults /\ sw'.ok BY <2>2, Counted, CaughtIsOk
  <2> QED BY <2>1, <2>2, <2>3, Reports DEF SessionTypes, Module
<1>9. CASE NextTest
  <2>1. UNCHANGED <<suite, sw, flag, current, previous, lastFailed, faults, unreset, forgot>>
        /\ phase' \in {"module", "ending"} /\ fix' \in {fix, "none"}
    BY <1>9 DEF NextTest, trackVars
  <2>2. k' \in 1..Len(suite.modules) /\ t' \in 1..suite.modules[k'].tests
    <3>1. k \in 1..Len(suite.modules) /\ t \in 1..suite.modules[k].tests BY DEF SessionTypes, Module
    <3>2. CASE ~LastTest /\ t' = t + 1 /\ k' = k BY <1>0, <3>1, <3>2 DEF LastTest, Module
    <3>3. CASE t' = 1 /\ k' = k BY <1>0, <3>1, <3>3
    <3>4. CASE t' = 1 /\ k' = k + 1 /\ k < Len(suite.modules)
      <4>1. k' \in 1..Len(suite.modules) BY <1>0, <3>1, <3>4
      <4> QED BY <1>0, <3>4, <4>1
    <3> QED BY <1>9, <3>2, <3>3, <3>4 DEF NextTest
  <2> QED BY <2>1, <2>2 DEF SessionTypes, Module
<1>10. CASE End
  <2>1. UNCHANGED <<suite, k, t, sw, fix, flag, current, previous, lastFailed, faults, unreset, forgot>>
        /\ phase' = "idle"
    BY <1>10 DEF End, trackVars
  <2> QED BY <2>1 DEF SessionTypes, Module
<1>11. CASE DutStep BY <1>11 DEF DutStep, sessionVars, SessionTypes, Module
<1> QED
  BY <1>1, <1>2, <1>3, <1>4, <1>5, <1>6, <1>7, <1>8, <1>9, <1>10, <1>11 DEF Next

-----------------------------------------------------------------------------
(* Where a session is, and what it remembers of failures.                  *)

LEMMA StageStep == SessionTypes /\ Stage /\ Next => Stage'
<1> SUFFICES ASSUME SessionTypes, Stage, Next PROVE Stage'
  OBVIOUS
<1>0. /\ k \in Nat /\ k > 0 /\ current \in Nat /\ t \in Nat /\ Len(suite.modules) \in Nat
      /\ fix \in {"none", "up", "error", "skip"}
  <2>1. Len(suite.modules) \in Nat BY SuiteOf DEF SessionTypes
  <2>2. Module.tests \in Nat BY <2>1, SuiteOf DEF SessionTypes, Module
  <2> QED BY <2>1, <2>2 DEF SessionTypes
<1>1. CASE Begin
  <2>1. phase' = "starting" /\ k' = 1 /\ fix' = "none" /\ current' = 0 BY <1>1 DEF Begin
  <2> QED BY <2>1 DEF Stage
<1>2. CASE DutReady
  <2>1. UNCHANGED <<suite, k, t, fix, current>> /\ phase = "starting"
        /\ phase' \in {"idle", "booting"}
    BY <1>2 DEF DutReady, StartReset, trackVars
  <2> QED BY <2>1 DEF Stage
<1>3. CASE NpuReady
  <2>1. UNCHANGED <<suite, k, t, fix, current>> /\ phase = "booting"
        /\ phase' \in {"idle", "module"}
    BY <1>3 DEF NpuReady, trackVars
  <2> QED BY <2>1 DEF Stage
<1>4. CASE MarkedSkip
  <2>1. UNCHANGED <<suite, k, t, fix, current>> /\ phase = "module" /\ phase' = "after"
    BY <1>4 DEF MarkedSkip, trackVars
  <2> QED BY <2>1 DEF Stage
<1>5. CASE ModuleSetup
  <2>1. UNCHANGED <<suite, k, t>> /\ current' = k
        /\ phase' \in {"after", "function"} /\ fix' \in {"error", "skip", "up"}
        /\ (phase' = "function" => fix' = "up")
    BY <1>5 DEF ModuleSetup, Track_module
  <2> QED BY <1>0, <2>1 DEF Stage
<1>6. CASE ModuleSetupKept
  <2>1. UNCHANGED <<suite, k, t, fix, current>> /\ phase = "module" /\ fix # "none"
        /\ phase' \in {"after", "function"} /\ (phase' = "function" => fix = "up")
    BY <1>6 DEF ModuleSetupKept, trackVars
  <2> QED BY <2>1 DEF Stage
<1>7. CASE FunctionSetup \/ Recover \/ Body
  <2>1. UNCHANGED <<suite, k, t, fix, current>> /\ phase \in {"function", "recovering", "body"}
        /\ phase' \in {"recovering", "body", "after"}
    BY <1>7 DEF FunctionSetup, StartReset, Recover, Body, trackVars
  <2>2. fix = "up" BY <2>1 DEF Stage
  <2> QED BY <2>1, <2>2 DEF Stage
<1>8. CASE ModuleTeardown
  <2>1. UNCHANGED <<suite, k, t, current>> /\ phase = "after" /\ phase' = "after" /\ LastTest
        /\ fix' = "none"
    BY <1>8 DEF ModuleTeardown, trackVars
  <2>2. LastTest' BY <2>1 DEF LastTest, Module
  <2> QED BY <2>1, <2>2 DEF Stage
<1>9. CASE NextTest
  <2>1. UNCHANGED <<suite, current>> /\ phase = "after" BY <1>9 DEF NextTest, trackVars
  <2>2. CASE ~LastTest /\ phase' = "module" /\ UNCHANGED <<k, fix>> BY <2>1, <2>2 DEF Stage
  <2>3. CASE fix' = "none" /\ k' = k + 1 /\ phase' = "module" BY <1>0, <2>1, <2>3 DEF Stage
  <2>4. CASE fix' = "none" /\ k' = k /\ phase' = "ending" BY <2>1, <2>4 DEF Stage
  <2> QED BY <1>9, <2>2, <2>3, <2>4 DEF NextTest
<1>10. CASE End
  <2>1. UNCHANGED <<suite, k, t, fix, current>> /\ phase' = "idle"
    BY <1>10 DEF End, trackVars
  <2> QED BY <2>1 DEF Stage
<1>11. CASE DutStep BY <1>11 DEF DutStep, sessionVars, Stage, LastTest, Module
<1> QED
  BY <1>1, <1>2, <1>3, <1>4, <1>5, <1>6, <1>7, <1>8, <1>9, <1>10, <1>11 DEF Next

(* Fixtures run once in a module that has not failed yet; only the call    *)
(* phase of a test, with its module as the current one, notes a failure.   *)
LEMMA TrackedStep == SessionTypes /\ Stage /\ Tracked /\ Next => Tracked'
<1> SUFFICES ASSUME SessionTypes, Stage, Tracked, Next PROVE Tracked'
  OBVIOUS
<1>0. k \in Nat /\ k > 0 /\ current \in Nat /\ previous \in Nat /\ lastFailed \in Nat
  <2>1. Len(suite.modules) \in Nat BY SuiteOf DEF SessionTypes
  <2> QED BY <2>1 DEF SessionTypes
<1>1. CASE Begin
  <2>1. current' = 0 /\ previous' = 0 /\ lastFailed' = 0 /\ failedIn' = {} BY <1>1 DEF Begin
  <2> QED BY <2>1 DEF Tracked
<1>2. CASE ModuleSetup
  <2>1. /\ previous' = current /\ current' = k /\ failedIn' = failedIn
        /\ lastFailed' = IF current # lastFailed THEN 0 ELSE lastFailed
    BY <1>2 DEF ModuleSetup, Track_module
  <2>2. current < k BY <1>2 DEF ModuleSetup, Stage
  <2>3. failedIn' \subseteq 1..current' /\ current' \notin failedIn' BY <1>0, <2>1, <2>2 DEF Tracked
  <2>4. lastFailed' # 0 => lastFailed' = previous' /\ lastFailed' \in failedIn'
    BY <2>1 DEF Tracked
  <2>5. previous' \in failedIn' => lastFailed' = previous' BY <2>1 DEF Tracked
  <2> QED BY <2>3, <2>4, <2>5 DEF Tracked
<1>3. CASE Body
  <2>1. UNCHANGED <<current, previous>> BY <1>3 DEF Body
  <2>2. CASE UNCHANGED <<failedIn, lastFailed>> BY <2>1, <2>2 DEF Tracked
  <2>3. CASE CallFailed
    <3>1. current = k BY <1>3 DEF Body, Stage
    <3>2. failedIn' = failedIn \cup {current} /\ lastFailed' = current BY <2>3 DEF CallFailed
    <3>3. failedIn' \subseteq 1..current' BY <1>0, <2>1, <3>1, <3>2 DEF Tracked
    <3> QED BY <2>1, <3>2, <3>3 DEF Tracked
  <2> QED BY <1>3, <2>2, <2>3 DEF Body
<1>4. CASE ~Begin /\ ~ModuleSetup /\ ~Body
  <2>1. UNCHANGED <<current, previous, lastFailed, failedIn>>
    BY <1>4 DEF Next, DutReady, NpuReady, MarkedSkip, ModuleSetupKept, FunctionSetup, Recover,
                ModuleTeardown, NextTest, End, DutStep, sessionVars, trackVars
  <2> QED BY <2>1 DEF Tracked
<1> QED BY <1>1, <1>2, <1>3, <1>4

-----------------------------------------------------------------------------
(* The invariant, and what it says.                                        *)

LEMMA SessionInit == Init => SessionInv
<1> SUFFICES ASSUME Init PROVE SessionInv
  OBVIOUS
<1>0. /\ suite \in Suites /\ phase = "idle" /\ k = 1 /\ t = 1 /\ sw = Blank /\ fix = "none"
      /\ flag = FALSE /\ current = 0 /\ previous = 0 /\ lastFailed = 0 /\ faults = 0
      /\ failedIn = {} /\ unreset = FALSE /\ forgot = FALSE /\ DutInit
  BY DEF Init
<1>1. SessionTypes
  <2>1. /\ Len(suite.modules) \in Nat \ {0} /\ MaxFaults \in Nat
        /\ \A i \in 1..Len(suite.modules) : suite.modules[i].tests \in Nat \ {0}
    BY <1>0, SuiteOf, SessionAssumption
  <2>2. k \in 1..Len(suite.modules) /\ t \in 1..Module.tests BY <1>0, <2>1 DEF Module
  <2>3. sw.ok BY <1>0 DEF Blank
  <2>4. {current, previous, lastFailed} \subseteq 0..Len(suite.modules) /\ faults \in 0..MaxFaults
    BY <1>0, <2>1
  <2> QED BY <1>0, <2>2, <2>3, <2>4 DEF SessionTypes
<1>2. Stage BY <1>0 DEF Stage
<1>3. Tracked BY <1>0 DEF Tracked
<1>4. Started BY <1>0 DEF Started
<1>5. DutInv
  <2>1. /\ prog = <<>> /\ cmds = {} /\ called = "deinit" /\ masked = {} /\ up = Containers
        /\ metadata = {"config_db"} /\ gaveUp = FALSE /\ stopped = FALSE
        /\ late = {} /\ early = {} /\ skipped = {} /\ svc = [s \in Names |-> "active"]
    BY <1>0 DEF DutInit
  <2>2. DOMAIN prog = {} /\ Left = {}
    <3>1. DOMAIN prog = {} BY <2>1
    <3> QED BY <3>1 DEF Left
  <2>3. DutTypes
    <3>1. svc \in [Names -> {"active", "inactive", "failed"}] BY <2>1
    <3> QED BY <2>1, <3>1 DEF DutTypes
  <2>4. Method BY <2>1, <2>2 DEF Method, Ordered
  <2>5. Calm BY <2>2 DEF Calm, FlushDue
  <2>6. Safe BY <2>1, <2>2 DEF Safe, FlushDue, MetadataKept
  <2>7. Returning BY <2>1, <2>2 DEF Returning, Unmasked, Restarted
  <2> QED BY <2>3, <2>4, <2>5, <2>6, <2>7 DEF DutInv
<1> QED BY <1>1, <1>2, <1>3, <1>4, <1>5 DEF SessionInv

LEMMA SessionStep == SessionInv /\ [Next]_vars => SessionInv'
<1> SUFFICES ASSUME SessionInv, [Next]_vars PROVE SessionInv'
  OBVIOUS
<1>1. CASE Next
  BY <1>1, SessionTypesStep, StageStep, TrackedStep, StartedStep, DutInvStep DEF SessionInv
<1>2. CASE UNCHANGED vars
  <2>1. UNCHANGED <<suite, phase, k, t, sw, fix, flag, current, previous, lastFailed, faults,
                    failedIn, unreset, forgot, called>> /\ UNCHANGED dutVars
    BY <1>2 DEF vars, sessionVars, dutVars, history
  <2>2. DutInv' BY <2>1, DutFrame DEF SessionInv
  <2>3. SessionTypes' BY <2>1 DEF SessionInv, SessionTypes, Module
  <2>4. Stage' /\ Tracked' /\ Started'
    BY <2>1 DEF SessionInv, Stage, Tracked, Started, LastTest, Module, HasDut
  <2> QED BY <2>2, <2>3, <2>4 DEF SessionInv
<1> QED BY <1>1, <1>2

(* Every state of a session satisfies the invariant.                       *)
LEMMA SessionInvariance == Spec => []SessionInv
<1> QED BY SessionInit, SessionStep, PTL DEF Spec

(* The variables of a session and of its DUT stay in their sets: modules   *)
(* and tests are counted within the suite, and no handler leaves an        *)
(* exception of the switch behind.                                         *)
THEOREM SessionTypeCorrect == Spec => []TypeOK
<1>1. SessionInv => TypeOK
  BY DutInvMeans DEF SessionInv, SessionTypes, TypeOK
<1> QED BY <1>1, SessionInvariance, PTL

(* prev_module_failed (conftest.py): in the body of a test the names that  *)
(* track_module and the report hook keep say that the module before had a  *)
(* failed call phase exactly when it had, until this one has one itself.   *)
THEOREM PreviousModuleTold == Spec => []PrevModuleTold
<1>1. SessionInv => PrevModuleTold
  BY DEF SessionInv, Tracked, PrevModuleTold
<1> QED BY <1>1, SessionInvariance, PTL

(* FLUSHALL in SaiDut's init() never takes what a DUT in use would miss:   *)
(* the services that write to the database have stopped by then, or it has *)
(* saved what they wrote, and CONFIG_DB's metadata is written back.        *)
THEOREM FlushIsHarmless == Spec => []FlushHarmless
<1>1. SessionInv => FlushHarmless BY DutInvMeans DEF SessionInv
<1> QED BY <1>1, SessionInvariance, PTL

(* When deinit() of a DUT that restores its services has run, each of them *)
(* is unmasked and runs again, but those it could not have reached.        *)
THEOREM ServicesComeBack == Spec => []ServicesBack
<1>1. SessionInv => ServicesBack BY DutInvMeans DEF SessionInv
<1> QED BY <1>1, SessionInvariance, PTL
=============================================================================
