------------------------------ MODULE RedisRpc ------------------------------
(***************************************************************************)
(* SaiRedisClient.operate() and cleanup(): a blocking call to syncd made   *)
(* of single Redis commands on two shared lists.                           *)
(*                                                                         *)
(*   client                        Redis                        syncd      *)
(*   LPUSH  ASIC_STATE_KEY_VALUE_OP_QUEUE   ->  reqQ  ->  pops a request   *)
(*   PUBLISH ASIC_STATE_CHANNEL "G"         ->  notified                   *)
(*   LRANGE GETRESPONSE_KEY_VALUE_OP_QUEUE  <-  rspQ  <-  pushes an answer *)
(*                                                                         *)
(* Each Redis command is atomic and everything may happen between two of   *)
(* them: syncd works, dies and is restarted by supervisord, another client *)
(* (the sai CLI beside pytest) uses the same two lists, a client is        *)
(* interrupted.  An answer carries no request id: ids exist in the model   *)
(* only, to say whose answer a caller got.                                 *)
(***************************************************************************)
EXTENDS Naturals, Sequences, FiniteSets

CONSTANTS
  Clients,       \* processes with a SaiRedisClient on this server
  PollBudgets,   \* numbers of polls before a call gives up: 100, or 240 for a switch create
  MaxCalls,      \* bound: MaxCalls[c] calls of client c
  MaxFaults      \* bound: syncd crashes and client interruptions together

ASSUME BudgetsAssumption == PollBudgets \subseteq Nat /\ PollBudgets # {}
ASSUME BoundsAssumption == MaxCalls \in [Clients -> Nat] /\ MaxFaults \in Nat

VARIABLES
  \* Redis server, restarted by supervisord (redis_start.sh kills syncd first)
  redisUp,
  reqQ,          \* ASIC_STATE_KEY_VALUE_OP_QUEUE, oldest request first
  rspQ,          \* the answers in GETRESPONSE_KEY_VALUE_OP_QUEUE
  \* syncd
  syncdUp,       \* subscribed to ASIC_STATE_CHANNEL
  notified,      \* it knows there is something to pop
  work,          \* {} or {request popped, not yet answered}
  \* client
  pc,            \* next Redis command of the call or of the cleanup
  channel,       \* asic_channel is not None
  polls,         \* attempts left
  seen,          \* the answers of the last LRANGE
  \* history, read by no action of the code
  issued, executed, abandoned, got, faults

redisVars == <<redisUp, reqQ, rspQ>>
syncdVars == <<syncdUp, notified, work>>
clientVars == <<pc, channel, polls, seen>>
history == <<issued, executed, abandoned, got>>
vars == <<redisVars, syncdVars, clientVars, history, faults>>

Ids == Clients \X Nat

CallSteps == {"locate", "delete", "check", "push", "publish", "poll", "alive", "finish"}
CleanupSteps == {"flush", "shutdown", "awaitRedis", "awaitSyncd"}

Own(c) == <<c, issued[c]>>
InCall(c) == pc[c] \in CallSteps
Sent(c) == pc[c] \in {"publish", "poll", "alive", "finish"}
OfClient(c) == {c} \X Nat
Elements(s) == {s[i] : i \in 1..Len(s)}
Queued == Elements(reqQ)

Init ==
  /\ redisUp = TRUE /\ reqQ = <<>> /\ rspQ = {}
  /\ syncdUp \in BOOLEAN /\ notified = FALSE /\ work = {}
  /\ pc = [c \in Clients |-> "idle"]
  /\ channel = [c \in Clients |-> FALSE]
  /\ polls = [c \in Clients |-> 0]
  /\ seen = [c \in Clients |-> {}]
  /\ issued = [c \in Clients |-> 0]
  /\ executed = {} /\ abandoned = {}
  /\ got = [c \in Clients |-> {}]
  /\ faults = 0

Goto(c, label) == pc' = [pc EXCEPT ![c] = label]

(* The call ends in an exception; the request, if it was pushed, is left   *)
(* to whoever finds it.                                                    *)
GiveUp(c) ==
  /\ Goto(c, "idle")
  /\ abandoned' = IF Sent(c) THEN abandoned \cup {Own(c)} ELSE abandoned
  /\ UNCHANGED <<issued, executed, got>>

-----------------------------------------------------------------------------
(* operate()                                                               *)

Begin(c) ==
  /\ pc[c] = "idle" /\ issued[c] < MaxCalls[c]
  /\ Goto(c, IF channel[c] THEN "delete" ELSE "locate")
  /\ issued' = [issued EXCEPT ![c] = @ + 1]
  /\ got' = [got EXCEPT ![c] = {}]
  /\ UNCHANGED <<redisVars, syncdVars, channel, polls, seen, executed, abandoned, faults>>

(* __assert_syncd_running: found on one of the 31 tries, or never.         *)
Locate(c) ==
  /\ pc[c] = "locate" /\ redisUp
  /\ channel' = [channel EXCEPT ![c] = syncdUp]
  /\ IF syncdUp THEN Goto(c, "delete") /\ UNCHANGED history ELSE GiveUp(c)
  /\ UNCHANGED <<redisVars, syncdVars, polls, seen, faults>>

Delete(c) ==
  /\ pc[c] = "delete" /\ redisUp
  /\ rspQ' = {}
  /\ Goto(c, "check")
  /\ UNCHANGED <<redisUp, reqQ, syncdVars, channel, polls, seen, history, faults>>

(* assert len(status) == 0, "Redis RPC I/O failure!"                       *)
Check(c) ==
  /\ pc[c] = "check" /\ redisUp
  /\ IF rspQ = {} THEN Goto(c, "push") /\ UNCHANGED history ELSE GiveUp(c)
  /\ UNCHANGED <<redisVars, syncdVars, channel, polls, seen, faults>>

Push(c) ==
  /\ pc[c] = "push" /\ redisUp
  /\ reqQ' = Append(reqQ, Own(c))
  /\ Goto(c, "publish")
  /\ UNCHANGED <<redisUp, rspQ, syncdVars, channel, polls, seen, history, faults>>

(* PUBLISH reaches the current subscriber only; then the first LRANGE.     *)
Publish(c) ==
  /\ pc[c] = "publish" /\ redisUp
  /\ notified' = (notified \/ syncdUp)
  /\ \E n \in PollBudgets : polls' = [polls EXCEPT ![c] = n]
  /\ Goto(c, "poll")
  /\ UNCHANGED <<redisVars, syncdUp, work, channel, seen, history, faults>>

\* Mutant: one poll more than there are attempts.
PollOnceMore(c) ==
  /\ pc[c] = "poll" /\ redisUp
  /\ seen' = [seen EXCEPT ![c] = rspQ]
  /\ Goto(c, IF rspQ = {} /\ polls[c] >= 0 THEN "alive" ELSE "finish")
  /\ UNCHANGED <<redisVars, syncdVars, channel, polls, history, faults>>

Poll(c) ==
  /\ pc[c] = "poll" /\ redisUp
  /\ seen' = [seen EXCEPT ![c] = rspQ]
  /\ Goto(c, IF rspQ = {} /\ polls[c] > 0 THEN "alive" ELSE "finish")
  /\ UNCHANGED <<redisVars, syncdVars, channel, polls, history, faults>>

\* Mutant: attempts are not counted down.
AliveForever(c) ==
  /\ pc[c] = "alive" /\ redisUp
  /\ IF syncdUp THEN Goto(c, "poll") /\ UNCHANGED history ELSE GiveUp(c)
  /\ UNCHANGED <<redisVars, syncdVars, channel, polls, seen, faults>>

\* Mutant: the request is pushed again when the answer is late.
AliveRetries(c) ==
  /\ pc[c] = "alive" /\ redisUp /\ syncdUp
  /\ polls' = [polls EXCEPT ![c] = @ - 1]
  /\ reqQ' = Append(reqQ, Own(c))
  /\ Goto(c, "poll")
  /\ UNCHANGED <<redisUp, rspQ, syncdVars, channel, seen, history, faults>>

(* assert self.__check_syncd_running(), "FATAL - SyncD has exited or crashed!" *)
Alive(c) ==
  /\ pc[c] = "alive" /\ redisUp
  /\ \/ /\ syncdUp
        /\ polls' = [polls EXCEPT ![c] = @ - 1]
        /\ Goto(c, "poll")
        /\ UNCHANGED history
     \/ /\ ~syncdUp
        /\ GiveUp(c)
        /\ polls' = [polls EXCEPT ![c] = 0]
  /\ UNCHANGED <<redisVars, syncdVars, channel, seen, faults>>

\* Mutant: more than one answer is as good as one.
FinishAnyLength(c) ==
  /\ pc[c] = "finish" /\ redisUp
  /\ rspQ' = {}
  /\ Goto(c, "idle")
  /\ got' = [got EXCEPT ![c] = seen[c]]
  /\ abandoned' = abandoned \cup ({Own(c)} \ seen[c])
  /\ seen' = [seen EXCEPT ![c] = {}] /\ polls' = [polls EXCEPT ![c] = 0]
  /\ UNCHANGED <<redisUp, reqQ, syncdVars, channel, issued, executed, faults>>

(* DEL, then assert len(status) == 3: exactly one answer was read.         *)
Finish(c) ==
  /\ pc[c] = "finish" /\ redisUp
  /\ rspQ' = {}
  /\ IF Cardinality(seen[c]) = 1
       THEN /\ Goto(c, "idle")
            /\ got' = [got EXCEPT ![c] = seen[c]]
            /\ abandoned' = abandoned \cup ({Own(c)} \ seen[c])
            /\ UNCHANGED <<issued, executed>>
       ELSE GiveUp(c)
  /\ seen' = [seen EXCEPT ![c] = {}] /\ polls' = [polls EXCEPT ![c] = 0]
  /\ UNCHANGED <<redisUp, reqQ, syncdVars, channel, faults>>
-----------------------------------------------------------------------------
(* cleanup(), server environment (is_dut_mbr is False).                    *)

\* Mutant: the flush misses the database of the request list.
FlushOtherDb(c) ==
  /\ pc[c] = "idle" /\ redisUp
  /\ Goto(c, "shutdown")
  /\ UNCHANGED <<redisVars, syncdVars, channel, polls, seen, history, faults>>

Flush(c) ==
  /\ pc[c] = "idle" /\ redisUp
  /\ reqQ' = <<>> /\ rspQ' = {}
  /\ Goto(c, "shutdown")
  /\ UNCHANGED <<redisUp, syncdVars, channel, polls, seen, history, faults>>

\* Mutant: Redis, and with it syncd, is not restarted.
ShutdownSkipped(c) ==
  /\ pc[c] = "shutdown" /\ redisUp
  /\ Goto(c, "awaitRedis")
  /\ UNCHANGED <<redisVars, syncdVars, channel, polls, seen, history, faults>>

Shutdown(c) ==
  /\ pc[c] = "shutdown" /\ redisUp
  /\ redisUp' = FALSE
  /\ Goto(c, "awaitRedis")
  /\ UNCHANGED <<reqQ, rspQ, syncdVars, channel, polls, seen, history, faults>>

(* assert_process_running(): the port opens in time, or the cleanup fails. *)
AwaitRedis(c) ==
  /\ pc[c] = "awaitRedis"
  /\ Goto(c, IF redisUp THEN "awaitSyncd" ELSE "idle")
  /\ UNCHANGED <<redisVars, syncdVars, channel, polls, seen, history, faults>>

AwaitSyncd(c) ==
  /\ pc[c] = "awaitSyncd" /\ redisUp
  /\ channel' = [channel EXCEPT ![c] = syncdUp]
  /\ abandoned' = IF syncdUp THEN abandoned \ OfClient(c) ELSE abandoned
  /\ Goto(c, "idle")
  /\ UNCHANGED <<redisVars, syncdVars, polls, seen, issued, executed, got, faults>>

-----------------------------------------------------------------------------
(* Failures of a client.                                                   *)

(* redis.ConnectionError out of whatever command comes next.               *)
ConnectionLost(c) ==
  /\ ~redisUp /\ pc[c] \notin {"idle", "awaitRedis"}
  /\ GiveUp(c)
  /\ seen' = [seen EXCEPT ![c] = {}] /\ polls' = [polls EXCEPT ![c] = 0]
  /\ UNCHANGED <<redisVars, syncdVars, channel, faults>>

(* The process is interrupted; the next one starts with asic_channel None. *)
Interrupt(c) ==
  /\ pc[c] # "idle" /\ faults < MaxFaults
  /\ GiveUp(c)
  /\ channel' = [channel EXCEPT ![c] = FALSE]
  /\ seen' = [seen EXCEPT ![c] = {}] /\ polls' = [polls EXCEPT ![c] = 0]
  /\ faults' = faults + 1
  /\ UNCHANGED <<redisVars, syncdVars>>

-----------------------------------------------------------------------------
(* syncd and supervisord, as far as the client's code relies on them.      *)

SyncdTake ==
  /\ redisUp /\ syncdUp /\ notified /\ work = {}
  /\ IF reqQ = <<>>
       THEN notified' = FALSE /\ UNCHANGED <<reqQ, work, executed>>
       ELSE /\ work' = {Head(reqQ)}
            /\ executed' = executed \cup {Head(reqQ)}
            /\ reqQ' = Tail(reqQ)
            /\ notified' = notified
  /\ UNCHANGED <<redisUp, rspQ, syncdUp, clientVars, issued, abandoned, got, faults>>

SyncdAnswer ==
  /\ redisUp /\ work # {}
  /\ rspQ' = rspQ \cup work
  /\ work' = {}
  /\ UNCHANGED <<redisUp, reqQ, syncdUp, notified, clientVars, history, faults>>

SyncdCrash ==
  /\ syncdUp /\ faults < MaxFaults
  /\ syncdUp' = FALSE /\ notified' = FALSE /\ work' = {}
  /\ faults' = faults + 1
  /\ UNCHANGED <<redisVars, clientVars, history>>

(* autorestart; what an earlier syncd left unread is read or thrown away.  *)
SyncdStart ==
  /\ redisUp /\ ~syncdUp
  /\ syncdUp' = TRUE /\ notified' = TRUE
  /\ reqQ' \in {reqQ, <<>>}
  /\ UNCHANGED <<redisUp, rspQ, work, clientVars, history, faults>>

(* redis_start.sh: killall syncd, then exec redis-server.                  *)
RedisRestart ==
  /\ ~redisUp
  /\ redisUp' = TRUE
  /\ syncdUp' = FALSE /\ notified' = FALSE /\ work' = {}
  /\ UNCHANGED <<reqQ, rspQ, clientVars, history, faults>>

-----------------------------------------------------------------------------
Operate(c) ==
  \/ Begin(c) \/ Locate(c) \/ Delete(c) \/ Check(c) \/ Push(c)
  \/ Publish(c) \/ Poll(c) \/ Alive(c) \/ Finish(c)

Cleanup(c) == Flush(c) \/ Shutdown(c) \/ AwaitRedis(c) \/ AwaitSyncd(c)

Environment == SyncdTake \/ SyncdAnswer \/ SyncdCrash \/ SyncdStart \/ RedisRestart

Next ==
  \/ \E c \in Clients : Operate(c) \/ Cleanup(c) \/ ConnectionLost(c) \/ Interrupt(c)
  \/ Environment

Spec == Init /\ [][Next]_vars

(* A client that is inside a call or a cleanup keeps running, and          *)
(* supervisord restarts Redis.  Nothing is assumed of syncd: it may hang,  *)
(* stay down, or never answer.                                             *)
ClientStep(c) ==
  /\ pc[c] # "idle"
  /\ Operate(c) \/ Cleanup(c) \/ ConnectionLost(c)

FairSpec ==
  /\ Spec
  /\ WF_vars(RedisRestart)
  /\ \A c \in Clients : WF_vars(ClientStep(c))

-----------------------------------------------------------------------------
TypeOK ==
  /\ redisUp \in BOOLEAN /\ reqQ \in Seq(Ids) /\ rspQ \subseteq Ids
  /\ syncdUp \in BOOLEAN /\ notified \in BOOLEAN /\ work \subseteq Ids
  /\ pc \in [Clients -> {"idle"} \cup CallSteps \cup CleanupSteps]
  /\ channel \in [Clients -> BOOLEAN]
  /\ polls \in [Clients -> Nat]
  /\ \A c \in Clients : pc[c] = "alive" => polls[c] > 0
  /\ seen \in [Clients -> SUBSET Ids]
  /\ issued \in [Clients -> Nat]
  /\ executed \subseteq Ids /\ abandoned \subseteq Ids
  /\ got \in [Clients -> SUBSET Ids]
  /\ faults \in Nat

(* A call reads an answer to an earlier call of its own process only if    *)
(* that call failed after its LPUSH (timeout, crash, interrupt, mixed-up   *)
(* answer) and the process has not finished a cleanup() since.             *)
AnswersExplained ==
  \A c \in Clients : \A x \in seen[c] :
    x[1] = c => x = Own(c) \/ x \in abandoned

(* Nobody retries a request on its own: whatever fails or restarts, syncd  *)
(* never hands the same request to the SAI library a second time.          *)
ExecutedOnce == [][work' \subseteq work \/ work' \cap executed = {}]_vars

(* A cleanup() that succeeds leaves nothing of its process behind that     *)
(* syncd could still execute, in spite of FLUSHALL, SHUTDOWN and the two   *)
(* restarts being separate steps.                                          *)
CleanupForgets ==
  [][\A c \in Clients :
       pc[c] = "awaitSyncd" /\ pc'[c] = "idle" /\ channel'[c] /\ syncdUp
         => (Queued \cup work) \cap OfClient(c) = {}]_vars

(* Every call and every cleanup comes to an end, even if syncd hangs.      *)
CallEnds == \A c \in Clients : pc[c] # "idle" ~> pc[c] = "idle"

(* operate() is a SAI call of SaiRpc, without correlation of answers.      *)
Rpc == INSTANCE SaiRpc WITH
  Correlated <- FALSE,
  inCall <- [c \in Clients |-> InCall(c)],
  doubtful <- {c \in Clients : abandoned \cap OfClient(c) # {}}

ImplementsSaiRpc == Rpc!Spec
=============================================================================
