----------------------------- MODULE RemoteCmd -----------------------------
(***************************************************************************)
(* Commands to the server's host interfaces and packet agent: the client   *)
(* half is SaiRedisClient.__remote_cmd_operate(), the server half          *)
(* scripts/redis-cmd-listener.py, a supervisord program.  They meet in two *)
(* Redis lists,                                                            *)
(*                                                                         *)
(*   cmdQ     SAI_CHALLENGER_CMD_QUEUE         one command per call        *)
(*   statusQ  SAI_CHALLENGER_CMD_STATUS_QUEUE  newest status first         *)
(*                                                                         *)
(* and neither a command nor a status carries an id.  The listener reads   *)
(* the list and deletes it in two Redis commands, dies of any exception    *)
(* and is started again with no memory of the agent it has spawned.        *)
(***************************************************************************)
EXTENDS Naturals, Sequences, FiniteSets

CONSTANTS
  Clients,    \* processes that use the remote_iface_* calls
  Commands,   \* the commands they use
  Attempts,   \* self.attempts: polls of the status list, 100 in the code
  MaxCalls,   \* bound: MaxCalls[c] calls of client c
  MaxFaults   \* bound: listener crashes, Redis restarts, client interruptions

AllCommands ==
  {"iface_exists", "iface_is_up", "set_up", "set_down", "start_nn_agent", "stop_nn_agent"}

ASSUME CommandsAssumption == Commands \subseteq AllCommands
ASSUME CmdBoundsAssumption ==
  Attempts \in Nat /\ MaxCalls \in [Clients -> Nat] /\ MaxFaults \in Nat

VARIABLES
  cmdQ, statusQ,
  pc, left, seen,           \* client: next Redis command, polls left, last LRANGE
  lpc, batch, reply, handle, \* listener: next step, list read, status to push, nn_agent_p
  iface, agents,            \* server: a host interface, the running packet agents
  issued, executed, abandoned, got, strays, faults   \* history

clientVars == <<pc, left, seen>>
listenerVars == <<lpc, batch, reply, handle>>
serverVars == <<iface, agents>>
history == <<issued, executed, abandoned, got, strays>>
vars == <<cmdQ, statusQ, clientVars, listenerVars, serverVars, history, faults>>

Ids == Clients \X Nat
Elements(s) == {s[i] : i \in 1..Len(s)}
IdsIn(s) == {m.id : m \in Elements(s)}

Own(c) == <<c, issued[c]>>
OfClient(c) == {c} \X Nat

Init ==
  /\ cmdQ = <<>> /\ statusQ = <<>>
  /\ pc = [c \in Clients |-> "idle"]
  /\ left = [c \in Clients |-> 0]
  /\ seen = [c \in Clients |-> <<>>]
  /\ lpc = "down" /\ batch = <<>> /\ reply = <<>> /\ handle = {}
  /\ iface \in {"absent", "down", "up"} /\ agents = {}
  /\ issued = [c \in Clients |-> 0]
  /\ executed = {} /\ abandoned = {} /\ strays = {}
  /\ got = [c \in Clients |-> {}]
  /\ faults = 0

Goto(c, label) == pc' = [pc EXCEPT ![c] = label]

-----------------------------------------------------------------------------
(* The client: __remote_cmd_operate(), one Redis command per action.       *)

DelCmd(c) ==
  /\ pc[c] = "idle" /\ issued[c] < MaxCalls[c]
  /\ cmdQ' = <<>>
  /\ issued' = [issued EXCEPT ![c] = @ + 1]
  /\ got' = [got EXCEPT ![c] = {}]
  /\ Goto(c, "delStatus")
  /\ UNCHANGED <<statusQ, left, seen, listenerVars, serverVars, executed, abandoned, strays, faults>>

DelStatus(c) ==
  /\ pc[c] = "delStatus"
  /\ statusQ' = <<>>
  /\ Goto(c, "push")
  /\ UNCHANGED <<cmdQ, left, seen, listenerVars, serverVars, history, faults>>

Push(c) ==
  /\ pc[c] = "push"
  /\ \E k \in Commands : cmdQ' = Append(cmdQ, [id |-> Own(c), cmd |-> k])
  /\ left' = [left EXCEPT ![c] = Attempts]
  /\ seen' = [seen EXCEPT ![c] = <<>>]
  /\ Goto(c, "poll")
  /\ UNCHANGED <<statusQ, listenerVars, serverVars, history, faults>>

Polling(c) == pc[c] = "poll" /\ seen[c] = <<>> /\ left[c] > 0

Poll(c) ==
  /\ Polling(c)
  /\ left' = [left EXCEPT ![c] = @ - 1]
  /\ seen' = [seen EXCEPT ![c] = statusQ]
  /\ UNCHANGED <<cmdQ, statusQ, pc, listenerVars, serverVars, history, faults>>

(* What a caller makes of the statuses it read: the newest, or "err".      *)
Answer(s) == IF s = <<>> THEN {} ELSE Head(s).for

\* Mutant: a timeout counts as success.
FinishTrusting(c) ==
  /\ pc[c] = "poll" /\ ~Polling(c)
  /\ statusQ' = <<>>
  /\ got' = [got EXCEPT ![c] = {Own(c)}]
  /\ seen' = [seen EXCEPT ![c] = <<>>] /\ left' = [left EXCEPT ![c] = 0]
  /\ Goto(c, "idle")
  /\ UNCHANGED <<cmdQ, listenerVars, serverVars, issued, executed, abandoned, strays, faults>>

Finish(c) ==
  /\ pc[c] = "poll" /\ ~Polling(c)
  /\ statusQ' = <<>>
  /\ got' = [got EXCEPT ![c] = Answer(seen[c])]
  /\ abandoned' = abandoned \cup ({Own(c)} \ Answer(seen[c]))
  /\ seen' = [seen EXCEPT ![c] = <<>>] /\ left' = [left EXCEPT ![c] = 0]
  /\ Goto(c, "idle")
  /\ UNCHANGED <<cmdQ, listenerVars, serverVars, issued, executed, strays, faults>>

(* The call is cut short: the process is killed, or Redis hangs up on it.  *)
Aborted(C) ==
  /\ pc' = [c \in Clients |-> IF c \in C THEN "idle" ELSE pc[c]]
  /\ seen' = [c \in Clients |-> IF c \in C THEN <<>> ELSE seen[c]]
  /\ left' = [c \in Clients |-> IF c \in C THEN 0 ELSE left[c]]
  /\ abandoned' = abandoned \cup {Own(c) : c \in {d \in C : pc[d] = "poll"}}
  /\ UNCHANGED <<issued, executed, got>>

Interrupt(c) ==
  /\ pc[c] # "idle" /\ faults < MaxFaults
  /\ Aborted({c})
  /\ faults' = faults + 1
  /\ UNCHANGED <<cmdQ, statusQ, listenerVars, serverVars, strays>>

-----------------------------------------------------------------------------
(* The listener: main() of redis-cmd-listener.py.                          *)

(* supervisord starts it (again); main() sleeps, nn_agent_p is None.       *)
ListenerStart ==
  /\ lpc = "down"
  /\ lpc' = "read"
  /\ UNCHANGED <<cmdQ, statusQ, clientVars, batch, reply, handle, serverVars, history, faults>>

\* Mutant: an empty list is taken for a command.
ListenerReadAlways ==
  /\ lpc = "read"
  /\ batch' = cmdQ
  /\ lpc' = "delete"
  /\ UNCHANGED <<cmdQ, statusQ, clientVars, reply, handle, serverVars, history, faults>>

\* Mutant: the status goes out before the list is deleted.
ListenerAnswersFirst ==
  /\ lpc = "read" /\ cmdQ # <<>>
  /\ batch' = cmdQ
  /\ statusQ' = <<[for |-> {Head(cmdQ).id}, ok |-> TRUE]>> \o statusQ
  /\ lpc' = "delete"
  /\ UNCHANGED <<cmdQ, clientVars, reply, handle, serverVars, history, faults>>

ListenerRead ==
  /\ lpc = "read" /\ cmdQ # <<>>
  /\ batch' = cmdQ
  /\ lpc' = "delete"
  /\ UNCHANGED <<cmdQ, statusQ, clientVars, reply, handle, serverVars, history, faults>>

\* Mutant: the commands that were read stay in the list.
ListenerKeeps ==
  /\ lpc = "delete"
  /\ lpc' = "execute"
  /\ UNCHANGED <<cmdQ, statusQ, clientVars, batch, reply, handle, serverVars, history, faults>>

(* DEL takes whatever the list holds by now.                               *)
ListenerDelete ==
  /\ lpc = "delete"
  /\ cmdQ' = <<>>
  /\ lpc' = "execute"
  /\ UNCHANGED <<statusQ, clientVars, batch, reply, handle, serverVars, history, faults>>

(* cmd[0] decides, and len(cmd) == 2 holds for a list of one command only; *)
(* stop_nn_agent alone is taken whatever follows it.                       *)
First == Head(batch)
Accepts(k) == lpc = "execute" /\ First.cmd = k /\ (Len(batch) = 1 \/ k = "stop_nn_agent")

Replies(ok) ==
  /\ lpc' = "reply"
  /\ reply' = <<[for |-> {First.id}, ok |-> ok]>>
  /\ executed' = executed \cup {First.id}
  /\ UNCHANGED <<cmdQ, statusQ, clientVars, batch, issued, abandoned, got, faults>>

(* An exception leaves main(): handle and batch go with the process.       *)
Dies ==
  /\ lpc' = "down" /\ batch' = <<>> /\ reply' = <<>>
  /\ handle' = {} /\ strays' = strays \cup (handle \cap agents)
  /\ UNCHANGED <<cmdQ, agents>>

Answering == [iface_exists |-> {"down", "up"}, iface_is_up |-> {"up"}]

ExecIface ==
  /\ \E k \in DOMAIN Answering : Accepts(k) /\ Replies(iface \in Answering[k])
  /\ UNCHANGED <<handle, serverVars, strays>>

Setting == [set_up |-> "up", set_down |-> "down"]

(* The ioctl raises on an interface that is not there.                     *)
ExecSetIface ==
  \/ /\ iface # "absent"
     /\ \E k \in DOMAIN Setting : Accepts(k) /\ iface' = Setting[k]
     /\ Replies(TRUE)
     /\ UNCHANGED <<handle, agents, strays>>
  \/ /\ iface = "absent"
     /\ \E k \in DOMAIN Setting : Accepts(k)
     /\ Dies
     /\ executed' = executed \cup {First.id}
     /\ UNCHANGED <<statusQ, clientVars, iface, issued, abandoned, got, faults>>

(* Popen: always "ok", p.returncode is None until somebody polls it.  An   *)
(* agent that finds its port taken exits on its own.                       *)
ExecStart ==
  /\ Accepts("start_nn_agent")
  /\ handle' = {First.id}
  /\ agents' = IF agents = {} THEN {First.id} ELSE agents
  /\ strays' = strays \cup (handle \cap agents)
  /\ Replies(TRUE)
  /\ UNCHANGED iface

\* Mutant: the handle is dropped, the agent is not terminated.
StopForgets ==
  /\ Accepts("stop_nn_agent") /\ handle # {}
  /\ handle' = {}
  /\ Replies(TRUE)
  /\ UNCHANGED <<agents, iface, strays>>

(* terminate() and wait(); None has no returncode.                         *)
ExecStop ==
  /\ Accepts("stop_nn_agent")
  /\ IF handle # {}
       THEN /\ agents' = agents \ handle
            /\ handle' = {}
            /\ Replies(TRUE)
            /\ UNCHANGED <<iface, strays>>
       ELSE /\ Dies
            /\ executed' = executed \cup {First.id}
            /\ UNCHANGED <<statusQ, clientVars, iface, issued, abandoned, got, faults>>

(* else: status = "err", whichever commands were read.                     *)
Refuse ==
  /\ lpc = "execute" /\ Len(batch) > 1 /\ First.cmd # "stop_nn_agent"
  /\ lpc' = "reply"
  /\ reply' = <<[for |-> {}, ok |-> FALSE]>>
  /\ UNCHANGED <<cmdQ, statusQ, clientVars, batch, handle, serverVars, history, faults>>

ListenerReply ==
  /\ lpc = "reply"
  /\ statusQ' = reply \o statusQ
  /\ lpc' = "read" /\ batch' = <<>> /\ reply' = <<>>
  /\ UNCHANGED <<cmdQ, clientVars, handle, serverVars, history, faults>>

-----------------------------------------------------------------------------
(* The rest of the server.                                                 *)

ListenerCrash ==
  /\ lpc # "down" /\ faults < MaxFaults
  /\ Dies
  /\ faults' = faults + 1
  /\ UNCHANGED <<statusQ, clientVars, iface, issued, executed, abandoned, got>>

(* SaiRedisClient.cleanup() of an idle client: FLUSHALL and a new Redis.   *)
(* Who talks to Redis while it is down dies of a ConnectionError.          *)
RedisRestart(c) ==
  /\ pc[c] = "idle" /\ faults < MaxFaults
  /\ cmdQ' = <<>> /\ statusQ' = <<>>
  /\ \E C \in SUBSET {d \in Clients : pc[d] # "idle"} : Aborted(C)
  /\ \/ /\ lpc' = "down" /\ batch' = <<>> /\ reply' = <<>>
        /\ handle' = {} /\ strays' = strays \cup (handle \cap agents)
     \/ UNCHANGED <<listenerVars, strays>>
  /\ faults' = faults + 1
  /\ UNCHANGED serverVars

(* A host interface is created and removed through SAI, by syncd.          *)
IfaceChanges ==
  /\ iface' \in {"absent", "down"} \ {iface}
  /\ UNCHANGED <<cmdQ, statusQ, clientVars, listenerVars, agents, history, faults>>

-----------------------------------------------------------------------------
Call(c) == DelCmd(c) \/ DelStatus(c) \/ Push(c) \/ Poll(c) \/ Finish(c)

Execute == ExecIface \/ ExecSetIface \/ ExecStart \/ ExecStop \/ Refuse

Listener == ListenerStart \/ ListenerRead \/ ListenerDelete \/ Execute \/ ListenerReply

Next ==
  \/ \E c \in Clients : Call(c) \/ Interrupt(c) \/ RedisRestart(c)
  \/ Listener \/ ListenerCrash \/ IfaceChanges

Spec == Init /\ [][Next]_vars

(* A client inside a call keeps running; supervisord restarts the listener *)
(* (autorestart=true), whose loop never blocks.                            *)
FairSpec ==
  /\ Spec
  /\ WF_vars(Listener)
  /\ \A c \in Clients : WF_vars(pc[c] # "idle" /\ Call(c))

-----------------------------------------------------------------------------
TypeOK ==
  /\ cmdQ \in Seq([id : Ids, cmd : Commands])
  /\ statusQ \in Seq([for : SUBSET Ids, ok : BOOLEAN])
  /\ pc \in [Clients -> {"idle", "delStatus", "push", "poll"}]
  /\ left \in [Clients -> Nat]
  /\ \A c \in Clients : pc[c] = "poll" => left[c] <= Attempts
  /\ seen \in [Clients -> Seq([for : SUBSET Ids, ok : BOOLEAN])]
  /\ lpc \in {"down", "read", "delete", "execute", "reply"}
  /\ batch \in Seq([id : Ids, cmd : Commands])
  /\ lpc \in {"delete", "execute"} => batch # <<>>
  /\ reply \in Seq([for : SUBSET Ids, ok : BOOLEAN])
  /\ handle \subseteq Ids
  /\ iface \in {"absent", "down", "up"} /\ agents \subseteq Ids
  /\ issued \in [Clients -> Nat]
  /\ executed \subseteq Ids /\ abandoned \subseteq Ids /\ strays \subseteq Ids
  /\ got \in [Clients -> SUBSET Ids]
  /\ faults \in Nat

(* A call reads the status of an earlier command of its own process only   *)
(* if that earlier call went without its status (timeout, interruption,    *)
(* mixed-up status).                                                       *)
StatusExplained ==
  \A c \in Clients : \A i \in 1..Len(seen[c]) : \A x \in seen[c][i].for :
    x[1] = c => x = Own(c) \/ x \in abandoned

(* The listener takes a command off the list before it carries it out, so  *)
(* no command is carried out twice, not even one that kills the listener.  *)
ExecutedOnce == lpc = "execute" => IdsIn(batch) \cap executed = {}

(* The DEL of the listener drops a command nobody has read only if its     *)
(* owner had given up on an earlier call or shares the list.               *)
LossExplained ==
  [][\A c \in Clients :
       /\ lpc = "delete" /\ lpc' = "execute"
       /\ Own(c) \in IdsIn(cmdQ) \ IdsIn(batch)
       => \/ abandoned \cap OfClient(c) # {}
          \/ \E d \in Clients \ {c} : issued[d] > 0]_vars

(* A running packet agent is the one behind nn_agent_p, or the listener    *)
(* lost it: by dying, or by a second start_nn_agent.                       *)
AgentsKnown == agents \subseteq handle \cup strays

(* Whatever is lost, late or restarted, nothing happens that no call asked *)
(* for: no command runs twice, no status and no agent is without a reason. *)
Accounted == ExecutedOnce /\ StatusExplained /\ AgentsKnown

(* What has been pushed is taken off the list, whatever it does to the     *)
(* listener: a bad command does not block those that follow.               *)
QueueDrains == cmdQ # <<>> ~> cmdQ = <<>>

(* A remote command is a SAI-style call: no ids, hence the same promise as *)
(* operate() makes.                                                        *)
Rpc == INSTANCE SaiRpc WITH
  Correlated <- FALSE,
  inCall <- [c \in Clients |-> pc[c] # "idle"],
  doubtful <- {c \in Clients : abandoned \cap OfClient(c) # {}}

ImplementsSaiRpc == Rpc!Spec
=============================================================================
