------------------------------- MODULE ZmqRpc -------------------------------
(***************************************************************************)
(* SaiZmqClient.operate() and cleanup(): the same blocking call as in      *)
(* RedisRpc, over a ZeroMQ REQ socket to the REP socket of syncd.          *)
(*                                                                         *)
(* A REQ socket sends and receives in turn.  What it has accepted waits in *)
(* the socket until syncd can be reached, however often syncd restarts,    *)
(* and a reply reaches the socket that sent the request or nobody.  The    *)
(* client opens a new socket when a reply is late; a socket is named here  *)
(* after the number of calls made before it was opened.                    *)
(***************************************************************************)
EXTENDS Naturals, FiniteSets

CONSTANTS
  Clients,    \* processes with a SaiZmqClient
  MaxCalls,   \* bound: MaxCalls[c] calls of client c
  MaxFaults   \* bound: syncd crashes, interruptions and kills of clients

ASSUME ZmqBoundsAssumption == MaxCalls \in [Clients -> Nat] /\ MaxFaults \in Nat

VARIABLES
  \* client
  pc,         \* next blocking step of the call or the cleanup
  channel,    \* asic_channel is not None
  sock,       \* self._req
  fsm,        \* state of the REQ socket: "send" or "recv" comes next
  outbox,     \* request accepted by the socket, not yet on the wire
  inbox,      \* reply received by the socket, not yet read
  \* syncd
  syncdUp, wire, work,
  \* history
  issued, executed, got, interrupted, faults

socketVars == <<sock, fsm, outbox, inbox>>
syncdVars == <<syncdUp, wire, work>>
vars == <<pc, channel, socketVars, syncdVars, issued, executed, got, interrupted, faults>>

Ids == Clients \X Nat
CallSteps == {"locate", "send", "recv", "recheck"}

Own(c) == <<c, issued[c]>>
InCall(c) == pc[c] \in CallSteps
Goto(c, label) == pc' = [pc EXCEPT ![c] = label]

\* Messages of c that syncd holds or could still get.
Pending(c) == {r \in outbox[c] \cup {m.id : m \in wire \cup work} : r[1] = c}

Init ==
  /\ pc = [c \in Clients |-> "idle"]
  /\ channel = [c \in Clients |-> FALSE]
  /\ sock = [c \in Clients |-> 0]
  /\ fsm = [c \in Clients |-> "send"]
  /\ outbox = [c \in Clients |-> {}]
  /\ inbox = [c \in Clients |-> {}]
  /\ syncdUp \in BOOLEAN /\ wire = {} /\ work = {}
  /\ issued = [c \in Clients |-> 0]
  /\ executed = {} /\ interrupted = {}
  /\ got = [c \in Clients |-> {}]
  /\ faults = 0

(* _open_req_socket(): close with linger=0, connect a new one.             *)
Reopen(c) ==
  /\ sock' = [sock EXCEPT ![c] = issued[c]]
  /\ fsm' = [fsm EXCEPT ![c] = "send"]
  /\ outbox' = [outbox EXCEPT ![c] = {}]
  /\ inbox' = [inbox EXCEPT ![c] = {}]
  /\ interrupted' = interrupted \ {c}

KeepSocket == UNCHANGED <<socketVars, interrupted>>

-----------------------------------------------------------------------------
(* operate()                                                               *)

Begin(c) ==
  /\ pc[c] = "idle" /\ issued[c] < MaxCalls[c]
  /\ Goto(c, IF channel[c] THEN "send" ELSE "locate")
  /\ issued' = [issued EXCEPT ![c] = @ + 1]
  /\ got' = [got EXCEPT ![c] = {}]
  /\ KeepSocket
  /\ UNCHANGED <<channel, syncdVars, executed, faults>>

(* A TCP connection to the endpoint is accepted, or its IPC path exists.    *)
PeerReachable == syncdUp

(* __assert_syncd_running: the endpoint answers on one of 31 tries, or not. *)
Locate(c) ==
  /\ pc[c] = "locate"
  /\ channel' = [channel EXCEPT ![c] = PeerReachable]
  /\ Goto(c, IF PeerReachable THEN "send" ELSE "idle")
  /\ KeepSocket
  /\ UNCHANGED <<syncdVars, issued, executed, got, faults>>

(* send_string(): EFSM, a ZMQError, if the socket still waits for a reply. *)
Send(c) ==
  /\ pc[c] = "send"
  /\ IF fsm[c] = "send"
       THEN /\ outbox' = [outbox EXCEPT ![c] = {Own(c)}]
            /\ fsm' = [fsm EXCEPT ![c] = "recv"]
            /\ Goto(c, "recv")
       ELSE /\ Goto(c, "recheck")
            /\ UNCHANGED <<outbox, fsm>>
  /\ UNCHANGED <<channel, sock, inbox, syncdVars, issued, executed, got, interrupted, faults>>

Recv(c) ==
  /\ pc[c] = "recv" /\ inbox[c] # {}
  /\ got' = [got EXCEPT ![c] = inbox[c]]
  /\ inbox' = [inbox EXCEPT ![c] = {}]
  /\ fsm' = [fsm EXCEPT ![c] = "send"]
  /\ Goto(c, "idle")
  /\ UNCHANGED <<channel, sock, outbox, syncdVars, issued, executed, interrupted, faults>>

\* Mutant: the socket is made to send again instead of being replaced.
TimeoutRelaxed(c) ==
  /\ pc[c] = "recv" /\ inbox[c] = {}
  /\ fsm' = [fsm EXCEPT ![c] = "send"]
  /\ Goto(c, "idle")
  /\ UNCHANGED <<channel, sock, outbox, inbox, syncdVars, issued, executed, got, interrupted, faults>>

\* Mutant: the socket is left as it is.
TimeoutKeepsSocket(c) ==
  /\ pc[c] = "recv" /\ inbox[c] = {}
  /\ Goto(c, "idle") /\ KeepSocket
  /\ UNCHANGED <<channel, syncdVars, issued, executed, got, faults>>

(* zmq.Again: a new socket, reply None, "operation failure!".              *)
Timeout(c) ==
  /\ pc[c] = "recv" /\ inbox[c] = {}
  /\ Reopen(c)
  /\ Goto(c, "idle")
  /\ UNCHANGED <<channel, syncdVars, issued, executed, got, faults>>

\* Mutant: the call is tried again, whatever became of the socket.
RecheckRetries(c) ==
  /\ pc[c] = "recheck"
  /\ IF PeerReachable THEN Reopen(c) ELSE KeepSocket
  /\ Goto(c, "send")
  /\ UNCHANGED <<channel, syncdVars, issued, executed, got, faults>>

(* zmq.ZMQError: the new socket comes after the assertion that syncd runs. *)
Recheck(c) ==
  /\ pc[c] = "recheck"
  /\ IF PeerReachable THEN Reopen(c) ELSE KeepSocket
  /\ Goto(c, "idle")
  /\ UNCHANGED <<channel, syncdVars, issued, executed, got, faults>>

-----------------------------------------------------------------------------
(* cleanup(), server environment.                                          *)

\* Mutant: Redis is flushed and neither it nor syncd is restarted.
RestartSkipped(c) ==
  /\ pc[c] = "idle"
  /\ Goto(c, "await") /\ KeepSocket
  /\ UNCHANGED <<channel, syncdVars, issued, executed, got, faults>>

(* SHUTDOWN; the new Redis kills syncd before its port opens.              *)
Restart(c) ==
  /\ pc[c] = "idle"
  /\ syncdUp' = FALSE /\ wire' = {} /\ work' = {}
  /\ Goto(c, "await") /\ KeepSocket
  /\ UNCHANGED <<channel, issued, executed, got, faults>>

(* super().cleanup() ends in the rebound __assert_syncd_running; only then *)
(* the socket is replaced.                                                 *)
Await(c) ==
  /\ pc[c] = "await"
  /\ channel' = [channel EXCEPT ![c] = syncdUp]
  /\ IF syncdUp THEN Reopen(c) ELSE KeepSocket
  /\ Goto(c, "idle")
  /\ UNCHANGED <<syncdVars, issued, executed, got, faults>>

-----------------------------------------------------------------------------
(* Failures of a client.                                                   *)

(* KeyboardInterrupt passes both except clauses; teardown code of the same *)
(* process still runs with the same socket.                                *)
Interrupt(c) ==
  /\ pc[c] # "idle" /\ faults < MaxFaults
  /\ Goto(c, "idle")
  /\ interrupted' = interrupted \cup {c}
  /\ faults' = faults + 1
  /\ UNCHANGED <<channel, socketVars, syncdVars, issued, executed, got>>

(* The process dies; the next one has a new client object.                 *)
Die(c) ==
  /\ pc[c] # "idle" /\ faults < MaxFaults
  /\ Reopen(c)
  /\ channel' = [channel EXCEPT ![c] = FALSE]
  /\ Goto(c, "idle")
  /\ faults' = faults + 1
  /\ UNCHANGED <<syncdVars, issued, executed, got>>

-----------------------------------------------------------------------------
(* ZeroMQ and syncd, as far as the client's code relies on them.           *)

Deliver(c) ==
  /\ syncdUp /\ outbox[c] # {}
  /\ wire' = wire \cup {[id |-> r, sock |-> sock[c]] : r \in outbox[c]}
  /\ outbox' = [outbox EXCEPT ![c] = {}]
  /\ UNCHANGED <<pc, channel, sock, fsm, inbox, syncdUp, work, issued, executed, got, interrupted, faults>>

(* syncd reads its connections in any order, closed ones included: those   *)
(* still hold their request or have lost it.                               *)
SyncdTake ==
  /\ syncdUp /\ work = {}
  /\ \E m \in wire :
       /\ wire' = wire \ {m}
       /\ \/ work' = {m} /\ executed' = executed \cup {m.id}
          \/ m.sock # sock[m.id[1]] /\ UNCHANGED <<work, executed>>
  /\ UNCHANGED <<pc, channel, socketVars, syncdUp, issued, got, interrupted, faults>>

(* The reply goes to the connection of the request, if it is still there.  *)
SyncdAnswer ==
  /\ syncdUp
  /\ \E m \in work :
       inbox' = IF m.sock = sock[m.id[1]]
                  THEN [inbox EXCEPT ![m.id[1]] = {m.id}] ELSE inbox
  /\ work' = {}
  /\ UNCHANGED <<pc, channel, sock, fsm, outbox, syncdUp, wire, issued, executed, got, interrupted, faults>>

SyncdCrash ==
  /\ syncdUp /\ faults < MaxFaults
  /\ syncdUp' = FALSE /\ wire' = {} /\ work' = {}
  /\ faults' = faults + 1
  /\ KeepSocket
  /\ UNCHANGED <<pc, channel, issued, executed, got>>

SyncdStart ==
  /\ ~syncdUp /\ syncdUp' = TRUE
  /\ KeepSocket
  /\ UNCHANGED <<pc, channel, wire, work, issued, executed, got, faults>>

-----------------------------------------------------------------------------
Operate(c) ==
  Begin(c) \/ Locate(c) \/ Send(c) \/ Recv(c) \/ Timeout(c) \/ Recheck(c)

Environment == SyncdTake \/ SyncdAnswer \/ SyncdCrash \/ SyncdStart

Next ==
  \/ \E c \in Clients :
       \/ Operate(c) \/ Restart(c) \/ Await(c)
       \/ Interrupt(c) \/ Die(c) \/ Deliver(c)
  \/ Environment

Spec == Init /\ [][Next]_vars

(* A client inside a call or a cleanup keeps running and ZeroMQ reports    *)
(* the timeout it was given.  Nothing is assumed of syncd.                 *)
FairSpec ==
  Spec /\ \A c \in Clients : WF_vars(pc[c] # "idle" /\ (Operate(c) \/ Await(c)))

-----------------------------------------------------------------------------
(* The REQ sockets keep their lockstep, and an idle client has one that    *)
(* can send: only an interruption, of this or of an earlier call, leaves   *)
(* it waiting for a reply.                                                 *)
TypeOK ==
  /\ pc \in [Clients -> {"idle", "await"} \cup CallSteps]
  /\ channel \in [Clients -> BOOLEAN]
  /\ sock \in [Clients -> Nat]
  /\ fsm \in [Clients -> {"send", "recv"}]
  /\ outbox \in [Clients -> SUBSET Ids] /\ inbox \in [Clients -> SUBSET Ids]
  /\ \A c \in Clients : pc[c] = "recv" => fsm[c] = "recv"
  /\ \A c \in Clients : fsm[c] = "send" => outbox[c] = {} /\ inbox[c] = {}
  /\ \A c \in Clients : pc[c] = "idle" /\ fsm[c] = "recv" => c \in interrupted
  /\ syncdUp \in BOOLEAN
  /\ wire \subseteq [id : Ids, sock : Nat] /\ work \subseteq [id : Ids, sock : Nat]
  /\ Cardinality(work) <= 1
  /\ issued \in [Clients -> Nat]
  /\ executed \subseteq Ids /\ interrupted \subseteq Clients
  /\ got \in [Clients -> SUBSET Ids]
  /\ faults \in Nat

CleanupSucceeds(c) ==
  pc[c] = "await" /\ pc'[c] = "idle" /\ channel'[c] /\ faults' = faults

(* After a cleanup() that succeeds, nothing the process sent before it can *)
(* reach the new syncd, unless a call of it was interrupted.               *)
CleanupForgets ==
  [][\A c \in Clients :
       CleanupSucceeds(c) /\ c \notin interrupted => Pending(c)' = {}]_vars

(* Every call and cleanup ends, even if syncd hangs.                       *)
CallEnds == \A c \in Clients : pc[c] # "idle" ~> pc[c] = "idle"

(* operate() is a SAI call of SaiRpc whose answers are always one's own:   *)
(* what the Redis transport cannot promise.                                *)
Rpc == INSTANCE SaiRpc WITH
  Correlated <- TRUE,
  inCall <- [c \in Clients |-> InCall(c)],
  doubtful <- {}

ImplementsSaiRpc == Rpc!Spec
=============================================================================
