------------------------------ MODULE VidAlloc ------------------------------
(***************************************************************************)
(* SaiRedisClient.alloc_vid(): object ids come from the Redis counter      *)
(* VIDCOUNTER, shared by every client and by syncd.  All use INCR, but the *)
(* first switch takes id 0 by a GET and a SET, two Redis commands.  An id  *)
(* is the pair of object type and number: oid = type << 48 | number.       *)
(***************************************************************************)
EXTENDS Naturals

CONSTANTS
  Clients,     \* processes with a SaiRedisClient or SaiZmqClient
  Types,       \* object types other than SWITCH
  BulkSizes,   \* obj_count of bulk_create; 1 stands for create as well
  MaxVid       \* bound on VIDCOUNTER

Syncd == "syncd"
Switch == "SWITCH"

ASSUME VidAssumption ==
  /\ Syncd \notin Clients /\ Switch \notin Types
  /\ BulkSizes \subseteq Nat \ {0} /\ MaxVid \in Nat

VARIABLES
  counter,    \* VIDCOUNTER: {} (nil) or {number}
  pc, type, left,   \* client: next command, object type, ids still to allocate
  serving,    \* clients whose create request syncd is working on
  given,      \* history: who got which id as the how-manieth, since FLUSHALL
  count,      \* history: ids given since FLUSHALL
  raced       \* history: a SET found the counter there since FLUSHALL

vidVars == <<counter, pc, type, left, serving, given, count, raced>>

Allocators == Clients \cup {Syncd}
Grants == [to : Allocators, type : Types \cup {Switch}, n : Nat, nth : Nat]
Value == IF counter = {} THEN 0 ELSE CHOOSE n \in counter : TRUE

VidInit ==
  /\ counter = {}
  /\ pc = [c \in Clients |-> "idle"]
  /\ type = [c \in Clients |-> Switch]
  /\ left = [c \in Clients |-> 0]
  /\ serving = {} /\ given = {} /\ count = 0 /\ raced = FALSE

Goto(c, label) == pc' = [pc EXCEPT ![c] = label]

Give(a, t, n) ==
  /\ given' = given \cup {[to |-> a, type |-> t, n |-> n, nth |-> count]}
  /\ count' = count + 1

-----------------------------------------------------------------------------
(* create() of an OID object, or bulk_create() with keys = None.           *)
Begin(c) ==
  /\ pc[c] = "idle" /\ Value < MaxVid
  /\ \/ /\ Goto(c, "get")
        /\ type' = [type EXCEPT ![c] = Switch]
        /\ left' = [left EXCEPT ![c] = 1]
     \/ /\ Goto(c, "incr")
        /\ \E t \in Types, k \in BulkSizes :
             /\ type' = [type EXCEPT ![c] = t]
             /\ left' = [left EXCEPT ![c] = k]
  /\ UNCHANGED <<counter, serving, given, count, raced>>

(* r.get("VIDCOUNTER") is None                                             *)
GetCounter(c) ==
  /\ pc[c] = "get"
  /\ Goto(c, IF counter = {} THEN "set" ELSE "incr")
  /\ UNCHANGED <<counter, type, left, serving, given, count, raced>>

(* r.set("VIDCOUNTER", 0); the create request follows.                     *)
SetZero(c) ==
  /\ pc[c] = "set"
  /\ counter' = {0}
  /\ Give(c, Switch, 0)
  /\ raced' = (raced \/ counter # {})
  /\ Goto(c, "rpc")
  /\ serving' = serving \cup {c}
  /\ UNCHANGED <<type, left>>

\* Mutant: one INCR for all the objects of a request.
IncrOncePerRequest(c) ==
  /\ pc[c] = "incr"
  /\ counter' = IF left[c] = 1 THEN {Value + 1} ELSE counter
  /\ Give(c, type[c], Value + 1)
  /\ left' = [left EXCEPT ![c] = @ - 1]
  /\ IF left[c] = 1
       THEN Goto(c, "rpc") /\ serving' = serving \cup {c}
       ELSE UNCHANGED <<pc, serving>>
  /\ UNCHANGED <<type, raced>>

\* Mutant: one id more than there are objects.
IncrOneMore(c) ==
  /\ pc[c] = "incr"
  /\ counter' = {Value + 1}
  /\ Give(c, type[c], Value + 1)
  /\ left' = [left EXCEPT ![c] = @ - 1]
  /\ IF left[c] = 0
       THEN Goto(c, "rpc") /\ serving' = serving \cup {c}
       ELSE UNCHANGED <<pc, serving>>
  /\ UNCHANGED <<type, raced>>

(* r.incr("VIDCOUNTER"), once for every object of the request.             *)
Incr(c) ==
  /\ pc[c] = "incr"
  /\ counter' = {Value + 1}
  /\ Give(c, type[c], Value + 1)
  /\ left' = [left EXCEPT ![c] = @ - 1]
  /\ IF left[c] = 1
       THEN Goto(c, "rpc") /\ serving' = serving \cup {c}
       ELSE UNCHANGED <<pc, serving>>
  /\ UNCHANGED <<type, raced>>

(* operate() returns, or gives up while syncd is still at work.            *)
Return(c) ==
  /\ pc[c] = "rpc"
  /\ Goto(c, "idle")
  /\ UNCHANGED <<counter, type, left, serving, given, count, raced>>

(* syncd numbers the objects it discovers while it serves a request.       *)
SyncdAlloc ==
  /\ serving # {} /\ Value < MaxVid
  /\ counter' = {Value + 1}
  /\ \E t \in Types : Give(Syncd, t, Value + 1)
  /\ UNCHANGED <<pc, type, left, serving, raced>>

SyncdDone(c) ==
  /\ c \in serving
  /\ serving' = serving \ {c}
  /\ UNCHANGED <<counter, pc, type, left, given, count, raced>>

\* Mutant: the database is flushed, syncd is not restarted.
CleanupKeepsSyncd(c) ==
  /\ pc[c] = "idle"
  /\ counter' = {} /\ given' = {} /\ count' = 0 /\ raced' = FALSE
  /\ UNCHANGED <<pc, type, left, serving>>

(* cleanup(): FLUSHALL, and syncd is killed with Redis.                    *)
Cleanup(c) ==
  /\ pc[c] = "idle"
  /\ counter' = {} /\ serving' = {}
  /\ given' = {} /\ count' = 0 /\ raced' = FALSE
  /\ UNCHANGED <<pc, type, left>>

Client(c) == Begin(c) \/ GetCounter(c) \/ SetZero(c) \/ Incr(c) \/ Return(c) \/ Cleanup(c)

VidNext == (\E c \in Clients : Client(c) \/ SyncdDone(c)) \/ SyncdAlloc

VidSpec == VidInit /\ [][VidNext]_vidVars

-----------------------------------------------------------------------------
VidTypeOK ==
  /\ counter \subseteq Nat /\ \A m, n \in counter : m = n
  /\ pc \in [Clients -> {"idle", "get", "set", "incr", "rpc"}]
  /\ type \in [Clients -> Types \cup {Switch}]
  /\ left \in [Clients -> Nat]
  /\ serving \subseteq Clients
  /\ given \subseteq Grants /\ count \in Nat
  /\ raced \in BOOLEAN

Unique == \A g, h \in given : g.type = h.type /\ g.n = h.n => g = h

(* No two objects get the same id, whoever allocates and however INCR, GET *)
(* and SET interleave, unless a SET 0 has run into a counter that another  *)
(* process had created since the GET.                                      *)
UniqueUnlessRaced == ~raced => Unique

(* That process is another client: syncd does not move a counter the GET   *)
(* has not seen, not even for a call that was given up before a cleanup.   *)
RacedByAnother ==
  [][\A c \in Clients :
       ~raced /\ raced' /\ pc[c] = "set" /\ pc'[c] # "set"
         => \E g \in given : g.to \in Clients \ {c}]_vidVars
=============================================================================
