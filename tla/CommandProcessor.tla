-------------------------- MODULE CommandProcessor --------------------------
(***************************************************************************)
(* Data-driven configuration: Sai.process_commands() maps a list of        *)
(* commands over CommandProcessor.process_command(), which keeps a         *)
(* registry from names to the objects it has created and replaces '$name'  *)
(* in keys and attributes.  The commands of a list run one after the other *)
(* until one raises; process_commands(commands, cleanup=True) removes what *)
(* the list creates, last first.                                           *)
(*                                                                         *)
(* An object is known to the device by its OID or, if its command has a    *)
(* "key", by that key with the references replaced.                        *)
(***************************************************************************)
EXTENDS Naturals, Sequences, FiniteSets

CONSTANTS
  Names,        \* the names used in commands
  Keyed,        \* those whose commands have a "key" (FDB, route, ...)
  Refs,         \* Refs[n]: the names that the commands of n refer to
  Lists,        \* the lists of commands that tests run
  MaxObjects,   \* bound: no list begins with more objects than this created since the last reset
  MaxFaults     \* bound: refused or unanswered requests, failed resets

Ops == {"create", "remove", "set", "get"}
Commands == [op : Ops, name : Names]

ASSUME CommandsAssumption ==
  /\ Keyed \subseteq Names /\ Refs \in [Names -> SUBSET Names]
  /\ Lists \subseteq Seq(Commands)
  /\ MaxObjects \in Nat /\ MaxFaults \in Nat

VARIABLES
  registry,     \* objects_registry: registry[n] is {} or {object}
  device,       \* objects that exist behind the SAI
  phase,        \* "idle", "setup", "ready" (list done or given up), "cleanup"
  batch, todo,  \* the list, and the commands still to run
  nextId,       \* id of the next object
  faults,
  \* history
  setupOk, raised, calm,   \* the list ran to its end; the last run raised; no fault since it began
  since, resetFailed       \* first id of this list; a reset ended in an exception

batchVars == <<phase, batch, todo>>
vars == <<registry, device, batchVars, nextId, faults, setupOk, raised, calm, since, resetFailed>>

Objects == [id : Nat, name : Names, refs : SUBSET Nat]

Running == phase \in {"setup", "cleanup"} /\ todo # <<>>
Now == Head(todo)

Init ==
  /\ registry = [n \in Names |-> {}] /\ device = {}
  /\ phase = "idle" /\ batch = <<>> /\ todo = <<>>
  /\ nextId = 1 /\ faults = 0
  /\ setupOk = FALSE /\ raised = FALSE /\ calm = TRUE
  /\ since = 1 /\ resetFailed = FALSE

-----------------------------------------------------------------------------
(* process_commands                                                        *)

StartBatch ==
  /\ phase \in {"idle", "ready"} /\ nextId <= MaxObjects
  /\ \E b \in Lists : batch' = b /\ todo' = b
  /\ phase' = "setup"
  /\ setupOk' = FALSE /\ raised' = FALSE /\ calm' = TRUE /\ since' = nextId
  /\ UNCHANGED <<registry, device, nextId, faults, resetFailed>>

EndBatch ==
  /\ phase = "setup" /\ todo = <<>>
  /\ phase' = "ready" /\ setupOk' = TRUE
  /\ UNCHANGED <<registry, device, batch, todo, nextId, faults, raised, calm, since, resetFailed>>

(* Every create is answered by a removal, other commands are passed over.  *)
Removal(k) == [op |-> IF k.op = "create" THEN "remove" ELSE "none", name |-> k.name]

\* Mutant: the removals come in the order of the list.
RemovalsInOrder(b) == [i \in 1..Len(b) |-> Removal(b[i])]

\* Mutant: only objects with an OID are removed.
RemovalsOfOids(b) ==
  [i \in 1..Len(b) |->
    LET k == b[Len(b) + 1 - i]
    IN  IF k.name \in Keyed THEN [op |-> "none", name |-> k.name] ELSE Removal(k)]

Removals(b) == [i \in 1..Len(b) |-> Removal(b[Len(b) + 1 - i])]

StartCleanup ==
  /\ phase = "ready"
  /\ todo' = Removals(batch)
  /\ phase' = "cleanup" /\ raised' = FALSE
  /\ UNCHANGED <<registry, device, batch, nextId, faults, setupOk, calm, since, resetFailed>>

EndCleanup ==
  /\ phase = "cleanup" /\ todo = <<>>
  /\ phase' = "idle"
  /\ UNCHANGED <<registry, device, batch, todo, nextId, faults, setupOk, raised, calm, since, resetFailed>>

(* The command returns: on to the next.  It raises: the generator is left  *)
(* and the rest of the list is not run.                                    *)
Continue == todo' = Tail(todo) /\ UNCHANGED <<phase, batch, raised>>
Raise ==
  /\ todo' = <<>> /\ raised' = TRUE
  /\ phase' = IF phase = "setup" THEN "ready" ELSE "idle"
  /\ UNCHANGED batch

(* Not a create: there is nothing to remove.                               *)
PassOver ==
  /\ Running /\ Now.op = "none"
  /\ Continue
  /\ UNCHANGED <<registry, device, nextId, faults, setupOk, calm, since, resetFailed>>

(* The request is refused or its answer does not come.                     *)
Fault ==
  /\ faults < MaxFaults
  /\ faults' = faults + 1 /\ calm' = FALSE
NoFault == UNCHANGED <<faults, calm>>

-----------------------------------------------------------------------------
(* substitute_command_from_object_registry                                 *)

Resolved(n) == \A r \in Refs[n] : registry[r] # {}
Target(n) == UNION {{o.id : o \in registry[r]} : r \in Refs[n]}

(* In a cleanup command the "key" is the one of the create command, with   *)
(* the references replaced once more; a remove command without "key" takes *)
(* key or OID from the registry.                                           *)
Addressed(n) ==
  IF phase = "cleanup" /\ n \in Keyed
    THEN {o \in device : o.name = n /\ Resolved(n) /\ o.refs = Target(n)}
    ELSE registry[n] \cap device

-----------------------------------------------------------------------------
(* process_command                                                         *)

New(n) == [id |-> nextId, name |-> n, refs |-> Target(n)]

(* What the device accepts: references to objects that exist, a key that   *)
(* is not taken.  A name registered with an OID makes create() parse that  *)
(* OID as a key, which raises before anything is sent.                     *)
Creatable(n) ==
  /\ Resolved(n) /\ Target(n) \subseteq {o.id : o \in device}
  /\ IF n \in Keyed THEN \A o \in device : o.name = n => o.refs # Target(n)
                    ELSE registry[n] = {}

Made(n) == device' = device \cup {New(n)} /\ nextId' = nextId + 1

\* Mutant: the old entry of a name is kept beside the new one.
CreateKeepsOld(n) ==
  /\ Running /\ Now = [op |-> "create", name |-> n]
  /\ IF Creatable(n)
       THEN /\ Made(n) /\ Continue
            /\ registry' = [registry EXCEPT ![n] = @ \cup {New(n)}]
       ELSE Raise /\ UNCHANGED <<registry, device, nextId>>
  /\ NoFault /\ UNCHANGED <<setupOk, since, resetFailed>>

Create(n) ==
  /\ Running /\ Now = [op |-> "create", name |-> n]
  /\ \/ /\ Creatable(n) /\ Made(n)
        /\ registry' = [registry EXCEPT ![n] = {New(n)}]
        /\ NoFault /\ Continue
     \/ ~Creatable(n) /\ Raise /\ NoFault /\ UNCHANGED <<registry, device, nextId>>
     \/ /\ Creatable(n) /\ Raise /\ Fault /\ UNCHANGED registry
        /\ Made(n) \/ UNCHANGED <<device, nextId>>
  /\ UNCHANGED <<setupOk, since, resetFailed>>

Removable(n) ==
  /\ Addressed(n) # {}
  /\ \A o \in Addressed(n), p \in device : o.id \notin p.refs

\* Mutant: no finally, a removal that raises keeps the registry entry.
RemoveKeepsEntry(n) ==
  /\ Running /\ Now = [op |-> "remove", name |-> n] /\ registry[n] # {}
  /\ \/ Removable(n) /\ device' = device \ Addressed(n) /\ NoFault /\ Continue
     \/ ~Removable(n) /\ Raise /\ NoFault /\ UNCHANGED device
     \/ Removable(n) /\ Raise /\ Fault /\ device' \in {device, device \ Addressed(n)}
  /\ registry' = IF raised' THEN registry ELSE [registry EXCEPT ![n] = {}]
  /\ UNCHANGED <<nextId, setupOk, since, resetFailed>>

(* The entry is deleted in a finally clause, whether or not the removal    *)
(* succeeds.                                                               *)
Remove(n) ==
  /\ Running /\ Now = [op |-> "remove", name |-> n] /\ registry[n] # {}
  /\ registry' = [registry EXCEPT ![n] = {}]
  /\ \/ Removable(n) /\ device' = device \ Addressed(n) /\ NoFault /\ Continue
     \/ ~Removable(n) /\ Raise /\ NoFault /\ UNCHANGED device
     \/ Removable(n) /\ Raise /\ Fault /\ device' \in {device, device \ Addressed(n)}
  /\ UNCHANGED <<nextId, setupOk, since, resetFailed>>

(* set; get asks vid_to_type() for the type, which parses an OID only.     *)
Use(n) ==
  /\ Running /\ Now \in {[op |-> "set", name |-> n], [op |-> "get", name |-> n]}
  /\ registry[n] # {}
  /\ IF registry[n] \cap device = {} \/ (Now.op = "get" /\ n \in Keyed)
       THEN Raise /\ NoFault
       ELSE (Continue /\ NoFault) \/ (Raise /\ Fault)
  /\ UNCHANGED <<registry, device, nextId, setupOk, since, resetFailed>>

(* assert entry, "Unknown object"                                          *)
Unknown(n) ==
  /\ Running /\ Now.name = n /\ Now.op \in {"remove", "set", "get"} /\ registry[n] = {}
  /\ Raise /\ NoFault
  /\ UNCHANGED <<registry, device, nextId, setupOk, since, resetFailed>>

-----------------------------------------------------------------------------
(* Sai.cleanup(): the client's cleanup, then the registry is emptied.      *)

Flushed == device' = {} /\ nextId' = 1 /\ since' = 1

Reset ==
  /\ phase \in {"idle", "ready"}
  /\ Flushed /\ phase' = "idle" /\ batch' = <<>>
  /\ registry' = [n \in Names |-> {}] /\ resetFailed' = FALSE
  /\ UNCHANGED <<todo, faults, setupOk, raised, calm>>

(* sai_client.cleanup() raises after its FLUSHALL (syncd does not return). *)
ResetFails ==
  /\ phase \in {"idle", "ready"} /\ faults < MaxFaults
  /\ Flushed /\ phase' = "idle" /\ batch' = <<>>
  /\ resetFailed' = TRUE /\ faults' = faults + 1
  /\ UNCHANGED <<registry, todo, setupOk, raised, calm>>

Next ==
  \/ StartBatch \/ EndBatch \/ StartCleanup \/ PassOver \/ EndCleanup \/ Reset \/ ResetFails
  \/ \E n \in Names : Create(n) \/ Remove(n) \/ Use(n) \/ Unknown(n)

Spec == Init /\ [][Next]_vars

-----------------------------------------------------------------------------
TypeOK ==
  /\ registry \in [Names -> SUBSET Objects]
  /\ \A n \in Names : Cardinality(registry[n]) <= 1
  /\ device \subseteq Objects
  /\ \A o, p \in device : o.id = p.id => o = p
  /\ phase \in {"idle", "setup", "ready", "cleanup"}
  /\ phase \in {"idle", "ready"} => todo = <<>>
  /\ nextId \in Nat /\ faults \in 0..MaxFaults

(* A registered name stands for an object that exists, after any mix of    *)
(* lists, failures and cleanups; only a reset that failed half-way leaves  *)
(* names behind without their objects.                                     *)
RegistryLive ==
  ~resetFailed => \A n \in Names : registry[n] \subseteq device

(* A list of creates in which no name comes twice, and none comes at or    *)
(* after a command that refers to it.                                      *)
OnlyDeclares(b) ==
  /\ \A i \in 1..Len(b) : b[i].op = "create"
  /\ \A i, j \in 1..Len(b) : i # j => b[i].name # b[j].name
  /\ \A i, j \in 1..Len(b) : i <= j => b[j].name \notin Refs[b[i].name]

(* A cleanup that raises nothing has removed every object that its list    *)
(* created, whether or not the list itself ran to its end.  And the        *)
(* cleanup of a list that only declares objects, each before it is         *)
(* referred to, and did run to its end does not raise: no object is        *)
(* removed before the objects that refer to it, and no name is needed for  *)
(* a key after its removal.                                                *)
CleanupComplete ==
  [][phase = "cleanup" /\ phase' = "idle" =>
       IF raised' THEN ~setupOk \/ ~calm' \/ ~OnlyDeclares(batch)
                  ELSE \A o \in device : o.id < since]_vars
=============================================================================
