------------------------ MODULE CommandProcessor_proofs ------------------------
(***************************************************************************)
(* Proofs about CommandProcessor: type correctness, that a registered name *)
(* stands for an object that exists, and that cleanup is complete.         *)
(***************************************************************************)
EXTENDS CommandProcessor, FiniteSetTheorems, TLAPS

-----------------------------------------------------------------------------
(* The inductive invariant.                                                *)

Status == phase \in {"idle", "setup", "ready", "cleanup"}

Types ==
  /\ registry \in [Names -> SUBSET Objects]
  /\ device \subseteq Objects /\ IsFiniteSet(device)
  /\ nextId \in Nat \ {0} /\ since \in Nat \ {0} /\ faults \in 0..MaxFaults
  /\ batch \in Seq(Commands)
  /\ todo \in Seq([op : Ops \cup {"none"}, name : Names])
  /\ phase \in {"idle", "ready"} => todo = <<>>
  /\ Status

(* Ids are given out once; references point to objects made before; the    *)
(* device holds a key once.                                                *)
Identity ==
  /\ since <= nextId /\ \A o \in device : o.id < nextId
  /\ \A o, p \in device : o.id = p.id => o = p
  /\ \A p \in device : \A x \in p.refs : x < p.id
  /\ \A o, p \in device : o.name \in Keyed /\ p.name = o.name /\ p.refs = o.refs => o = p

(* A name is registered with one object, made by a command of that name.   *)
Registered ==
  \A n \in Names : \A o, p \in registry[n] : o.name = n /\ p = o

(* What is still to run: the end of the list, or the removals of its       *)
(* beginning.                                                              *)
TodoIs ==
  /\ Len(todo) <= Len(batch)
  /\ phase = "setup" =>
       /\ \A i \in 1..Len(todo) : todo[i] = batch[Len(batch) - Len(todo) + i]
       /\ setupOk = FALSE
  /\ phase = "cleanup" =>
       /\ \A i \in 1..Len(todo) : todo[i] = Removal(batch[Len(todo) + 1 - i])
       /\ raised = FALSE

(* The objects of a name that this list made, and the first k commands'    *)
(* share in them.                                                          *)
Fresh(n) == {o \in device : o.name = n /\ o.id >= since}
Creations(b, n, k) == {i \in 1..k : b[i] = [op |-> "create", name |-> n]}

(* The commands that may have objects: those run, those not cleaned up yet. *)
Covered ==
  IF phase = "setup" THEN Len(batch) - Len(todo)
  ELSE IF phase = "cleanup" THEN Len(todo) ELSE Len(batch)

Counted ==
  phase # "idle" =>
    \A n \in Names : Cardinality(Fresh(n)) <= Cardinality(Creations(batch, n, Covered))

(* A removal reaches the objects of this list: through the registry ...    *)
FoundByOid ==
  /\ phase = "setup" => \A n \in Names \ Keyed : Fresh(n) \subseteq registry[n]
  /\ phase \in {"ready", "cleanup"} =>
       \A n \in Names \ Keyed : registry[n] = {} \/ Fresh(n) \subseteq registry[n]

(* ... or through the key, unless a name in it stands for nothing now, or  *)
(* for an object made later.                                               *)
KeyOf(n, o) ==
  \/ o.refs = Target(n)
  \/ \E r \in Refs[n] : registry[r] = {} \/ \E q \in registry[r] : q.id >= o.id

FoundByKey ==
  phase # "idle" => \A n \in Keyed : \A o \in Fresh(n) : KeyOf(n, o)

(* A list of declarations that has met no fault: its first commands have   *)
(* made one object each, still registered, and these are the last made.    *)
Good == calm /\ OnlyDeclares(batch)
Declared(i) == [id |-> since + i - 1, name |-> batch[i].name, refs |-> Target(batch[i].name)]
Stands(i) ==
  /\ Resolved(batch[i].name)
  /\ Declared(i) \in device /\ registry[batch[i].name] = {Declared(i)}

Standing ==
  /\ Good /\ phase = "setup" =>
       /\ \A i \in 1..Covered : Stands(i)
       /\ nextId = since + Covered
  /\ Good /\ setupOk /\ phase \in {"ready", "cleanup"} =>
       /\ \A i \in 1..Covered : Stands(i)
       /\ \A o \in device : o.id < since + Covered

IInv ==
  /\ Types /\ Identity /\ Registered /\ RegistryLive /\ TodoIs
  /\ Counted /\ FoundByOid /\ FoundByKey /\ Standing

-----------------------------------------------------------------------------
(* Lists: what is still to run.                                            *)

LEMMA RemovalsList ==
  ASSUME NEW b \in Seq(Commands)
  PROVE  /\ Removals(b) \in Seq([op : Ops \cup {"none"}, name : Names])
         /\ Len(Removals(b)) = Len(b)
         /\ \A i \in 1..Len(b) : Removals(b)[i] = Removal(b[Len(b) + 1 - i])
<1>1. \A i \in 1..Len(b) : b[i] \in Commands
  OBVIOUS
<1>2. \A i \in 1..Len(b) : Removal(b[Len(b) + 1 - i]) \in [op : Ops \cup {"none"}, name : Names]
  <2>1. ASSUME NEW k \in Commands
        PROVE  Removal(k) \in [op : Ops \cup {"none"}, name : Names]
    BY <2>1 DEF Removal, Commands, Ops
  <2>2. \A i \in 1..Len(b) : Len(b) + 1 - i \in 1..Len(b)
    OBVIOUS
  <2>. QED BY <1>1, <2>1, <2>2
<1>. QED BY <1>2 DEF Removals

(* The commands done and the commands left, when the next one returns.     *)
LEMMA NextInSetup ==
  ASSUME Types, TodoIs, phase = "setup", Running
  PROVE  /\ Covered \in Nat /\ Covered + 1 \in 1..Len(batch)
         /\ batch[Covered + 1] = Now
         /\ Continue => Covered' = Covered + 1
         /\ Raise => Covered' = Len(batch)
         /\ Continue \/ Raise => Covered' \in Nat /\ Covered + 1 <= Covered'
<1>1. Len(todo) \in Nat \ {0} /\ Len(batch) \in Nat /\ Len(todo) <= Len(batch)
  BY DEF Types, TodoIs, Running
<1>2. Now = todo[1] /\ Len(Tail(todo)) = Len(todo) - 1
  BY DEF Types, Now, Running
<1>3. todo[1] = batch[Len(batch) - Len(todo) + 1]
  BY <1>1 DEF TodoIs
<1>4. Covered = Len(batch) - Len(todo)
  BY DEF Covered
<1>5. Continue => Covered' = Covered + 1
  BY <1>1, <1>2, <1>4 DEF Continue, Covered
<1>6. Raise => Covered' = Len(batch)
  BY DEF Raise, Covered
<1>7. Covered \in Nat /\ Covered + 1 \in Nat /\ Covered + 1 <= Len(batch)
  BY <1>1, <1>4
<1>8. Continue \/ Raise => Covered' \in Nat /\ Covered + 1 <= Covered'
  BY ONLY <1>1, <1>5, <1>6, <1>7
<1>. QED BY <1>2, <1>3, <1>4, <1>5, <1>6, <1>7, <1>8

LEMMA NextInCleanup ==
  ASSUME Types, TodoIs, phase = "cleanup", Running
  PROVE  /\ Covered \in 1..Len(batch)
         /\ Now = Removal(batch[Covered])
         /\ Continue => Covered' = Covered - 1
<1>1. Len(todo) \in Nat \ {0} /\ Len(batch) \in Nat /\ Len(todo) <= Len(batch)
  BY DEF Types, TodoIs, Running
<1>2. Now = todo[1] /\ Len(Tail(todo)) = Len(todo) - 1
  BY DEF Types, Now, Running
<1>3. todo[1] = Removal(batch[Len(todo) + 1 - 1])
  BY <1>1 DEF TodoIs
<1>4. Covered = Len(todo)
  BY DEF Covered
<1>5. Continue => Covered' = Covered - 1
  BY <1>2, <1>4 DEF Continue, Covered
<1>. QED BY <1>1, <1>2, <1>3, <1>4, <1>5

(* In a cleanup only removals run, each for a create of the list.          *)
LEMMA CleanupCommands ==
  ASSUME Types, TodoIs, phase = "cleanup", Running
  PROVE  /\ Now.op \in {"remove", "none"} /\ Now.name = batch[Covered].name
         /\ Now.op = "remove" <=> batch[Covered].op = "create"
<1>1. Now = Removal(batch[Covered])
  BY NextInCleanup
<1>. QED BY <1>1 DEF Removal

-----------------------------------------------------------------------------
(* Counting the creates of a list.                                         *)

LEMMA CreationsFinite ==
  ASSUME NEW b, NEW n, NEW k \in Nat
  PROVE  IsFiniteSet(Creations(b, n, k)) /\ Cardinality(Creations(b, n, k)) \in Nat
<1>1. IsFiniteSet(1..k)
  BY FS_Interval
<1>2. IsFiniteSet(Creations(b, n, k))
  BY <1>1, FS_Subset DEF Creations
<1>. QED BY <1>2, FS_CardinalityType

LEMMA CreationsGrow ==
  ASSUME NEW b, NEW n, NEW k \in Nat, NEW l \in Nat, k <= l
  PROVE  Cardinality(Creations(b, n, k)) <= Cardinality(Creations(b, n, l))
<1>1. Creations(b, n, k) \subseteq Creations(b, n, l)
  BY DEF Creations
<1>. QED BY <1>1, CreationsFinite, FS_Subset

LEMMA CreationsNext ==
  ASSUME NEW b, NEW n, NEW k \in Nat
  PROVE  /\ b[k + 1] = [op |-> "create", name |-> n] =>
              Cardinality(Creations(b, n, k + 1)) = Cardinality(Creations(b, n, k)) + 1
         /\ b[k + 1] # [op |-> "create", name |-> n] =>
              Creations(b, n, k + 1) = Creations(b, n, k)
<1>1. CASE b[k + 1] = [op |-> "create", name |-> n]
  <2>1. /\ Creations(b, n, k + 1) = Creations(b, n, k) \cup {k + 1}
        /\ k + 1 \notin Creations(b, n, k)
    BY <1>1 DEF Creations
  <2>2. IsFiniteSet(Creations(b, n, k))
    BY CreationsFinite
  <2>. QED BY <1>1, <2>1, <2>2, FS_AddElement
<1>2. CASE b[k + 1] # [op |-> "create", name |-> n]
  BY <1>2 DEF Creations
<1>. QED BY <1>1, <1>2

-----------------------------------------------------------------------------
(* What a step does to the registry and to the device.                     *)

StoreKept == UNCHANGED <<registry, device, nextId>>

(* A create has made an object; if its answer did not come, the name is    *)
(* not registered.                                                         *)
Creating(n) == Running /\ Now = [op |-> "create", name |-> n] /\ Creatable(n) /\ Made(n)
Stored(n) == Creating(n) /\ registry' = [registry EXCEPT ![n] = {New(n)}]
Orphaned(n) == Creating(n) /\ registry' = registry

(* A remove, whether or not it reached the device.                         *)
Cleared(n) ==
  /\ registry' = [registry EXCEPT ![n] = {}]
  /\ device' \in {device, device \ Addressed(n)} /\ nextId' = nextId

Wiped ==
  /\ device' = {} /\ nextId' = 1 /\ since' = 1
  /\ \/ registry' = [n \in Names |-> {}]
     \/ registry' = registry /\ resetFailed' = TRUE

LEMMA StoreSteps ==
  ASSUME Next
  PROVE  \/ StoreKept /\ resetFailed' = resetFailed /\ since' \in {since, nextId}
         \/ \E n \in Names : /\ Stored(n) \/ Orphaned(n) \/ Cleared(n)
                             /\ since' = since /\ resetFailed' = resetFailed
         \/ Wiped
<1>1. CASE StartBatch \/ EndBatch \/ StartCleanup \/ PassOver \/ EndCleanup
  BY <1>1 DEF StartBatch, EndBatch, StartCleanup, PassOver, EndCleanup, StoreKept
<1>2. CASE Reset \/ ResetFails
  BY <1>2 DEF Reset, ResetFails, Flushed, Wiped
<1>3. ASSUME NEW n \in Names, Create(n)
      PROVE  /\ StoreKept \/ Stored(n) \/ Orphaned(n)
             /\ since' = since /\ resetFailed' = resetFailed
  BY <1>3 DEF Create, StoreKept, Stored, Orphaned, Creating
<1>4. ASSUME NEW n \in Names, Remove(n)
      PROVE  Cleared(n) /\ since' = since /\ resetFailed' = resetFailed
  BY <1>4 DEF Remove, Cleared
<1>5. ASSUME NEW n \in Names, Use(n) \/ Unknown(n)
      PROVE  StoreKept /\ resetFailed' = resetFailed /\ since' = since
  BY <1>5 DEF Use, Unknown, StoreKept
<1>. QED BY <1>1, <1>2, <1>3, <1>4, <1>5 DEF Next

LEMMA AddressedNamed ==
  ASSUME Types, Registered, NEW n \in Names
  PROVE  Addressed(n) \subseteq {o \in device : o.name = n}
BY DEF Types, Registered, Addressed

(* The object a create makes is a new one.                                 *)
LEMMA NewObject ==
  ASSUME Types, Identity, NEW n \in Names, Creatable(n)
  PROVE  /\ New(n) \in Objects /\ New(n) \notin device
         /\ New(n).id = nextId /\ New(n).name = n /\ New(n).refs = Target(n)
         /\ \A x \in Target(n) : x < nextId
         /\ \A o \in device : o.id \in Nat /\ o.id < nextId
<1>1. \A o \in device : o.id \in Nat /\ o.id < nextId
  BY DEF Types, Identity, Objects
<1>2. \A x \in Target(n) : x \in Nat /\ x < nextId
  BY <1>1 DEF Creatable
<1>3. New(n).id = nextId /\ New(n).name = n /\ New(n).refs = Target(n)
  BY DEF New
<1>4. New(n) \in Objects
  BY <1>2 DEF New, Objects, Types
<1>. QED BY <1>1, <1>2, <1>3, <1>4 DEF Types

LEMMA IdentityStep ==
  ASSUME Types, Identity, Registered, Next
  PROVE  Identity'
<1>1. CASE StoreKept /\ since' \in {since, nextId}
  BY <1>1 DEF StoreKept, Identity, Types
<1>2. ASSUME NEW n \in Names, Creating(n), since' = since
      PROVE  Identity'
  <2>1. /\ device' = device \cup {New(n)} /\ nextId' = nextId + 1
        /\ Creatable(n)
    BY <1>2 DEF Creating, Made
  <2>2. PICK w : w = New(n)
    OBVIOUS
  <2>3. /\ w.id = nextId /\ w.name = n /\ w.refs = Target(n)
        /\ \A x \in w.refs : x < w.id
        /\ \A o \in device : o.id \in Nat /\ o.id < nextId
    BY <2>1, <2>2, NewObject
  <2>4. nextId \in Nat
    BY DEF Types
  <2>5. since' <= nextId' /\ \A o \in device' : o.id < nextId'
    BY <1>2, <2>1, <2>2, <2>3, <2>4 DEF Identity, Types
  <2>6. \A o, p \in device' : o.id = p.id => o = p
    BY <2>1, <2>2, <2>3, <2>4 DEF Identity
  <2>7. \A p \in device' : \A x \in p.refs : x < p.id
    BY <2>1, <2>2, <2>3 DEF Identity
  <2>8. n \in Keyed => \A o \in device : o.name = n => o.refs # w.refs
    BY <2>1, <2>3 DEF Creatable
  <2>9. \A o, p \in device' : o.name \in Keyed /\ p.name = o.name /\ p.refs = o.refs => o = p
    BY <2>1, <2>2, <2>3, <2>8 DEF Identity
  <2>. QED BY <2>5, <2>6, <2>7, <2>9 DEF Identity
<1>3. ASSUME NEW n \in Names, Cleared(n), since' = since
      PROVE  Identity'
  <2>1. device' \subseteq device /\ nextId' = nextId /\ since' = since
    BY <1>3 DEF Cleared
  <2>. QED BY <2>1 DEF Identity
<1>4. CASE Wiped
  BY <1>4 DEF Wiped, Identity
<1>. QED BY <1>1, <1>2, <1>3, <1>4, StoreSteps DEF Stored, Orphaned

LEMMA RegisteredStep ==
  ASSUME Types, Identity, Registered, Next
  PROVE  Registered'
<1>1. CASE registry' = registry
  BY <1>1 DEF Registered
<1>2. ASSUME NEW n \in Names, Stored(n)
      PROVE  Registered'
  BY <1>2 DEF Stored, New, Registered, Types
<1>3. ASSUME NEW n \in Names, Cleared(n)
      PROVE  Registered'
  BY <1>3 DEF Cleared, Registered, Types
<1>4. CASE registry' = [n \in Names |-> {}]
  BY <1>4 DEF Registered
<1>. QED BY <1>1, <1>2, <1>3, <1>4, StoreSteps DEF StoreKept, Orphaned, Wiped

(* A removal takes objects of its own name only, and only that name goes.  *)
LEMMA RegistryLiveStep ==
  ASSUME Types, Identity, Registered, RegistryLive, Next
  PROVE  RegistryLive'
<1>1. CASE StoreKept /\ resetFailed' = resetFailed
  BY <1>1 DEF StoreKept, RegistryLive
<1>2. ASSUME NEW n \in Names, Stored(n) \/ Orphaned(n), resetFailed' = resetFailed
      PROVE  RegistryLive'
  BY <1>2 DEF Stored, Orphaned, Creating, Made, RegistryLive, Types
<1>3. ASSUME NEW n \in Names, Cleared(n), resetFailed' = resetFailed
      PROVE  RegistryLive'
  <2>. SUFFICES ASSUME ~resetFailed, NEW m \in Names
                PROVE  registry'[m] \subseteq device'
    BY <1>3 DEF RegistryLive
  <2>1. registry[m] \subseteq device
    BY DEF RegistryLive
  <2>2. CASE m = n
    BY <1>3, <2>2 DEF Cleared, Types
  <2>3. CASE m # n
    <3>1. registry'[m] = registry[m]
      BY <1>3, <2>3 DEF Cleared, Types
    <3>2. \A o \in registry[m] : o \notin Addressed(n)
      BY <2>3, AddressedNamed DEF Registered
    <3>3. device' = device \/ device' = device \ Addressed(n)
      BY <1>3 DEF Cleared
    <3>. QED BY <2>1, <3>1, <3>2, <3>3
  <2>. QED BY <2>2, <2>3
<1>4. CASE Wiped
  BY <1>4 DEF Wiped, RegistryLive
<1>. QED BY <1>1, <1>2, <1>3, <1>4, StoreSteps

-----------------------------------------------------------------------------
(* Types.                                                                  *)

LEMMA StoreTypes ==
  ASSUME Types, Identity, Next
  PROVE  /\ registry' \in [Names -> SUBSET Objects]
         /\ device' \subseteq Objects /\ IsFiniteSet(device')
         /\ nextId' \in Nat \ {0}
<1>1. CASE StoreKept
  BY <1>1 DEF StoreKept, Types
<1>2. ASSUME NEW n \in Names, Stored(n) \/ Orphaned(n)
      PROVE  /\ registry' \in [Names -> SUBSET Objects]
             /\ device' \subseteq Objects /\ IsFiniteSet(device')
             /\ nextId' \in Nat \ {0}
  <2>1. /\ device' = device \cup {New(n)} /\ nextId' = nextId + 1
        /\ Creatable(n)
        /\ registry' = registry \/ registry' = [registry EXCEPT ![n] = {New(n)}]
    BY <1>2 DEF Stored, Orphaned, Creating, Made
  <2>2. New(n) \in Objects
    BY <2>1, NewObject
  <2>3. IsFiniteSet(device \cup {New(n)})
    BY FS_AddElement DEF Types
  <2>. QED BY <2>1, <2>2, <2>3 DEF Types
<1>3. ASSUME NEW n \in Names, Cleared(n)
      PROVE  /\ registry' \in [Names -> SUBSET Objects]
             /\ device' \subseteq Objects /\ IsFiniteSet(device')
             /\ nextId' \in Nat \ {0}
  <2>1. device' \subseteq device
    BY <1>3 DEF Cleared
  <2>2. IsFiniteSet(device')
    BY <2>1, FS_Subset DEF Types
  <2>. QED BY <1>3, <2>1, <2>2 DEF Cleared, Types
<1>4. CASE Wiped
  <2>1. IsFiniteSet({})
    BY FS_EmptySet
  <2>. QED BY <1>4, <2>1 DEF Wiped, Types
<1>. QED BY <1>1, <1>2, <1>3, <1>4, StoreSteps

(* What a step does to the list.                                           *)
LEMMA ListSteps ==
  ASSUME Next
  PROVE  \/ StartBatch \/ EndBatch \/ StartCleanup \/ EndCleanup \/ Reset \/ ResetFails
         \/ Running /\ (Continue \/ Raise) /\ since' = since /\ setupOk' = setupOk
<1>1. CASE PassOver
  BY <1>1 DEF PassOver
<1>2. ASSUME NEW n \in Names, Create(n)
      PROVE  Running /\ (Continue \/ Raise) /\ since' = since /\ setupOk' = setupOk
  BY <1>2 DEF Create
<1>3. ASSUME NEW n \in Names, Remove(n)
      PROVE  Running /\ (Continue \/ Raise) /\ since' = since /\ setupOk' = setupOk
  BY <1>3 DEF Remove
<1>4. ASSUME NEW n \in Names, Use(n)
      PROVE  Running /\ (Continue \/ Raise) /\ since' = since /\ setupOk' = setupOk
  BY <1>4 DEF Use
<1>5. ASSUME NEW n \in Names, Unknown(n)
      PROVE  Running /\ (Continue \/ Raise) /\ since' = since /\ setupOk' = setupOk
  BY <1>5 DEF Unknown
<1>. QED BY <1>1, <1>2, <1>3, <1>4, <1>5 DEF Next

LEMMA FaultTypes ==
  ASSUME Types, Next
  PROVE  faults' \in 0..MaxFaults
<1>1. MaxFaults \in Nat /\ faults \in 0..MaxFaults
  BY CommandsAssumption DEF Types
<1>2. Fault => faults' \in 0..MaxFaults
  BY <1>1 DEF Fault
<1>3. NoFault => faults' = faults
  BY DEF NoFault
<1>4. CASE StartBatch \/ EndBatch \/ StartCleanup \/ PassOver \/ EndCleanup \/ Reset \/ ResetFails
  BY <1>1, <1>4
  DEF StartBatch, EndBatch, StartCleanup, PassOver, EndCleanup, Reset, ResetFails
<1>5. ASSUME NEW n \in Names, Create(n) \/ Remove(n) \/ Use(n) \/ Unknown(n)
      PROVE  Fault \/ NoFault
  BY <1>5 DEF Create, Remove, Use, Unknown
<1>. QED BY <1>1, <1>2, <1>3, <1>4, <1>5 DEF Next

LEMMA ListTypes ==
  ASSUME Types, Next
  PROVE  /\ since' \in Nat \ {0} /\ batch' \in Seq(Commands)
         /\ todo' \in Seq([op : Ops \cup {"none"}, name : Names])
         /\ phase' \in {"idle", "ready"} => todo' = <<>>
         /\ Status'
<1>. DEFINE Todos == Seq([op : Ops \cup {"none"}, name : Names])
<1>0. \A b \in Seq(Commands) : b \in Todos
  <2>1. Commands \subseteq [op : Ops \cup {"none"}, name : Names]
    BY DEF Commands
  <2>. SUFFICES ASSUME NEW b \in Seq(Commands)
                PROVE  b \in Todos
    OBVIOUS
  <2>2. /\ Len(b) \in Nat /\ b = [i \in 1..Len(b) |-> b[i]]
        /\ \A i \in 1..Len(b) : b[i] \in Commands
    OBVIOUS
  <2>3. [i \in 1..Len(b) |-> b[i]] \in Todos
    BY <2>1, <2>2
  <2>. QED BY <2>2, <2>3
<1>e. <<>> \in Todos /\ <<>> \in Seq(Commands)
  OBVIOUS
<1>1. CASE StartBatch
  <2>1. batch' \in Seq(Commands) /\ todo' = batch' /\ phase' = "setup" /\ since' = nextId
    BY <1>1, CommandsAssumption DEF StartBatch
  <2>. QED BY <1>0, <2>1 DEF Types, Status
<1>2. CASE EndBatch \/ EndCleanup
  BY <1>2, <1>e DEF EndBatch, EndCleanup, Types, Status
<1>3. CASE StartCleanup
  <2>1. todo' = Removals(batch) /\ phase' = "cleanup" /\ batch' = batch /\ since' = since
    BY <1>3 DEF StartCleanup
  <2>2. Removals(batch) \in Todos
    BY RemovalsList DEF Types
  <2>. QED BY <2>1, <2>2 DEF Types, Status
<1>4. CASE Reset \/ ResetFails
  BY <1>4, <1>e DEF Reset, ResetFails, Flushed, Types, Status
<1>5. CASE Running /\ (Continue \/ Raise) /\ since' = since
  <2>1. CASE Continue
    <3>1. Tail(todo) \in Todos
      BY <1>5 DEF Types, Running
    <3>. QED BY <1>5, <2>1, <3>1 DEF Continue, Running, Types, Status
  <2>2. CASE Raise
    BY <1>5, <2>2, <1>e DEF Raise, Running, Types, Status
  <2>. QED BY <1>5, <2>1, <2>2
<1>. QED BY <1>1, <1>2, <1>3, <1>4, <1>5, ListSteps

LEMMA TypesStep ==
  ASSUME Types, Identity, Next
  PROVE  Types'
BY StoreTypes, FaultTypes, ListTypes DEF Types

LEMMA TodoIsStep ==
  ASSUME Types, TodoIs, Next
  PROVE  TodoIs'
<1>1. CASE StartBatch
  <2>1. PICK b \in Seq(Commands) :
          batch' = b /\ todo' = b /\ phase' = "setup" /\ setupOk' = FALSE
    BY <1>1, CommandsAssumption DEF StartBatch
  <2>. QED BY <2>1 DEF TodoIs
<1>2. CASE EndBatch \/ EndCleanup
  BY <1>2 DEF EndBatch, EndCleanup, TodoIs
<1>3. CASE StartCleanup
  <2>1. /\ todo' = Removals(batch) /\ phase' = "cleanup" /\ batch' = batch
        /\ raised' = FALSE
    BY <1>3 DEF StartCleanup
  <2>2. /\ Len(Removals(batch)) = Len(batch) /\ Len(batch) \in Nat
        /\ \A i \in 1..Len(batch) : Removals(batch)[i] = Removal(batch[Len(batch) + 1 - i])
    BY RemovalsList DEF Types
  <2>. QED BY <2>1, <2>2 DEF TodoIs, Removal
<1>4. CASE Reset \/ ResetFails
  <2>1. batch' = <<>> /\ todo' = todo /\ phase' = "idle" /\ todo = <<>>
    BY <1>4 DEF Reset, ResetFails, Types
  <2>. QED BY <2>1 DEF TodoIs
<1>5. CASE Running /\ Continue /\ setupOk' = setupOk
  <2>1. /\ todo' = Tail(todo) /\ batch' = batch /\ phase' = phase /\ raised' = raised
        /\ todo # <<>> /\ setupOk' = setupOk
    BY <1>5 DEF Running, Continue
  <2>2. PICK m \in Nat : Len(todo) = m + 1 /\ Len(Tail(todo)) = m
    <3>1. Len(todo) \in Nat \ {0} /\ Len(Tail(todo)) = Len(todo) - 1
      BY <2>1 DEF Types
    <3>2. PICK m : m = Len(todo) - 1
      OBVIOUS
    <3>3. m \in Nat /\ Len(todo) = m + 1 /\ Len(Tail(todo)) = m
      BY <3>1, <3>2
    <3>. QED BY ONLY <3>3
  <2>3. \A i \in 1..m : Tail(todo)[i] = todo[i + 1]
    BY <2>1, <2>2 DEF Types
  <2>4. Len(batch) \in Nat
    BY DEF Types
  <2>5. m <= Len(batch)
    BY <2>2, <2>4 DEF TodoIs
  <2>6. ASSUME phase = "setup", NEW i \in 1..m
        PROVE  Tail(todo)[i] = batch[Len(batch) - m + i]
    <3>1. todo[i + 1] = batch[Len(batch) - (m + 1) + (i + 1)]
      BY <2>2, <2>6 DEF TodoIs
    <3>2. Len(batch) - (m + 1) + (i + 1) = Len(batch) - m + i
      BY <2>4
    <3>. QED BY <2>3, <3>1, <3>2
  <2>7. ASSUME phase = "cleanup", NEW i \in 1..m
        PROVE  Tail(todo)[i] = Removal(batch[m + 1 - i])
    <3>1. todo[i + 1] = Removal(batch[(m + 1) + 1 - (i + 1)])
      BY <2>2, <2>7 DEF TodoIs
    <3>2. (m + 1) + 1 - (i + 1) = m + 1 - i
      OBVIOUS
    <3>. QED BY <2>3, <3>1, <3>2
  <2>8. TodoIs' <=>
          /\ Len(todo') <= Len(batch')
          /\ phase' = "setup" =>
               /\ \A i \in 1..Len(todo') : todo'[i] = batch'[Len(batch') - Len(todo') + i]
               /\ setupOk' = FALSE
          /\ phase' = "cleanup" =>
               /\ \A i \in 1..Len(todo') : todo'[i] = Removal(batch'[Len(todo') + 1 - i])
               /\ raised' = FALSE
    BY DEF TodoIs, Removal
  <2>9. (phase = "cleanup" => raised = FALSE) /\ (phase = "setup" => setupOk = FALSE)
    BY DEF TodoIs
  <2>. QED BY <2>1, <2>2, <2>5, <2>6, <2>7, <2>8, <2>9
<1>6. CASE Running /\ Raise
  <2>1. /\ todo' = <<>> /\ batch' = batch /\ phase' \in {"ready", "idle"}
    BY <1>6 DEF Running, Raise
  <2>2. Len(batch) \in Nat
    BY DEF Types
  <2>. QED BY <2>1, <2>2 DEF TodoIs
<1>. QED BY <1>1, <1>2, <1>3, <1>4, <1>5, <1>6, ListSteps

-----------------------------------------------------------------------------
(* The steps of a list, by what they do to the list and to the store.      *)

LEMMA RunSteps ==
  ASSUME Next
  PROVE  \/ StartBatch \/ EndBatch \/ StartCleanup \/ EndCleanup \/ Reset \/ ResetFails
         \/ /\ Running /\ UNCHANGED <<since, setupOk>>
            /\ \/ \E n \in Names : Stored(n) /\ Continue /\ NoFault
               \/ \E n \in Names : Orphaned(n) /\ Raise /\ ~calm'
               \/ \E n \in Names : /\ Now = [op |-> "create", name |-> n]
                                   /\ StoreKept /\ Raise
                                   /\ ~calm' \/ (NoFault /\ ~Creatable(n))
               \/ \E n \in Names : Remove(n)
               \/ StoreKept /\ Now.op \in {"set", "get"} /\ (Raise \/ (Continue /\ NoFault))
               \/ StoreKept /\ Raise /\ NoFault /\ registry[Now.name] = {}
               \/ StoreKept /\ Now.op = "none" /\ Continue /\ NoFault
<1>1. CASE PassOver
  BY <1>1 DEF PassOver, StoreKept, NoFault
<1>2. ASSUME NEW n \in Names, Create(n)
      PROVE  /\ Running /\ UNCHANGED <<since, setupOk>>
             /\ \/ Stored(n) /\ Continue /\ NoFault
                \/ Orphaned(n) /\ Raise /\ ~calm'
                \/ /\ Now = [op |-> "create", name |-> n]
                   /\ StoreKept /\ Raise
                   /\ ~calm' \/ (NoFault /\ ~Creatable(n))
  BY <1>2 DEF Create, Stored, Orphaned, Creating, StoreKept, Fault
<1>3. ASSUME NEW n \in Names, Remove(n)
      PROVE  Running /\ UNCHANGED <<since, setupOk>>
  BY <1>3 DEF Remove
<1>4. ASSUME NEW n \in Names, Use(n)
      PROVE  /\ Running /\ UNCHANGED <<since, setupOk>> /\ StoreKept
             /\ Now.op \in {"set", "get"} /\ (Raise \/ (Continue /\ NoFault))
  <2>1. Now.op \in {"set", "get"}
    BY <1>4 DEF Use
  <2>. QED BY <1>4, <2>1 DEF Use, StoreKept
<1>5. ASSUME NEW n \in Names, Unknown(n)
      PROVE  /\ Running /\ UNCHANGED <<since, setupOk>>
             /\ StoreKept /\ Raise /\ NoFault /\ registry[Now.name] = {}
  BY <1>5 DEF Unknown, StoreKept
<1>. QED BY <1>1, <1>2, <1>3, <1>4, <1>5 DEF Next

LEMMA PhaseOfCreate ==
  ASSUME Types, TodoIs, Running, Now.op \in {"create", "set", "get"}
  PROVE  phase = "setup"
BY CleanupCommands DEF Running

LEMMA CoveredBound ==
  ASSUME Types, TodoIs
  PROVE  Covered \in Nat /\ Covered <= Len(batch) /\ Len(batch) \in Nat
<1>1. Len(todo) \in Nat /\ Len(batch) \in Nat /\ Len(todo) <= Len(batch)
  BY DEF Types, TodoIs
<1>. QED BY <1>1 DEF Covered

-----------------------------------------------------------------------------
(* A removal in a cleanup reaches an object of the list, if its name has   *)
(* one: an object of that key made before this list cannot be in its place, *)
(* because the key then holds an object made after it.                     *)

LEMMA FreshFinite ==
  ASSUME Types, NEW n \in Names
  PROVE  IsFiniteSet(Fresh(n)) /\ Cardinality(Fresh(n)) \in Nat
<1>1. IsFiniteSet(Fresh(n))
  BY FS_Subset DEF Types, Fresh
<1>. QED BY <1>1, FS_CardinalityType

LEMMA FreshShrinks ==
  ASSUME Types, device' \subseteq device, since' = since, NEW n \in Names
  PROVE  Fresh(n)' \subseteq Fresh(n) /\ Cardinality(Fresh(n)') <= Cardinality(Fresh(n))
<1>1. Fresh(n)' \subseteq Fresh(n)
  BY DEF Fresh
<1>. QED BY <1>1, FreshFinite, FS_Subset

LEMMA FreshGrows ==
  ASSUME Types, Identity, since' = since, NEW n \in Names, Creating(n)
  PROVE  /\ Fresh(n)' = Fresh(n) \cup {New(n)}
         /\ Cardinality(Fresh(n)') = Cardinality(Fresh(n)) + 1
         /\ \A m \in Names \ {n} : Fresh(m)' = Fresh(m)
<1>1. device' = device \cup {New(n)} /\ Creatable(n)
  BY DEF Creating, Made
<1>2. /\ New(n).id = nextId /\ New(n).name = n /\ New(n) \notin device
      /\ nextId \in Nat /\ since \in Nat /\ since <= nextId
  BY <1>1, NewObject DEF Types, Identity
<1>3. Fresh(n)' = Fresh(n) \cup {New(n)}
  BY <1>1, <1>2 DEF Fresh
<1>4. New(n) \notin Fresh(n)
  BY <1>2 DEF Fresh
<1>5. \A m \in Names \ {n} : Fresh(m)' = Fresh(m)
  BY <1>1, <1>2 DEF Fresh
<1>. QED BY <1>3, <1>4, <1>5, FreshFinite, FS_AddElement

LEMMA RemovalReaches ==
  ASSUME Types, Identity, FoundByOid, FoundByKey, phase = "cleanup",
         NEW n \in Names, registry[n] # {}, Removable(n), Fresh(n) # {}
  PROVE  Fresh(n) \cap Addressed(n) # {}
<1>1. CASE n \notin Keyed
  <2>1. Fresh(n) \subseteq registry[n]
    BY <1>1 DEF FoundByOid
  <2>2. Addressed(n) = registry[n] \cap device
    BY <1>1 DEF Addressed
  <2>. QED BY <2>1, <2>2 DEF Fresh
<1>2. CASE n \in Keyed
  <2>1. PICK o \in Fresh(n) : TRUE
    OBVIOUS
  <2>2. o \in device /\ o.name = n /\ o.id >= since /\ KeyOf(n, o)
    BY <1>2, <2>1 DEF Fresh, FoundByKey
  <2>3. Addressed(n) = {x \in device : x.name = n /\ Resolved(n) /\ x.refs = Target(n)}
    BY <1>2 DEF Addressed
  <2>4. PICK p \in Addressed(n) : TRUE
    BY DEF Removable
  <2>5. /\ p \in device /\ p.name = n /\ Resolved(n) /\ p.refs = Target(n)
    BY <2>3, <2>4
  <2>6. CASE o.refs = Target(n)
    BY <2>1, <2>2, <2>3, <2>5, <2>6
  <2>7. ASSUME NEW r \in Refs[n], NEW q \in registry[r], q.id >= o.id
        PROVE  p \in Fresh(n)
    <3>1. r \in Names
      BY CommandsAssumption
    <3>2. q.id \in p.refs
      BY <2>5 DEF Target
    <3>3. q.id < p.id
      BY <2>5, <3>2 DEF Identity
    <3>4. q.id \in Nat /\ p.id \in Nat /\ o.id \in Nat /\ since \in Nat
      BY <2>2, <2>5, <3>1 DEF Types, Objects
    <3>5. p.id >= since
      BY <2>2, <2>7, <3>3, <3>4
    <3>. QED BY <2>5, <3>5 DEF Fresh
  <2>8. o.refs = Target(n) \/ \E r \in Refs[n] : \E q \in registry[r] : q.id >= o.id
    BY <2>2, <2>5 DEF KeyOf, Resolved
  <2>. QED BY <2>4, <2>6, <2>7, <2>8
<1>. QED BY <1>1, <1>2

LEMMA RemovalCounts ==
  ASSUME Types, Identity, FoundByOid, FoundByKey, phase = "cleanup",
         NEW n \in Names, Remove(n), Continue
  PROVE  Cardinality(Fresh(n)') = 0 \/ Cardinality(Fresh(n)') <= Cardinality(Fresh(n)) - 1
<1>1. Removable(n) /\ device' = device \ Addressed(n) /\ registry[n] # {} /\ since' = since
  BY DEF Remove, Continue, Raise
<1>2. Fresh(n)' = Fresh(n) \ Addressed(n)
  BY <1>1 DEF Fresh
<1>3. CASE Fresh(n) = {}
  BY <1>2, <1>3, FS_EmptySet
<1>4. CASE Fresh(n) # {}
  <2>1. PICK x \in Fresh(n) \cap Addressed(n) : TRUE
    BY <1>1, <1>4, RemovalReaches
  <2>2. Fresh(n)' \subseteq Fresh(n) \ {x}
    BY <1>2, <2>1
  <2>3. /\ IsFiniteSet(Fresh(n) \ {x})
        /\ Cardinality(Fresh(n) \ {x}) = Cardinality(Fresh(n)) - 1
    BY <2>1, FreshFinite, FS_RemoveElement
  <2>4. Cardinality(Fresh(n)') <= Cardinality(Fresh(n) \ {x})
    BY <2>2, <2>3, FS_Subset
  <2>. QED BY <2>3, <2>4
<1>. QED BY <1>3, <1>4

LEMMA CountedStep ==
  ASSUME Types, Identity, TodoIs, Counted, FoundByOid, FoundByKey, Next
  PROVE  Counted'
<1>. SUFFICES ASSUME phase' # "idle", NEW m \in Names
              PROVE  Cardinality(Fresh(m)') <= Cardinality(Creations(batch', m, Covered'))
  BY DEF Counted, Fresh, Creations
<1>1. /\ Covered \in Nat /\ Covered <= Len(batch) /\ Len(batch) \in Nat
      /\ Cardinality(Fresh(m)) \in Nat
      /\ \A k \in Nat : Cardinality(Creations(batch, m, k)) \in Nat
  BY CoveredBound, FreshFinite, CreationsFinite
<1>2. phase # "idle" => Cardinality(Fresh(m)) <= Cardinality(Creations(batch, m, Covered))
  BY DEF Counted
<1>3. CASE StartBatch
  <2>1. /\ device' = device /\ since' = nextId /\ todo' = batch' /\ phase' = "setup"
        /\ batch' \in Seq(Commands)
    BY <1>3, CommandsAssumption DEF StartBatch
  <2>2. \A o \in device : ~(o.id >= nextId)
    BY DEF Identity, Types, Objects
  <2>3. Fresh(m)' = {}
    BY <2>1, <2>2 DEF Fresh
  <2>4. Covered' = 0
    BY <2>1 DEF Covered
  <2>5. Cardinality(Fresh(m)') = 0
    BY <2>3, FS_EmptySet
  <2>6. Cardinality(Creations(batch', m, 0)) \in Nat
    BY CreationsFinite
  <2>. QED BY <2>4, <2>5, <2>6
<1>4. CASE EndBatch \/ StartCleanup
  <2>1. UNCHANGED <<device, since, batch>> /\ phase # "idle"
    BY <1>4 DEF EndBatch, StartCleanup
  <2>2. Fresh(m)' = Fresh(m)
    BY <2>1 DEF Fresh
  <2>3. Covered' = Covered
    <3>1. CASE EndBatch
      BY <1>1, <3>1 DEF EndBatch, Covered
    <3>2. CASE StartCleanup
      <4>1. Len(todo') = Len(batch)
        BY <3>2, RemovalsList DEF StartCleanup, Types
      <4>. QED BY <3>2, <4>1 DEF StartCleanup, Covered
    <3>. QED BY <1>4, <3>1, <3>2
  <2>. QED BY <1>2, <2>1, <2>2, <2>3
<1>5. CASE EndCleanup \/ Reset \/ ResetFails
  BY <1>5 DEF EndCleanup, Reset, ResetFails
<1>6. ASSUME NEW n \in Names, Stored(n) \/ Orphaned(n), since' = since, Continue \/ Raise
      PROVE  Cardinality(Fresh(m)') <= Cardinality(Creations(batch', m, Covered'))
  <2>1. Creating(n) /\ Running /\ Now = [op |-> "create", name |-> n]
    BY <1>6 DEF Stored, Orphaned, Creating
  <2>2. phase = "setup"
    BY <2>1, PhaseOfCreate
  <2>3. batch' = batch
    BY <1>6 DEF Continue, Raise
  <2>4. /\ Covered + 1 <= Len(batch) /\ batch[Covered + 1] = [op |-> "create", name |-> n]
        /\ Covered' \in Nat /\ Covered + 1 <= Covered'
    BY <1>6, <2>1, <2>2, NextInSetup
  <2>c. PICK c, d : c = Covered /\ d = Covered'
    OBVIOUS
  <2>d. c \in Nat /\ d \in Nat /\ c + 1 \in Nat /\ c + 1 <= d
    BY <1>1, <2>4, <2>c
  <2>5. /\ Cardinality(Creations(batch, m, c + 1)) <= Cardinality(Creations(batch, m, d))
        /\ Cardinality(Creations(batch, m, d)) \in Nat
        /\ Cardinality(Creations(batch, m, c)) \in Nat
    BY <1>1, <2>d, CreationsGrow
  <2>6. CASE m = n
    <3>0. batch[c + 1] = [op |-> "create", name |-> m]
      BY <2>4, <2>c, <2>6
    <3>1. Cardinality(Creations(batch, m, c + 1)) = Cardinality(Creations(batch, m, c)) + 1
      BY <2>d, <3>0, CreationsNext
    <3>2. Cardinality(Fresh(m)') = Cardinality(Fresh(m)) + 1
      BY <1>6, <2>1, <2>6, FreshGrows
    <3>. QED BY <1>1, <1>2, <2>2, <2>3, <2>c, <2>5, <3>1, <3>2
  <2>7. CASE m # n
    <3>0. batch[c + 1] # [op |-> "create", name |-> m]
      BY <2>4, <2>c, <2>7
    <3>1. Creations(batch, m, c + 1) = Creations(batch, m, c)
      BY <2>d, <3>0, CreationsNext
    <3>2. Fresh(m)' = Fresh(m)
      BY <1>6, <2>1, <2>7, FreshGrows
    <3>. QED BY <1>1, <1>2, <2>2, <2>3, <2>c, <2>5, <3>1, <3>2
  <2>. QED BY <2>6, <2>7
<1>7. ASSUME device' \subseteq device, since' = since, Running, Continue \/ Raise,
             phase = "setup"
      PROVE  Cardinality(Fresh(m)') <= Cardinality(Creations(batch', m, Covered'))
  <2>0. batch' = batch
    BY <1>7 DEF Continue, Raise
  <2>a. Covered' \in Nat /\ Covered + 1 <= Covered'
    BY <1>7, NextInSetup
  <2>1. batch' = batch /\ Covered' \in Nat /\ Covered <= Covered'
    BY <1>1, <2>0, <2>a
  <2>2. Cardinality(Creations(batch, m, Covered))
          <= Cardinality(Creations(batch, m, Covered'))
    BY <1>1, <2>1, CreationsGrow
  <2>3. Cardinality(Fresh(m)') <= Cardinality(Fresh(m)) /\ IsFiniteSet(Fresh(m)')
    BY <1>7, FreshShrinks, FreshFinite, FS_Subset
  <2>4. Cardinality(Fresh(m)') \in Nat
    BY <2>3, FS_CardinalityType
  <2>. QED BY <1>1, <1>2, <1>7, <2>1, <2>2, <2>3, <2>4
<1>8. ASSUME NEW n \in Names, Remove(n), Running, Continue, phase = "cleanup"
      PROVE  Cardinality(Fresh(m)') <= Cardinality(Creations(batch', m, Covered'))
  <2>1. batch' = batch /\ Covered' = Covered - 1 /\ Covered \in Nat \ {0}
    BY <1>8, NextInCleanup DEF Continue, Types
  <2>2. Now = [op |-> "remove", name |-> n] /\ since' = since /\ device' \subseteq device
    BY <1>8 DEF Remove
  <2>3. batch[Covered].op = "create" /\ batch[Covered].name = n /\ batch[Covered] \in Commands
    BY <1>8, <2>2, CleanupCommands, NextInCleanup DEF Types
  <2>4. batch[Covered] = [op |-> "create", name |-> n]
    BY <2>3 DEF Commands
  <2>5. PICK k \in Nat : Covered = k + 1 /\ Covered' = k
    BY <2>1
  <2>e. Fresh(m)' \subseteq Fresh(m)
    BY <2>2, FreshShrinks
  <2>f. Cardinality(Fresh(m)') \in Nat
    <3>1. IsFiniteSet(Fresh(m)')
      BY <2>e, FreshFinite, FS_Subset
    <3>. QED BY <3>1, FS_CardinalityType
  <2>6. /\ Cardinality(Creations(batch, m, k)) \in Nat
        /\ Cardinality(Creations(batch, m, Covered)) \in Nat
    BY <1>1, <2>5
  <2>7. CASE m = n
    <3>1. Cardinality(Creations(batch, m, Covered)) = Cardinality(Creations(batch, m, k)) + 1
      BY <2>4, <2>5, <2>7, CreationsNext
    <3>2. Cardinality(Fresh(m)') = 0 \/ Cardinality(Fresh(m)') <= Cardinality(Fresh(m)) - 1
      BY <1>8, <2>7, RemovalCounts
    <3>3. Cardinality(Fresh(m)) <= Cardinality(Creations(batch, m, k)) + 1
      BY <1>2, <1>8, <3>1
    <3>4. Cardinality(Fresh(m)') <= Cardinality(Creations(batch, m, k))
      <4>1. /\ Cardinality(Fresh(m)) \in Nat /\ Cardinality(Fresh(m)') \in Nat
            /\ Cardinality(Creations(batch, m, k)) \in Nat
        BY <1>1, <2>6, <2>f
      <4>2. PICK f, g, c : /\ f = Cardinality(Fresh(m)) /\ g = Cardinality(Fresh(m)')
                           /\ c = Cardinality(Creations(batch, m, k))
        OBVIOUS
      <4>3. /\ f \in Nat /\ g \in Nat /\ c \in Nat
            /\ g = 0 \/ g <= f - 1
            /\ f <= c + 1
        BY ONLY <3>2, <3>3, <4>1, <4>2
      <4>4. g <= c
        BY ONLY <4>3
      <4>. QED BY <4>2, <4>4
    <3>. QED BY <2>1, <2>5, <3>4
  <2>8. CASE m # n
    <3>0. batch[k + 1] # [op |-> "create", name |-> m]
      BY <2>4, <2>5, <2>8
    <3>1. Creations(batch, m, Covered) = Creations(batch, m, k)
      BY <2>5, <3>0, CreationsNext
    <3>2. Cardinality(Fresh(m)') <= Cardinality(Fresh(m))
      BY <2>2, FreshShrinks
    <3>. QED BY <1>1, <1>2, <1>8, <2>1, <2>5, <2>6, <2>f, <3>1, <3>2
  <2>. QED BY <2>7, <2>8
<1>9. ASSUME StoreKept, since' = since, Running, Continue, Now.op = "none", phase = "cleanup"
      PROVE  Cardinality(Fresh(m)') <= Cardinality(Creations(batch', m, Covered'))
  <2>1. batch' = batch /\ Covered' = Covered - 1 /\ Covered \in Nat \ {0}
    BY <1>9, NextInCleanup DEF Continue, Types
  <2>2. batch[Covered].op # "create"
    BY <1>9, CleanupCommands
  <2>3. PICK k \in Nat : Covered = k + 1 /\ Covered' = k
    BY <2>1
  <2>a. batch[k + 1] # [op |-> "create", name |-> m]
    BY <2>2, <2>3
  <2>4. Creations(batch, m, Covered) = Creations(batch, m, k)
    BY <2>3, <2>a, CreationsNext
  <2>5. Fresh(m)' = Fresh(m)
    BY <1>9 DEF StoreKept, Fresh
  <2>. QED BY <1>2, <1>9, <2>1, <2>3, <2>4, <2>5
<1>10. CASE Running /\ since' = since /\ (Continue \/ Raise) /\ phase = "cleanup"
  <2>1. Continue /\ ~Raise
    BY <1>10 DEF Raise
  <2>2. Now.op \in {"remove", "none"}
    BY <1>10, CleanupCommands
  <2>3. (\E n \in Names : Remove(n)) \/ (StoreKept /\ Now.op = "none")
    <3>1. ~StartBatch /\ ~EndBatch /\ ~StartCleanup
      BY <1>10 DEF StartBatch, EndBatch, StartCleanup
    <3>2. ~EndCleanup /\ ~Reset /\ ~ResetFails
      BY DEF EndCleanup, Reset, ResetFails
    <3>3. \A n \in Names : ~Stored(n)
      BY <2>2 DEF Stored, Creating
    <3>. QED BY <2>1, <2>2, <3>1, <3>2, <3>3, RunSteps
  <2>. QED BY <1>8, <1>9, <1>10, <2>1, <2>3
<1>11. CASE Running /\ since' = since /\ (Continue \/ Raise) /\ phase = "setup"
  <2>1. \/ \E n \in Names : Stored(n) \/ Orphaned(n)
        \/ \E n \in Names : Remove(n)
        \/ StoreKept
    <3>1. ~StartBatch /\ ~EndBatch /\ ~StartCleanup
      BY <1>11 DEF StartBatch, EndBatch, StartCleanup, Running
    <3>2. ~EndCleanup /\ ~Reset /\ ~ResetFails
      BY DEF EndCleanup, Reset, ResetFails
    <3>. QED BY <3>1, <3>2, RunSteps
  <2>2. \/ \E n \in Names : Stored(n) \/ Orphaned(n)
        \/ device' \subseteq device
    BY <2>1 DEF Remove, StoreKept
  <2>. QED BY <1>6, <1>7, <1>11, <2>2
<1>12. Running => phase \in {"setup", "cleanup"}
  BY DEF Running
<1>. QED BY <1>3, <1>4, <1>5, <1>10, <1>11, <1>12, ListSteps

-----------------------------------------------------------------------------
(* What removals find.                                                     *)

LEMMA PhaseAfter ==
  ASSUME Running, Continue \/ Raise
  PROVE  /\ batch' = batch
         /\ phase' = "setup" => phase = "setup" /\ ~Raise
         /\ phase' = "cleanup" => phase = "cleanup" /\ ~Raise
         /\ phase' = "ready" => phase = "setup"
         /\ Raise => phase' \in {"ready", "idle"}
BY DEF Running, Continue, Raise

LEMMA FoundByOidStep ==
  ASSUME Types, Identity, Registered, TodoIs, FoundByOid, Next
  PROVE  FoundByOid'
<1>. DEFINE Found(n) ==
       /\ phase' = "setup" => Fresh(n)' \subseteq registry'[n]
       /\ phase' \in {"ready", "cleanup"} =>
            registry'[n] = {} \/ Fresh(n)' \subseteq registry'[n]
<1>. SUFFICES ASSUME NEW n \in Names \ Keyed
              PROVE  Found(n)
  BY DEF FoundByOid, Fresh
<1>0. /\ phase = "setup" => Fresh(n) \subseteq registry[n]
      /\ phase \in {"ready", "cleanup"} => registry[n] = {} \/ Fresh(n) \subseteq registry[n]
  BY DEF FoundByOid
<1>1. CASE StartBatch
  <2>1. device' = device /\ since' = nextId
    BY <1>1 DEF StartBatch
  <2>2. \A o \in device : ~(o.id >= nextId)
    BY DEF Identity, Types, Objects
  <2>3. Fresh(n)' = {}
    BY <2>1, <2>2 DEF Fresh
  <2>. QED BY <2>3
<1>2. CASE EndBatch \/ StartCleanup
  <2>1. UNCHANGED <<registry, device, since>>
        /\ phase \in {"setup", "ready"} /\ phase' \in {"ready", "cleanup"}
    BY <1>2 DEF EndBatch, StartCleanup
  <2>2. Fresh(n)' = Fresh(n)
    BY <2>1 DEF Fresh
  <2>. QED BY <1>0, <2>1, <2>2
<1>3. CASE EndCleanup \/ Reset \/ ResetFails
  BY <1>3 DEF EndCleanup, Reset, ResetFails
<1>4. ASSUME NEW m \in Names, Running, since' = since,
             (Stored(m) /\ Continue) \/ (Orphaned(m) /\ Raise)
      PROVE  Found(n)
  <2>1. Creating(m) /\ Now.op = "create"
    BY <1>4 DEF Stored, Orphaned, Creating
  <2>2. phase = "setup" /\ Fresh(n) \subseteq registry[n]
    BY <1>0, <1>4, <2>1, PhaseOfCreate
  <2>3. CASE m = n
    <3>1. registry[n] = {}
      BY <2>1, <2>3 DEF Creating, Creatable
    <3>2. Fresh(n)' = {New(n)}
      BY <1>4, <2>1, <2>2, <2>3, <3>1, FreshGrows
    <3>3. CASE Stored(m)
      <4>1. registry'[n] = {New(n)}
        BY <2>3, <3>3 DEF Stored, Types
      <4>. QED BY <3>2, <4>1
    <3>4. CASE Orphaned(m) /\ Raise
      <4>1. registry'[n] = {} /\ phase' # "setup"
        BY <1>4, <3>1, <3>4, PhaseAfter DEF Orphaned
      <4>. QED BY <4>1
    <3>. QED BY <1>4, <3>3, <3>4
  <2>4. CASE m # n
    <3>1. Fresh(n)' = Fresh(n)
      BY <1>4, <2>1, <2>4, FreshGrows
    <3>2. registry'[n] = registry[n]
      BY <1>4, <2>4 DEF Stored, Orphaned, Types
    <3>. QED BY <2>2, <3>1, <3>2
  <2>. QED BY <2>3, <2>4
<1>5. ASSUME NEW m \in Names, Running, since' = since, Continue \/ Raise, Remove(m)
      PROVE  Found(n)
  <2>1. /\ registry' = [registry EXCEPT ![m] = {}] /\ device' \subseteq device
        /\ Continue => device' = device \ Addressed(m)
    BY <1>5 DEF Remove, Running, Continue, Raise
  <2>2. CASE m = n
    <3>1. registry'[n] = {}
      BY <2>1, <2>2 DEF Types
    <3>2. ASSUME phase' = "setup"
          PROVE  Fresh(n)' = {}
      <4>1. phase = "setup" /\ Continue
        BY <1>5, <3>2, PhaseAfter
      <4>2. Addressed(n) = registry[n] \cap device
        BY <4>1 DEF Addressed
      <4>3. Fresh(n) \subseteq Addressed(n)
        BY <1>0, <4>1, <4>2 DEF Fresh
      <4>4. Fresh(n)' = Fresh(n) \ Addressed(n)
        BY <1>5, <2>1, <2>2, <4>1 DEF Fresh
      <4>. QED BY <4>3, <4>4
    <3>. QED BY <3>1, <3>2
  <2>3. CASE m # n
    <3>1. registry'[n] = registry[n]
      BY <2>1, <2>3 DEF Types
    <3>2. Fresh(n)' \subseteq Fresh(n)
      BY <1>5, <2>1, FreshShrinks
    <3>. QED BY <1>0, <1>5, <3>1, <3>2, PhaseAfter
  <2>. QED BY <2>2, <2>3
<1>6. CASE Running /\ since' = since /\ (Continue \/ Raise) /\ StoreKept
  <2>1. registry' = registry /\ Fresh(n)' = Fresh(n)
    BY <1>6 DEF StoreKept, Fresh
  <2>. QED BY <1>0, <1>6, <2>1, PhaseAfter
<1>7. \A m \in Names : Remove(m) => Continue \/ Raise
  BY DEF Remove
<1>. QED BY <1>1, <1>2, <1>3, <1>4, <1>5, <1>6, <1>7, RunSteps

(* An object keeps its key, or a name in the key is gone or moves on.      *)
LEMMA KeyKept ==
  ASSUME Types, NEW n \in Names, NEW m \in Names, NEW o \in Objects, KeyOf(n, o),
         \/ registry' = registry
         \/ registry' = [registry EXCEPT ![m] = {}]
         \/ \E q : q.id >= o.id /\ registry' = [registry EXCEPT ![m] = {q}]
  PROVE  KeyOf(n, o)'
<1>0. Refs[n] \subseteq Names
  BY CommandsAssumption
<1>1. CASE registry' = registry
  BY <1>1 DEF KeyOf, Target
<1>2. CASE registry' # registry /\ m \in Refs[n]
  <2>1. registry'[m] = {} \/ \E q \in registry'[m] : q.id >= o.id
    BY <1>2 DEF Types
  <2>. QED BY <1>2, <2>1 DEF KeyOf
<1>3. CASE registry' # registry /\ m \notin Refs[n]
  <2>1. \A r \in Refs[n] : registry'[r] = registry[r]
    BY <1>0, <1>3 DEF Types
  <2>2. Target(n)' = Target(n)
    BY <2>1 DEF Target
  <2>. QED BY <2>1, <2>2 DEF KeyOf
<1>. QED BY <1>1, <1>2, <1>3

LEMMA FoundByKeyStep ==
  ASSUME Types, Identity, Registered, TodoIs, FoundByKey, Next
  PROVE  FoundByKey'
<1>. SUFFICES ASSUME phase' # "idle", NEW n \in Keyed, NEW o \in Fresh(n)'
              PROVE  KeyOf(n, o)'
  BY DEF FoundByKey, Fresh, KeyOf, Target
<1>0. n \in Names /\ (phase # "idle" => \A x \in Fresh(n) : KeyOf(n, x))
  BY CommandsAssumption DEF FoundByKey
<1>1. CASE StartBatch
  <2>1. device' = device /\ since' = nextId
    BY <1>1 DEF StartBatch
  <2>2. \A x \in device : ~(x.id >= nextId)
    BY DEF Identity, Types, Objects
  <2>3. Fresh(n)' = {}
    BY <2>1, <2>2 DEF Fresh
  <2>. QED BY <2>3
<1>2. CASE EndCleanup \/ Reset \/ ResetFails
  BY <1>2 DEF EndCleanup, Reset, ResetFails
<1>3. ASSUME phase # "idle", o \in Fresh(n), NEW m \in Names,
             \/ registry' = registry
             \/ registry' = [registry EXCEPT ![m] = {}]
             \/ \E q : q.id >= o.id /\ registry' = [registry EXCEPT ![m] = {q}]
      PROVE  KeyOf(n, o)'
  BY <1>0, <1>3, KeyKept DEF Fresh, Types
<1>4. CASE EndBatch \/ StartCleanup
  <2>1. UNCHANGED <<registry, device, since>> /\ phase # "idle"
    BY <1>4 DEF EndBatch, StartCleanup
  <2>2. o \in Fresh(n)
    BY <2>1 DEF Fresh
  <2>. QED BY <1>0, <1>3, <2>1, <2>2
<1>5. ASSUME NEW m \in Names, Running, since' = since, Stored(m) \/ Orphaned(m)
      PROVE  KeyOf(n, o)'
  <2>1. /\ Creating(m) /\ Creatable(m) /\ phase # "idle"
        /\ registry' = registry \/ registry' = [registry EXCEPT ![m] = {New(m)}]
    BY <1>5 DEF Stored, Orphaned, Creating, Running
  <2>2. /\ New(m).id = nextId /\ New(m).refs = Target(m)
        /\ \A x \in device : x.id \in Nat /\ x.id < nextId
    BY <2>1, NewObject
  <2>3. nextId \in Nat
    BY DEF Types
  <2>4. CASE o \in Fresh(n)
    <3>1. o \in device
      BY <2>4 DEF Fresh
    <3>2. New(m).id >= o.id
      BY <2>2, <2>3, <3>1
    <3>. QED BY <1>3, <2>1, <2>4, <3>2
  <2>5. CASE o \notin Fresh(n)
    <3>1. m = n /\ o = New(n)
      BY <1>0, <1>5, <2>1, <2>5, FreshGrows
    <3>2. CASE registry' = registry
      <4>1. Target(n)' = Target(n)
        BY <3>2 DEF Target
      <4>. QED BY <2>2, <3>1, <4>1 DEF KeyOf
    <3>3. CASE registry' = [registry EXCEPT ![n] = {New(n)}] /\ n \in Refs[n]
      <4>1. registry'[n] = {o}
        BY <1>0, <3>1, <3>3 DEF Types
      <4>2. o.id >= o.id
        BY <2>2, <2>3, <3>1
      <4>. QED BY <3>3, <4>1, <4>2 DEF KeyOf
    <3>4. CASE registry' = [registry EXCEPT ![n] = {New(n)}] /\ n \notin Refs[n]
      <4>1. \A r \in Refs[n] : registry'[r] = registry[r]
        BY <1>0, <3>4, CommandsAssumption DEF Types
      <4>2. Target(n)' = Target(n)
        BY <4>1 DEF Target
      <4>. QED BY <2>2, <3>1, <4>2 DEF KeyOf
    <3>. QED BY <2>1, <3>1, <3>2, <3>3, <3>4
  <2>. QED BY <2>4, <2>5
<1>6. ASSUME NEW m \in Names, Running, Remove(m)
      PROVE  KeyOf(n, o)'
  <2>1. /\ registry' = [registry EXCEPT ![m] = {}] /\ device' \subseteq device
        /\ since' = since /\ phase # "idle"
    BY <1>6 DEF Remove, Running
  <2>2. o \in Fresh(n)
    BY <1>0, <2>1, FreshShrinks
  <2>. QED BY <1>3, <2>1, <2>2
<1>7. CASE Running /\ since' = since /\ StoreKept
  <2>1. o \in Fresh(n) /\ registry' = registry /\ phase # "idle"
    BY <1>7 DEF StoreKept, Fresh, Running
  <2>. QED BY <1>0, <1>3, <2>1
<1>. QED BY <1>1, <1>2, <1>4, <1>5, <1>6, <1>7, RunSteps

-----------------------------------------------------------------------------
(* Lists that only declare objects.                                        *)

LEMMA StandsKept ==
  ASSUME Types, NEW n \in Names, NEW V, registry' = [registry EXCEPT ![n] = V],
         UNCHANGED <<batch, since>>,
         NEW i \in 1..Len(batch), Stands(i), Declared(i) \in device',
         n # batch[i].name, n \notin Refs[batch[i].name]
  PROVE  Stands(i)'
<1>1. batch[i].name \in Names /\ Refs[batch[i].name] \subseteq Names
  <2>1. batch[i] \in Commands
    BY DEF Types
  <2>2. batch[i].name \in Names
    BY <2>1 DEF Commands
  <2>. QED BY <2>2, CommandsAssumption
<1>2. \A r \in Refs[batch[i].name] \cup {batch[i].name} : registry'[r] = registry[r]
  BY <1>1 DEF Types
<1>3. Resolved(batch[i].name)' /\ Target(batch[i].name)' = Target(batch[i].name)
  BY <1>2 DEF Resolved, Target, Stands
<1>4. Declared(i)' = Declared(i)
  BY <1>3 DEF Declared
<1>. QED BY <1>1, <1>2, <1>3, <1>4 DEF Stands

(* The removal of a declared object reaches that object and no other.      *)
LEMMA DeclaredAddressed ==
  ASSUME Types, Identity, phase = "cleanup", NEW i \in 1..Len(batch), Stands(i)
  PROVE  Addressed(batch[i].name) = {Declared(i)}
<1>. DEFINE n == batch[i].name
<1>1. /\ Declared(i) \in device /\ registry[n] = {Declared(i)} /\ Resolved(n)
      /\ Declared(i).name = n /\ Declared(i).refs = Target(n)
  BY DEF Stands, Declared
<1>2. CASE n \in Keyed
  <2>1. Addressed(n) = {o \in device : o.name = n /\ o.refs = Target(n)}
    BY <1>1, <1>2 DEF Addressed
  <2>2. \A o \in Addressed(n) : o = Declared(i)
    BY <1>1, <1>2, <2>1 DEF Identity
  <2>. QED BY <1>1, <2>1, <2>2
<1>3. CASE n \notin Keyed
  BY <1>1, <1>3 DEF Addressed
<1>. QED BY <1>2, <1>3

LEMMA StandingStep ==
  ASSUME Types, Identity, Registered, TodoIs, Standing, Next
  PROVE  Standing'
<1>. DEFINE Goal ==
       /\ Good' /\ phase' = "setup" =>
            /\ \A i \in 1..Covered' : Stands(i)'
            /\ nextId' = since' + Covered'
       /\ Good' /\ setupOk' /\ phase' \in {"ready", "cleanup"} =>
            /\ \A i \in 1..Covered' : Stands(i)'
            /\ \A o \in device' : o.id < since' + Covered'
<1>. SUFFICES Goal
  BY DEF Standing, Stands, Resolved, Declared, Target
<1>0. /\ Covered \in Nat /\ Covered <= Len(batch) /\ Len(batch) \in Nat
      /\ since \in Nat /\ nextId \in Nat
  BY CoveredBound DEF Types
<1>1. CASE StartBatch
  <2>1. phase' = "setup" /\ Covered' = 0 /\ nextId' = nextId /\ since' = nextId
    <3>1. batch' \in Seq(Commands) /\ todo' = batch' /\ phase' = "setup"
      BY <1>1, CommandsAssumption DEF StartBatch
    <3>2. Covered' = 0
      BY <3>1 DEF Covered
    <3>. QED BY <1>1, <3>1, <3>2 DEF StartBatch
  <2>. QED BY <1>0, <2>1
<1>2. CASE EndBatch \/ StartCleanup
  <2>1. /\ UNCHANGED <<registry, device, nextId, batch, calm, since>>
        /\ phase' \in {"ready", "cleanup"}
    BY <1>2 DEF EndBatch, StartCleanup
  <2>2. Covered' = Covered
    <3>1. CASE EndBatch
      BY <1>0, <3>1 DEF EndBatch, Covered
    <3>2. CASE StartCleanup
      <4>1. Len(todo') = Len(batch)
        BY <3>2, RemovalsList DEF StartCleanup, Types
      <4>. QED BY <3>2, <4>1 DEF StartCleanup, Covered
    <3>. QED BY <1>2, <3>1, <3>2
  <2>3. /\ Good' => Good
        /\ \A i \in 1..Covered : Stands(i) => Stands(i)'
    BY <2>1 DEF Good, OnlyDeclares, Stands, Resolved, Declared, Target
  <2>4. \/ phase = "setup"
        \/ phase = "ready" /\ setupOk' = setupOk
    BY <1>2 DEF EndBatch, StartCleanup
  <2>5. \A o \in device : o.id < nextId
    BY DEF Identity
  <2>. QED BY <2>1, <2>2, <2>3, <2>4, <2>5 DEF Standing
<1>3. CASE EndCleanup \/ Reset \/ ResetFails
  BY <1>3 DEF EndCleanup, Reset, ResetFails
<1>4. ASSUME Running, Continue, ~Raise, UNCHANGED <<since, setupOk>>, phase = "setup", Good'
      PROVE  Goal
  <2>1. /\ batch' = batch /\ Covered' = Covered + 1 /\ Covered + 1 \in 1..Len(batch)
        /\ batch[Covered + 1] = Now /\ phase' = "setup"
    BY <1>4, NextInSetup DEF Continue
  <2>2. PICK c : c = Covered
    OBVIOUS
  <2>3. /\ c \in Nat /\ c + 1 \in 1..Len(batch)
        /\ batch[c + 1] = Now /\ Covered' = c + 1
    BY <1>0, <2>1, <2>2
  <2>4. calm' /\ OnlyDeclares(batch)
    BY <1>4, <2>1 DEF Good, OnlyDeclares
  <2>5. Now.op = "create"
    BY <2>3, <2>4 DEF OnlyDeclares
  <2>6. PICK n \in Names : Stored(n) /\ NoFault
    <3>1. ~StartBatch /\ ~EndBatch /\ ~StartCleanup /\ ~EndCleanup /\ ~Reset /\ ~ResetFails
      BY <1>4, <2>1
      DEF StartBatch, EndBatch, StartCleanup, EndCleanup, Reset, ResetFails, Running
    <3>2. \A n \in Names : ~Remove(n)
      BY <2>5 DEF Remove
    <3>3. ~(StoreKept /\ Raise /\ NoFault /\ registry[Now.name] = {})
      BY <1>4
    <3>. QED BY <1>4, <2>5, <3>1, <3>2, <3>3, RunSteps
  <2>7. Good /\ Creatable(n) /\ Now.name = n
    BY <2>4, <2>6 DEF Good, NoFault, Stored, Creating
  <2>8. /\ \A i \in 1..c : Stands(i)
        /\ nextId = since + c
    BY <1>4, <2>2, <2>7 DEF Standing
  <2>9. /\ device' = device \cup {New(n)} /\ nextId' = nextId + 1
        /\ registry' = [registry EXCEPT ![n] = {New(n)}]
    BY <2>6 DEF Stored, Creating, Made
  <2>10. ASSUME NEW i \in 1..c
         PROVE  Stands(i)'
    <3>1. i \in 1..Len(batch) /\ i # c + 1 /\ i <= c + 1 /\ Stands(i)
      BY <1>0, <2>3, <2>8
    <3>2. batch[c + 1].name # batch[i].name /\ batch[c + 1].name \notin Refs[batch[i].name]
      BY <2>3, <2>4, <3>1 DEF OnlyDeclares
    <3>3. Declared(i) \in device'
      BY <2>9, <3>1 DEF Stands
    <3>. QED BY <1>4, <2>1, <2>3, <2>7, <2>9, <3>1, <3>2, <3>3, StandsKept
  <2>11. Stands(c + 1)'
    <3>1. n \notin Refs[n]
      BY <2>3, <2>4, <2>7 DEF OnlyDeclares
    <3>2. \A r \in Refs[n] : registry'[r] = registry[r]
      BY <2>9, <3>1, CommandsAssumption DEF Types
    <3>3. Target(n)' = Target(n) /\ Resolved(n)'
      BY <2>7, <3>2 DEF Target, Resolved, Creatable
    <3>4. batch'[c + 1].name = n
      BY <2>1, <2>3, <2>7
    <3>5. since' + (c + 1) - 1 = nextId
      BY <1>0, <1>4, <2>3, <2>8
    <3>6. Declared(c + 1)' = New(n)
      BY <3>3, <3>4, <3>5 DEF Declared, New
    <3>7. registry'[n] = {New(n)} /\ New(n) \in device'
      BY <2>9 DEF Types
    <3>. QED BY <3>3, <3>4, <3>6, <3>7 DEF Stands
  <2>12. \A i \in 1..(c + 1) : Stands(i)'
    <3>1. \A i \in 1..(c + 1) : i \in 1..c \/ i = c + 1
      BY <2>3
    <3>. QED BY <2>10, <2>11, <3>1
  <2>13. nextId' = since' + (c + 1)
    BY <1>0, <1>4, <2>3, <2>8, <2>9
  <2>. QED BY <2>1, <2>3, <2>12, <2>13
<1>5. ASSUME Running, Continue, ~Raise, UNCHANGED <<since, setupOk>>, phase = "cleanup",
             Good', setupOk'
      PROVE  Goal
  <2>1. /\ batch' = batch /\ Covered' = Covered - 1 /\ Covered \in 1..Len(batch)
        /\ phase' = "cleanup"
    BY <1>5, NextInCleanup DEF Continue
  <2>2. PICK c : c = Covered
    OBVIOUS
  <2>3. c \in 1..Len(batch) /\ Covered' = c - 1
    BY <2>1, <2>2
  <2>4. calm' /\ OnlyDeclares(batch)
    BY <1>5, <2>1 DEF Good, OnlyDeclares
  <2>5. Now.op = "remove" /\ Now.name = batch[c].name
    BY <1>5, <2>2, <2>3, <2>4, CleanupCommands DEF OnlyDeclares
  <2>6. PICK n \in Names : Remove(n)
    <3>1. ~StartBatch /\ ~EndBatch /\ ~StartCleanup /\ ~EndCleanup /\ ~Reset /\ ~ResetFails
      BY <1>5, <2>1
      DEF StartBatch, EndBatch, StartCleanup, EndCleanup, Reset, ResetFails, Running
    <3>2. \A n \in Names : ~Stored(n)
      BY <2>5 DEF Stored, Creating
    <3>. QED BY <1>5, <2>5, <3>1, <3>2, RunSteps
  <2>7. /\ n = batch[c].name /\ device' = device \ Addressed(n) /\ NoFault
        /\ registry' = [registry EXCEPT ![n] = {}]
    BY <1>5, <2>5, <2>6 DEF Remove
  <2>8. Good /\ setupOk
    BY <1>5, <2>4, <2>7 DEF Good, NoFault
  <2>9. /\ \A i \in 1..c : Stands(i)
        /\ \A o \in device : o.id < since + c
    BY <1>5, <2>2, <2>8 DEF Standing
  <2>10. c \in 1..c
    BY <1>0, <2>3
  <2>11. Addressed(n) = {Declared(c)}
    BY <1>5, <2>3, <2>7, <2>9, <2>10, DeclaredAddressed
  <2>12. ASSUME NEW i \in 1..(c - 1)
         PROVE  Stands(i)'
    <3>1. i \in 1..Len(batch) /\ i # c /\ i <= c /\ Stands(i)
      BY <1>0, <2>3, <2>9
    <3>2. batch[c].name # batch[i].name /\ batch[c].name \notin Refs[batch[i].name]
      BY <2>3, <2>4, <3>1 DEF OnlyDeclares
    <3>3. Declared(i) \in device /\ Declared(i) # Declared(c)
      BY <3>1, <3>2 DEF Stands, Declared
    <3>4. Declared(i) \in device'
      BY <2>7, <2>11, <3>3
    <3>. QED BY <1>5, <2>1, <2>7, <3>1, <3>2, <3>4, StandsKept
  <2>13. ASSUME NEW o \in device'
         PROVE  o.id < since' + (c - 1)
    <3>1. o \in device /\ o # Declared(c)
      BY <2>7, <2>11
    <3>2. Declared(c) \in device /\ Declared(c).id = since + c - 1
      BY <2>9, <2>10 DEF Stands, Declared
    <3>3. o.id # since + c - 1 /\ o.id \in Nat /\ o.id < since + c
      BY <2>9, <3>1, <3>2 DEF Identity, Types, Objects
    <3>4. c \in Nat
      BY <1>0, <2>3
    <3>. QED BY <1>0, <1>5, <3>3, <3>4
  <2>. QED BY <2>1, <2>3, <2>12, <2>13
<1>6. CASE Running /\ (Continue \/ Raise) /\ UNCHANGED <<since, setupOk>>
  <2>1. phase' = "ready" => ~setupOk'
    BY <1>6, PhaseAfter DEF TodoIs
  <2>2. phase' = "setup" => phase = "setup" /\ Continue /\ ~Raise
    BY <1>6, PhaseAfter
  <2>3. phase' = "cleanup" => phase = "cleanup" /\ Continue /\ ~Raise
    BY <1>6, PhaseAfter
  <2>. QED BY <1>4, <1>5, <1>6, <2>1, <2>2, <2>3
<1>. QED BY <1>1, <1>2, <1>3, <1>6, ListSteps

(* Only a fault can stop the cleanup of a complete list of declarations:   *)
(* what it removes is registered, and nothing older refers to it.          *)
LEMMA CleanupRaises ==
  ASSUME Types, Identity, TodoIs, Standing, Next, phase = "cleanup", Running, Raise
  PROVE  ~setupOk \/ ~calm' \/ ~OnlyDeclares(batch)
<1>. SUFFICES ASSUME setupOk, calm', OnlyDeclares(batch)
              PROVE  FALSE
  OBVIOUS
<1>1. PICK c : c = Covered
  OBVIOUS
<1>2. c \in 1..Len(batch) /\ c \in Nat /\ since \in Nat /\ c \in 1..c
  BY <1>1, NextInCleanup, CoveredBound DEF Types
<1>3. Now.op = "remove" /\ Now.name = batch[c].name
  BY <1>1, <1>2, CleanupCommands DEF OnlyDeclares
<1>4. /\ \/ \E n \in Names : Remove(n)
         \/ NoFault /\ registry[Now.name] = {}
      /\ phase' = "idle"
  <2>1. phase' = "idle" /\ ~Continue
    BY DEF Raise, Continue
  <2>2. ~StartBatch /\ ~EndBatch /\ ~StartCleanup /\ ~EndCleanup /\ ~Reset /\ ~ResetFails
    BY DEF StartBatch, EndBatch, StartCleanup, EndCleanup, Reset, ResetFails, Running
  <2>3. \A n \in Names : Now # [op |-> "create", name |-> n]
    BY <1>3
  <2>4. \A n \in Names : ~Orphaned(n)
    BY <2>3 DEF Orphaned, Creating
  <2>. QED BY <1>3, <2>1, <2>2, <2>3, <2>4, RunSteps
<1>5. \A n \in Names : Remove(n) => /\ n = batch[c].name
                                   /\ NoFault /\ ~Removable(n)
  BY <1>3, <1>4 DEF Remove, Continue, Fault
<1>6. calm
  BY <1>4, <1>5 DEF NoFault
<1>7. /\ \A i \in 1..c : Stands(i)
      /\ \A o \in device : o.id < since + c
  BY <1>1, <1>6 DEF Standing, Good
<1>8. Stands(c)
  BY <1>2, <1>7
<1>9. PICK n \in Names : Remove(n) /\ n = batch[c].name /\ ~Removable(n)
  BY <1>3, <1>4, <1>5, <1>8 DEF Stands
<1>10. Addressed(n) = {Declared(c)}
  BY <1>2, <1>8, <1>9, DeclaredAddressed
<1>11. ASSUME NEW p \in device, Declared(c).id \in p.refs
       PROVE  FALSE
  <2>1. Declared(c).id = since + c - 1
    BY DEF Declared
  <2>2. since + c - 1 < p.id /\ p.id < since + c /\ p.id \in Nat
    BY <1>7, <1>11, <2>1 DEF Identity, Types, Objects
  <2>. QED BY <1>2, <2>2
<1>. QED BY <1>9, <1>10, <1>11 DEF Removable

-----------------------------------------------------------------------------
(* The invariant.                                                          *)

LEMMA InvInit == Init => IInv
<1>. SUFFICES ASSUME Init
              PROVE  IInv
  OBVIOUS
<1>0. IsFiniteSet({}) /\ <<>> \in Seq(Commands)
      /\ <<>> \in Seq([op : Ops \cup {"none"}, name : Names]) /\ MaxFaults \in Nat
  BY FS_EmptySet, CommandsAssumption
<1>1. Types
  BY <1>0 DEF Init, Types, Status
<1>2. Identity /\ Registered /\ RegistryLive
  BY DEF Init, Identity, Registered, RegistryLive
<1>3. TodoIs /\ Counted /\ FoundByOid /\ FoundByKey /\ Standing
  BY DEF Init, TodoIs, Counted, FoundByOid, FoundByKey, Standing
<1>. QED BY <1>1, <1>2, <1>3 DEF IInv

LEMMA InvStep == IInv /\ [Next]_vars => IInv'
<1>. SUFFICES ASSUME IInv, [Next]_vars
              PROVE  IInv'
  OBVIOUS
<1>1. CASE Next
  BY <1>1, TypesStep, IdentityStep, RegisteredStep, RegistryLiveStep, TodoIsStep,
     CountedStep, FoundByOidStep, FoundByKeyStep, StandingStep
  DEF IInv
<1>2. CASE UNCHANGED vars
  <2>1. UNCHANGED <<registry, device, phase, batch, todo, nextId, faults, setupOk, raised,
                    calm, since, resetFailed>>
    BY <1>2 DEF vars, batchVars
  <2>2. Types' /\ Identity' /\ Registered' /\ RegistryLive'
    BY <2>1 DEF IInv, Types, Status, Identity, Registered, RegistryLive
  <2>3. TodoIs' /\ Counted'
    BY <2>1 DEF IInv, TodoIs, Removal, Counted, Fresh, Creations, Covered
  <2>4. FoundByOid' /\ FoundByKey'
    BY <2>1 DEF IInv, FoundByOid, FoundByKey, Fresh, KeyOf, Target
  <2>5. Standing'
    BY <2>1
    DEF IInv, Standing, Good, OnlyDeclares, Covered, Stands, Declared, Resolved, Target
  <2>. QED BY <2>2, <2>3, <2>4, <2>5 DEF IInv
<1>. QED BY <1>1, <1>2

(* The registry, the device and the list are well formed; a name is        *)
(* registered with one object, and ids are given out once.                 *)
THEOREM TypeCorrect == Spec => []TypeOK
<1>1. IInv => TypeOK
  <2>. SUFFICES ASSUME IInv
                PROVE  TypeOK
    OBVIOUS
  <2>1. Types /\ Identity /\ Registered
    BY DEF IInv
  <2>2. ASSUME NEW n \in Names
        PROVE  Cardinality(registry[n]) <= 1
    <3>1. CASE registry[n] = {}
      BY <3>1, FS_EmptySet
    <3>2. CASE registry[n] # {}
      <4>1. PICK o : registry[n] = {o}
        BY <2>1, <3>2 DEF Registered
      <4>2. Cardinality({o}) = 1
        BY FS_Singleton
      <4>. QED BY <4>1, <4>2
    <3>. QED BY <3>1, <3>2
  <2>3. nextId \in Nat /\ phase \in {"idle", "setup", "ready", "cleanup"}
    BY <2>1 DEF Types, Status
  <2>. QED BY <2>1, <2>2, <2>3 DEF TypeOK, Types, Identity
<1>. QED BY <1>1, InvInit, InvStep, PTL DEF Spec

(* A registered name stands for an object that exists, whatever lists,     *)
(* failures and cleanups have come before, until a reset fails half-way.   *)
THEOREM RegistryIsLive == Spec => []RegistryLive
<1>1. IInv => RegistryLive
  BY DEF IInv
<1>. QED BY <1>1, InvInit, InvStep, PTL DEF Spec

(* A cleanup that raises nothing has removed every object of its list, and *)
(* the cleanup of a complete list of declarations raises nothing but the   *)
(* device's faults.                                                        *)
THEOREM CleanupIsComplete == Spec => CleanupComplete
<1>. DEFINE Promise ==
       phase = "cleanup" /\ phase' = "idle" =>
         IF raised' THEN ~setupOk \/ ~calm' \/ ~OnlyDeclares(batch)
                    ELSE \A o \in device : o.id < since
<1>1. IInv /\ [Next]_vars => [Promise]_vars
  <2>. SUFFICES ASSUME IInv, Next, phase = "cleanup", phase' = "idle"
                PROVE  IF raised' THEN ~setupOk \/ ~calm' \/ ~OnlyDeclares(batch)
                                  ELSE \A o \in device : o.id < since
    OBVIOUS
  <2>0. Types /\ Identity /\ TodoIs /\ Counted /\ Standing
    BY DEF IInv
  <2>1. CASE EndCleanup
    <3>1. raised' = FALSE /\ todo = <<>>
      BY <2>0, <2>1 DEF EndCleanup, TodoIs
    <3>2. Covered = 0
      BY <3>1 DEF Covered
    <3>3. ASSUME NEW o \in device, ~(o.id < since)
          PROVE  FALSE
      <4>1. PICK n \in Names : n = o.name
        BY <2>0 DEF Types, Objects
      <4>2. o \in Fresh(n)
        BY <2>0, <3>3, <4>1 DEF Fresh, Types, Objects
      <4>3. Creations(batch, n, 0) = {}
        BY DEF Creations
      <4>4. Cardinality(Fresh(n)) <= Cardinality(Creations(batch, n, 0))
        BY <2>0, <3>2 DEF Counted
      <4>5. Cardinality(Fresh(n)) \in Nat /\ IsFiniteSet(Fresh(n))
        BY <2>0, FreshFinite
      <4>6. Cardinality(Fresh(n)) = 0
        BY <4>3, <4>4, <4>5, FS_EmptySet
      <4>. QED BY <4>2, <4>5, <4>6, FS_EmptySet
    <3>. QED BY <3>1, <3>3
  <2>2. CASE Running /\ (Continue \/ Raise)
    <3>1. Raise /\ raised' = TRUE
      BY <2>2 DEF Continue, Raise
    <3>. QED BY <2>0, <2>2, <3>1, CleanupRaises
  <2>3. ~StartBatch /\ ~EndBatch /\ ~StartCleanup /\ ~Reset /\ ~ResetFails
    BY DEF StartBatch, EndBatch, StartCleanup, Reset, ResetFails
  <2>. QED BY <2>1, <2>2, <2>3, ListSteps
<1>. QED BY <1>1, InvInit, InvStep, PTL DEF Spec, CleanupComplete
=============================================================================
