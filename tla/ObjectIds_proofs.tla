-------------------------- MODULE ObjectIds_proofs --------------------------
(***************************************************************************)
(* The two ways in which a client comes by object ids.  alloc_vid() takes  *)
(* them from a counter that it shares: they are unique, for every set of   *)
(* clients, until a race for the counter, and it takes another client to   *)
(* lose that race.  apply_rec() takes them from a recording and translates *)
(* them: the map that it keeps is right for every recording, as long as    *)
(* the devices do the same.                                                *)
(***************************************************************************)
EXTENDS VidAlloc, RecReplay, Integers, FiniteSetTheorems, FunctionTheorems, SequenceTheorems, TLAPS

-----------------------------------------------------------------------------
(* Allocation.                                                             *)

(* The counter is at least every number given since the flush, and grants  *)
(* are numbered below count.                                               *)
Ahead ==
  /\ ~raced => \A g \in given : counter # {} /\ g.n <= Value
  /\ \A g \in given : g.nth < count

(* Syncd works only after a client has been given an id, so that a counter *)
(* that appears between GET and SET is another client's.                   *)
OthersGave(c) == \E g \in given : g.to \in Clients \ {c}

Undisturbed ==
  /\ counter = {} => serving = {}
  /\ \A c \in Clients : pc[c] = "set" /\ counter # {} => OthersGave(c)

Alone == \A c, d \in Clients : c = d
NoRaceAlone == Alone => ~raced

(* A client that allocates has an id left to allocate.                     *)
LoopBound == \A c \in Clients : pc[c] \in {"get", "set", "incr"} => left[c] > 0

VidInv == VidTypeOK /\ LoopBound /\ Ahead /\ UniqueUnlessRaced /\ Undisturbed /\ NoRaceAlone

(* What the counter reads: a number, and the one number it holds.          *)
LEMMA ValueIsNat ==
  ASSUME VidTypeOK PROVE Value \in Nat /\ (counter # {} => counter = {Value})
<1>1. CASE counter = {}
  BY <1>1 DEF Value
<1>2. CASE counter # {}
  <2>1. PICK n \in counter : TRUE BY <1>2
  <2>2. counter = {n} BY <2>1 DEF VidTypeOK
  <2>3. Value = n BY <2>1, <2>2, <1>2 DEF Value
  <2> QED BY <2>2, <2>3 DEF VidTypeOK
<1> QED BY <1>1, <1>2

(* The same of the counter after an INCR or a SET.                         *)
LEMMA ValueAfter ==
  ASSUME NEW m \in Nat, counter' = {m}
  PROVE Value' = m /\ counter' # {}
<1>1. counter' # {} BY ONLY counter' = {m}
<1>2. Value' = CHOOSE n \in counter' : TRUE BY <1>1 DEF Value
<1> QED BY <1>1, <1>2

(* A grant above the counter keeps ids unique.                             *)
LEMMA GiveStep ==
  ASSUME VidTypeOK, Ahead, UniqueUnlessRaced,
         NEW a \in Allocators, NEW t \in Types \cup {Switch}, NEW m \in Nat,
         Give(a, t, m), counter' = {m}, raced' \in BOOLEAN,
         ~raced' => ~raced /\ (\A g \in given : g.n < m)
  PROVE /\ given' \subseteq Grants /\ count' \in Nat
        /\ counter' \subseteq Nat /\ \A i, j \in counter' : i = j
        /\ Ahead' /\ UniqueUnlessRaced'
<1> DEFINE new == [to |-> a, type |-> t, n |-> m, nth |-> count]
<1>1. given' = given \cup {new} /\ count' = count + 1 BY DEF Give
<1>2. new \in Grants /\ given \subseteq Grants /\ count \in Nat BY DEF Grants, VidTypeOK
<1>3. Value' = m /\ counter' # {} BY ValueAfter
<1>4. given' \subseteq Grants /\ count' \in Nat BY <1>1, <1>2
<1>5. Ahead'
  <2>1. ASSUME NEW g \in given', ~raced' PROVE g.n <= Value'
    <3>1. CASE g = new BY <3>1, <1>3
    <3>2. CASE g \in given
      <4>1. g.n < m /\ g.n \in Nat BY <2>1, <3>2, <1>2 DEF Grants
      <4> QED BY <4>1, <1>3
    <3> QED BY <1>1, <3>1, <3>2
  <2>2. ASSUME NEW g \in given' PROVE g.nth < count'
    <3>1. CASE g = new BY <3>1, <1>1, <1>2
    <3>2. CASE g \in given
      <4>1. g.nth < count /\ g.nth \in Nat BY <3>2, <1>2 DEF Ahead, Grants
      <4> QED BY <4>1, <1>1, <1>2
    <3> QED BY <1>1, <3>1, <3>2
  <2> QED BY <2>1, <2>2, <1>3 DEF Ahead
<1>6. UniqueUnlessRaced'
  <2>1. SUFFICES ASSUME ~raced', NEW g \in given', NEW h \in given', g.n = h.n, g.type = h.type
                 PROVE g = h
    BY DEF UniqueUnlessRaced, Unique
  <2>2. CASE g \in given /\ h \in given
    BY <2>1, <2>2 DEF UniqueUnlessRaced, Unique
  <2>3. \A k \in given : k.n # new.n
    <3>1. ASSUME NEW k \in given PROVE k.n # new.n
      <4>1. k.n < m /\ k.n \in Nat BY <2>1, <3>1, <1>2 DEF Grants
      <4> QED BY <4>1
    <3> QED BY <3>1
  <2> QED BY <1>1, <2>1, <2>2, <2>3
<1> QED BY <1>4, <1>5, <1>6

(* The invariant holds at the start.                                       *)
LEMMA VidInvInit == VidInit => VidInv
<1> SUFFICES ASSUME VidInit PROVE VidInv
  OBVIOUS
<1>1. VidTypeOK BY DEF VidInit, VidTypeOK
<1>2. LoopBound BY DEF VidInit, LoopBound
<1>3. Ahead /\ UniqueUnlessRaced BY DEF VidInit, Ahead, UniqueUnlessRaced, Unique
<1>4. Undisturbed /\ NoRaceAlone BY DEF VidInit, Undisturbed, NoRaceAlone
<1> QED BY <1>1, <1>2, <1>3, <1>4 DEF VidInv

(* A step that neither allocates nor flushes.                              *)
LEMMA NoGrant ==
  ASSUME Ahead, UniqueUnlessRaced, UNCHANGED <<counter, given, count, raced>>
  PROVE Ahead' /\ UniqueUnlessRaced'
  BY DEF Ahead, UniqueUnlessRaced, Unique, Value

(* One INCR: the counter moves past everything given.                      *)
LEMMA IncrStep ==
  ASSUME VidTypeOK, Ahead, UniqueUnlessRaced,
         NEW a \in Allocators, NEW t \in Types \cup {Switch},
         Give(a, t, Value + 1), counter' = {Value + 1}, raced' = raced
  PROVE /\ given' \subseteq Grants /\ count' \in Nat
        /\ counter' \subseteq Nat /\ \A i, j \in counter' : i = j
        /\ counter' # {}
        /\ Ahead' /\ UniqueUnlessRaced'
<1>1. Value \in Nat BY ValueIsNat
<1>2. ~raced => \A g \in given : g.n < Value + 1
  <2>1. ASSUME ~raced, NEW g \in given PROVE g.n < Value + 1
    <3>1. g.n <= Value /\ g.n \in Nat BY <2>1 DEF Ahead, VidTypeOK, Grants
    <3> QED BY <3>1, <1>1
  <2> QED BY <2>1
<1>3. raced' \in BOOLEAN BY DEF VidTypeOK
<1>4. counter' # {} BY ONLY counter' = {Value + 1}
<1> QED BY <1>1, <1>2, <1>3, <1>4, GiveStep

(* What a client is given, every other client sees among the given.        *)
LEMMA GrantTo ==
  ASSUME NEW c \in Clients, NEW d \in Clients, d # c, NEW t, NEW n, Give(c, t, n)
  PROVE  \E g \in given' : g.to \in Clients \ {d}
<1> DEFINE new == [to |-> c, type |-> t, n |-> n, nth |-> count]
<1>1. new \in given' BY DEF Give
<1>2. new.to \in Clients \ {d} OBVIOUS
<1> QED BY <1>1, <1>2

(* Every step of a client, of syncd, and every stutter keeps the invariant. *)
LEMMA VidInvStep == VidInv /\ [VidNext]_vidVars => VidInv'
<1> SUFFICES ASSUME VidInv, [VidNext]_vidVars PROVE VidInv'
  OBVIOUS
<1> USE DEF VidInv
<1>begin. ASSUME NEW c \in Clients, Begin(c) PROVE VidInv'
  <2>1. Ahead' /\ UniqueUnlessRaced' BY <1>begin, NoGrant DEF Begin
  <2>2. left' \in [Clients -> Nat] /\ type' \in [Clients -> Types \cup {Switch}]
    BY <1>begin, VidAssumption DEF Begin, VidTypeOK
  <2>3. VidTypeOK' BY <1>begin, <2>2 DEF Begin, Goto, VidTypeOK
  <2>4. Undisturbed' /\ NoRaceAlone'
    BY <1>begin DEF Begin, Goto, VidTypeOK, Undisturbed, OthersGave, Alone, NoRaceAlone
  <2>5. LoopBound' BY <1>begin, VidAssumption DEF Begin, Goto, VidTypeOK, LoopBound
  <2> QED BY <2>1, <2>3, <2>4, <2>5
<1>get. ASSUME NEW c \in Clients, GetCounter(c) PROVE VidInv'
  <2>1. Ahead' /\ UniqueUnlessRaced' BY <1>get, NoGrant DEF GetCounter
  <2>2. VidTypeOK' BY <1>get DEF GetCounter, Goto, VidTypeOK
  <2>3. Undisturbed' /\ NoRaceAlone'
    BY <1>get DEF GetCounter, Goto, VidTypeOK, Undisturbed, OthersGave, Alone, NoRaceAlone
  <2>4. LoopBound' BY <1>get DEF GetCounter, Goto, VidTypeOK, LoopBound
  <2> QED BY <2>1, <2>2, <2>3, <2>4
<1>set. ASSUME NEW c \in Clients, SetZero(c) PROVE VidInv'
  <2>1. raced' \in BOOLEAN BY <1>set DEF SetZero, VidTypeOK
  <2>2. ~raced' => ~raced /\ (\A g \in given : g.n < 0)
    BY <1>set DEF SetZero, Ahead
  <2>3. c \in Allocators BY DEF Allocators
  <2>4. /\ given' \subseteq Grants /\ count' \in Nat
        /\ counter' \subseteq Nat /\ \A i, j \in counter' : i = j
        /\ Ahead' /\ UniqueUnlessRaced'
    BY <1>set, <2>1, <2>2, <2>3, GiveStep DEF SetZero
  <2>5. VidTypeOK' BY <1>set, <2>1, <2>4 DEF SetZero, Goto, VidTypeOK
  <2>6. Undisturbed' /\ NoRaceAlone'
    <3>1. counter' # {} BY <1>set DEF SetZero
    <3>2. ASSUME NEW d \in Clients, pc'[d] = "set" PROVE OthersGave(d)'
      <4>1. d # c BY <1>set, <3>2 DEF SetZero, Goto, VidTypeOK
      <4> QED BY <4>1, GrantTo, <1>set DEF SetZero, OthersGave
    <3>3. ASSUME Alone PROVE ~raced'
      <4>1. counter = {} BY <1>set, <3>3 DEF SetZero, Undisturbed, OthersGave, Alone
      <4> QED BY <1>set, <3>3, <4>1 DEF SetZero, NoRaceAlone
    <3> QED BY <3>1, <3>2, <3>3 DEF Undisturbed, NoRaceAlone, Alone
  <2>7. LoopBound' BY <1>set DEF SetZero, Goto, VidTypeOK, LoopBound
  <2> QED BY <2>4, <2>5, <2>6, <2>7
<1>incr. ASSUME NEW c \in Clients, Incr(c) PROVE VidInv'
  <2>1. c \in Allocators /\ type[c] \in Types \cup {Switch} BY DEF Allocators, VidTypeOK
  <2>2. /\ given' \subseteq Grants /\ count' \in Nat
        /\ counter' \subseteq Nat /\ \A i, j \in counter' : i = j
        /\ counter' # {}
        /\ Ahead' /\ UniqueUnlessRaced'
    BY <1>incr, <2>1, IncrStep DEF Incr
  <2>3. left' \in [Clients -> Nat] BY <1>incr DEF Incr, VidTypeOK, LoopBound
  <2>4. VidTypeOK'
    <3>1. CASE left[c] = 1 BY <1>incr, <2>2, <2>3, <3>1 DEF Incr, Goto, VidTypeOK
    <3>2. CASE left[c] # 1 BY <1>incr, <2>2, <2>3, <3>2 DEF Incr, VidTypeOK
    <3> QED BY <3>1, <3>2
  <2>5. Undisturbed' /\ NoRaceAlone'
    <3>1. raced' = raced BY <1>incr DEF Incr
    <3>2. ASSUME NEW d \in Clients, pc'[d] = "set" PROVE OthersGave(d)'
      <4>1. d # c BY <1>incr, <3>2 DEF Incr, Goto, VidTypeOK
      <4> QED BY <4>1, GrantTo, <1>incr DEF Incr, OthersGave
    <3> QED BY <2>2, <3>1, <3>2 DEF Undisturbed, NoRaceAlone, Alone
  <2>6. LoopBound' BY <1>incr DEF Incr, Goto, VidTypeOK, LoopBound
  <2> QED BY <2>2, <2>4, <2>5, <2>6
<1>return. ASSUME NEW c \in Clients, Return(c) PROVE VidInv'
  <2>1. Ahead' /\ UniqueUnlessRaced' BY <1>return, NoGrant DEF Return
  <2>2. VidTypeOK' BY <1>return DEF Return, Goto, VidTypeOK
  <2>3. Undisturbed' /\ NoRaceAlone'
    BY <1>return DEF Return, Goto, VidTypeOK, Undisturbed, OthersGave, Alone, NoRaceAlone
  <2>4. LoopBound' BY <1>return DEF Return, Goto, VidTypeOK, LoopBound
  <2> QED BY <2>1, <2>2, <2>3, <2>4
<1>cleanup. ASSUME NEW c \in Clients, Cleanup(c) PROVE VidInv'
  <2>1. VidTypeOK' BY <1>cleanup DEF Cleanup, VidTypeOK
  <2>2. Ahead' /\ UniqueUnlessRaced'
    BY <1>cleanup DEF Cleanup, Ahead, UniqueUnlessRaced, Unique
  <2>3. Undisturbed' /\ NoRaceAlone' /\ LoopBound'
    BY <1>cleanup DEF Cleanup, Undisturbed, NoRaceAlone, Alone, LoopBound
  <2> QED BY <2>1, <2>2, <2>3
<1>done. ASSUME NEW c \in Clients, SyncdDone(c) PROVE VidInv'
  <2>1. Ahead' /\ UniqueUnlessRaced' BY <1>done, NoGrant DEF SyncdDone
  <2>2. VidTypeOK' BY <1>done DEF SyncdDone, VidTypeOK
  <2>3. Undisturbed' /\ NoRaceAlone' /\ LoopBound'
    BY <1>done DEF SyncdDone, Undisturbed, OthersGave, NoRaceAlone, Alone, LoopBound
  <2> QED BY <2>1, <2>2, <2>3
<1>syncd. ASSUME SyncdAlloc PROVE VidInv'
  <2>1. PICK t \in Types : Give(Syncd, t, Value + 1) BY <1>syncd DEF SyncdAlloc
  <2>2. Syncd \in Allocators BY DEF Allocators
  <2>3. /\ given' \subseteq Grants /\ count' \in Nat
        /\ counter' \subseteq Nat /\ \A i, j \in counter' : i = j
        /\ counter' # {}
        /\ Ahead' /\ UniqueUnlessRaced'
    BY <1>syncd, <2>1, <2>2, IncrStep DEF SyncdAlloc
  <2>4. VidTypeOK' BY <1>syncd, <2>3 DEF SyncdAlloc, VidTypeOK
  <2>5. Undisturbed'
    <3>1. counter # {} BY <1>syncd DEF SyncdAlloc, Undisturbed
    <3>2. given \subseteq given' BY <2>1 DEF Give
    <3> QED BY <1>syncd, <2>3, <3>1, <3>2 DEF SyncdAlloc, Undisturbed, OthersGave
  <2>6. NoRaceAlone' /\ LoopBound' BY <1>syncd DEF SyncdAlloc, NoRaceAlone, Alone, LoopBound
  <2> QED BY <2>3, <2>4, <2>5, <2>6
<1>idle. CASE UNCHANGED vidVars
  <2>1. Ahead' /\ UniqueUnlessRaced' BY <1>idle, NoGrant DEF vidVars
  <2>2. VidTypeOK' /\ Undisturbed' /\ NoRaceAlone' /\ LoopBound'
    BY <1>idle DEF vidVars, VidTypeOK, Undisturbed, OthersGave, NoRaceAlone, Alone, LoopBound
  <2> QED BY <2>1, <2>2
<1> QED
  BY <1>begin, <1>get, <1>set, <1>incr, <1>return, <1>cleanup, <1>done, <1>syncd, <1>idle
  DEF VidNext, Client

(* The inductive invariant holds throughout.                               *)
LEMMA VidInvariance == VidSpec => []VidInv
<1> QED BY VidInvInit, VidInvStep, PTL DEF VidSpec

(* Each variable keeps its type, for every number of clients and types: in *)
(* particular the counter is absent or one number.                         *)
THEOREM VidTypeCorrect == VidSpec => []VidTypeOK
<1>1. VidInv => VidTypeOK BY DEF VidInv
<1> QED BY <1>1, VidInvariance, PTL

(* Two objects share an id only after a SET 0 has overwritten a counter    *)
(* that appeared since the GET of alloc_vid().                             *)
THEOREM IdsAreUnique == VidSpec => []UniqueUnlessRaced
<1>1. VidInv => UniqueUnlessRaced BY DEF VidInv
<1> QED BY <1>1, VidInvariance, PTL

(* A SET 0 overwrites only a counter that another client has caused, never *)
(* one that syncd created on its own.                                      *)
THEOREM RacesNeedTwo == VidSpec => RacedByAnother
<1> DEFINE Cause(c) == ~raced /\ raced' /\ pc[c] = "set" /\ pc'[c] # "set"
<1>1. ASSUME VidInv, VidNext, NEW c \in Clients, Cause(c) PROVE OthersGave(c)
  <2>1. PICK d \in Clients : SetZero(d) \/ Cleanup(d)
    BY <1>1 DEF VidNext, Client, Begin, GetCounter, Incr, Return, SyncdDone, SyncdAlloc
  <2>2. counter # {} /\ pc[c] = "set" BY <1>1, <2>1 DEF SetZero, Cleanup
  <2> QED BY <1>1, <2>2 DEF VidInv, Undisturbed
<1>2. VidInv /\ [VidNext]_vidVars => [\A c \in Clients : Cause(c) => \E g \in given : g.to \in Clients \ {c}]_vidVars
  BY <1>1 DEF OthersGave
<1> QED BY <1>2, VidInvariance, PTL DEF VidSpec, RacedByAnother

(* With a single client the GET and the SET of alloc_vid() act as one.     *)
THEOREM AloneIsSafe == VidSpec => []NoRaceAlone
<1>1. VidInv => NoRaceAlone BY DEF VidInv
<1> QED BY <1>1, VidInvariance, PTL

-----------------------------------------------------------------------------
(* Replay: what the operators of RecReplay compute.                        *)

(* An update of a table.                                                   *)
LEMMA Updated ==
  ASSUME NEW old, NEW new
  PROVE  /\ DOMAIN (old ++ new) = DOMAIN old \cup DOMAIN new
         /\ \A k \in DOMAIN new : (old ++ new)[k] = new[k]
         /\ \A k \in DOMAIN old \ DOMAIN new : (old ++ new)[k] = old[k]
<1> QED BY DEF ++

(* A table with a single entry.                                            *)
LEMMA EntryIs ==
  ASSUME NEW k, NEW v
  PROVE  DOMAIN Entry(k, v) = {k} /\ Entry(k, v)[k] = v
<1> QED BY DEF Entry

(* The ids of the objects of a type.                                       *)
LEMMA IdsAre == \A t, d, n : n \in IdsOf(t, d) <=> \E o \in d : o.type = t /\ o.id = n
<1> QED BY DEF IdsOf

(* What is referred to: by a reference, or by the key of a route.          *)
LEMMA ReferredAre ==
  \A d, n : n \in Referred(d) <=> \E o \in d : o.ref = n \/ (o.type = "ROUTE" /\ o.id = n)
<1> QED BY IdsAre DEF Referred

(* A list in ascending order has each number once: of none, one or two     *)
(* numbers it is what it looks like.                                       *)
LEMMA InOrderNone == InOrder({}) = <<>>
<1>1. Cardinality({}) = 0 BY FS_EmptySet
<1>2. 1..0 = {} OBVIOUS
<1>3. <<>> \in [1..0 -> {}] /\ \A f \in [1..0 -> {}] : f = <<>>
  BY <1>2
<1> QED BY <1>1, <1>3 DEF InOrder

LEMMA InOrderOne == ASSUME NEW a \in Nat PROVE InOrder({a}) = <<a>>
<1>1. Cardinality({a}) = 1 BY FS_Singleton
<1>2. <<a>> \in [1..1 -> {a}] /\ \A i, j \in DOMAIN <<a>> : i < j => FALSE OBVIOUS
<1>3. ASSUME NEW f \in [1..1 -> {a}] PROVE f = <<a>>
  OBVIOUS
<1> QED BY <1>1, <1>2, <1>3 DEF InOrder

LEMMA InOrderTwo == ASSUME NEW a \in Nat, NEW b \in Nat, a < b PROVE InOrder({a, b}) = <<a, b>>
<1>1. Cardinality({a, b}) = 2
  <2>1. IsFiniteSet({a}) /\ Cardinality({a}) = 1 BY FS_Singleton
  <2>2. Cardinality({a} \cup {b}) = 2 BY <2>1, FS_AddElement
  <2>3. {a} \cup {b} = {a, b} OBVIOUS
  <2> QED BY <2>2, <2>3
<1> DEFINE Sorted(s) == \A i, j \in DOMAIN s : i < j => s[i] < s[j]
<1>2. <<a, b>> \in [1..2 -> {a, b}] /\ Sorted(<<a, b>>)
  <2>1. <<a, b>> \in [1..2 -> {a, b}] OBVIOUS
  <2>2. \A i, j \in 1..2 : i < j => i = 1 /\ j = 2 OBVIOUS
  <2> QED BY <2>1, <2>2
<1>3. ASSUME NEW f \in [1..2 -> {a, b}], Sorted(f) PROVE f = <<a, b>>
  <2>1. f[1] < f[2] /\ f[1] \in {a, b} /\ f[2] \in {a, b} BY <1>3
  <2>2. f[1] = a /\ f[2] = b BY <2>1
  <2>3. f = [i \in 1..2 |-> f[i]] BY <1>3
  <2>4. \A i \in 1..2 : f[i] = <<a, b>>[i] BY <2>2
  <2> QED BY <2>4, <1>2
<1>4. InOrder({a, b}) = CHOOSE s \in [1..2 -> {a, b}] : Sorted(s) BY <1>1 DEF InOrder
<1> HIDE DEF Sorted
<1> QED BY <1>2, <1>3, <1>4

-----------------------------------------------------------------------------
(* The inductive invariant of a replay.                                    *)

OwnTypes == {"RIF", "MEMBER", "ROUTE"}
Objects == [type : OwnTypes \cup {"SWITCH", "VR", "PORT"}, id : Nat \ {Null}, ref : Nat]

(* Of the objects with an OID, and of the routes, none has the id of       *)
(* another.                                                                *)
Distinct(d) == \A o, p \in d : o.id = p.id /\ (HasOid(o) <=> HasOid(p)) => o = p

Bears(n) == \E o \in recDev : HasOid(o) /\ o.id = n

(* The recorded device: objects refer to objects that a record has named,  *)
(* and so do answers.                                                      *)
RecShape ==
  /\ recDev \subseteq Objects /\ IsFiniteSet(recDev) /\ Distinct(recDev)
  /\ \A o \in recDev : o.type \in OwnTypes \/ o \in Implicit(RecBase)
  /\ \A o \in recDev : o.type \in {"RIF", "MEMBER"} => RecBase + 5 <= o.id /\ o.id < recNext
  /\ \A o \in recDev : o.type = "ROUTE" => o.id = RecBase + 2
  /\ \A o \in recDev : o.type \in OwnTypes => o.id \in learned /\ o.ref \in Targets(o.type)
  /\ \A n \in learned : n \in Nat /\ Null < n /\ n < recNext
  /\ recNext \in Nat /\ RecBase + 5 <= recNext
  /\ expect = "G" => \A i \in 1..Len(answer) : answer[i] = Null \/ Bears(answer[i])
  /\ phase = "run" => /\ Object("SWITCH", RecBase + 1, Null) \in recDev
                      /\ Object("VR", RecBase + 2, Null) \in recDev

(* The device of the replay gives out each OID once.                       *)
DevShape ==
  /\ dev \subseteq Objects /\ Distinct(dev)
  /\ \A d \in dev : d.type \in OwnTypes \/ d \in Implicit(VidBase)
  /\ \A d \in dev : d.type \in {"RIF", "MEMBER"} => VidBase + 5 <= d.id /\ d.id < vidNext
  /\ vidNext \in Nat /\ VidBase + 5 <= vidNext

(* The tables of the replay.                                               *)
Words == {"switch", "DEFAULT_VIRTUAL_ROUTER_ID", "PORT_0", "port0", "PORT_1", "port1", "rif", "route"}
TableTypes ==
  /\ rec2vid \in [DOMAIN rec2vid -> Nat]
  /\ \A a \in DOMAIN registry : a \in Seq(Words) /\ a # <<>> /\ Len(registry[a]) = 2
  /\ oids \in Seq(Nat) /\ (oids # <<>> => expect = "G" \/ phase = "idle")
  /\ answer \in Seq(Nat)

Flags ==
  /\ expect \in {"any", "G", "E"}
  /\ status \in {"none", "ok", "refused", "other"} /\ phase \in {"idle", "start", "run"}
  /\ faults \in 0..MaxFaults /\ replays \in 0..MaxReplays
  /\ why \in {"none", "null", "unknown", "request", "recorded", "answer", "status", "fault"}
  /\ refused \in BOOLEAN /\ differs \in BOOLEAN

Starting ==
  phase = "start" =>
    /\ recDev = {} /\ learned = {} /\ expect = "any"
    /\ dev = {} /\ rec2vid = <<>>

(* o is there on the device of the replay, with its reference.             *)
Copied(o) ==
  o.id \in DOMAIN rec2vid /\ o.ref \in DOMAIN rec2vid \cup {Null} /\ Image(o) \in dev

(* The map has living objects only, no two of them mapped to the same one, *)
(* and what it has is on the device.                                       *)
Living ==
  /\ Null \in DOMAIN rec2vid => rec2vid[Null] = Null
  /\ \A n \in DOMAIN rec2vid \ {Null} : n \in learned /\ Bears(n)
  /\ \A o \in recDev : HasOid(o) /\ o.id \in DOMAIN rec2vid => Copied(o)
  /\ \A m, n \in DOMAIN rec2vid : rec2vid[m] = rec2vid[n] => m = n

(* The objects that came with the switch are at the same places.           *)
Twin(o) == Object(o.type, o.id + VidBase, o.ref)
InPlace ==
  /\ \A n \in DOMAIN rec2vid \cap (1..4) : rec2vid[n] = n + VidBase /\ 1 \in DOMAIN rec2vid
  /\ 1 \in DOMAIN rec2vid => \A o \in Implicit(RecBase) : o \in recDev <=> Twin(o) \in dev

(* The devices have the same objects.                                      *)
Mirrored ==
  /\ 1 \in DOMAIN rec2vid
  /\ \A o \in recDev : o.id \in learned => Copied(o)
  /\ \A d \in dev : d \in Implicit(VidBase) \/ \E o \in recDev : o.id \in learned /\ Image(o) = d

(* What a get has returned is what the recorded OIDs are, or will be,      *)
(* mapped to.                                                              *)
Matches(n, v) ==
  \/ n = Null /\ v = Null
  \/ n \in 2..4 /\ v = n + VidBase /\ 1 \in DOMAIN rec2vid
  \/ n \in DOMAIN rec2vid /\ rec2vid[n] = v
Answered == Len(oids) = Len(answer) /\ \A i \in 1..Len(answer) : Matches(answer[i], oids[i])

(* The status that an E looks at is that of the create before it.          *)
Sound ==
  /\ Living /\ InPlace
  /\ ~refused => Mirrored
  /\ expect = "G" => Answered
  /\ expect = "E" => status = "refused"

(* As long as the replies of the device have been those of the recording.  *)
Faithful == phase = "run" /\ ~differs

Shapes == RecShape /\ DevShape /\ TableTypes /\ Flags /\ Starting
ReplayInv == Shapes /\ (Faithful => Sound) /\ RaisesExplained

-----------------------------------------------------------------------------
(* The recorded device.                                                    *)

(* A router interface refers to a port; a member or a route refers to an   *)
(* interface or to nothing. Only OIDs that a record has named are used.    *)
LEMMA TargetsAre ==
  \A t, n :
    /\ n \in Targets(t) <=>
         \/ t = "RIF" /\ n \in learned /\ \E o \in recDev : o.type = "PORT" /\ o.id = n
         \/ t # "RIF" /\ (n = Null \/ (n \in learned /\ \E o \in recDev : o.type = "RIF" /\ o.id = n))
    /\ n \in Targets(t)' <=>
         \/ t = "RIF" /\ n \in learned' /\ \E o \in recDev' : o.type = "PORT" /\ o.id = n
         \/ t # "RIF" /\ (n = Null \/ (n \in learned' /\ \E o \in recDev' : o.type = "RIF" /\ o.id = n))
<1>1. ASSUME NEW n
      PROVE  /\ n \in Live("PORT") <=> n \in learned /\ \E o \in recDev : o.type = "PORT" /\ o.id = n
             /\ n \in Live("RIF") <=> n \in learned /\ \E o \in recDev : o.type = "RIF" /\ o.id = n
             /\ n \in Live("PORT")' <=> n \in learned' /\ \E o \in recDev' : o.type = "PORT" /\ o.id = n
             /\ n \in Live("RIF")' <=> n \in learned' /\ \E o \in recDev' : o.type = "RIF" /\ o.id = n
  BY IdsAre DEF Live
<1>2. ASSUME NEW t
      PROVE  /\ Targets(t) = IF t = "RIF" THEN Live("PORT") ELSE Live("RIF") \cup {Null}
             /\ Targets(t)' = IF t = "RIF" THEN Live("PORT")' ELSE Live("RIF")' \cup {Null}
  BY DEF Targets
<1> QED BY <1>1, <1>2

(* The objects that a switch comes with, on each of the two devices.       *)
LEMMA ImplicitAre ==
  /\ \A o : o \in Implicit(RecBase) <=>
       \/ o = Object("SWITCH", 1, Null) \/ o = Object("VR", 2, Null)
       \/ o = Object("PORT", 3, Null) \/ o = Object("PORT", 4, Null)
  /\ \A o : o \in Implicit(VidBase) <=>
       \/ o = Object("SWITCH", 11, Null) \/ o = Object("VR", 12, Null)
       \/ o = Object("PORT", 13, Null) \/ o = Object("PORT", 14, Null)
<1> QED BY DEF Implicit, RecBase, VidBase

(* They are well formed, and no two of them have the same OID.             *)
LEMMA ImplicitShape ==
  /\ Implicit(RecBase) \subseteq Objects /\ IsFiniteSet(Implicit(RecBase))
  /\ Distinct(Implicit(RecBase))
  /\ Implicit(VidBase) \subseteq Objects /\ Distinct(Implicit(VidBase))
<1>1. Implicit(RecBase) \subseteq Objects /\ Implicit(VidBase) \subseteq Objects
  BY ImplicitAre DEF Objects, Object, Null
<1>2. Distinct(Implicit(RecBase)) /\ Distinct(Implicit(VidBase))
  BY ImplicitAre DEF Distinct, Object
<1>3. IsFiniteSet(Implicit(RecBase))
  <2> DEFINE a == Object("SWITCH", 1, Null)
             b == Object("VR", 2, Null)
             c == Object("PORT", 3, Null)
             d == Object("PORT", 4, Null)
  <2>1. Implicit(RecBase) = (({a} \cup {b}) \cup {c}) \cup {d} BY DEF Implicit, RecBase
  <2> HIDE DEF a, b, c, d
  <2>2. IsFiniteSet({a}) BY FS_Singleton
  <2>3. IsFiniteSet({a} \cup {b}) BY <2>2, FS_AddElement
  <2>4. IsFiniteSet(({a} \cup {b}) \cup {c}) BY <2>3, FS_AddElement
  <2>5. IsFiniteSet((({a} \cup {b}) \cup {c}) \cup {d}) BY <2>4, FS_AddElement
  <2> QED BY <2>1, <2>5
<1> QED BY <1>1, <1>2, <1>3

(* New objects, under new OIDs, or a route where there was none.           *)
LEMMA RecAdd ==
  ASSUME RecShape, NEW S, NEW n \in Nat, NEW ok \in BOOLEAN, Recorded(recDev \cup S, n, ok),
         S \subseteq Objects, IsFiniteSet(S), Distinct(S), recNext <= n,
         \A o \in S : \/ o.type \in {"RIF", "MEMBER"} /\ recNext <= o.id /\ o.id < n
                      \/ /\ o.type = "ROUTE" /\ o.id = RecBase + 2 /\ o.id \in learned
                         /\ \A p \in recDev : p.type # "ROUTE",
         \A o \in S : o.ref \in Targets(o.type), phase' = "run" => phase = "run"
  PROVE  RecShape'
<1>1. /\ recDev' = IF ok THEN recDev \cup S ELSE recDev
      /\ recNext' = n /\ expect' \in {"any", "E"}
      /\ learned' = IF ok THEN learned \cup {o.id : o \in (recDev \cup S) \ recDev} ELSE learned
  BY DEF Recorded
<1>2. recDev \subseteq recDev' /\ recDev' \subseteq recDev \cup S /\ learned \subseteq learned'
  BY <1>1
<1>3. recDev \subseteq Objects /\ recNext \in Nat /\ 5 <= recNext BY DEF RecShape, RecBase
<1>4. IsFiniteSet(recDev')
  <2>1. IsFiniteSet(recDev \cup S) BY FS_Union DEF RecShape
  <2> QED BY <1>1, <2>1 DEF RecShape
<1>5. \A o \in recDev' : o \in S => o.id \in learned'
  <2>1. ASSUME NEW o \in S, o \in recDev' PROVE o.id \in learned'
    <3>1. CASE o \in recDev
      <4>1. o.type \in OwnTypes BY <2>1 DEF OwnTypes
      <4> QED BY <3>1, <4>1, <1>2 DEF RecShape
    <3>2. CASE o \notin recDev BY <1>1, <2>1, <3>2
    <3> QED BY <3>1, <3>2
  <2> QED BY <2>1
<1>6. \A o \in recDev : o.type # "ROUTE" => o.id \in Nat /\ o.id < recNext
  <2>1. ASSUME NEW o \in recDev, o.type # "ROUTE" PROVE o.id \in Nat /\ o.id < recNext
    <3>1. CASE o \in Implicit(RecBase)
      <4>1. o.id \in {1, 2, 3, 4} BY <3>1, ImplicitAre DEF Object
      <4> QED BY <1>3, <4>1
    <3>2. CASE o.type \in {"RIF", "MEMBER"} BY <1>3, <2>1, <3>2 DEF RecShape, Objects
    <3> QED BY <2>1, <3>1, <3>2 DEF RecShape, OwnTypes
  <2> QED BY <2>1
<1>7. Distinct(recDev')
  <2>1. SUFFICES ASSUME NEW o \in recDev \cup S, NEW p \in recDev \cup S, o.id = p.id,
                        HasOid(o) <=> HasOid(p)
                 PROVE  o = p
    BY <1>2 DEF Distinct
  <2>2. CASE o \in recDev /\ p \in recDev BY <2>1, <2>2 DEF RecShape, Distinct
  <2>3. CASE o \in S /\ p \in S BY <2>1, <2>3 DEF Distinct
  <2>4. ASSUME NEW x \in recDev, NEW y \in S, x.id = y.id, HasOid(x) <=> HasOid(y) PROVE FALSE
    <3>1. CASE y.type = "ROUTE" BY <2>4, <3>1 DEF HasOid
    <3>2. CASE y.type # "ROUTE"
      <4>1. recNext <= y.id /\ y.id \in Nat BY <3>2 DEF Objects
      <4>2. x.id < recNext BY <1>6, <2>4, <3>2 DEF HasOid
      <4> QED BY <1>3, <2>4, <4>1, <4>2
    <3> QED BY <3>1, <3>2
  <2> QED BY <2>1, <2>2, <2>3, <2>4
<1>8. \A o \in recDev' : o.type \in OwnTypes => o.id \in learned' /\ o.ref \in Targets(o.type)'
  <2>1. ASSUME NEW o \in recDev', o.type \in OwnTypes
        PROVE  o.id \in learned' /\ o.ref \in Targets(o.type)'
    <3>1. o.id \in learned' BY <1>2, <1>5, <2>1 DEF RecShape
    <3>2. o.ref \in Targets(o.type) BY <1>2, <2>1 DEF RecShape
    <3>3. o.ref \in Targets(o.type)' BY <1>2, <3>2, TargetsAre
    <3> QED BY <3>1, <3>3
  <2> QED BY <2>1
<1>9. \A m \in learned' : m \in Nat /\ Null < m /\ m < recNext'
  <2>1. ASSUME NEW m \in learned', m \notin learned PROVE m \in Nat /\ Null < m /\ m < recNext'
    <3>1. PICK o \in S : m = o.id BY <1>1, <2>1
    <3>2. o.type # "ROUTE" BY <2>1, <3>1
    <3> QED BY <1>1, <3>1, <3>2 DEF Objects, Null
  <2>2. ASSUME NEW m \in learned PROVE m \in Nat /\ Null < m /\ m < recNext'
    BY <1>1, <1>3, <2>2 DEF RecShape
  <2> QED BY <2>1, <2>2
<1>10. \A o \in recDev' : /\ o.type \in OwnTypes \/ o \in Implicit(RecBase)
                          /\ o.type \in {"RIF", "MEMBER"} => RecBase + 5 <= o.id /\ o.id < recNext'
                          /\ o.type = "ROUTE" => o.id = RecBase + 2
  <2>1. ASSUME NEW o \in S
        PROVE /\ o.type \in OwnTypes
              /\ o.type \in {"RIF", "MEMBER"} => RecBase + 5 <= o.id /\ o.id < recNext'
              /\ o.type = "ROUTE" => o.id = RecBase + 2
    BY <1>1, <1>3 DEF OwnTypes, Objects, RecBase
  <2>2. ASSUME NEW o \in recDev, o.type \in {"RIF", "MEMBER"}
        PROVE RecBase + 5 <= o.id /\ o.id < recNext'
    BY <1>1, <1>3, <2>2 DEF RecShape, Objects
  <2> QED BY <1>2, <2>1, <2>2 DEF RecShape
<1>11. /\ recDev' \subseteq Objects /\ recNext' \in Nat /\ RecBase + 5 <= recNext'
       /\ (expect' = "G" => \A i \in 1..Len(answer') : answer'[i] = Null \/ Bears(answer[i])')
  BY <1>1, <1>2, <1>3 DEF RecBase
<1>12. phase' = "run" => /\ Object("SWITCH", RecBase + 1, Null) \in recDev'
                         /\ Object("VR", RecBase + 2, Null) \in recDev'
  BY <1>2 DEF RecShape
<1> QED BY <1>4, <1>7, <1>8, <1>9, <1>10, <1>11, <1>12 DEF RecShape

(* OIDs of the recording are below the next one.                           *)
LEMMA OidsBelow ==
  ASSUME RecShape, NEW o \in recDev
  PROVE  /\ o.id \in Nat /\ 0 < o.id
         /\ o.id < recNext
         /\ o.ref \in Nat /\ o.ref < recNext
<1>1. recDev \subseteq Objects /\ recNext \in Nat /\ 5 <= recNext BY DEF RecShape, RecBase
<1>2. o.id \in Nat /\ 0 < o.id /\ o.ref \in Nat BY <1>1 DEF Objects, Null
<1>3. o.id < recNext
  <2>1. CASE o \in Implicit(RecBase)
    <3>1. o.id \in {1, 2, 3, 4} BY <2>1, ImplicitAre DEF Object
    <3> QED BY <1>1, <3>1
  <2>2. CASE o.type \in {"RIF", "MEMBER"} BY <1>1, <2>2 DEF RecShape, Objects
  <2>3. CASE o.type = "ROUTE"
    <3>1. o.id = 2 BY <2>3 DEF RecShape, RecBase
    <3> QED BY <1>1, <3>1
  <2> QED BY <2>1, <2>2, <2>3 DEF RecShape, OwnTypes
<1>4. o.ref < recNext
  <2>1. CASE o \in Implicit(RecBase)
    <3>1. o.ref = 0 BY <2>1, ImplicitAre DEF Object, Null
    <3> QED BY <1>1, <3>1
  <2>2. CASE o.type \in OwnTypes
    <3>1. o.ref \in Targets(o.type) BY <2>2 DEF RecShape
    <3>2. o.ref = 0 \/ o.ref \in learned BY <3>1, TargetsAre DEF Null
    <3> QED BY <1>1, <3>2 DEF RecShape
  <2> QED BY <2>1, <2>2 DEF RecShape
<1> QED BY <1>2, <1>3, <1>4

(* Of a removal, what is left refers to what is left.                      *)
LEMMA RecRemove ==
  ASSUME RecShape, NEW S \in SUBSET Removals, NEW ok \in BOOLEAN,
         ok => \A o \in S : Removable(o, recDev),
         Recorded(recDev \ S, recNext, ok), phase' = "run" => phase = "run"
  PROVE  RecShape' /\ learned' = learned
<1>1. /\ recDev' \subseteq recDev /\ recNext' = recNext /\ expect' \in {"any", "E"}
      /\ learned' = learned /\ (~ok => recDev' = recDev) /\ (ok => recDev' = recDev \ S)
  BY DEF Recorded
<1>2. IsFiniteSet(recDev') BY <1>1, FS_Subset DEF RecShape
<1>3. Distinct(recDev') BY <1>1 DEF RecShape, Distinct
<1>4. \A o \in recDev' : o.type \in OwnTypes => o.ref \in Targets(o.type)'
  <2>1. ASSUME NEW o \in recDev', o.type \in OwnTypes PROVE o.ref \in Targets(o.type)'
    <3>1. o.ref \in Targets(o.type) /\ o \in recDev BY <1>1, <2>1 DEF RecShape
    <3>2. ASSUME NEW w \in recDev, w.id = o.ref, w.type # "ROUTE" PROVE w \in recDev'
      <4>1. CASE ok /\ w \in S
        <5>1. Removable(w, recDev) BY <4>1
        <5>2. w.id \notin Referred(recDev) BY <3>2, <5>1 DEF Removable
        <5> QED BY <3>1, <3>2, <5>2, ReferredAre
      <4> QED BY <1>1, <3>2, <4>1
    <3> QED BY <1>1, <3>1, <3>2, TargetsAre
  <2> QED BY <2>1
<1>5. phase' = "run" => /\ Object("SWITCH", RecBase + 1, Null) \in recDev'
                        /\ Object("VR", RecBase + 2, Null) \in recDev'
  <2>1. \A o \in S : o.type # "SWITCH" /\ o.type # "VR" BY DEF Removals
  <2> QED BY <1>1, <2>1 DEF RecShape, Object
<1> QED BY <1>1, <1>2, <1>3, <1>4, <1>5 DEF RecShape

(* The reference of an object is set to another one.                       *)
LEMMA RecSet ==
  ASSUME RecShape, NEW o \in recDev, o.type \in {"MEMBER", "ROUTE"}, NEW r \in Targets(o.type),
         NEW ok \in BOOLEAN, o.id \in learned, phase' = "run" => phase = "run",
         Recorded((recDev \ {o}) \cup {Object(o.type, o.id, r)}, recNext, ok)
  PROVE  RecShape' /\ learned' = learned
<1> DEFINE new == Object(o.type, o.id, r)
<1>0. new.type = o.type /\ new.id = o.id /\ new.ref = r /\ new \in Objects
  <2>1. r \in Nat
    <3>1. r = Null \/ r \in learned BY TargetsAre
    <3> QED BY <3>1 DEF RecShape, Null
  <2>2. o.id \in Nat \ {Null} /\ o.type \in OwnTypes BY DEF RecShape, Objects, OwnTypes
  <2> QED BY <2>1, <2>2 DEF Object, Objects
<1> HIDE DEF new
<1>1. /\ recDev' = (IF ok THEN (recDev \ {o}) \cup {new} ELSE recDev)
      /\ recNext' = recNext /\ expect' \in {"any", "E"}
  BY DEF Recorded, new
<1>2. learned' = learned
  <2>1. ((recDev \ {o}) \cup {new}) \ recDev \subseteq {new} OBVIOUS
  <2>2. {p.id : p \in ((recDev \ {o}) \cup {new}) \ recDev} \subseteq {o.id} BY <1>0, <2>1
  <2>3. learned' = IF ok THEN learned \cup {p.id : p \in ((recDev \ {o}) \cup {new}) \ recDev}
                   ELSE learned
    BY DEF Recorded, new
  <2> QED BY <2>2, <2>3
<1>3. IsFiniteSet(recDev')
  <2>1. IsFiniteSet(recDev \ {o}) BY FS_RemoveElement DEF RecShape
  <2>2. IsFiniteSet((recDev \ {o}) \cup {new}) BY <2>1, FS_AddElement
  <2> QED BY <1>1, <2>2 DEF RecShape
<1>4. Distinct(recDev')
  <2>1. HasOid(new) <=> HasOid(o) BY <1>0 DEF HasOid
  <2>2. Distinct(recDev) BY DEF RecShape
  <2>3. \A p \in recDev \ {o} : ~(p.id = new.id /\ (HasOid(p) <=> HasOid(new)))
    BY <1>0, <2>1, <2>2 DEF Distinct
  <2> QED BY <1>1, <2>2, <2>3 DEF Distinct
<1>5. \A t : Targets(t) \subseteq Targets(t)'
  <2>1. o.type # "RIF" /\ o.type # "PORT" OBVIOUS
  <2>2. \A w \in recDev : w.type \in {"RIF", "PORT"} => w \in recDev' BY <1>1, <2>1
  <2> QED BY <1>2, <2>2, TargetsAre
<1>6. \A p \in recDev' : p.type \in OwnTypes => p.id \in learned' /\ p.ref \in Targets(p.type)'
  <2>1. ASSUME NEW p \in recDev', p.type \in OwnTypes
        PROVE  p.id \in learned' /\ p.ref \in Targets(p.type)'
    <3>1. CASE p = new BY <1>0, <1>2, <1>5, <3>1
    <3>2. CASE p \in recDev BY <1>2, <1>5, <2>1, <3>2 DEF RecShape
    <3> QED BY <1>1, <3>1, <3>2
  <2> QED BY <2>1
<1>7. \A p \in recDev' : /\ p.type \in OwnTypes \/ p \in Implicit(RecBase)
                         /\ p.type \in {"RIF", "MEMBER"} => RecBase + 5 <= p.id /\ p.id < recNext'
                         /\ p.type = "ROUTE" => p.id = RecBase + 2
  <2>1. new.type \in OwnTypes BY <1>0 DEF OwnTypes
  <2>2. new.type \in {"RIF", "MEMBER"} => RecBase + 5 <= new.id /\ new.id < recNext
    BY <1>0 DEF RecShape
  <2>3. new.type = "ROUTE" => new.id = RecBase + 2 BY <1>0 DEF RecShape
  <2> QED BY <1>1, <2>1, <2>2, <2>3 DEF RecShape
<1>8. phase' = "run" => /\ Object("SWITCH", RecBase + 1, Null) \in recDev'
                        /\ Object("VR", RecBase + 2, Null) \in recDev'
  BY <1>1 DEF RecShape, Object
<1>9. recDev' \subseteq Objects /\ expect' # "G" BY <1>0, <1>1 DEF RecShape
<1> QED BY <1>1, <1>2, <1>3, <1>4, <1>6, <1>7, <1>8, <1>9 DEF RecShape

(* The recorded device answers.                                            *)
LEMMA RecLearn ==
  ASSUME RecShape, TableTypes, expect = "G", expect' = "any", UNCHANGED <<recDev, recNext>>,
         learned' = learned \cup (Range(answer) \ {Null}), phase' = "run" => phase = "run"
  PROVE  RecShape'
<1>1. \A n \in Range(answer) \ {Null} : Bears(n)
  <2>1. DOMAIN answer = 1..Len(answer) BY DEF TableTypes
  <2> QED BY <2>1 DEF RecShape, Range
<1>2. \A n \in learned' : n \in Nat /\ Null < n /\ n < recNext
  <2>1. ASSUME NEW n, Bears(n) PROVE n \in Nat /\ 0 < n /\ n < recNext
    BY <2>1, OidsBelow DEF Bears
  <2> QED BY <1>1, <2>1 DEF RecShape, Null
<1>3. \A o \in recDev : o.type \in OwnTypes => o.id \in learned' /\ o.ref \in Targets(o.type)'
  <2>1. \A t : Targets(t) \subseteq Targets(t)' BY TargetsAre
  <2> QED BY <2>1 DEF RecShape
<1> QED BY <1>2, <1>3 DEF RecShape

(* A step that leaves the recorded device alone keeps its shape.           *)
LEMMA RecFrame ==
  ASSUME RecShape, UNCHANGED <<recDev, learned, recNext>>, phase' = "run" => phase = "run",
         expect' = "G" => \A i \in 1..Len(answer') : answer'[i] = Null \/ Bears(answer'[i])
  PROVE  RecShape'
<1>1. \A n : Bears(n)' <=> Bears(n) BY DEF Bears
<1>2. \A t : Targets(t)' = Targets(t) BY DEF Targets, Live
<1>3. expect' = "G" => \A i \in 1..Len(answer') : answer'[i] = Null \/ Bears(answer[i])'
  BY DEF Bears
<1> QED BY <1>2, <1>3 DEF RecShape

-----------------------------------------------------------------------------
(* The device of the replay.                                               *)

(* An OID on the device is one that was given out.                         *)
LEMMA VidsBelow ==
  ASSUME DevShape, NEW d \in dev, HasOid(d)
  PROVE  d.id \in Nat /\ 0 < d.id /\ d.id < vidNext
<1>1. dev \subseteq Objects /\ vidNext \in Nat /\ 15 <= vidNext BY DEF DevShape, VidBase
<1>2. d.id \in Nat /\ 0 < d.id BY <1>1 DEF Objects, Null
<1>3. CASE d \in Implicit(VidBase)
  <2>1. d.id \in {11, 12, 13, 14} BY <1>3, ImplicitAre DEF Object
  <2> QED BY <1>1, <2>1
<1>4. CASE d.type \in {"RIF", "MEMBER"} BY <1>1, <1>2, <1>4 DEF DevShape, Objects
<1> QED BY <1>2, <1>3, <1>4 DEF DevShape, OwnTypes, HasOid

(* New objects, under new OIDs, or a route where there was none.           *)
LEMMA DevAdd ==
  ASSUME DevShape, NEW S, dev' = dev \cup S, vidNext' \in Nat, vidNext <= vidNext',
         S \subseteq Objects, Distinct(S),
         \A o \in S : \/ o.type \in {"RIF", "MEMBER"} /\ vidNext <= o.id /\ o.id < vidNext'
                      \/ o.type = "ROUTE" /\ \A p \in dev : NameOf(p) # NameOf(o)
  PROVE  DevShape'
<1>1. dev \subseteq Objects /\ vidNext \in Nat /\ 15 <= vidNext BY DEF DevShape, VidBase
<1>2. Distinct(dev')
  <2>1. SUFFICES ASSUME NEW o \in dev \cup S, NEW p \in dev \cup S, o.id = p.id,
                        HasOid(o) <=> HasOid(p)
                 PROVE  o = p
    BY DEF Distinct
  <2>2. CASE o \in dev /\ p \in dev BY <2>1, <2>2 DEF DevShape, Distinct
  <2>3. CASE o \in S /\ p \in S BY <2>1, <2>3 DEF Distinct
  <2>4. ASSUME NEW x \in dev, NEW y \in S, x.id = y.id, HasOid(x) <=> HasOid(y) PROVE FALSE
    <3>1. CASE y.type = "ROUTE"
      <4>1. x.type = "ROUTE" BY <2>4, <3>1 DEF HasOid
      <4>2. NameOf(x) = NameOf(y) BY <2>4, <3>1, <4>1 DEF NameOf
      <4>3. NameOf(x) # NameOf(y) BY <3>1
      <4> QED BY <4>2, <4>3
    <3>2. CASE y.type # "ROUTE"
      <4>1. vidNext <= y.id BY <3>2
      <4>2. x.id \in Nat /\ x.id < vidNext BY VidsBelow, <2>4, <3>2 DEF HasOid
      <4> QED BY <1>1, <2>4, <4>1, <4>2
    <3> QED BY <3>1, <3>2
  <2> QED BY <2>1, <2>2, <2>3, <2>4
<1>3. \A d \in dev' : /\ d.type \in OwnTypes \/ d \in Implicit(VidBase)
                      /\ d.type \in {"RIF", "MEMBER"} => VidBase + 5 <= d.id /\ d.id < vidNext'
  <2>1. ASSUME NEW d \in S
        PROVE  /\ d.type \in OwnTypes
               /\ d.type \in {"RIF", "MEMBER"} => VidBase + 5 <= d.id /\ d.id < vidNext'
    BY <1>1 DEF OwnTypes, Objects, VidBase
  <2>2. ASSUME NEW d \in dev, d.type \in {"RIF", "MEMBER"}
        PROVE  VidBase + 5 <= d.id /\ d.id < vidNext'
    <3>1. VidBase + 5 <= d.id /\ d.id < vidNext /\ d.id \in Nat BY <2>2 DEF DevShape, Objects
    <3> QED BY <1>1, <3>1
  <2> QED BY <2>1, <2>2 DEF DevShape
<1>4. dev' \subseteq Objects /\ VidBase + 5 <= vidNext' BY <1>1 DEF VidBase
<1> QED BY <1>2, <1>3, <1>4 DEF DevShape

(* Taking objects away keeps the device well formed.                       *)
LEMMA DevRemove ==
  ASSUME DevShape, dev' \subseteq dev, vidNext' \in Nat, vidNext <= vidNext'
  PROVE  DevShape'
<1>1. dev \subseteq Objects /\ vidNext \in Nat /\ 15 <= vidNext BY DEF DevShape, VidBase
<1>2. Distinct(dev') BY DEF DevShape, Distinct
<1>3. ASSUME NEW d \in dev', d.type \in {"RIF", "MEMBER"}
      PROVE  VidBase + 5 <= d.id /\ d.id < vidNext'
  <2>1. VidBase + 5 <= d.id /\ d.id < vidNext /\ d.id \in Nat BY <1>3 DEF DevShape, Objects
  <2> QED BY <1>1, <2>1
<1>4. dev' \subseteq Objects /\ VidBase + 5 <= vidNext' BY <1>1 DEF VidBase
<1>5. \A d \in dev' : d.type \in OwnTypes \/ d \in Implicit(VidBase) BY DEF DevShape
<1> QED BY <1>2, <1>3, <1>4, <1>5 DEF DevShape

(* A name is that of at most one object.                                   *)
LEMMA NamedIs ==
  ASSUME DevShape, NEW t \in OwnTypes, NEW v
  PROVE  /\ \A p, q \in Named({<<t, v>>}) : p = q
         /\ \A p : p \in Named({<<t, v>>}) <=> p \in dev /\ p.type = t /\ p.id = v
<1>1. \A p : p \in Named({<<t, v>>}) <=> p \in dev /\ p.type = t /\ p.id = v BY DEF Named, NameOf
<1>2. \A p, q : p.type = q.type => (HasOid(p) <=> HasOid(q)) BY DEF HasOid
<1> QED BY <1>1, <1>2 DEF DevShape, Distinct

(* Setting the reference of an object keeps the device well formed.        *)
LEMMA DevSet ==
  ASSUME DevShape, NEW t \in {"MEMBER", "ROUTE"}, NEW v, NEW r \in Nat, vidNext' = vidNext,
         dev' = (dev \ Named({<<t, v>>})) \cup {Object(p.type, p.id, r) : p \in Named({<<t, v>>})}
  PROVE  DevShape'
<1> DEFINE found == Named({<<t, v>>})
<1>a. t \in OwnTypes BY DEF OwnTypes
<1>0. \A p, q \in found : p = q BY <1>a, NamedIs
<1>1. \A p \in found : p \in dev /\ p.type = t /\ p.id = v BY <1>a, NamedIs
<1>2. CASE found = {}
  <2>1. dev' = dev BY <1>2
  <2> QED BY <2>1, DevRemove DEF DevShape
<1>3. CASE found # {}
  <2>1. PICK p \in dev : found = {p} /\ p.type = t BY <1>0, <1>1, <1>3
  <2> DEFINE new == Object(p.type, p.id, r)
  <2>2. dev' = (dev \ {p}) \cup {new} BY <2>1
  <2>3. new.type = p.type /\ new.id = p.id /\ (HasOid(new) <=> HasOid(p)) BY DEF Object, HasOid
  <2>4. new \in Objects
    <3>1. p.type \in OwnTypes /\ p.id \in Nat \ {Null} BY <2>1 DEF DevShape, Objects, OwnTypes
    <3> QED BY <3>1 DEF Object, Objects
  <2> HIDE DEF new
  <2>5. Distinct(dev')
    <3>1. \A q \in dev \ {p} : ~(q.id = new.id /\ (HasOid(q) <=> HasOid(new)))
      BY <2>3 DEF DevShape, Distinct
    <3> QED BY <2>2, <3>1 DEF DevShape, Distinct
  <2>6. new.type \in OwnTypes BY <2>1, <2>3 DEF OwnTypes
  <2>7. new.type \in {"RIF", "MEMBER"} => VidBase + 5 <= new.id /\ new.id < vidNext
    BY <2>3 DEF DevShape
  <2> QED BY <2>2, <2>4, <2>5, <2>6, <2>7 DEF DevShape
<1> QED BY <1>2, <1>3

-----------------------------------------------------------------------------
(* The tables.                                                             *)

(* Entries added to the map keep its type.                                 *)
LEMMA MapAdd ==
  ASSUME TableTypes, NEW new, \A n \in DOMAIN new : new[n] \in Nat
  PROVE  rec2vid ++ new \in [DOMAIN (rec2vid ++ new) -> Nat]
<1>1. \A n \in DOMAIN rec2vid : rec2vid[n] \in Nat BY DEF TableTypes
<1> QED BY <1>1 DEF ++

(* Entries taken from the map: what is left is as before.                  *)
LEMMA MapCut ==
  ASSUME TableTypes, NEW S
  PROVE  /\ DOMAIN Restrict(rec2vid, DOMAIN rec2vid \ S) = DOMAIN rec2vid \ S
         /\ Restrict(rec2vid, DOMAIN rec2vid \ S) \in
              [DOMAIN Restrict(rec2vid, DOMAIN rec2vid \ S) -> Nat]
         /\ \A n \in DOMAIN rec2vid \ S : Restrict(rec2vid, DOMAIN rec2vid \ S)[n] = rec2vid[n]
<1> QED BY DEF Restrict, TableTypes

Aliases(f) == \A a \in DOMAIN f : a \in Seq(Words) /\ a # <<>> /\ Len(f[a]) = 2

(* An alias is looked up as a sequence of words, whatever the name.        *)
LEMMA AliasIs == TableTypes => \A name : AliasOf(name) \in Seq(Words)
<1>1. SUFFICES ASSUME TableTypes, NEW name PROVE AliasOf(name) \in Seq(Words)
  OBVIOUS
<1> DEFINE found == {a \in DOMAIN registry : registry[a] = name /\ Lower(a)}
<1>2. AliasOf(name) = IF found = {} THEN <<>> ELSE CHOOSE a \in found : TRUE BY DEF AliasOf
<1>3. found \subseteq Seq(Words) BY <1>1 DEF TableTypes
<1>4. found # {} => (CHOOSE a \in found : TRUE) \in found OBVIOUS
<1>5. <<>> \in Seq(Words) OBVIOUS
<1> QED BY <1>2, <1>3, <1>4, <1>5

(* The aliases of a recorded object are well formed.                       *)
LEMMA RecAliasTypes ==
  ASSUME TableTypes, NEW o, NEW name, Len(name) = 2
  PROVE  Aliases(RecAlias(o, name))
<1>0. <<"rif">> \in Seq(Words) /\ <<"route">> \in Seq(Words)
  <2>1. "rif" \in Words /\ "route" \in Words BY DEF Words
  <2> QED BY <2>1
<1>1. ASSUME NEW c \in Seq(Words), Len(c) = 1, NEW n
      PROVE  Aliases(Entry(c \o AliasOf(n), name))
  <2>1. AliasOf(n) \in Seq(Words) BY AliasIs
  <2>2. c \o AliasOf(n) \in Seq(Words) BY <2>1
  <2>3. Len(c \o AliasOf(n)) = 1 + Len(AliasOf(n)) /\ Len(AliasOf(n)) \in Nat
    <3>1. Len(c \o AliasOf(n)) = Len(c) + Len(AliasOf(n)) BY <2>1, ConcatProperties
    <3>2. Len(AliasOf(n)) \in Nat BY <2>1, LenProperties
    <3> QED BY <1>1, <3>1, <3>2
  <2>4. c \o AliasOf(n) # <<>> BY <2>3
  <2> DEFINE k == c \o AliasOf(n)
  <2>5. k \in Seq(Words) /\ k # <<>> BY <2>2, <2>4
  <2> HIDE DEF k
  <2>6. DOMAIN Entry(k, name) = {k} /\ Entry(k, name)[k] = name BY EntryIs
  <2>7. Aliases(Entry(k, name)) BY <2>5, <2>6 DEF Aliases
  <2> QED BY <2>7 DEF k
<1>2. Aliases(<<>>) BY DEF Aliases
<1>3. \A n : /\ Aliases(Entry(<<"rif">> \o AliasOf(n), name))
             /\ Aliases(Entry(<<"route">> \o AliasOf(n), name))
  <2>1. Len(<<"rif">>) = 1 /\ Len(<<"route">>) = 1 OBVIOUS
  <2> QED BY <1>0, <1>1, <2>1
<1> QED BY <1>2, <1>3 DEF RecAlias

(* Two registries together are one.                                        *)
LEMMA AliasesAdd ==
  ASSUME NEW f, NEW g, Aliases(f), Aliases(g)
  PROVE  Aliases(f ++ g)
<1>1. \A k \in DOMAIN (f ++ g) : \/ k \in DOMAIN f /\ (f ++ g)[k] = f[k]
                                 \/ k \in DOMAIN g /\ (f ++ g)[k] = g[k]
  BY DEF ++
<1> QED BY <1>1 DEF Aliases

(* The aliases that objects_discovery() makes are well formed.             *)
LEMMA DiscoveredTypes == Aliases(Discovered)
<1> DEFINE p == InOrder(IdsOf("PORT", Implicit(VidBase)))
           zero == [k \in {<<"PORT_0">>, <<"port0">>} |-> <<"PORT", p[1]>>]
           one == [k \in {<<"PORT_1">>, <<"port1">>} |-> <<"PORT", p[2]>>]
           sw == Entry(<<"switch">>, <<"SWITCH", VidBase + 1>>)
           vr == Entry(<<"DEFAULT_VIRTUAL_ROUTER_ID">>, <<"VR", VidBase + 2>>)
<1>0. /\ <<"PORT_0">> \in Seq(Words) /\ <<"port0">> \in Seq(Words)
      /\ <<"PORT_1">> \in Seq(Words) /\ <<"port1">> \in Seq(Words)
      /\ <<"switch">> \in Seq(Words) /\ <<"DEFAULT_VIRTUAL_ROUTER_ID">> \in Seq(Words)
      /\ \A w : <<w>> # <<>>
  <2>1. /\ "PORT_0" \in Words /\ "port0" \in Words /\ "PORT_1" \in Words /\ "port1" \in Words
        /\ "switch" \in Words /\ "DEFAULT_VIRTUAL_ROUTER_ID" \in Words
    BY DEF Words
  <2>2. \A w : <<w>> # <<>> OBVIOUS
  <2>3. ASSUME NEW w \in Words PROVE <<w>> \in Seq(Words) OBVIOUS
  <2> QED BY <2>1, <2>2, <2>3
<1>p. \A x, y : Len(<<x, y>>) = 2 OBVIOUS
<1>1. Aliases(zero)
  <2>1. \A k \in DOMAIN zero : zero[k] = <<"PORT", p[1]>> /\ k \in Seq(Words) /\ k # <<>>
    BY <1>0
  <2> HIDE DEF zero, p
  <2> QED BY <1>p, <2>1 DEF Aliases
<1>2. Aliases(one)
  <2>1. \A k \in DOMAIN one : one[k] = <<"PORT", p[2]>> /\ k \in Seq(Words) /\ k # <<>>
    BY <1>0
  <2> HIDE DEF one, p
  <2> QED BY <1>p, <2>1 DEF Aliases
<1>3. Aliases(sw) /\ Aliases(vr)
  <2>1. \A k \in Seq(Words) : \A v : k # <<>> /\ Len(v) = 2 => Aliases(Entry(k, v))
    BY DEF Aliases, Entry
  <2> QED BY <1>0, <1>p, <2>1
<1>4. Discovered = (sw ++ vr) ++ (zero ++ one) BY DEF Discovered
<1>5. Discovered = sw ++ (vr ++ (zero ++ one)) \/ Discovered = (sw ++ vr) ++ (zero ++ one)
  BY <1>4
<1> HIDE DEF zero, one, sw, vr
<1>6. Aliases(zero ++ one) /\ Aliases(sw ++ vr) BY <1>1, <1>2, <1>3, AliasesAdd
<1> QED BY <1>4, <1>6, AliasesAdd

-----------------------------------------------------------------------------
(* What the records do to the device and to the tables.                    *)

Reasons == {"null", "unknown", "request", "recorded", "answer", "status", "fault"}
Deviates ==
  \/ AsRecorded
  \/ Differs
  \/ UNCHANGED differs /\ refused' = TRUE /\ (UNCHANGED faults \/ Faulty)
Stops == \E w \in Reasons : Raise(w)

(* A handler goes on or raises; either way the flags keep their types, and *)
(* what has been refused or has differed stays so.                         *)
LEMMA FlagsKept ==
  ASSUME Flags, phase = "run", GoOn \/ Stops, Deviates, UNCHANGED replays,
         expect' \in {"any", "G", "E"}, status' \in {"none", "ok", "refused", "other"}
  PROVE  /\ Flags' /\ Starting'
         /\ phase' \in {"run", "idle"}
         /\ (refused => refused') /\ (differs => differs')
         /\ phase' = "run" => phase = "run"
<1>1. \/ phase' = "run" /\ why' = why
      \/ phase' = "idle" /\ why' \in Reasons
  BY DEF GoOn, Stops, Raise
<1>2. /\ faults' = faults \/ (faults < MaxFaults /\ faults' = faults + 1)
      /\ refused' = refused \/ refused' = TRUE
      /\ differs' = differs \/ differs' = TRUE
  BY DEF Deviates, AsRecorded, Differs, Faulty
<1>3. faults' \in 0..MaxFaults
  <2>1. faults \in 0..MaxFaults /\ MaxFaults \in Nat BY ReplayAssumption DEF Flags
  <2> QED BY <1>2, <2>1
<1>4. Starting' BY <1>1 DEF Starting
<1>5. /\ phase' \in {"idle", "start", "run"} /\ replays' \in 0..MaxReplays
      /\ why' \in {"none", "null", "unknown", "request", "recorded", "answer", "status", "fault"}
      /\ refused' \in BOOLEAN /\ differs' \in BOOLEAN
  BY <1>1, <1>2 DEF Flags, Reasons
<1>6. Flags' BY <1>3, <1>5 DEF Flags
<1>7. (refused => refused') /\ (differs => differs') BY <1>2
<1> QED BY <1>1, <1>4, <1>6, <1>7

(* _process_create_command(): raises for an unknown OID or by a fault;     *)
(* creates the object and maps its OID; or goes on without the object that *)
(* the device has refused.                                                 *)
LEMMA CreateOutcomes ==
  ASSUME NEW o, NEW ok \in BOOLEAN, Create(o, ok)
  PROVE
    LET missing == Unmapped({o.ref} \cup KeyOids(o), FALSE)
        new == Translated(o, vidNext, FALSE)
    IN
    /\ phase = "run" /\ expect = "any"
    /\ Recorded(recDev \cup {o}, IF HasOid(o) THEN recNext + 1 ELSE recNext, ok)
    /\ GoOn \/ Stops
    /\ Deviates
    /\ UNCHANGED <<oids, replays>> /\ status' \in {status, "ok", "refused", "other"}
    /\ \/ /\ GoOn /\ missing = {} /\ Valid(new) /\ dev' = dev \cup {new} /\ status' = "ok"
          /\ vidNext' = IF HasOid(o) THEN vidNext + 1 ELSE vidNext
          /\ rec2vid' = IF HasOid(o) THEN rec2vid ++ Entry(o.id, new.id) ELSE rec2vid
          /\ registry' = registry ++ RecAlias(new, NameOf(new))
          /\ ok \/ differs'
       \/ /\ GoOn /\ missing = {} /\ status' \in {"refused", "other"}
          /\ vidNext' = IF HasOid(o) THEN vidNext + 1 ELSE vidNext
          /\ UNCHANGED <<dev, rec2vid, registry>>
          /\ IF ok THEN refused' = TRUE ELSE status' = "refused" \/ differs'
       \/ /\ Stops /\ UNCHANGED <<dev, rec2vid, registry>>
          /\ vidNext' = IF HasOid(o) /\ missing = {} THEN vidNext + 1 ELSE vidNext
          /\ \/ missing # {} /\ KeyError(missing) /\ UNCHANGED <<refused, differs>>
             \/ differs' /\ why' = "fault"
<1> DEFINE missing == Unmapped({o.ref} \cup KeyOids(o), FALSE)
           new == Translated(o, vidNext, FALSE)
           next == IF HasOid(o) THEN vidNext + 1 ELSE vidNext
           mapped == IF HasOid(o) THEN rec2vid ++ Entry(o.id, new.id) ELSE rec2vid
           named == registry ++ RecAlias(new, NameOf(new))
           recorded == Recorded(recDev \cup {o}, IF HasOid(o) THEN recNext + 1 ELSE recNext, ok)
           made == /\ Valid(new) /\ dev' = dev \cup {new} /\ status' = "ok" /\ GoOn
                   /\ rec2vid' = mapped /\ registry' = named
                   /\ IF ok THEN AsRecorded ELSE Differs
           rejected == /\ status' \in {"refused", "other"} /\ GoOn
                       /\ UNCHANGED <<dev, rec2vid, registry>>
                       /\ CASE ok /\ Valid(new) -> Faulty /\ refused' = TRUE /\ UNCHANGED differs
                            [] ok /\ ~Valid(new) -> refused' = TRUE /\ UNCHANGED <<faults, differs>>
                            [] ~ok -> IF status' = "other" THEN Differs ELSE AsRecorded
           failed == Raise("fault") /\ Differs /\ UNCHANGED <<dev, rec2vid, registry, status>>
<1>1. /\ phase = "run" /\ expect = "any" /\ recorded /\ UNCHANGED <<oids, replays>>
      /\ \/ /\ missing # {} /\ KeyError(missing) /\ AsRecorded
            /\ UNCHANGED <<deviceVars, rec2vid, registry, status>>
         \/ missing = {} /\ vidNext' = next /\ (made \/ rejected \/ failed)
  BY DEF Create, Reading
<1> HIDE DEF missing, new, next, mapped, named, recorded
<1>2. CASE missing = {} /\ vidNext' = next /\ made
  <2>1. Deviates /\ (ok \/ differs') BY <1>2 DEF Deviates, Differs
  <2> QED BY <1>1, <1>2, <2>1 DEF missing, new, next, mapped, named, recorded
<1>3. CASE missing = {} /\ vidNext' = next /\ rejected
  <2>1. Deviates BY <1>3 DEF Deviates
  <2>2. IF ok THEN refused' = TRUE ELSE status' = "refused" \/ differs' BY <1>3 DEF Differs
  <2> QED BY <1>1, <1>3, <2>1, <2>2 DEF missing, new, next, recorded
<1>4. CASE missing = {} /\ vidNext' = next /\ failed
  <2>1. Stops /\ Deviates /\ differs' /\ why' = "fault"
    BY <1>4 DEF Stops, Deviates, Differs, Reasons, Raise
  <2> QED BY <1>1, <1>4, <2>1 DEF missing, next, recorded
<1>5. CASE /\ missing # {} /\ KeyError(missing) /\ AsRecorded
           /\ UNCHANGED <<deviceVars, rec2vid, registry, status>>
  <2>1. Stops BY <1>5 DEF Stops, KeyError, Reasons
  <2>2. Deviates /\ UNCHANGED <<refused, differs>> BY <1>5 DEF Deviates, AsRecorded
  <2>3. vidNext' = vidNext /\ dev' = dev BY <1>5 DEF deviceVars
  <2> QED BY <1>1, <1>5, <2>1, <2>2, <2>3 DEF missing, recorded
<1> QED BY <1>1, <1>2, <1>3, <1>4, <1>5

(* _process_remove_command(): raises for an unknown OID or a failed        *)
(* request, or removes the object and its OID.                             *)
LEMMA RemoveOutcomes ==
  ASSUME NEW o, Remove(o)
  PROVE
    LET ok == Removable(o, recDev)
        name == <<o.type, rec2vid[o.id]>>
    IN
    /\ phase = "run" /\ expect = "any" /\ o \in Removals
    /\ Recorded(recDev \ {o}, recNext, ok)
    /\ GoOn \/ Stops
    /\ Deviates
    /\ UNCHANGED <<vidNext, registry, oids, status, replays>>
    /\ rec2vid' = IF HasOid(o) /\ o.id \in DOMAIN rec2vid
                    THEN Restrict(rec2vid, DOMAIN rec2vid \ {o.id}) ELSE rec2vid
    /\ \/ /\ GoOn /\ o.id \in DOMAIN rec2vid /\ CanRemove({name})
          /\ dev' = dev \ Named({name})
          /\ ok \/ differs'
       \/ /\ Stops /\ dev' = dev
          /\ \/ o.id \notin DOMAIN rec2vid /\ KeyError({o.id}) /\ UNCHANGED <<refused, differs>>
             \/ differs' /\ why' = "fault"
             \/ /\ o.id \in DOMAIN rec2vid /\ ~CanRemove({name}) /\ UNCHANGED <<refused, differs>>
                /\ why' = IF ok THEN "request" ELSE "recorded"
<1> DEFINE ok == Removable(o, recDev)
           name == <<o.type, rec2vid[o.id]>>
           less == IF HasOid(o) THEN Restrict(rec2vid, DOMAIN rec2vid \ {o.id}) ELSE rec2vid
           recorded == Recorded(recDev \ {o}, recNext, ok)
           can == CanRemove({name})
           rest == dev \ Named({name})
<1>1. /\ phase = "run" /\ expect = "any" /\ o \in Removals /\ recorded
      /\ UNCHANGED <<vidNext, registry, oids, status, replays>>
      /\ \/ /\ o.id \notin DOMAIN rec2vid /\ KeyError({o.id}) /\ AsRecorded
            /\ UNCHANGED <<dev, rec2vid>>
         \/ /\ o.id \in DOMAIN rec2vid /\ rec2vid' = less
            /\ \/ can /\ dev' = rest /\ GoOn /\ IF ok THEN AsRecorded ELSE Differs
               \/ ~can /\ UNCHANGED dev /\ AsRecorded /\ Raise(IF ok THEN "request" ELSE "recorded")
               \/ ok /\ can /\ UNCHANGED dev /\ Raise("fault") /\ Differs
  BY DEF Remove, Reading
<1> HIDE DEF ok, name, less, recorded, can, rest
<1>2. CASE o.id \notin DOMAIN rec2vid /\ KeyError({o.id}) /\ AsRecorded /\ UNCHANGED <<dev, rec2vid>>
  <2>1. Stops BY <1>2 DEF Stops, KeyError, Reasons
  <2>2. Deviates /\ UNCHANGED <<refused, differs>> BY <1>2 DEF Deviates, AsRecorded
  <2> QED BY <1>1, <1>2, <2>1, <2>2 DEF ok, recorded
<1>3. CASE /\ o.id \in DOMAIN rec2vid /\ rec2vid' = less
           /\ can /\ dev' = rest /\ GoOn /\ IF ok THEN AsRecorded ELSE Differs
  <2>1. Deviates /\ (ok \/ differs') BY <1>3 DEF Deviates, Differs
  <2> QED BY <1>1, <1>3, <2>1 DEF ok, recorded, less, can, rest, name
<1>4. CASE /\ o.id \in DOMAIN rec2vid /\ rec2vid' = less
           /\ ~can /\ UNCHANGED dev /\ AsRecorded /\ Raise(IF ok THEN "request" ELSE "recorded")
  <2>1. Stops /\ why' = IF ok THEN "request" ELSE "recorded" BY <1>4 DEF Stops, Raise, Reasons
  <2>2. Deviates /\ UNCHANGED <<refused, differs>> BY <1>4 DEF Deviates, AsRecorded
  <2> QED BY <1>1, <1>4, <2>1, <2>2 DEF ok, recorded, less, can, name
<1>5. CASE /\ o.id \in DOMAIN rec2vid /\ rec2vid' = less
           /\ ok /\ can /\ UNCHANGED dev /\ Raise("fault") /\ Differs
  <2>1. Stops /\ Deviates /\ differs' /\ why' = "fault"
    BY <1>5 DEF Stops, Deviates, Differs, Reasons, Raise
  <2> QED BY <1>1, <1>5, <2>1 DEF ok, recorded, less
<1> QED BY <1>1, <1>2, <1>3, <1>4, <1>5

Redirected(found, ref) == (dev \ found) \cup {Object(p.type, p.id, ref) : p \in found}

(* _process_set_command() and its bulk form: raises for an unknown OID or  *)
(* a failed request, or sets the reference.                                *)
LEMMA SetOutcomes ==
  ASSUME NEW o, NEW r, NEW bulk \in BOOLEAN, NEW ok \in BOOLEAN, SetAttribute(o, r, bulk, ok)
  PROVE
    LET missing == Unmapped({r}, bulk) \cup Unmapped({o.id}, FALSE)
        found == Named({<<o.type, rec2vid[o.id]>>})
        ref == Mapped(r, bulk)
    IN
    /\ phase = "run" /\ expect = "any"
    /\ o \in recDev /\ o.type \in {"MEMBER", "ROUTE"} /\ o.id \in learned
    /\ Recorded((recDev \ {o}) \cup {Object(o.type, o.id, r)}, recNext, ok)
    /\ GoOn \/ Stops
    /\ Deviates
    /\ UNCHANGED <<vidNext, rec2vid, registry, oids, status, replays>>
    /\ \/ /\ GoOn /\ missing = {} /\ found # {} /\ (ref = Null \/ Exists(ref))
          /\ dev' = Redirected(found, ref)
          /\ ok \/ differs'
       \/ /\ Stops /\ dev' = dev
          /\ \/ missing # {} /\ KeyError(missing) /\ UNCHANGED <<refused, differs>>
             \/ differs' /\ why' = "fault"
             \/ /\ missing = {} /\ UNCHANGED <<refused, differs>>
                /\ why' = IF ok THEN "request" ELSE "recorded"
                /\ ok => ~(found # {} /\ (ref = Null \/ Exists(ref)))
<1> DEFINE missing == Unmapped({r}, bulk) \cup Unmapped({o.id}, FALSE)
           found == Named({<<o.type, rec2vid[o.id]>>})
           ref == Mapped(r, bulk)
           can == found # {} /\ (ref = Null \/ Exists(ref))
           new == Redirected(found, ref)
           recorded == Recorded((recDev \ {o}) \cup {Object(o.type, o.id, r)}, recNext, ok)
<1>1. /\ phase = "run" /\ expect = "any" /\ recorded
      /\ o \in recDev /\ o.type \in {"MEMBER", "ROUTE"} /\ o.id \in learned
      /\ UNCHANGED <<vidNext, rec2vid, registry, oids, status, replays>>
      /\ \/ missing # {} /\ KeyError(missing) /\ AsRecorded /\ UNCHANGED dev
         \/ /\ missing = {}
            /\ can /\ GoOn /\ dev' = new /\ IF ok THEN AsRecorded ELSE Differs
         \/ /\ missing = {} /\ UNCHANGED dev
            /\ IF ok /\ can THEN Raise("fault") /\ Differs
               ELSE Raise(IF ok THEN "request" ELSE "recorded") /\ AsRecorded
  BY DEF SetAttribute, Reading, Redirected
<1> HIDE DEF missing, found, can, new, ref, recorded
<1>2. CASE missing # {} /\ KeyError(missing) /\ AsRecorded /\ UNCHANGED dev
  <2>1. Stops BY <1>2 DEF Stops, KeyError, Reasons
  <2>2. Deviates /\ UNCHANGED <<refused, differs>> BY <1>2 DEF Deviates, AsRecorded
  <2> QED BY <1>1, <1>2, <2>1, <2>2 DEF missing, recorded
<1>3. CASE missing = {} /\ can /\ GoOn /\ dev' = new /\ IF ok THEN AsRecorded ELSE Differs
  <2>1. Deviates /\ (ok \/ differs') BY <1>3 DEF Deviates, Differs
  <2> QED BY <1>1, <1>3, <2>1 DEF missing, recorded, can, new, ref, found
<1>4. CASE missing = {} /\ UNCHANGED dev /\ ok /\ can /\ Raise("fault") /\ Differs
  <2>1. Stops /\ Deviates /\ differs' /\ why' = "fault"
    BY <1>4 DEF Stops, Deviates, Differs, Reasons, Raise
  <2> QED BY <1>1, <1>4, <2>1 DEF recorded
<1>5. CASE /\ missing = {} /\ UNCHANGED dev /\ ~(ok /\ can)
           /\ Raise(IF ok THEN "request" ELSE "recorded") /\ AsRecorded
  <2>1. Stops /\ why' = IF ok THEN "request" ELSE "recorded" BY <1>5 DEF Stops, Raise, Reasons
  <2>2. Deviates /\ UNCHANGED <<refused, differs>> BY <1>5 DEF Deviates, AsRecorded
  <2>3. ok => ~can BY <1>5
  <2> QED BY <1>1, <1>5, <2>1, <2>2, <2>3 DEF missing, recorded, can, ref, found
<1> QED BY <1>1, <1>2, <1>3, <1>4, <1>5

(* The parts of a bulk creation.                                           *)
FreshIds(batch) == {o.id : o \in {p \in Range(batch) : HasOid(p)}}
VidsOf(batch) == [n \in FreshIds(batch) |-> vidNext + (n - recNext)]
NewOf(batch) == [i \in DOMAIN batch |-> Translated(batch[i], vidNext + i - 1, TRUE)]
MissingOf(batch) == UNION {Unmapped({o.ref} \cup KeyOids(o), TRUE) : o \in Range(batch)}
BatchAlias(batch) ==
  [i \in DOMAIN NewOf(batch) |->
     RecAlias(NewOf(batch)[i],
              <<NewOf(batch)[i].type, IF HasOid(NewOf(batch)[i]) THEN Null ELSE NewOf(batch)[i].id>>)]
MadeOf(batch, S) == {NewOf(batch)[i] : i \in S}

(* _process_bulk_create_command(): creates and maps all objects, or raises *)
(* for an unknown OID, or for an object that the device does not create;   *)
(* others of the batch may be there by then.                               *)
LEMMA BulkCreateOutcomes ==
  ASSUME NEW batch, BulkCreate(batch)
  PROVE
    /\ phase = "run" /\ expect = "any"
    /\ Recorded(recDev \cup Range(batch),
                recNext + Cardinality({i \in DOMAIN batch : HasOid(batch[i])}), TRUE)
    /\ GoOn \/ Stops
    /\ Deviates
    /\ UNCHANGED <<oids, status, replays>>
    /\ \/ /\ GoOn /\ MissingOf(batch) = {} /\ \A i \in DOMAIN NewOf(batch) : Valid(NewOf(batch)[i])
          /\ dev' = dev \cup Range(NewOf(batch))
          /\ vidNext' = vidNext + Cardinality(FreshIds(batch))
          /\ rec2vid' = rec2vid ++ VidsOf(batch)
          /\ registry' = (registry ++ BatchAlias(batch)[1]) ++ BatchAlias(batch)[Len(NewOf(batch))]
       \/ /\ Stops /\ UNCHANGED <<rec2vid, registry>>
          /\ \/ /\ MissingOf(batch) # {} /\ KeyError(MissingOf(batch))
                /\ UNCHANGED <<dev, vidNext, refused, differs>>
             \/ /\ MissingOf(batch) = {} /\ vidNext' = vidNext + Cardinality(FreshIds(batch))
                /\ \E S \in SUBSET {i \in DOMAIN NewOf(batch) : Valid(NewOf(batch)[i])} :
                     dev' = dev \cup MadeOf(batch, S)
                /\ \/ differs' /\ why' = "fault"
                   \/ /\ why' = "request" /\ UNCHANGED <<refused, differs>>
                      /\ \E i \in DOMAIN NewOf(batch) : ~Valid(NewOf(batch)[i])
<1> DEFINE missing == MissingOf(batch)
           new == NewOf(batch)
           valid == \A i \in DOMAIN new : Valid(new[i])
           recorded == Recorded(recDev \cup Range(batch),
                                recNext + Cardinality({i \in DOMAIN batch : HasOid(batch[i])}), TRUE)
           mapped == rec2vid ++ VidsOf(batch)
           named == (registry ++ BatchAlias(batch)[1]) ++ BatchAlias(batch)[Len(new)]
           some == \E S \in SUBSET {i \in DOMAIN new : Valid(new[i])} :
                     dev' = dev \cup MadeOf(batch, S)
           next == vidNext + Cardinality(FreshIds(batch))
<1>1. /\ phase = "run" /\ expect = "any" /\ recorded /\ UNCHANGED <<oids, status, replays>>
      /\ \/ /\ missing # {} /\ KeyError(missing) /\ AsRecorded
            /\ UNCHANGED <<deviceVars, rec2vid, registry>>
         \/ /\ missing = {} /\ vidNext' = next
            /\ \/ /\ valid /\ dev' = dev \cup Range(new) /\ GoOn /\ AsRecorded
                  /\ rec2vid' = mapped /\ registry' = named
               \/ /\ some /\ UNCHANGED <<rec2vid, registry>>
                  /\ IF valid THEN Raise("fault") /\ Differs ELSE Raise("request") /\ AsRecorded
  BY DEF BulkCreate, Reading, MissingOf, NewOf, FreshIds, VidsOf, BatchAlias, MadeOf
<1> HIDE DEF missing, new, valid, recorded, mapped, named, some, next
<1>2. CASE /\ missing # {} /\ KeyError(missing) /\ AsRecorded
           /\ UNCHANGED <<deviceVars, rec2vid, registry>>
  <2>1. Stops BY <1>2 DEF Stops, KeyError, Reasons
  <2>2. Deviates /\ UNCHANGED <<refused, differs>> BY <1>2 DEF Deviates, AsRecorded
  <2>3. vidNext' = vidNext /\ dev' = dev BY <1>2 DEF deviceVars
  <2> QED BY <1>1, <1>2, <2>1, <2>2, <2>3 DEF missing, recorded
<1>3. CASE /\ missing = {} /\ vidNext' = next
           /\ valid /\ dev' = dev \cup Range(new) /\ GoOn /\ AsRecorded
           /\ rec2vid' = mapped /\ registry' = named
  <2>1. Deviates BY <1>3 DEF Deviates
  <2> QED BY <1>1, <1>3, <2>1 DEF missing, recorded, valid, next, mapped, named, new
<1>4. CASE /\ missing = {} /\ vidNext' = next /\ some /\ UNCHANGED <<rec2vid, registry>>
           /\ valid /\ Raise("fault") /\ Differs
  <2>1. Stops /\ Deviates /\ differs' /\ why' = "fault"
    BY <1>4 DEF Stops, Deviates, Differs, Reasons, Raise
  <2> QED BY <1>1, <1>4, <2>1 DEF missing, recorded, next, some, new
<1>5. CASE /\ missing = {} /\ vidNext' = next /\ some /\ UNCHANGED <<rec2vid, registry>>
           /\ ~valid /\ Raise("request") /\ AsRecorded
  <2>1. Stops /\ why' = "request" BY <1>5 DEF Stops, Reasons, Raise
  <2>2. Deviates /\ UNCHANGED <<refused, differs>> BY <1>5 DEF Deviates, AsRecorded
  <2>3. \E i \in DOMAIN new : ~Valid(new[i]) BY <1>5 DEF valid
  <2> QED BY <1>1, <1>5, <2>1, <2>2, <2>3 DEF missing, recorded, next, some, new
<1> QED BY <1>1, <1>2, <1>3, <1>4, <1>5

(* _process_bulk_remove_command(): all objects are removed in one request, *)
(* and their OIDs from the map.                                            *)
LEMMA BulkRemoveOutcomes ==
  ASSUME NEW S, BulkRemove(S)
  PROVE
    LET missing == Unmapped({o.id : o \in S}, FALSE)
        names == {<<o.type, rec2vid[o.id]>> : o \in S}
        less == Restrict(rec2vid, DOMAIN rec2vid \ {o.id : o \in {p \in S : HasOid(p)}})
    IN
    /\ phase = "run" /\ expect = "any"
    /\ S \subseteq Removals /\ \A o \in S : Removable(o, recDev)
    /\ Recorded(recDev \ S, recNext, TRUE)
    /\ GoOn \/ Stops
    /\ Deviates
    /\ UNCHANGED <<vidNext, oids, status, replays>>
    /\ \/ /\ GoOn /\ missing = {} /\ CanRemove(names)
          /\ dev' = dev \ Named(names) /\ rec2vid' = less
          /\ \E gone : registry' = Restrict(registry, DOMAIN registry \ gone)
       \/ /\ Stops /\ registry' = registry /\ dev' \subseteq dev /\ rec2vid' \in {rec2vid, less}
          /\ \/ missing # {} /\ KeyError(missing) /\ UNCHANGED <<refused, differs>>
             \/ differs' /\ why' = "fault"
             \/ /\ missing = {} /\ ~CanRemove(names)
                /\ why' = "request" /\ UNCHANGED <<refused, differs>>
<1> DEFINE missing == Unmapped({o.id : o \in S}, FALSE)
           names == {<<o.type, rec2vid[o.id]>> : o \in S}
           less == Restrict(rec2vid, DOMAIN rec2vid \ {o.id : o \in {p \in S : HasOid(p)}})
           gone == {AliasOf(n) : n \in names}
           can == CanRemove(names)
           recorded == Recorded(recDev \ S, recNext, TRUE)
           aim == S \subseteq Removals /\ \A o \in S : Removable(o, recDev)
           fewer == dev \ Named(names)
           some == dev' \in {dev \ Named(T) : T \in SUBSET names \ {names}}
           kept == Restrict(registry, DOMAIN registry \ gone)
<1>1. /\ phase = "run" /\ expect = "any" /\ recorded /\ aim
      /\ UNCHANGED <<vidNext, oids, status, replays>>
      /\ \/ missing # {} /\ KeyError(missing) /\ AsRecorded /\ UNCHANGED <<dev, rec2vid, registry>>
         \/ /\ missing = {} /\ rec2vid' = less
            /\ \/ can /\ dev' = fewer /\ GoOn /\ AsRecorded /\ registry' = kept
               \/ /\ some /\ UNCHANGED registry
                  /\ IF can THEN Raise("fault") /\ Differs ELSE Raise("request") /\ AsRecorded
  BY DEF BulkRemove, Reading
<1>a. some => dev' \subseteq dev OBVIOUS
<1> HIDE DEF missing, names, less, gone, can, recorded, aim, fewer, some, kept
<1>2. CASE missing # {} /\ KeyError(missing) /\ AsRecorded /\ UNCHANGED <<dev, rec2vid, registry>>
  <2>1. Stops BY <1>2 DEF Stops, KeyError, Reasons
  <2>2. Deviates /\ UNCHANGED <<refused, differs>> BY <1>2 DEF Deviates, AsRecorded
  <2> QED BY <1>1, <1>2, <2>1, <2>2 DEF missing, recorded, aim
<1>3. CASE missing = {} /\ rec2vid' = less /\ can /\ dev' = fewer /\ GoOn /\ AsRecorded /\ registry' = kept
  <2>1. Deviates BY <1>3 DEF Deviates
  <2>2. \E g : registry' = Restrict(registry, DOMAIN registry \ g) BY <1>3 DEF kept
  <2> QED BY <1>1, <1>3, <2>1, <2>2 DEF missing, recorded, aim, can, fewer, names, less
<1>4. CASE missing = {} /\ rec2vid' = less /\ some /\ UNCHANGED registry /\ can /\ Raise("fault") /\ Differs
  <2>1. Stops /\ Deviates /\ differs' /\ why' = "fault"
    BY <1>4 DEF Stops, Deviates, Differs, Reasons, Raise
  <2> QED BY <1>1, <1>a, <1>4, <2>1 DEF recorded, aim, less
<1>5. CASE /\ missing = {} /\ rec2vid' = less /\ some /\ UNCHANGED registry
           /\ ~can /\ Raise("request") /\ AsRecorded
  <2>1. Stops /\ why' = "request" BY <1>5 DEF Stops, Reasons, Raise
  <2>2. Deviates /\ UNCHANGED <<refused, differs>> BY <1>5 DEF Deviates, AsRecorded
  <2> QED BY <1>1, <1>a, <1>5, <2>1, <2>2 DEF missing, recorded, aim, can, names, less
<1> QED BY <1>1, <1>2, <1>3, <1>4, <1>5

(* _process_get_command(): the recorded answer is what comes next; the     *)
(* device may give another one.                                            *)
LEMMA GetOutcomes ==
  ASSUME NEW id, NEW recorded, NEW here, NEW t, Get(id, recorded, here, t)
  PROVE
    /\ phase = "run" /\ expect = "any" /\ expect' = "G" /\ answer' = recorded
    /\ UNCHANGED <<recDev, learned, recNext, dev, vidNext, rec2vid, registry, replays>>
    /\ GoOn \/ Stops
    /\ Deviates
    /\ status' \in {status, "ok", "refused", "other"}
    /\ \/ /\ GoOn /\ id \in DOMAIN rec2vid /\ Exists(rec2vid[id])
          /\ \E reply \in Replies(here, t) : oids' = oids \o reply /\ (reply = here \/ differs')
       \/ /\ GoOn /\ id \in DOMAIN rec2vid /\ oids' = oids
          /\ differs' \/ ~Exists(rec2vid[id])
       \/ /\ Stops /\ oids' = oids
          /\ \/ id \notin DOMAIN rec2vid /\ KeyError({id}) /\ UNCHANGED <<refused, differs>>
             \/ differs' /\ why' = "fault"
<1>1. /\ phase = "run" /\ expect = "any" /\ expect' = "G" /\ answer' = recorded
      /\ UNCHANGED <<recDev, learned, recNext, dev, vidNext, rec2vid, registry, replays>>
      /\ \/ id \notin DOMAIN rec2vid /\ KeyError({id}) /\ AsRecorded /\ UNCHANGED <<oids, status>>
         \/ /\ id \in DOMAIN rec2vid /\ Exists(rec2vid[id]) /\ status' = "ok" /\ GoOn
            /\ \E reply \in Replies(here, t) :
                 /\ oids' = oids \o reply
                 /\ IF reply = here THEN AsRecorded ELSE Differs
         \/ /\ id \in DOMAIN rec2vid /\ status' \in {"refused", "other"} /\ UNCHANGED oids /\ GoOn
            /\ IF Exists(rec2vid[id]) THEN Differs ELSE AsRecorded
         \/ id \in DOMAIN rec2vid /\ Raise("fault") /\ Differs /\ UNCHANGED <<oids, status>>
  BY DEF Get, Reading, deviceVars
<1>2. CASE id \notin DOMAIN rec2vid /\ KeyError({id}) /\ AsRecorded /\ UNCHANGED <<oids, status>>
  <2>1. Stops BY <1>2 DEF Stops, KeyError, Reasons
  <2>2. Deviates /\ UNCHANGED <<refused, differs>> BY <1>2 DEF Deviates, AsRecorded
  <2> QED BY <1>1, <1>2, <2>1, <2>2
<1>3. ASSUME id \in DOMAIN rec2vid, Exists(rec2vid[id]), status' = "ok", GoOn,
             NEW reply \in Replies(here, t), oids' = oids \o reply,
             IF reply = here THEN AsRecorded ELSE Differs
      PROVE  /\ Deviates
             /\ \E q \in Replies(here, t) : oids' = oids \o q /\ (q = here \/ differs')
  <2>1. Deviates /\ (reply = here \/ differs') BY <1>3 DEF Deviates, Differs
  <2> QED BY <1>3, <2>1
<1>4. CASE /\ id \in DOMAIN rec2vid /\ status' \in {"refused", "other"} /\ UNCHANGED oids /\ GoOn
           /\ IF Exists(rec2vid[id]) THEN Differs ELSE AsRecorded
  <2>1. Deviates /\ (differs' \/ ~Exists(rec2vid[id])) BY <1>4 DEF Deviates, Differs
  <2> QED BY <1>1, <1>4, <2>1
<1>5. CASE id \in DOMAIN rec2vid /\ Raise("fault") /\ Differs /\ UNCHANGED <<oids, status>>
  <2>1. Stops /\ Deviates /\ differs' /\ why' = "fault"
    BY <1>5 DEF Stops, Deviates, Differs, Reasons, Raise
  <2> QED BY <1>1, <1>5, <2>1
<1>6. CASE /\ id \in DOMAIN rec2vid /\ Exists(rec2vid[id]) /\ status' = "ok" /\ GoOn
           /\ \E reply \in Replies(here, t) :
                 /\ oids' = oids \o reply
                 /\ IF reply = here THEN AsRecorded ELSE Differs
  <2>1. /\ Deviates
        /\ \E q \in Replies(here, t) : oids' = oids \o q /\ (q = here \/ differs')
    BY <1>3, <1>6
  <2> QED BY <1>1, <1>6, <2>1
<1> QED BY <1>1, <1>2, <1>4, <1>5, <1>6

-----------------------------------------------------------------------------
(* Every step keeps the shapes.                                            *)

(* A new object of the recording has the next OID; a route has none of its *)
(* own, and there is one route at most.                                    *)
LEMMA FreshAre ==
  ASSUME RecShape, NEW t \in OwnTypes, NEW n \in Nat, recNext <= n, NEW o \in Fresh(t, n)
  PROVE  /\ o \in Objects /\ o.type = t /\ o.ref \in Targets(t)
         /\ t # "ROUTE" => HasOid(o) /\ o.id = n
         /\ t = "ROUTE" => /\ ~HasOid(o) /\ o.id = RecBase + 2 /\ o.id \in learned
                           /\ \A p \in recDev : p.type # "ROUTE"
<1>1. PICK m \in (IF t = "ROUTE" THEN Live("VR") \ IdsOf(t, recDev) ELSE {n}), r \in Targets(t) :
        o = Object(t, m, r)
  BY DEF Fresh
<1>2. o.type = t /\ o.id = m /\ o.ref = r BY <1>1 DEF Object
<1>3. r \in Nat
  <2>1. r = Null \/ r \in learned BY TargetsAre
  <2> QED BY <2>1 DEF RecShape, Null
<1>4. CASE t # "ROUTE"
  <2>1. m = n BY <1>1, <1>4
  <2>2. n # 0 BY DEF RecShape, RecBase
  <2>3. o \in Objects BY <1>1, <1>2, <1>3, <2>1, <2>2 DEF Objects, Object, Null
  <2> QED BY <1>2, <1>4, <2>1, <2>3 DEF HasOid
<1>5. CASE t = "ROUTE"
  <2>1. m \in Live("VR") /\ m \notin IdsOf("ROUTE", recDev) BY <1>1, <1>5
  <2>2. m \in learned /\ \E w \in recDev : w.type = "VR" /\ w.id = m BY <2>1, IdsAre DEF Live
  <2>3. m = 2
    <3>1. PICK w \in recDev : w.type = "VR" /\ w.id = m BY <2>2
    <3>2. w \in Implicit(RecBase) BY <3>1 DEF RecShape, OwnTypes
    <3> QED BY <3>1, <3>2, ImplicitAre DEF Object
  <2>4. \A p \in recDev : p.type # "ROUTE"
    <3>1. \A p \in recDev : p.type = "ROUTE" => p.id = 2 BY DEF RecShape, RecBase
    <3>2. \A p \in recDev : ~(p.type = "ROUTE" /\ p.id = m) BY <2>1, IdsAre
    <3> QED BY <2>3, <3>1, <3>2
  <2>5. o \in Objects BY <1>1, <1>2, <1>3, <1>5, <2>3 DEF Objects, Object, Null
  <2> QED BY <1>2, <1>5, <2>2, <2>3, <2>4, <2>5 DEF HasOid, RecBase
<1> QED BY <1>2, <1>4, <1>5

(* An OID exists if it is that of an object.                               *)
LEMMA ExistsIs == \A n : Exists(n) <=> \E d \in dev : HasOid(d) /\ d.id = n
<1> QED BY DEF Exists

(* A fresh object, translated, is an object that the device can take.      *)
LEMMA TranslatedShape ==
  ASSUME DevShape, TableTypes, NEW o \in Objects, o.type \in OwnTypes, NEW bulk \in BOOLEAN,
         Unmapped({o.ref} \cup KeyOids(o), bulk) = {}, NEW vid \in Nat, vidNext <= vid
  PROVE
    LET new == Translated(o, vid, bulk)
    IN  /\ new.type = o.type /\ (HasOid(new) <=> HasOid(o))
        /\ HasOid(o) => new.id = vid /\ new \in Objects
        /\ Valid(new) => new \in Objects
        /\ ~HasOid(o) /\ Valid(new) => \A p \in dev : NameOf(p) # NameOf(new)
<1> DEFINE new == Translated(o, vid, bulk)
<1>1. /\ new.type = o.type /\ new.ref = Mapped(o.ref, bulk)
      /\ new.id = IF HasOid(o) THEN vid ELSE rec2vid[o.id]
      /\ new = Object(new.type, new.id, new.ref)
  BY DEF Translated, Object
<1>2. new.ref \in Nat
  <2>1. o.ref \in DOMAIN rec2vid \/ (bulk /\ o.ref = Null) BY DEF Unmapped
  <2>2. \A n \in DOMAIN rec2vid : rec2vid[n] \in Nat BY DEF TableTypes
  <2> QED BY <1>1, <2>1, <2>2 DEF Mapped, Null
<1> HIDE DEF new
<1>3. HasOid(new) <=> HasOid(o) BY <1>1 DEF HasOid
<1>4. HasOid(o) => new.id = vid /\ new \in Objects
  <2>1. vid # 0 BY DEF DevShape, VidBase
  <2> QED BY <1>1, <1>2, <2>1 DEF Objects, Object, Null
<1>5. ASSUME ~HasOid(o), Valid(new)
      PROVE  new \in Objects /\ \A p \in dev : NameOf(p) # NameOf(new)
  <2>1. Exists(new.id) /\ NameOf(new) \notin {NameOf(p) : p \in dev} BY <1>3, <1>5 DEF Valid
  <2>2. new.id \in Nat \ {Null} BY <2>1, ExistsIs, VidsBelow DEF Null
  <2> QED BY <1>1, <1>2, <2>1, <2>2 DEF Objects, Object
<1> QED BY <1>1, <1>3, <1>4, <1>5 DEF new

(* Each handler keeps the shape of the devices and of the tables, whatever *)
(* the device answers. First the create.                                   *)
LEMMA CreateShapes ==
  ASSUME Shapes, NEW t \in OwnTypes, NEW o \in Fresh(t, recNext), NEW ok \in BOOLEAN, Create(o, ok)
  PROVE  /\ Shapes' /\ (refused => refused') /\ (differs => differs')
<1> DEFINE missing == Unmapped({o.ref} \cup KeyOids(o), FALSE)
           new == Translated(o, vidNext, FALSE)
<1>0. RecShape /\ DevShape /\ TableTypes /\ Flags BY DEF Shapes
<1>1. /\ phase = "run" /\ expect = "any"
      /\ Recorded(recDev \cup {o}, IF HasOid(o) THEN recNext + 1 ELSE recNext, ok)
      /\ GoOn \/ Stops
      /\ Deviates
      /\ UNCHANGED <<oids, replays>> /\ status' \in {status, "ok", "refused", "other"}
      /\ \/ /\ missing = {} /\ Valid(new) /\ dev' = dev \cup {new}
            /\ vidNext' = IF HasOid(o) THEN vidNext + 1 ELSE vidNext
            /\ rec2vid' = IF HasOid(o) THEN rec2vid ++ Entry(o.id, new.id) ELSE rec2vid
            /\ registry' = registry ++ RecAlias(new, NameOf(new))
         \/ vidNext' \in {vidNext, vidNext + 1} /\ UNCHANGED <<dev, rec2vid, registry>>
  BY CreateOutcomes
<1> HIDE DEF missing, new
<1>2. recNext \in Nat /\ vidNext \in Nat BY <1>0 DEF RecShape, DevShape
<1>3. /\ o \in Objects /\ o.type = t /\ o.ref \in Targets(t)
      /\ t # "ROUTE" => HasOid(o) /\ o.id = recNext
      /\ t = "ROUTE" => /\ ~HasOid(o) /\ o.id = RecBase + 2 /\ o.id \in learned
                        /\ \A p \in recDev : p.type # "ROUTE"
  BY <1>0, <1>2, FreshAre
<1>4. /\ Flags' /\ Starting' /\ phase' \in {"run", "idle"}
      /\ (refused => refused') /\ (differs => differs')
  <2>1. expect' \in {"any", "G", "E"} BY <1>1 DEF Recorded
  <2>2. status' \in {"none", "ok", "refused", "other"} BY <1>0, <1>1 DEF Flags
  <2> QED BY <1>0, <1>1, <2>1, <2>2, FlagsKept
<1>5. RecShape'
  <2> DEFINE n == IF HasOid(o) THEN recNext + 1 ELSE recNext
  <2>1. {o} \subseteq Objects /\ IsFiniteSet({o}) /\ Distinct({o})
    BY <1>3, FS_Singleton DEF Distinct
  <2>2. n \in Nat /\ recNext <= n /\ (HasOid(o) => recNext < n) BY <1>2
  <2>3. \A p \in {o} : \/ p.type \in {"RIF", "MEMBER"} /\ recNext <= p.id /\ p.id < n
                       \/ /\ p.type = "ROUTE" /\ p.id = RecBase + 2 /\ p.id \in learned
                          /\ \A q \in recDev : q.type # "ROUTE"
    BY <1>2, <1>3, <2>2 DEF OwnTypes
  <2>4. Recorded(recDev \cup {o}, n, ok) BY <1>1
  <2> HIDE DEF n
  <2>5. \A p \in {o} : p.ref \in Targets(p.type) BY <1>3
  <2> QED BY <1>0, <1>1, <2>1, <2>2, <2>3, <2>4, <2>5, RecAdd
<1>6. CASE vidNext' \in {vidNext, vidNext + 1} /\ UNCHANGED <<dev, rec2vid, registry>>
  <2>1. vidNext' \in Nat /\ vidNext <= vidNext' BY <1>2, <1>6
  <2>2. DevShape' BY <1>0, <1>6, <2>1, DevRemove
  <2>3. answer' = answer BY <1>1 DEF Recorded
  <2>4. TableTypes' BY <1>0, <1>1, <1>6, <2>3 DEF TableTypes
  <2> QED BY <1>4, <1>5, <2>2, <2>4 DEF Shapes
<1>7. CASE /\ missing = {} /\ Valid(new) /\ dev' = dev \cup {new}
           /\ vidNext' = IF HasOid(o) THEN vidNext + 1 ELSE vidNext
           /\ rec2vid' = IF HasOid(o) THEN rec2vid ++ Entry(o.id, new.id) ELSE rec2vid
           /\ registry' = registry ++ RecAlias(new, NameOf(new))
  <2>1. /\ new.type = t /\ new \in Objects /\ (HasOid(o) => new.id = vidNext)
        /\ ~HasOid(o) => \A p \in dev : NameOf(p) # NameOf(new)
    <3>1. vidNext <= vidNext BY <1>2
    <3>2. o.type \in OwnTypes BY <1>3
    <3>3. Unmapped({o.ref} \cup KeyOids(o), FALSE) = {} BY <1>7 DEF missing
    <3>4. Valid(Translated(o, vidNext, FALSE)) BY <1>7 DEF new
    <3> QED BY <1>0, <1>2, <1>3, <3>1, <3>2, <3>3, <3>4, TranslatedShape DEF new
  <2>2. DevShape'
    <3>1. vidNext' \in Nat /\ vidNext <= vidNext' /\ (HasOid(o) => vidNext < vidNext')
      BY <1>2, <1>7
    <3>2. {new} \subseteq Objects /\ Distinct({new}) BY <2>1 DEF Distinct
    <3>3. \A p \in {new} : \/ p.type \in {"RIF", "MEMBER"} /\ vidNext <= p.id /\ p.id < vidNext'
                           \/ p.type = "ROUTE" /\ \A q \in dev : NameOf(q) # NameOf(p)
      BY <1>2, <1>3, <2>1, <3>1 DEF OwnTypes
    <3> QED BY <1>0, <1>7, <3>1, <3>2, <3>3, DevAdd
  <2>3. rec2vid' \in [DOMAIN rec2vid' -> Nat]
    <3>1. CASE HasOid(o)
      <4>1. new.id \in Nat BY <1>2, <2>1, <3>1
      <4>2. \A n \in DOMAIN Entry(o.id, new.id) : Entry(o.id, new.id)[n] \in Nat
        BY <4>1 DEF Entry
      <4>3. rec2vid' = rec2vid ++ Entry(o.id, new.id) BY <1>7, <3>1
      <4> QED BY <1>0, <4>2, <4>3, MapAdd
    <3>2. CASE ~HasOid(o) BY <1>0, <1>7, <3>2 DEF TableTypes
    <3> QED BY <3>1, <3>2
  <2>4. Aliases(registry')
    <3>1. Len(NameOf(new)) = 2 BY DEF NameOf
    <3>2. Aliases(RecAlias(new, NameOf(new))) BY <1>0, <3>1, RecAliasTypes
    <3>3. Aliases(registry) BY <1>0 DEF TableTypes, Aliases
    <3> QED BY <1>7, <3>2, <3>3, AliasesAdd
  <2>5. oids' = oids /\ answer' = answer /\ oids = <<>>
    BY <1>0, <1>1 DEF Recorded, TableTypes
  <2>6. TableTypes' BY <1>0, <2>3, <2>4, <2>5 DEF TableTypes, Aliases
  <2> QED BY <1>4, <1>5, <2>2, <2>6 DEF Shapes
<1> QED BY <1>1, <1>4, <1>6, <1>7

(* The remove.                                                             *)
LEMMA RemoveShapes ==
  ASSUME Shapes, NEW o, Remove(o)
  PROVE  Shapes' /\ (refused => refused') /\ (differs => differs')
<1> DEFINE ok == Removable(o, recDev)
<1>0. RecShape /\ DevShape /\ TableTypes /\ Flags BY DEF Shapes
<1>1. /\ phase = "run" /\ expect = "any" /\ o \in Removals
      /\ Recorded(recDev \ {o}, recNext, ok)
      /\ GoOn \/ Stops
      /\ Deviates
      /\ UNCHANGED <<vidNext, registry, oids, status, replays>>
      /\ rec2vid' = IF HasOid(o) /\ o.id \in DOMAIN rec2vid
                      THEN Restrict(rec2vid, DOMAIN rec2vid \ {o.id}) ELSE rec2vid
      /\ dev' \subseteq dev
  BY RemoveOutcomes
<1>2. /\ Flags' /\ Starting' /\ phase' \in {"run", "idle"}
      /\ (refused => refused') /\ (differs => differs')
  <2>1. expect' \in {"any", "G", "E"} BY <1>1 DEF Recorded
  <2>2. status' \in {"none", "ok", "refused", "other"} BY <1>0, <1>1 DEF Flags
  <2> QED BY <1>0, <1>1, <2>1, <2>2, FlagsKept
<1>3. RecShape'
  <2>1. ok \in BOOLEAN BY DEF Removable
  <2>2. ok => \A w \in {o} : Removable(w, recDev) OBVIOUS
  <2>3. {o} \in SUBSET Removals BY <1>1
  <2> HIDE DEF ok
  <2> QED BY <1>0, <1>1, <2>1, <2>2, <2>3, RecRemove DEF ok
<1>4. DevShape'
  <2>1. vidNext' \in Nat /\ vidNext <= vidNext' BY <1>0, <1>1 DEF DevShape
  <2> QED BY <1>0, <1>1, <2>1, DevRemove
<1>5. TableTypes'
  <2>1. rec2vid' \in [DOMAIN rec2vid' -> Nat] BY <1>0, <1>1, MapCut DEF TableTypes
  <2>2. oids' = oids /\ answer' = answer /\ oids = <<>>
    BY <1>0, <1>1 DEF Recorded, TableTypes
  <2> QED BY <1>0, <1>1, <2>1, <2>2 DEF TableTypes
<1> QED BY <1>2, <1>3, <1>4, <1>5 DEF Shapes

(* The set, single and bulk.                                               *)
LEMMA SetShapes ==
  ASSUME Shapes, NEW o \in recDev, NEW r \in Targets(o.type), NEW bulk \in BOOLEAN,
         NEW ok \in BOOLEAN, SetAttribute(o, r, bulk, ok)
  PROVE  Shapes' /\ (refused => refused') /\ (differs => differs')
<1> DEFINE missing == Unmapped({r}, bulk) \cup Unmapped({o.id}, FALSE)
           v == rec2vid[o.id]
           found == Named({<<o.type, v>>})
           ref == Mapped(r, bulk)
<1>0. RecShape /\ DevShape /\ TableTypes /\ Flags BY DEF Shapes
<1>1. /\ phase = "run" /\ expect = "any"
      /\ o.type \in {"MEMBER", "ROUTE"} /\ o.id \in learned
      /\ Recorded((recDev \ {o}) \cup {Object(o.type, o.id, r)}, recNext, ok)
      /\ GoOn \/ Stops
      /\ Deviates
      /\ UNCHANGED <<vidNext, rec2vid, registry, oids, status, replays>>
      /\ \/ /\ missing = {}
            /\ dev' = Redirected(found, ref)
         \/ dev' = dev
  BY SetOutcomes, ZenonT(100)
<1>2. /\ Flags' /\ Starting' /\ phase' \in {"run", "idle"}
      /\ (refused => refused') /\ (differs => differs')
  <2>1. expect' \in {"any", "G", "E"} BY <1>1 DEF Recorded
  <2>2. status' \in {"none", "ok", "refused", "other"} BY <1>0, <1>1 DEF Flags
  <2> QED BY <1>0, <1>1, <2>1, <2>2, FlagsKept
<1>3. RecShape' BY <1>0, <1>1, RecSet
<1>4. DevShape'
  <2>1. CASE dev' = dev
    <3>1. dev' \subseteq dev /\ vidNext' \in Nat /\ vidNext <= vidNext'
      BY <1>0, <1>1, <2>1 DEF DevShape
    <3> QED BY <1>0, <3>1, DevRemove
  <2>2. CASE /\ missing = {}
             /\ dev' = Redirected(found, ref)
    <3>1. ref \in Nat
      <4>1. r \in DOMAIN rec2vid \/ (bulk /\ r = Null) BY <2>2 DEF Unmapped
      <4>2. \A n \in DOMAIN rec2vid : rec2vid[n] \in Nat BY <1>0 DEF TableTypes
      <4> QED BY <4>1, <4>2 DEF Mapped, Null
    <3>2. \A x \in Nat : dev' = Redirected(found, x) => DevShape'
      <4> HIDE DEF v
      <4> QED BY <1>0, <1>1, DevSet DEF Redirected
    <3> QED BY <2>2, <3>1, <3>2
  <2> QED BY <1>1, <2>1, <2>2
<1>5. TableTypes'
  <2>1. oids' = oids /\ answer' = answer /\ oids = <<>>
    BY <1>0, <1>1 DEF Recorded, TableTypes
  <2> QED BY <1>0, <1>1, <2>1 DEF TableTypes
<1> QED BY <1>2, <1>3, <1>4, <1>5 DEF Shapes

(* The bulk remove.                                                        *)
LEMMA BulkRemoveShapes ==
  ASSUME Shapes, NEW S, BulkRemove(S)
  PROVE  Shapes' /\ (refused => refused') /\ (differs => differs')
<1> DEFINE cut == {o.id : o \in {p \in S : HasOid(p)}}
           less == Restrict(rec2vid, DOMAIN rec2vid \ cut)
<1>0. RecShape /\ DevShape /\ TableTypes /\ Flags BY DEF Shapes
<1>1. /\ phase = "run" /\ expect = "any"
      /\ S \subseteq Removals /\ \A o \in S : Removable(o, recDev)
      /\ Recorded(recDev \ S, recNext, TRUE)
      /\ GoOn \/ Stops
      /\ Deviates
      /\ UNCHANGED <<vidNext, oids, status, replays>>
      /\ dev' \subseteq dev /\ rec2vid' \in {rec2vid, less}
      /\ registry' = registry \/ \E gone : registry' = Restrict(registry, DOMAIN registry \ gone)
  BY BulkRemoveOutcomes
<1> HIDE DEF cut
<1>2. /\ Flags' /\ Starting' /\ phase' \in {"run", "idle"}
      /\ (refused => refused') /\ (differs => differs')
  <2>1. expect' \in {"any", "G", "E"} BY <1>1 DEF Recorded
  <2>2. status' \in {"none", "ok", "refused", "other"} BY <1>0, <1>1 DEF Flags
  <2> QED BY <1>0, <1>1, <2>1, <2>2, FlagsKept
<1>3. RecShape' BY <1>0, <1>1, RecRemove
<1>4. DevShape'
  <2>1. vidNext' \in Nat /\ vidNext <= vidNext' BY <1>0, <1>1 DEF DevShape
  <2> QED BY <1>0, <1>1, <2>1, DevRemove
<1>5. TableTypes'
  <2>1. rec2vid' \in [DOMAIN rec2vid' -> Nat]
    <3>1. less \in [DOMAIN less -> Nat] BY <1>0, MapCut
    <3>2. rec2vid' = rec2vid \/ rec2vid' = less BY <1>1
    <3> HIDE DEF less
    <3> QED BY <1>0, <3>1, <3>2 DEF TableTypes
  <2>2. Aliases(registry')
    <3>1. Aliases(registry) BY <1>0 DEF TableTypes, Aliases
    <3>2. ASSUME NEW gone, registry' = Restrict(registry, DOMAIN registry \ gone)
          PROVE  Aliases(registry')
      BY <3>1, <3>2 DEF Restrict, Aliases
    <3> QED BY <1>1, <3>1, <3>2
  <2>3. oids' = oids /\ answer' = answer /\ oids = <<>>
    BY <1>0, <1>1 DEF Recorded, TableTypes
  <2> QED BY <1>0, <2>1, <2>2, <2>3 DEF TableTypes, Aliases
<1> QED BY <1>2, <1>3, <1>4, <1>5 DEF Shapes

(* A batch is one fresh object, or two that are not routes.                *)
Batches ==
  {<<o>> : o \in UNION {Fresh(t, recNext) : t \in OwnTypes}}
  \cup UNION {{<<o, p>> : o \in Fresh(t, recNext), p \in Fresh(t, recNext + 1)} : t \in OwnTypes \ {"ROUTE"}}

FreshObject(o, n) ==
  /\ o \in Objects /\ o.type \in OwnTypes /\ o.ref \in Targets(o.type)
  /\ HasOid(o) => o.id = n
  /\ ~HasOid(o) => /\ o.id = RecBase + 2 /\ o.id \in learned
                   /\ \A p \in recDev : p.type # "ROUTE"

(* A bulk create is of one or two objects, with consecutive OIDs.          *)
LEMMA BatchesAre ==
  ASSUME RecShape, NEW batch \in Batches
  PROVE  /\ DOMAIN batch = 1..Len(batch) /\ Len(batch) \in {1, 2}
         /\ \A i \in 1..Len(batch) : FreshObject(batch[i], recNext + i - 1)
         /\ Len(batch) = 2 => HasOid(batch[1]) /\ HasOid(batch[2])
         /\ Range(batch) = {batch[i] : i \in 1..Len(batch)} /\ batch = [i \in 1..Len(batch) |-> batch[i]]
<1>0. recNext \in Nat BY DEF RecShape
<1>1. ASSUME NEW n \in Nat, recNext <= n, NEW t \in OwnTypes, NEW o \in Fresh(t, n)
      PROVE  FreshObject(o, n) /\ o.type = t
  <2>1. /\ o \in Objects /\ o.type = t /\ o.ref \in Targets(t)
        /\ t # "ROUTE" => HasOid(o) /\ o.id = n
        /\ t = "ROUTE" => /\ ~HasOid(o) /\ o.id = RecBase + 2 /\ o.id \in learned
                          /\ \A p \in recDev : p.type # "ROUTE"
    BY <1>1, FreshAre
  <2> QED BY <1>1, <2>1 DEF FreshObject
<1>2. ASSUME NEW t \in OwnTypes, NEW o \in Fresh(t, recNext), batch = <<o>>
      PROVE  /\ DOMAIN batch = 1..Len(batch) /\ Len(batch) = 1
             /\ \A i \in 1..Len(batch) : FreshObject(batch[i], recNext + i - 1)
             /\ batch = [i \in 1..Len(batch) |-> batch[i]]
  <2>1. FreshObject(o, recNext) BY <1>0, <1>1
  <2>2. Len(batch) = 1 /\ batch[1] = o /\ DOMAIN batch = 1..1 BY <1>2
  <2>3. \A i \in 1..1 : i = 1 /\ recNext + i - 1 = recNext BY <1>0
  <2>4. batch = [i \in 1..Len(batch) |-> batch[i]] BY <1>2
  <2> QED BY <2>1, <2>2, <2>3, <2>4
<1>3. ASSUME NEW t \in OwnTypes \ {"ROUTE"}, NEW o \in Fresh(t, recNext),
             NEW p \in Fresh(t, recNext + 1), batch = <<o, p>>
      PROVE  /\ DOMAIN batch = 1..Len(batch) /\ Len(batch) = 2
             /\ \A i \in 1..Len(batch) : FreshObject(batch[i], recNext + i - 1)
             /\ HasOid(batch[1]) /\ HasOid(batch[2])
             /\ batch = [i \in 1..Len(batch) |-> batch[i]]
  <2>1. FreshObject(o, recNext) /\ o.type = t BY <1>0, <1>1
  <2>2. FreshObject(p, recNext + 1) /\ p.type = t BY <1>0, <1>1
  <2>3. Len(batch) = 2 /\ batch[1] = o /\ batch[2] = p /\ DOMAIN batch = 1..2 BY <1>3
  <2>4. \A i \in 1..2 : \/ i = 1 /\ recNext + i - 1 = recNext
                        \/ i = 2 /\ recNext + i - 1 = recNext + 1
    BY <1>0
  <2>5. HasOid(o) /\ HasOid(p) BY <2>1, <2>2 DEF HasOid
  <2>6. \A i \in 1..2 : FreshObject(batch[i], recNext + i - 1) BY <2>1, <2>2, <2>3, <2>4
  <2>7. batch = [i \in 1..Len(batch) |-> batch[i]] BY <1>3
  <2> QED BY <2>3, <2>5, <2>6, <2>7
<1>4. \/ \E t \in OwnTypes : \E o \in Fresh(t, recNext) : batch = <<o>>
      \/ \E t \in OwnTypes \ {"ROUTE"} : \E o \in Fresh(t, recNext), p \in Fresh(t, recNext + 1) :
           batch = <<o, p>>
  BY DEF Batches
<1>5. DOMAIN batch = 1..Len(batch) => Range(batch) = {batch[i] : i \in 1..Len(batch)} BY DEF Range
<1> QED BY <1>2, <1>3, <1>4, <1>5

(* As many OIDs are used up as there are objects with an OID.              *)
LEMMA BatchCount ==
  ASSUME RecShape, NEW batch \in Batches
  PROVE
    LET k == Cardinality(FreshIds(batch))
    IN
    /\ Cardinality({i \in DOMAIN batch : HasOid(batch[i])}) = k
    /\ \/ k = 0 /\ Len(batch) = 1 /\ ~HasOid(batch[1]) /\ FreshIds(batch) = {}
       \/ /\ k \in {1, 2} /\ k = Len(batch) /\ \A i \in 1..k : HasOid(batch[i])
          /\ FreshIds(batch) = recNext..(recNext + k - 1)
<1> DEFINE having == {i \in DOMAIN batch : HasOid(batch[i])}
           ids == FreshIds(batch)
<1>0. recNext \in Nat BY DEF RecShape
<1>1. /\ DOMAIN batch = 1..Len(batch) /\ Len(batch) \in {1, 2}
      /\ \A i \in 1..Len(batch) : FreshObject(batch[i], recNext + i - 1)
      /\ Len(batch) = 2 => HasOid(batch[1]) /\ HasOid(batch[2])
      /\ Range(batch) = {batch[i] : i \in 1..Len(batch)}
  BY BatchesAre
<1>2. \A n : n \in ids <=> \E i \in 1..Len(batch) : HasOid(batch[i]) /\ n = batch[i].id
  BY <1>1 DEF FreshIds
<1>3. CASE Len(batch) = 1 /\ ~HasOid(batch[1])
  <2>1. having = {} BY <1>1, <1>3
  <2>2. ids = {} BY <1>2, <1>3
  <2>3. Cardinality(having) = 0 /\ Cardinality(ids) = 0 BY <2>1, <2>2, FS_EmptySet
  <2> QED BY <1>3, <2>2, <2>3
<1>4. CASE Len(batch) \in {1, 2} /\ \A i \in 1..Len(batch) : HasOid(batch[i])
  <2>1. having = 1..Len(batch) BY <1>1, <1>4
  <2>2. \A i \in 1..Len(batch) : batch[i].id = recNext + i - 1 BY <1>1, <1>4 DEF FreshObject
  <2>3. ids = recNext..(recNext + Len(batch) - 1)
    <3>1. \A n : n \in ids <=> \E i \in 1..Len(batch) : n = recNext + i - 1 BY <1>2, <1>4, <2>2
    <3>2. \A n : (\E i \in 1..Len(batch) : n = recNext + i - 1)
                   <=> n \in recNext..(recNext + Len(batch) - 1)
      <4>1. ASSUME NEW n \in recNext..(recNext + Len(batch) - 1)
            PROVE  \E i \in 1..Len(batch) : n = recNext + i - 1
        <5>1. n - recNext + 1 \in 1..Len(batch) /\ n = recNext + (n - recNext + 1) - 1
          BY <1>0, <1>4, <4>1
        <5> QED BY <5>1
      <4>2. ASSUME NEW i \in 1..Len(batch)
            PROVE  recNext + i - 1 \in recNext..(recNext + Len(batch) - 1)
        BY <1>0, <1>4
      <4> QED BY <4>1, <4>2
    <3> HIDE DEF ids
    <3> QED BY <3>1, <3>2
  <2>4. Cardinality(having) = Len(batch)
    <3>0. Len(batch) \in Int /\ 1 <= Len(batch) BY <1>4
    <3>1. \A b \in Int : Cardinality(1..b) = IF 1 > b THEN 0 ELSE b - 1 + 1 BY FS_Interval
    <3>2. Cardinality(1..Len(batch)) = Len(batch) BY <3>0, <3>1
    <3> QED BY <2>1, <3>2
  <2>5. Cardinality(ids) = Len(batch)
    <3>0. recNext \in Int /\ recNext + Len(batch) - 1 \in Int /\ Len(batch) \in 1..2
      BY <1>0, <1>4
    <3>1. \A a, b \in Int : Cardinality(a..b) = IF a > b THEN 0 ELSE b - a + 1 BY FS_Interval
    <3> DEFINE last == recNext + Len(batch) - 1
    <3>2. Cardinality(recNext..last) = IF recNext > last THEN 0 ELSE last - recNext + 1
      BY <3>0, <3>1
    <3>3. ~(recNext > last) /\ last - recNext + 1 = Len(batch) BY <3>0
    <3> QED BY <2>3, <3>2, <3>3
  <2> QED BY <1>4, <2>3, <2>4, <2>5
<1>5. Len(batch) = 1 \/ (Len(batch) = 2 /\ \A i \in 1..2 : HasOid(batch[i])) BY <1>1
<1>6. \A i \in 1..1 : i = 1 OBVIOUS
<1> QED BY <1>3, <1>4, <1>5, <1>6

(* The objects that a bulk create asks for have consecutive ids and refer  *)
(* to what is there.                                                       *)
LEMMA NewShape ==
  ASSUME RecShape, DevShape, TableTypes, NEW batch \in Batches, MissingOf(batch) = {}
  PROVE
    LET new == NewOf(batch)
    IN
    /\ DOMAIN new = 1..Len(batch) /\ Len(new) = Len(batch)
    /\ \A i \in 1..Len(batch) :
         /\ new[i] = Translated(batch[i], vidNext + i - 1, TRUE)
         /\ new[i].type = batch[i].type /\ (HasOid(new[i]) <=> HasOid(batch[i]))
         /\ HasOid(batch[i]) => new[i].id = vidNext + i - 1
         /\ Valid(new[i]) => new[i] \in Objects
         /\ ~HasOid(batch[i]) /\ Valid(new[i]) => \A p \in dev : NameOf(p) # NameOf(new[i])
<1> DEFINE new == NewOf(batch)
<1>1. /\ DOMAIN batch = 1..Len(batch) /\ Len(batch) \in {1, 2}
      /\ \A i \in 1..Len(batch) : FreshObject(batch[i], recNext + i - 1)
      /\ Range(batch) = {batch[i] : i \in 1..Len(batch)}
  BY BatchesAre
<1>2. new = [i \in 1..Len(batch) |-> Translated(batch[i], vidNext + i - 1, TRUE)]
  BY <1>1 DEF NewOf
<1>3. DOMAIN new = 1..Len(batch) /\ Len(new) = Len(batch)
  <2>1. Len(batch) \in Nat BY <1>1
  <2>2. \A L \in Nat : \A f : f = [i \in 1..L |-> f[i]] => Len(f) = L OBVIOUS
  <2> HIDE DEF new
  <2> QED BY <1>2, <2>1, <2>2
<1>4. ASSUME NEW i \in 1..Len(batch)
      PROVE  /\ new[i] = Translated(batch[i], vidNext + i - 1, TRUE)
             /\ new[i].type = batch[i].type /\ (HasOid(new[i]) <=> HasOid(batch[i]))
             /\ HasOid(batch[i]) => new[i].id = vidNext + i - 1
             /\ Valid(new[i]) => new[i] \in Objects
             /\ ~HasOid(batch[i]) /\ Valid(new[i]) => \A p \in dev : NameOf(p) # NameOf(new[i])
  <2> DEFINE o == batch[i]
             vid == vidNext + i - 1
  <2>1. new[i] = Translated(o, vid, TRUE) BY <1>2
  <2>2. o \in Objects /\ o.type \in OwnTypes BY <1>1 DEF FreshObject
  <2>3. Unmapped({o.ref} \cup KeyOids(o), TRUE) = {}
    <3>1. o \in Range(batch) BY <1>1
    <3>2. \A w \in Range(batch) : Unmapped({w.ref} \cup KeyOids(w), TRUE) \subseteq MissingOf(batch)
      BY DEF MissingOf
    <3> QED BY <3>1, <3>2
  <2>4. vid \in Nat /\ vidNext <= vid /\ TRUE \in BOOLEAN BY <1>1 DEF DevShape
  <2> HIDE DEF new, o, vid
  <2>5. LET x == Translated(o, vid, TRUE)
        IN  /\ x.type = o.type /\ (HasOid(x) <=> HasOid(o))
            /\ HasOid(o) => x.id = vid /\ x \in Objects
            /\ Valid(x) => x \in Objects
            /\ ~HasOid(o) /\ Valid(x) => \A p \in dev : NameOf(p) # NameOf(x)
    BY <2>2, <2>3, <2>4, TranslatedShape
  <2>6. /\ new[i].type = o.type /\ (HasOid(new[i]) <=> HasOid(o))
        /\ HasOid(o) => new[i].id = vid
        /\ Valid(new[i]) => new[i] \in Objects
        /\ ~HasOid(o) /\ Valid(new[i]) => \A p \in dev : NameOf(p) # NameOf(new[i])
    BY <2>1, <2>5
  <2> QED BY <2>1, <2>6 DEF o, vid
<1> QED BY <1>3, <1>4

(* Those of them that the device makes keep it well formed.                *)
LEMMA BulkDevShape ==
  ASSUME RecShape, DevShape, TableTypes, NEW batch \in Batches, MissingOf(batch) = {},
         vidNext' = vidNext + Cardinality(FreshIds(batch)),
         NEW T \in SUBSET {i \in DOMAIN NewOf(batch) : Valid(NewOf(batch)[i])},
         dev' = dev \cup MadeOf(batch, T)
  PROVE  DevShape'
<1> DEFINE new == NewOf(batch)
           k == Cardinality(FreshIds(batch))
           S == {new[i] : i \in T}
<1>1. /\ DOMAIN new = 1..Len(batch)
      /\ \A i \in 1..Len(batch) :
           /\ new[i].type = batch[i].type /\ (HasOid(new[i]) <=> HasOid(batch[i]))
           /\ HasOid(batch[i]) => new[i].id = vidNext + i - 1
           /\ Valid(new[i]) => new[i] \in Objects
           /\ ~HasOid(batch[i]) /\ Valid(new[i]) => \A p \in dev : NameOf(p) # NameOf(new[i])
  BY NewShape
<1>2. \/ k = 0 /\ Len(batch) = 1 /\ ~HasOid(batch[1])
      \/ k \in {1, 2} /\ k = Len(batch) /\ \A i \in 1..k : HasOid(batch[i])
  BY BatchCount
<1>3. \A i \in 1..Len(batch) : batch[i].type \in OwnTypes BY BatchesAre DEF FreshObject
<1>4. vidNext \in Nat BY DEF DevShape
<1>5. \A i \in T : i \in 1..Len(batch) /\ Valid(new[i]) BY <1>1
<1>6. \A x \in S : \E i \in T : x = new[i] OBVIOUS
<1> HIDE DEF new, k, S
<1>7. vidNext' \in Nat /\ vidNext <= vidNext' /\ vidNext' = vidNext + k /\ k \in Nat
  BY <1>2, <1>4 DEF k
<1>8. \A x \in S : \/ x.type \in {"RIF", "MEMBER"} /\ vidNext <= x.id /\ x.id < vidNext'
                   \/ x.type = "ROUTE" /\ \A p \in dev : NameOf(p) # NameOf(x)
  <2>1. ASSUME NEW i \in T
        PROVE  \/ new[i].type \in {"RIF", "MEMBER"} /\ vidNext <= new[i].id /\ new[i].id < vidNext'
               \/ new[i].type = "ROUTE" /\ \A p \in dev : NameOf(p) # NameOf(new[i])
    <3>1. CASE ~HasOid(batch[i])
      <4>1. new[i].type = "ROUTE" BY <1>1, <1>5, <3>1 DEF HasOid
      <4> QED BY <1>1, <1>5, <3>1, <4>1
    <3>2. CASE HasOid(batch[i])
      <4>1. k = Len(batch) /\ i \in 1..k BY <1>2, <1>5, <3>2
      <4>2. new[i].id = vidNext + i - 1 BY <1>1, <1>5, <3>2
      <4>3. new[i].type \in {"RIF", "MEMBER"} BY <1>1, <1>3, <1>5, <3>2 DEF OwnTypes, HasOid
      <4> QED BY <1>4, <1>7, <4>1, <4>2, <4>3
    <3> QED BY <3>1, <3>2
  <2> QED BY <1>6, <2>1
<1>9. S \subseteq Objects BY <1>1, <1>5, <1>6
<1>10. Distinct(S)
  <2>1. ASSUME NEW i \in T, NEW j \in T, new[i].id = new[j].id, HasOid(new[i]) <=> HasOid(new[j])
        PROVE  i = j
    <3>1. CASE k = 0
      <4>1. Len(batch) = 1 BY <1>2, <3>1
      <4>2. \A x \in 1..1 : x = 1 OBVIOUS
      <4> QED BY <1>5, <2>1, <4>1, <4>2
    <3>2. CASE k # 0
      <4>1. \A x \in 1..Len(batch) : HasOid(batch[x]) /\ new[x].id = vidNext + x - 1
        BY <1>1, <1>2, <3>2
      <4>2. vidNext + i - 1 = vidNext + j - 1 BY <1>5, <2>1, <4>1
      <4> QED BY <1>4, <1>5, <4>2
    <3> QED BY <3>1, <3>2
  <2> QED BY <1>6, <2>1 DEF Distinct
<1>11. dev' = dev \cup S BY DEF S, new, MadeOf
<1> QED BY <1>7, <1>8, <1>9, <1>10, <1>11, DevAdd

(* And so does the whole batch on the recorded device.                     *)
LEMMA BulkRecShape ==
  ASSUME RecShape, NEW batch \in Batches, phase' = "run" => phase = "run",
         Recorded(recDev \cup Range(batch),
                  recNext + Cardinality({i \in DOMAIN batch : HasOid(batch[i])}), TRUE)
  PROVE  RecShape'
<1> DEFINE k == Cardinality({i \in DOMAIN batch : HasOid(batch[i])})
           n == recNext + k
           S == Range(batch)
<1>1. /\ Len(batch) \in {1, 2}
      /\ \A i \in 1..Len(batch) : FreshObject(batch[i], recNext + i - 1)
      /\ \A o \in S : \E i \in 1..Len(batch) : o = batch[i]
      /\ S = {batch[i] : i \in 1..Len(batch)}
  BY BatchesAre
<1>2. \/ k = 0 /\ Len(batch) = 1 /\ ~HasOid(batch[1])
      \/ k \in {1, 2} /\ k = Len(batch) /\ \A i \in 1..k : HasOid(batch[i])
  BY BatchCount
<1>3. Recorded(recDev \cup S, n, TRUE) OBVIOUS
<1>4. recNext \in Nat BY DEF RecShape
<1> HIDE DEF k, S
<1>5. n \in Nat /\ recNext <= n BY <1>2, <1>4
<1>6. \A o \in S : \/ o.type \in {"RIF", "MEMBER"} /\ recNext <= o.id /\ o.id < n
                   \/ /\ o.type = "ROUTE" /\ o.id = RecBase + 2 /\ o.id \in learned
                      /\ \A p \in recDev : p.type # "ROUTE"
  <2>1. ASSUME NEW i \in 1..Len(batch), NEW o, o = batch[i]
        PROVE  \/ o.type \in {"RIF", "MEMBER"} /\ recNext <= o.id /\ o.id < n
               \/ /\ o.type = "ROUTE" /\ o.id = RecBase + 2 /\ o.id \in learned
                  /\ \A p \in recDev : p.type # "ROUTE"
    <3>1. FreshObject(o, recNext + i - 1) BY <1>1, <2>1
    <3>2. CASE ~HasOid(o) BY <3>1, <3>2 DEF FreshObject, HasOid
    <3>3. CASE HasOid(o)
      <4>1. i \in 1..k BY <1>2, <2>1, <3>3
      <4>2. o.id = recNext + i - 1 /\ o.type \in {"RIF", "MEMBER"}
        BY <3>1, <3>3 DEF FreshObject, HasOid, OwnTypes
      <4> QED BY <1>2, <1>4, <4>1, <4>2
    <3> QED BY <3>2, <3>3
  <2> QED BY <1>1, <2>1
<1>7. S \subseteq Objects /\ \A o \in S : o.ref \in Targets(o.type) BY <1>1 DEF FreshObject
<1>8. Distinct(S)
  <2>1. ASSUME NEW i \in 1..Len(batch), NEW j \in 1..Len(batch), batch[i].id = batch[j].id
        PROVE  i = j
    <3>1. CASE k = 0
      <4>1. Len(batch) = 1 BY <1>2, <3>1
      <4>2. \A x \in 1..1 : x = 1 OBVIOUS
      <4> QED BY <2>1, <4>1, <4>2
    <3>2. CASE k # 0
      <4>1. batch[i].id = recNext + i - 1 /\ batch[j].id = recNext + j - 1
        BY <1>1, <1>2, <2>1, <3>2 DEF FreshObject
      <4>2. i \in Int /\ j \in Int BY <1>1, <2>1
      <4>3. recNext + i - 1 = recNext + j - 1 BY <2>1, <4>1
      <4> QED BY <1>4, <4>2, <4>3
    <3> QED BY <3>1, <3>2
  <2> QED BY <1>1, <2>1 DEF Distinct
<1>9. IsFiniteSet(S)
  <2>1. Len(batch) = 1 => S = {batch[1]}
    <3>1. \A i \in 1..1 : i = 1 OBVIOUS
    <3> QED BY <1>1, <3>1
  <2>2. Len(batch) = 2 => S = {batch[1]} \cup {batch[2]}
    <3>1. \A i : i \in 1..2 <=> i = 1 \/ i = 2 OBVIOUS
    <3> QED BY <1>1, <3>1
  <2>3. IsFiniteSet({batch[1]}) BY FS_Singleton
  <2>4. IsFiniteSet({batch[1]} \cup {batch[2]}) BY <2>3, FS_AddElement
  <2> QED BY <1>1, <2>1, <2>2, <2>3, <2>4
<1> HIDE DEF n
<1> QED BY <1>3, <1>5, <1>6, <1>7, <1>8, <1>9, RecAdd

(* The bulk create.                                                        *)
LEMMA BulkCreateShapes ==
  ASSUME Shapes, NEW batch \in Batches, BulkCreate(batch)
  PROVE  Shapes' /\ (refused => refused') /\ (differs => differs')
<1> DEFINE new == NewOf(batch)
           alias == BatchAlias(batch)
           fresh == FreshIds(batch)
           next == recNext + Cardinality({i \in DOMAIN batch : HasOid(batch[i])})
           vids == VidsOf(batch)
<1>0. RecShape /\ DevShape /\ TableTypes /\ Flags BY DEF Shapes
<1>1. /\ phase = "run" /\ expect = "any"
      /\ Recorded(recDev \cup Range(batch), next, TRUE)
      /\ GoOn \/ Stops
      /\ Deviates
      /\ UNCHANGED <<oids, status, replays>>
      /\ \/ /\ MissingOf(batch) = {} /\ \A i \in DOMAIN new : Valid(new[i])
            /\ dev' = dev \cup Range(new)
            /\ vidNext' = vidNext + Cardinality(fresh)
            /\ rec2vid' = rec2vid ++ vids
            /\ registry' = (registry ++ alias[1]) ++ alias[Len(new)]
         \/ /\ UNCHANGED <<rec2vid, registry>>
            /\ \/ UNCHANGED <<dev, vidNext>>
               \/ /\ MissingOf(batch) = {} /\ vidNext' = vidNext + Cardinality(fresh)
                  /\ \E S \in SUBSET {i \in DOMAIN new : Valid(new[i])} :
                       dev' = dev \cup MadeOf(batch, S)
  BY BulkCreateOutcomes
<1> HIDE DEF alias, vids, next, fresh
<1>2. /\ Flags' /\ Starting' /\ phase' \in {"run", "idle"}
      /\ (refused => refused') /\ (differs => differs')
  <2>1. expect' \in {"any", "G", "E"} BY <1>1 DEF Recorded
  <2>2. status' \in {"none", "ok", "refused", "other"} BY <1>0, <1>1 DEF Flags
  <2> QED BY <1>0, <1>1, <2>1, <2>2, FlagsKept
<1>3. RecShape' BY <1>0, <1>1, BulkRecShape DEF next
<1>4. oids' = oids /\ answer' = answer /\ oids = <<>> BY <1>0, <1>1 DEF Recorded, TableTypes
<1>5. CASE UNCHANGED <<dev, vidNext, rec2vid, registry>>
  <2>1. dev' \subseteq dev /\ vidNext' \in Nat /\ vidNext <= vidNext' BY <1>0, <1>5 DEF DevShape
  <2>2. DevShape' BY <1>0, <2>1, DevRemove
  <2>3. TableTypes' BY <1>0, <1>4, <1>5 DEF TableTypes
  <2> QED BY <1>2, <1>3, <2>2, <2>3 DEF Shapes
<1>6. ASSUME MissingOf(batch) = {}, vidNext' = vidNext + Cardinality(fresh),
             NEW S \in SUBSET {i \in DOMAIN new : Valid(new[i])}, dev' = dev \cup MadeOf(batch, S)
      PROVE  DevShape'
  BY <1>0, <1>6, BulkDevShape DEF fresh
<1>7. CASE /\ MissingOf(batch) = {} /\ \A i \in DOMAIN new : Valid(new[i])
           /\ dev' = dev \cup Range(new)
           /\ vidNext' = vidNext + Cardinality(fresh)
           /\ rec2vid' = rec2vid ++ vids
           /\ registry' = (registry ++ alias[1]) ++ alias[Len(new)]
  <2>1. DevShape'
    <3>1. DOMAIN new \in SUBSET {i \in DOMAIN new : Valid(new[i])} BY <1>7
    <3>2. Range(new) = {new[i] : i \in DOMAIN new} BY DEF Range
    <3>3. Range(new) = MadeOf(batch, DOMAIN new) BY <3>2 DEF MadeOf
    <3> HIDE DEF new
    <3> QED BY <1>6, <1>7, <3>1, <3>3
  <2>2. rec2vid' \in [DOMAIN rec2vid' -> Nat]
    <3>1. \A n \in fresh : n \in Nat /\ recNext <= n
      <4>0. recNext \in Nat BY <1>0 DEF RecShape
      <4>1. fresh = {} \/ \E k \in {1, 2} : fresh = recNext..(recNext + k - 1)
        BY <1>0, BatchCount DEF fresh
      <4> QED BY <4>0, <4>1
    <3>2. \A n \in DOMAIN vids : vids[n] \in Nat
      <4>1. recNext \in Nat /\ vidNext \in Nat BY <1>0 DEF RecShape, DevShape
      <4> QED BY <3>1, <4>1 DEF vids, VidsOf, fresh
    <3> QED BY <1>0, <1>7, <3>2, MapAdd
  <2>3. Aliases(registry')
    <3>1. DOMAIN new = 1..Len(batch) /\ Len(new) = Len(batch) /\ Len(batch) \in {1, 2}
      BY <1>0, <1>7, NewShape, BatchesAre
    <3>2. ASSUME NEW i \in DOMAIN new PROVE Aliases(alias[i])
      <4> DEFINE name == <<new[i].type, IF HasOid(new[i]) THEN Null ELSE new[i].id>>
      <4>1. Len(name) = 2 OBVIOUS
      <4>2. alias[i] = RecAlias(new[i], name) BY DEF alias, BatchAlias
      <4> HIDE DEF name, new
      <4> QED BY <1>0, <4>1, <4>2, RecAliasTypes
    <3> HIDE DEF new
    <3>3. Aliases(alias[1]) /\ Aliases(alias[Len(new)]) BY <3>1, <3>2
    <3>4. Aliases(registry) BY <1>0 DEF TableTypes, Aliases
    <3>5. Aliases(registry ++ alias[1]) BY <3>3, <3>4, AliasesAdd
    <3>6. Aliases((registry ++ alias[1]) ++ alias[Len(new)]) BY <3>3, <3>5, AliasesAdd
    <3> QED BY <1>7, <3>6
  <2>4. TableTypes' BY <1>0, <1>4, <2>2, <2>3 DEF TableTypes, Aliases
  <2> QED BY <1>2, <1>3, <2>1, <2>4 DEF Shapes
<1>8. CASE /\ UNCHANGED <<rec2vid, registry>>
           /\ MissingOf(batch) = {} /\ vidNext' = vidNext + Cardinality(fresh)
           /\ \E S \in SUBSET {i \in DOMAIN new : Valid(new[i])} :
                       dev' = dev \cup MadeOf(batch, S)
  <2>1. DevShape' BY <1>6, <1>8
  <2>2. TableTypes' BY <1>0, <1>4, <1>8 DEF TableTypes
  <2> QED BY <1>2, <1>3, <2>1, <2>2 DEF Shapes
<1> QED BY <1>1, <1>5, <1>7, <1>8

(* The list of at most two numbers, such as the ports of a switch, has     *)
(* what the set has.                                                       *)
LEMMA ListOf ==
  ASSUME NEW a \in Nat, NEW b \in Nat, a < b, NEW S \in SUBSET {a, b}
  PROVE  /\ InOrder(S) \in Seq(Nat)
         /\ \A i \in 1..Len(InOrder(S)) : InOrder(S)[i] \in S
         /\ \/ S = {} /\ InOrder(S) = <<>>
            \/ S = {a} /\ InOrder(S) = <<a>>
            \/ S = {b} /\ InOrder(S) = <<b>>
            \/ S = {a, b} /\ InOrder(S) = <<a, b>>
<1>1. S = {} \/ S = {a} \/ S = {b} \/ S = {a, b} OBVIOUS
<1>2. /\ InOrder({}) = <<>> /\ InOrder({a}) = <<a>> /\ InOrder({b}) = <<b>>
      /\ InOrder({a, b}) = <<a, b>>
  BY InOrderNone, InOrderOne, InOrderTwo
<1>3. CASE S = {}
  <2>1. <<>> \in Seq(Nat) /\ \A i \in 1..Len(<<>>) : FALSE OBVIOUS
  <2> QED BY <1>2, <1>3, <2>1
<1>4. ASSUME NEW c \in Nat, S = {c}, InOrder({c}) = <<c>>
      PROVE  InOrder(S) \in Seq(Nat) /\ \A i \in 1..Len(InOrder(S)) : InOrder(S)[i] \in S
  <2>1. <<c>> \in Seq(Nat) /\ \A i \in 1..Len(<<c>>) : <<c>>[i] = c OBVIOUS
  <2> QED BY <1>4, <2>1
<1>5. CASE S = {a, b}
  <2>1. <<a, b>> \in Seq(Nat) /\ Len(<<a, b>>) = 2 /\ <<a, b>>[1] = a /\ <<a, b>>[2] = b OBVIOUS
  <2>2. \A i \in 1..2 : i = 1 \/ i = 2 OBVIOUS
  <2> QED BY <1>2, <1>5, <2>1, <2>2
<1> QED BY <1>1, <1>2, <1>3, <1>4, <1>5

(* The objects that come with a switch, on both sides.                     *)
LEMMA ListsAre ==
  ASSUME RecShape, DevShape
  PROVE  /\ IdsOf("PORT", recDev) \in SUBSET {3, 4} /\ IdsOf("VR", recDev) \in SUBSET {2, 3}
         /\ IdsOf("PORT", dev) \in SUBSET {13, 14} /\ IdsOf("VR", dev) \in SUBSET {12, 13}
         /\ \A n \in IdsOf("PORT", recDev) \cup IdsOf("VR", recDev) : Bears(n)
<1>1. ASSUME NEW o \in recDev, o.type \in {"PORT", "VR"}
      PROVE  /\ o.type = "PORT" => o.id \in {3, 4}
             /\ o.type = "VR" => o.id \in {2, 3}
             /\ Bears(o.id)
  <2>1. o \in Implicit(RecBase) BY <1>1 DEF RecShape, OwnTypes
  <2>2. Bears(o.id) BY <1>1 DEF Bears, HasOid
  <2> QED BY <1>1, <2>1, <2>2, ImplicitAre DEF Object
<1>2. ASSUME NEW d \in dev, d.type \in {"PORT", "VR"}
      PROVE  /\ d.type = "PORT" => d.id \in {13, 14}
             /\ d.type = "VR" => d.id \in {12, 13}
  <2>1. d \in Implicit(VidBase) BY <1>2 DEF DevShape, OwnTypes
  <2> QED BY <1>2, <2>1, ImplicitAre DEF Object
<1>3. \A n \in IdsOf("PORT", recDev) : n \in {3, 4} /\ Bears(n) BY <1>1, IdsAre
<1>4. \A n \in IdsOf("VR", recDev) : n \in {2, 3} /\ Bears(n) BY <1>1, IdsAre
<1>5. \A n \in IdsOf("PORT", dev) : n \in {13, 14} BY <1>2, IdsAre
<1>6. \A n \in IdsOf("VR", dev) : n \in {12, 13} BY <1>2, IdsAre
<1> QED BY <1>3, <1>4, <1>5, <1>6

(* The device answers a get with a list of OIDs.                           *)
LEMMA RepliesAre ==
  ASSUME DevShape, NEW here \in Seq(Nat), NEW t, NEW reply \in Replies(here, t)
  PROVE  reply \in Seq(Nat)
<1>1. CASE \E n \in IdsOf(t, dev) : reply = <<n>>
  <2>1. PICK n \in IdsOf(t, dev) : reply = <<n>> BY <1>1
  <2>2. n \in Nat BY <2>1, IdsAre DEF DevShape, Objects
  <2> QED BY <2>1, <2>2
<1>2. CASE reply \in [DOMAIN here -> Range(here)]
  <2>1. DOMAIN here = 1..Len(here) /\ Len(here) \in Nat /\ \A i \in 1..Len(here) : here[i] \in Nat
    OBVIOUS
  <2>2. Range(here) \subseteq Nat BY <2>1 DEF Range
  <2>3. reply \in [1..Len(here) -> Nat] BY <1>2, <2>1, <2>2
  <2>4. Seq(Nat) = UNION {[1..n -> Nat] : n \in Nat} BY SeqDef
  <2> QED BY <2>1, <2>3, <2>4
<1> QED BY <1>1, <1>2 DEF Replies

(* The gets.                                                               *)
LEMMA GetShapes ==
  ASSUME Shapes, NEW id, NEW recorded \in Seq(Nat), NEW here, NEW t, Get(id, recorded, here, t),
         \A i \in 1..Len(recorded) : recorded[i] = Null \/ Bears(recorded[i]),
         id \in DOMAIN rec2vid /\ Exists(rec2vid[id]) => here \in Seq(Nat)
  PROVE  Shapes' /\ (refused => refused') /\ (differs => differs')
<1>0. RecShape /\ DevShape /\ TableTypes /\ Flags BY DEF Shapes
<1>1. /\ phase = "run" /\ expect = "any" /\ expect' = "G" /\ answer' = recorded
      /\ UNCHANGED <<recDev, learned, recNext, dev, vidNext, rec2vid, registry, replays>>
      /\ GoOn \/ Stops
      /\ Deviates
      /\ status' \in {status, "ok", "refused", "other"}
      /\ \/ /\ id \in DOMAIN rec2vid /\ Exists(rec2vid[id])
            /\ \E reply \in Replies(here, t) : oids' = oids \o reply
         \/ oids' = oids
  BY GetOutcomes
<1>2. /\ Flags' /\ Starting' /\ phase' \in {"run", "idle"}
      /\ (refused => refused') /\ (differs => differs')
  <2>1. expect' \in {"any", "G", "E"} BY <1>1
  <2>2. status' \in {"none", "ok", "refused", "other"} BY <1>0, <1>1 DEF Flags
  <2> QED BY <1>0, <1>1, <2>1, <2>2, FlagsKept
<1>3. RecShape'
  <2>1. \A i \in 1..Len(answer') : answer'[i] = Null \/ Bears(answer'[i]) BY <1>1
  <2> QED BY <1>0, <1>1, <2>1, RecFrame
<1>4. DevShape'
  <2>1. vidNext' \in Nat /\ vidNext <= vidNext' /\ dev' \subseteq dev BY <1>0, <1>1 DEF DevShape
  <2> QED BY <1>0, <2>1, DevRemove
<1>5. oids' \in Seq(Nat)
  <2>1. ASSUME NEW reply \in Replies(here, t), here \in Seq(Nat), oids' = oids \o reply
        PROVE  oids' \in Seq(Nat)
    <3>1. reply \in Seq(Nat) BY <1>0, <2>1, RepliesAre
    <3>2. oids \in Seq(Nat) BY <1>0 DEF TableTypes
    <3> QED BY <2>1, <3>1, <3>2
  <2> QED BY <1>0, <1>1, <2>1 DEF TableTypes
<1>6. TableTypes' BY <1>0, <1>1, <1>5 DEF TableTypes
<1> QED BY <1>2, <1>3, <1>4, <1>6 DEF Shapes

(* As long as gets are answered as they were in the recording, the objects *)
(* that came with the switch are listed in the same order on both sides.   *)
LEMMA PlacesAre ==
  ASSUME RecShape, DevShape, InPlace, 1 \in DOMAIN rec2vid
  PROVE  /\ \A n \in {3, 4} : n \in IdsOf("PORT", recDev) <=> n + 10 \in IdsOf("PORT", dev)
         /\ 2 \in IdsOf("VR", recDev) <=> 12 \in IdsOf("VR", dev)
         /\ 3 \notin IdsOf("VR", recDev) /\ 13 \notin IdsOf("VR", dev)
<1>1. ASSUME NEW t \in {"PORT", "VR"}, NEW n \in {2, 3, 4}
      PROVE  /\ n \in IdsOf(t, recDev) <=> Object(t, n, Null) \in recDev
             /\ n + 10 \in IdsOf(t, dev) <=> Object(t, n + 10, Null) \in dev
             /\ t = "VR" /\ n \in IdsOf(t, recDev) => n = 2
             /\ t = "VR" /\ n + 10 \in IdsOf(t, dev) => n = 2
  <2>1. ASSUME NEW o \in recDev, o.type = t, o.id = n PROVE o = Object(t, n, Null) /\ (t = "VR" => n = 2)
    <3>1. o \in Implicit(RecBase) BY <2>1 DEF RecShape, OwnTypes
    <3> QED BY <2>1, <3>1, ImplicitAre DEF Object
  <2>2. ASSUME NEW d \in dev, d.type = t, d.id = n + 10
        PROVE  d = Object(t, n + 10, Null) /\ (t = "VR" => n = 2)
    <3>1. d \in Implicit(VidBase) BY <2>2 DEF DevShape, OwnTypes
    <3> QED BY <2>2, <3>1, ImplicitAre DEF Object
  <2>3. Object(t, n, Null).type = t /\ Object(t, n, Null).id = n BY DEF Object
  <2>4. Object(t, n + 10, Null).type = t /\ Object(t, n + 10, Null).id = n + 10 BY DEF Object
  <2> QED BY <2>1, <2>2, <2>3, <2>4, IdsAre
<1>2. ASSUME NEW t, NEW n \in 2..4, Object(t, n, Null) \in Implicit(RecBase)
      PROVE  Object(t, n, Null) \in recDev <=> Object(t, n + 10, Null) \in dev
  <2>1. Twin(Object(t, n, Null)) = Object(t, n + 10, Null) BY DEF Twin, Object, VidBase
  <2> QED BY <1>2, <2>1 DEF InPlace
<1>3. /\ Object("PORT", 3, Null) \in Implicit(RecBase) /\ Object("PORT", 4, Null) \in Implicit(RecBase)
      /\ Object("VR", 2, Null) \in Implicit(RecBase)
  BY ImplicitAre
<1>4. \A n \in {3, 4} : n \in IdsOf("PORT", recDev) <=> n + 10 \in IdsOf("PORT", dev)
  BY <1>1, <1>2, <1>3
<1>5. 2 \in IdsOf("VR", recDev) <=> 12 \in IdsOf("VR", dev)
  <2>1. 2 + 10 = 12 OBVIOUS
  <2> QED BY <1>1, <1>2, <1>3, <2>1
<1>6. 3 \notin IdsOf("VR", recDev) /\ 13 \notin IdsOf("VR", dev)
  <2>1. 3 + 10 = 13 OBVIOUS
  <2> QED BY <1>1, <2>1
<1> QED BY <1>4, <1>5, <1>6

(* While the objects that came with the switch are in place, the lists of  *)
(* ports of both devices match position by position.                       *)
LEMMA ListsMatch ==
  ASSUME RecShape, DevShape, InPlace, 1 \in DOMAIN rec2vid, NEW t \in {"PORT", "VR"}
  PROVE  LET recorded == InOrder(IdsOf(t, recDev))
             here == InOrder(IdsOf(t, dev))
         IN  Len(here) = Len(recorded) /\ \A i \in 1..Len(recorded) : Matches(recorded[i], here[i])
<1>1. ASSUME NEW a \in 2..4, NEW b \in 2..4, a < b,
             NEW S \in SUBSET {a, b}, NEW N \in SUBSET {a + 10, b + 10},
             a \in S <=> a + 10 \in N, b \in S <=> b + 10 \in N
      PROVE  /\ Len(InOrder(N)) = Len(InOrder(S))
             /\ \A i \in 1..Len(InOrder(S)) : Matches(InOrder(S)[i], InOrder(N)[i])
  <2>1. \A n \in 2..4 : Matches(n, n + 10) BY DEF Matches, VidBase
  <2>2. /\ \/ S = {} /\ InOrder(S) = <<>>
           \/ S = {a} /\ InOrder(S) = <<a>>
           \/ S = {b} /\ InOrder(S) = <<b>>
           \/ S = {a, b} /\ InOrder(S) = <<a, b>>
    BY <1>1, ListOf
  <2>3. /\ \/ N = {} /\ InOrder(N) = <<>>
           \/ N = {a + 10} /\ InOrder(N) = <<a + 10>>
           \/ N = {b + 10} /\ InOrder(N) = <<b + 10>>
           \/ N = {a + 10, b + 10} /\ InOrder(N) = <<a + 10, b + 10>>
    <3>1. a + 10 \in Nat /\ b + 10 \in Nat /\ a + 10 < b + 10 BY <1>1
    <3> DEFINE c == a + 10
               d == b + 10
    <3>2. c \in Nat /\ d \in Nat /\ c < d /\ N \in SUBSET {c, d} BY <1>1, <3>1
    <3> HIDE DEF c, d
    <3>3. /\ \/ N = {} /\ InOrder(N) = <<>>
             \/ N = {c} /\ InOrder(N) = <<c>>
             \/ N = {d} /\ InOrder(N) = <<d>>
             \/ N = {c, d} /\ InOrder(N) = <<c, d>>
      BY <3>2, ListOf
    <3> QED BY <3>3 DEF c, d
  <2>4. a # b /\ a + 10 # b + 10 BY <1>1
  <2>5. \/ InOrder(S) = <<>> /\ InOrder(N) = <<>>
        \/ InOrder(S) = <<a>> /\ InOrder(N) = <<a + 10>>
        \/ InOrder(S) = <<b>> /\ InOrder(N) = <<b + 10>>
        \/ InOrder(S) = <<a, b>> /\ InOrder(N) = <<a + 10, b + 10>>
    BY <1>1, <2>2, <2>3, <2>4
  <2>6. ASSUME NEW x, NEW y, Matches(x, y)
        PROVE  Len(<<y>>) = Len(<<x>>) /\ \A i \in 1..Len(<<x>>) : Matches(<<x>>[i], <<y>>[i])
    <3>1. Len(<<x>>) = 1 /\ Len(<<y>>) = 1 /\ <<x>>[1] = x /\ <<y>>[1] = y OBVIOUS
    <3>2. \A i \in 1..1 : i = 1 OBVIOUS
    <3> QED BY <2>6, <3>1, <3>2
  <2>7. /\ Len(<<a + 10, b + 10>>) = Len(<<a, b>>)
        /\ \A i \in 1..Len(<<a, b>>) : Matches(<<a, b>>[i], <<a + 10, b + 10>>[i])
    <3>1. /\ Len(<<a, b>>) = 2 /\ Len(<<a + 10, b + 10>>) = 2
          /\ <<a, b>>[1] = a /\ <<a, b>>[2] = b
          /\ <<a + 10, b + 10>>[1] = a + 10 /\ <<a + 10, b + 10>>[2] = b + 10
      OBVIOUS
    <3>2. \A i \in 1..2 : i = 1 \/ i = 2 OBVIOUS
    <3> QED BY <1>1, <2>1, <3>1, <3>2
  <2>8. Len(<<>>) = 0 /\ \A i \in 1..0 : FALSE OBVIOUS
  <2> QED BY <1>1, <2>1, <2>5, <2>6, <2>7, <2>8
<1>2. CASE t = "PORT"
  <2>1. /\ IdsOf("PORT", recDev) \in SUBSET {3, 4} /\ IdsOf("PORT", dev) \in SUBSET {3 + 10, 4 + 10}
        /\ 3 \in IdsOf("PORT", recDev) <=> 3 + 10 \in IdsOf("PORT", dev)
        /\ 4 \in IdsOf("PORT", recDev) <=> 4 + 10 \in IdsOf("PORT", dev)
    BY ListsAre, PlacesAre
  <2>2. 3 \in 2..4 /\ 4 \in 2..4 /\ 3 < 4 OBVIOUS
  <2> DEFINE a == 3
             b == 4
             S == IdsOf("PORT", recDev)
             N == IdsOf("PORT", dev)
  <2>3. /\ a \in 2..4 /\ b \in 2..4 /\ a < b /\ S \in SUBSET {a, b} /\ N \in SUBSET {a + 10, b + 10}
        /\ (a \in S <=> a + 10 \in N) /\ (b \in S <=> b + 10 \in N)
    BY <2>1, <2>2
  <2> HIDE DEF a, b, S, N
  <2>4. /\ Len(InOrder(N)) = Len(InOrder(S))
        /\ \A i \in 1..Len(InOrder(S)) : Matches(InOrder(S)[i], InOrder(N)[i])
    BY <1>1, <2>3
  <2> QED BY <1>2, <2>4 DEF S, N
<1>3. CASE t = "VR"
  <2>1. /\ IdsOf("VR", recDev) \in SUBSET {2, 3} /\ IdsOf("VR", dev) \in SUBSET {2 + 10, 3 + 10}
        /\ 2 \in IdsOf("VR", recDev) <=> 2 + 10 \in IdsOf("VR", dev)
        /\ 3 \in IdsOf("VR", recDev) <=> 3 + 10 \in IdsOf("VR", dev)
    BY ListsAre, PlacesAre
  <2>2. 2 \in 2..4 /\ 3 \in 2..4 /\ 2 < 3 OBVIOUS
  <2> DEFINE a == 2
             b == 3
             S == IdsOf("VR", recDev)
             N == IdsOf("VR", dev)
  <2>3. /\ a \in 2..4 /\ b \in 2..4 /\ a < b /\ S \in SUBSET {a, b} /\ N \in SUBSET {a + 10, b + 10}
        /\ (a \in S <=> a + 10 \in N) /\ (b \in S <=> b + 10 \in N)
    BY <2>1, <2>2
  <2> HIDE DEF a, b, S, N
  <2>4. /\ Len(InOrder(N)) = Len(InOrder(S))
        /\ \A i \in 1..Len(InOrder(S)) : Matches(InOrder(S)[i], InOrder(N)[i])
    BY <1>1, <2>3
  <2> QED BY <1>3, <2>4 DEF S, N
<1> QED BY <1>2, <1>3

(* A get whose answer the device of the replay can match.                  *)
AsksFor(id, recorded, here) ==
  /\ id # Null /\ (Mirrored => id \in DOMAIN rec2vid)
  /\ Living /\ InPlace /\ id \in DOMAIN rec2vid =>
       Len(here) = Len(recorded) /\ \A i \in 1..Len(recorded) : Matches(recorded[i], here[i])

(* Each of the gets is about objects of both devices.                      *)
LEMMA GetsAre ==
  ASSUME RecShape, DevShape, GetPorts \/ GetRouter \/ GetMember
  PROVE  \E id, recorded, here, t :
           /\ Get(id, recorded, here, t) /\ recorded \in Seq(Nat)
           /\ \A i \in 1..Len(recorded) : recorded[i] = Null \/ Bears(recorded[i])
           /\ id \in DOMAIN rec2vid /\ Exists(rec2vid[id]) => here \in Seq(Nat)
           /\ AsksFor(id, recorded, here)
<1>1. ASSUME NEW t \in {"PORT", "VR"},
             Get(RecBase + 1, InOrder(IdsOf(t, recDev)), InOrder(IdsOf(t, dev)), t)
      PROVE  /\ InOrder(IdsOf(t, recDev)) \in Seq(Nat)
             /\ \A i \in 1..Len(InOrder(IdsOf(t, recDev))) : Bears(InOrder(IdsOf(t, recDev))[i])
             /\ InOrder(IdsOf(t, dev)) \in Seq(Nat)
             /\ AsksFor(RecBase + 1, InOrder(IdsOf(t, recDev)), InOrder(IdsOf(t, dev)))
  <2>1. \E a, b, c, d \in Nat : /\ a < b /\ IdsOf(t, recDev) \in SUBSET {a, b}
                                /\ c < d /\ IdsOf(t, dev) \in SUBSET {c, d}
    <3>1. CASE t = "PORT" BY <3>1, ListsAre
    <3>2. CASE t = "VR" BY <3>2, ListsAre
    <3> QED BY <1>1, <3>1, <3>2
  <2>2. \A n \in IdsOf(t, recDev) : Bears(n) BY <1>1, ListsAre
  <2>3. /\ InOrder(IdsOf(t, recDev)) \in Seq(Nat)
        /\ \A i \in 1..Len(InOrder(IdsOf(t, recDev))) : InOrder(IdsOf(t, recDev))[i] \in IdsOf(t, recDev)
        /\ InOrder(IdsOf(t, dev)) \in Seq(Nat)
    BY <2>1, ListOf
  <2>4. AsksFor(RecBase + 1, InOrder(IdsOf(t, recDev)), InOrder(IdsOf(t, dev)))
    <3>1. RecBase + 1 = 1 /\ 1 # Null BY DEF RecBase, Null
    <3>2. Mirrored => 1 \in DOMAIN rec2vid BY DEF Mirrored
    <3> QED BY <1>1, <3>1, <3>2, ListsMatch DEF AsksFor
  <2> QED BY <2>2, <2>3, <2>4
<1>2. CASE GetPorts BY <1>1, <1>2 DEF GetPorts
<1>3. CASE GetRouter BY <1>1, <1>3 DEF GetRouter
<1>4. CASE GetMember
  <2> DEFINE twin(o) == CHOOSE p \in dev : HasOid(p) /\ p.id = rec2vid[o.id]
  <2>1. PICK o \in recDev : o.type = "MEMBER" /\ Get(o.id, <<o.ref>>, <<twin(o).ref>>, "RIF")
    BY <1>4 DEF GetMember
  <2>2. o.ref \in Nat BY DEF RecShape, Objects
  <2>3. o.ref = Null \/ Bears(o.ref)
    <3>1. o.ref \in Targets(o.type) BY <2>1 DEF RecShape, OwnTypes
    <3> QED BY <2>1, <3>1, TargetsAre DEF Bears, HasOid
  <2>4. Exists(rec2vid[o.id]) => twin(o).ref \in Nat
    <3>1. Exists(rec2vid[o.id]) => twin(o) \in dev BY ExistsIs
    <3> QED BY <3>1 DEF DevShape, Objects
  <2>5. \A x : Len(<<x>>) = 1 /\ <<x>>[1] = x OBVIOUS
  <2>6. \A x \in Nat : <<x>> \in Seq(Nat) OBVIOUS
  <2>7. \A i \in 1..1 : i = 1 OBVIOUS
  <2>8. AsksFor(o.id, <<o.ref>>, <<twin(o).ref>>)
    <3>1. o.id # Null BY DEF RecShape, Objects
    <3>2. o.id \in learned BY <2>1 DEF RecShape, OwnTypes
    <3>3. ASSUME Living, o.id \in DOMAIN rec2vid PROVE Matches(o.ref, twin(o).ref)
      <4>1. Copied(o) BY <2>1, <3>3 DEF Living, HasOid
      <4>2. Image(o) \in dev /\ Image(o).id = rec2vid[o.id] /\ HasOid(Image(o))
        BY <2>1, <4>1 DEF Copied, Image, Object, HasOid
      <4>3. twin(o) \in dev /\ HasOid(twin(o)) /\ twin(o).id = rec2vid[o.id] BY <4>2
      <4>4. \A d \in dev : HasOid(d) /\ d.id = rec2vid[o.id] => d = Image(o)
        BY <4>2 DEF DevShape, Distinct
      <4>5. twin(o) = Image(o) BY <4>3, <4>4
      <4>6. Image(o).ref = IF o.ref \in DOMAIN rec2vid THEN rec2vid[o.ref] ELSE Null
        BY DEF Image, Object
      <4>7. o.ref \in DOMAIN rec2vid \cup {Null} BY <4>1 DEF Copied
      <4> HIDE DEF twin
      <4> QED BY <4>5, <4>6, <4>7 DEF Matches
    <3> HIDE DEF twin
    <3>4. Mirrored => o.id \in DOMAIN rec2vid BY <3>2 DEF Mirrored, Copied
    <3> QED BY <2>5, <2>7, <3>1, <3>3, <3>4 DEF AsksFor
  <2> HIDE DEF twin
  <2> QED BY <2>1, <2>2, <2>3, <2>4, <2>5, <2>6, <2>7, <2>8
<1> QED BY <1>2, <1>3, <1>4

(* Of a matched answer.                                                    *)
LEMMA MatchingIs ==
  ASSUME TableTypes, Len(oids) = Len(answer)
  PROVE  /\ DOMAIN Matching = {answer[i] : i \in 1..Len(answer)}
         /\ \A n \in DOMAIN Matching : \E i \in 1..Len(answer) : answer[i] = n /\ Matching[n] = oids[i]
<1>1. DOMAIN answer = 1..Len(answer) BY DEF TableTypes
<1>2. DOMAIN Matching = {answer[i] : i \in 1..Len(answer)} BY <1>1 DEF Matching, Range
<1>3. ASSUME NEW n \in DOMAIN Matching
      PROVE  \E i \in 1..Len(answer) : answer[i] = n /\ Matching[n] = oids[i]
  <2> DEFINE k == CHOOSE i \in DOMAIN answer : answer[i] = n
  <2>1. \E i \in DOMAIN answer : answer[i] = n BY <1>1, <1>2
  <2>2. k \in DOMAIN answer /\ answer[k] = n BY <2>1
  <2>3. Matching[n] = oids[k] BY <1>3 DEF Matching
  <2> QED BY <1>1, <2>2, <2>3
<1> QED BY <1>2, <1>3

(* The answer of a get.                                                    *)
LEMMA ResponseShapes ==
  ASSUME Shapes, GetResponse
  PROVE  Shapes' /\ (refused => refused') /\ (differs => differs')
<1>0. RecShape /\ DevShape /\ TableTypes /\ Flags BY DEF Shapes
<1>1. /\ phase = "run" /\ expect = "G" /\ expect' = "any" /\ answer' = <<>>
      /\ learned' = learned \cup (Range(answer) \ {Null})
      /\ UNCHANGED <<recDev, recNext, dev, vidNext, registry, status, faults, replays, refused, differs>>
      /\ \/ Raise("answer") /\ UNCHANGED <<rec2vid, oids>>
         \/ Len(oids) = Len(answer) /\ rec2vid' = rec2vid ++ Matching /\ oids' = <<>> /\ GoOn
  BY DEF GetResponse, Reading, deviceVars
<1>2. Flags' /\ Starting' /\ phase' \in {"run", "idle"}
  <2>1. Deviates BY <1>1 DEF Deviates, AsRecorded
  <2>2. GoOn \/ Stops BY <1>1 DEF Stops, Reasons
  <2>3. expect' \in {"any", "G", "E"} /\ status' \in {"none", "ok", "refused", "other"} /\ replays' = replays
    BY <1>0, <1>1 DEF Flags
  <2> QED BY <1>0, <1>1, <2>1, <2>2, <2>3, FlagsKept
<1>3. RecShape' BY <1>0, <1>1, RecLearn
<1>4. DevShape'
  <2>1. vidNext' \in Nat /\ vidNext <= vidNext' /\ dev' \subseteq dev BY <1>0, <1>1 DEF DevShape
  <2> QED BY <1>0, <2>1, DevRemove
<1>5. TableTypes'
  <2>1. <<>> \in Seq(Nat) OBVIOUS
  <2>2. CASE Raise("answer") /\ UNCHANGED <<rec2vid, oids>>
    <3>1. phase' = "idle" BY <2>2 DEF Raise
    <3> QED BY <1>0, <1>1, <2>1, <2>2, <3>1 DEF TableTypes
  <2>3. CASE Len(oids) = Len(answer) /\ rec2vid' = rec2vid ++ Matching /\ oids' = <<>>
    <3>1. \A n \in DOMAIN Matching : Matching[n] \in Nat
      <4>1. oids \in Seq(Nat) BY <1>0 DEF TableTypes
      <4>2. \A i \in 1..Len(answer) : oids[i] \in Nat BY <2>3, <4>1
      <4> QED BY <1>0, <2>3, <4>2, MatchingIs
    <3>2. rec2vid' \in [DOMAIN rec2vid' -> Nat] BY <1>0, <2>3, <3>1, MapAdd
    <3> QED BY <1>0, <1>1, <2>1, <2>3, <3>2 DEF TableTypes
  <2> QED BY <1>1, <2>2, <2>3
<1> QED BY <1>1, <1>2, <1>3, <1>4, <1>5 DEF Shapes

(* An expected failure, and the end of the recording.                      *)
LEMMA QuietShapes ==
  ASSUME Shapes, ExpectedFailure \/ EndOfFile
  PROVE  Shapes' /\ (refused => refused') /\ (differs => differs')
<1>0. RecShape /\ DevShape /\ TableTypes /\ Flags BY DEF Shapes
<1>1. /\ phase = "run" /\ phase' \in {"run", "idle"} /\ expect' = "any" /\ answer' = answer
      /\ expect = "G" => FALSE
      /\ UNCHANGED <<recDev, learned, recNext, dev, vidNext, rec2vid, registry, oids, status>>
      /\ UNCHANGED <<faults, replays, refused, differs>>
      /\ why' \in {why, "status"}
  <2>1. CASE ExpectedFailure BY <2>1 DEF ExpectedFailure, Reading, deviceVars, GoOn, Raise
  <2>2. CASE EndOfFile BY <2>2 DEF EndOfFile, Reading, deviceVars, recVars, history
  <2> QED BY <2>1, <2>2
<1>2. Flags' BY <1>0, <1>1 DEF Flags
<1>3. RecShape' BY <1>0, <1>1, RecFrame
<1>4. DevShape'
  <2>1. vidNext' \in Nat /\ vidNext <= vidNext' /\ dev' \subseteq dev BY <1>0, <1>1 DEF DevShape
  <2> QED BY <1>0, <2>1, DevRemove
<1>5. TableTypes' BY <1>0, <1>1 DEF TableTypes
<1>6. Starting' BY <1>1 DEF Starting
<1> QED BY <1>1, <1>2, <1>3, <1>4, <1>5, <1>6 DEF Shapes

(* The create of the switch.                                               *)
LEMMA SwitchShapes ==
  ASSUME Shapes, CreateSwitch
  PROVE  Shapes' /\ (refused => refused') /\ (differs => differs')
<1>0. RecShape /\ DevShape /\ TableTypes /\ Flags /\ Starting BY DEF Shapes
<1>1. /\ phase = "start" /\ recDev' = Implicit(RecBase) /\ learned' = {RecBase + 1}
      /\ UNCHANGED <<recNext, expect, answer, vidNext, oids, replays>>
      /\ status' \in {"ok", "refused", "other"}
      /\ dev' \in {Implicit(VidBase), dev}
      /\ rec2vid' \in {rec2vid ++ Entry(RecBase + 1, VidBase + 1), rec2vid}
      /\ registry' \in {registry ++ Discovered, registry}
      /\ \/ phase' = "run" /\ why' = why
         \/ phase' = "idle" /\ why' = "fault"
      /\ \/ faults' = faults
         \/ faults < MaxFaults /\ faults' = faults + 1
      /\ refused' = refused \/ refused' = TRUE
      /\ differs' = differs \/ differs' = TRUE
  BY DEF CreateSwitch, Faulty, AsRecorded, Differs, Raise
<1>2. Flags'
  <2>1. faults' \in 0..MaxFaults
    <3>1. faults \in 0..MaxFaults /\ MaxFaults \in Nat BY <1>0, ReplayAssumption DEF Flags
    <3> QED BY <1>1, <3>1
  <2>2. /\ refused' \in BOOLEAN /\ differs' \in BOOLEAN
        /\ phase' \in {"idle", "start", "run"} /\ expect' \in {"any", "G", "E"}
        /\ status' \in {"none", "ok", "refused", "other"} /\ replays' \in 0..MaxReplays
        /\ why' \in {"none", "null", "unknown", "request", "recorded", "answer", "status", "fault"}
    BY <1>0, <1>1 DEF Flags
  <2> QED BY <2>1, <2>2 DEF Flags
<1>3. Starting' BY <1>1 DEF Starting
<1>4. RecShape'
  <2>1. /\ recDev' \subseteq Objects /\ IsFiniteSet(recDev') /\ Distinct(recDev')
        /\ \A o \in recDev' : o \in Implicit(RecBase)
    BY <1>1, ImplicitShape
  <2>2. \A o \in recDev' : o.type \notin OwnTypes BY <1>1, ImplicitAre DEF Object, OwnTypes
  <2>3. recNext' = recNext /\ recNext \in Nat /\ RecBase + 5 <= recNext BY <1>0, <1>1 DEF RecShape
  <2>4. \A n \in learned' : n \in Nat /\ Null < n /\ n < recNext'
    BY <1>1, <2>3 DEF RecBase, Null
  <2>5. expect' # "G" BY <1>0, <1>1 DEF Starting
  <2>6. /\ Object("SWITCH", RecBase + 1, Null) \in recDev'
        /\ Object("VR", RecBase + 2, Null) \in recDev'
    BY <1>1, ImplicitAre DEF RecBase
  <2>7. \A o : o.type \notin OwnTypes => o.type \notin {"RIF", "MEMBER"} /\ o.type # "ROUTE"
    BY DEF OwnTypes
  <2> QED BY <2>1, <2>2, <2>3, <2>4, <2>5, <2>6, <2>7 DEF RecShape
<1>5. DevShape'
  <2>1. vidNext' = vidNext /\ vidNext \in Nat /\ VidBase + 5 <= vidNext
    BY <1>0, <1>1 DEF DevShape
  <2>2. \A d \in Implicit(VidBase) : d.type \notin {"RIF", "MEMBER"}
    BY ImplicitAre DEF Object
  <2>3. CASE dev' = Implicit(VidBase) BY <2>1, <2>2, <2>3, ImplicitShape DEF DevShape
  <2>4. CASE dev' = dev BY <1>0, <2>1, <2>4 DEF DevShape
  <2> QED BY <1>1, <2>3, <2>4
<1>6. TableTypes'
  <2>1. rec2vid' \in [DOMAIN rec2vid' -> Nat]
    <3>1. \A n \in DOMAIN Entry(RecBase + 1, VidBase + 1) : Entry(RecBase + 1, VidBase + 1)[n] \in Nat
      BY DEF Entry, VidBase
    <3>2. rec2vid' = rec2vid \/ rec2vid' = rec2vid ++ Entry(RecBase + 1, VidBase + 1) BY <1>1
    <3>3. CASE rec2vid' = rec2vid BY <1>0, <3>3 DEF TableTypes
    <3>4. CASE rec2vid' = rec2vid ++ Entry(RecBase + 1, VidBase + 1) BY <1>0, <3>1, <3>4, MapAdd
    <3> QED BY <3>2, <3>3, <3>4
  <2>2. Aliases(registry')
    <3>1. Aliases(registry) BY <1>0 DEF TableTypes, Aliases
    <3>2. Aliases(registry ++ Discovered) BY <3>1, DiscoveredTypes, AliasesAdd
    <3> QED BY <1>1, <3>1, <3>2
  <2>3. oids = <<>> BY <1>0, <1>1 DEF TableTypes, Starting
  <2> QED BY <1>0, <1>1, <2>1, <2>2, <2>3 DEF TableTypes, Aliases
<1>7. (refused => refused') /\ (differs => differs') BY <1>1
<1> QED BY <1>2, <1>3, <1>4, <1>5, <1>6, <1>7 DEF Shapes

(* The state before a replay, and the one it starts from.                  *)
LEMMA EmptyShapes ==
  /\ Init => Shapes
  /\ Flags /\ ApplyRec => Shapes'
<1>1. /\ {} \subseteq Objects /\ IsFiniteSet({}) /\ Distinct({})
      /\ <<>> \in Seq(Nat) /\ <<>> \in [DOMAIN <<>> -> Nat] /\ DOMAIN <<>> = {}
  BY FS_EmptySet DEF Distinct
<1>2. RecBase + 5 \in Nat /\ VidBase + 5 \in Nat BY DEF RecBase, VidBase
<1>3. RecBase + 5 <= RecBase + 5 /\ VidBase + 5 <= VidBase + 5 BY <1>2
<1>4. ASSUME Init PROVE Shapes
  <2>1. RecShape
    <3>1. recDev = {} /\ learned = {} /\ recNext = RecBase + 5 /\ expect = "any" /\ phase = "idle"
      BY <1>4 DEF Init
    <3> QED BY <1>1, <1>2, <1>3, <3>1 DEF RecShape
  <2>2. DevShape BY <1>1, <1>2, <1>3, <1>4 DEF Init, DevShape
  <2>3. TableTypes BY <1>1, <1>4 DEF Init, TableTypes
  <2>4. Flags
    <3>1. 0 \in 0..MaxFaults /\ 0 \in 0..MaxReplays BY ReplayAssumption
    <3> QED BY <1>4, <3>1 DEF Init, Flags
  <2>5. Starting BY <1>4 DEF Init, Starting
  <2> QED BY <2>1, <2>2, <2>3, <2>4, <2>5 DEF Shapes
<1>5. ASSUME Flags, ApplyRec PROVE Shapes'
  <2>1. RecShape'
    <3>1. recDev' = {} /\ learned' = {} /\ recNext' = RecBase + 5 /\ expect' = "any" /\ phase' = "start"
      BY <1>5 DEF ApplyRec
    <3> QED BY <1>1, <1>2, <1>3, <3>1 DEF RecShape
  <2>2. DevShape' BY <1>1, <1>2, <1>3, <1>5 DEF ApplyRec, DevShape
  <2>3. TableTypes' BY <1>1, <1>5 DEF ApplyRec, TableTypes
  <2>4. Flags'
    <3>1. replays' \in 0..MaxReplays
      <4>1. replays \in 0..MaxReplays /\ MaxReplays \in Nat /\ replays < MaxReplays /\ replays' = replays + 1
        BY <1>5, ReplayAssumption DEF ApplyRec, Flags
      <4> QED BY <4>1
    <3> QED BY <1>5, <3>1 DEF ApplyRec, Flags
  <2>5. Starting' BY <1>5 DEF ApplyRec, Starting
  <2> QED BY <2>1, <2>2, <2>3, <2>4, <2>5 DEF Shapes
<1> QED BY <1>4, <1>5

(* The steps of a replay, each with what its record is about.              *)
LEMMA StepsAre ==
  ASSUME Next
  PROVE  \/ ApplyRec
         \/ CreateSwitch
         \/ \E t \in OwnTypes : \E o \in Fresh(t, recNext) : \E ok \in BOOLEAN : Create(o, ok)
         \/ \E batch \in Batches : BulkCreate(batch)
         \/ \E o : Remove(o)
         \/ \E S : BulkRemove(S)
         \/ \E o \in recDev : \E r \in Targets(o.type), bulk \in BOOLEAN, ok \in BOOLEAN :
              SetAttribute(o, r, bulk, ok)
         \/ GetPorts \/ GetRouter \/ GetMember
         \/ GetResponse
         \/ ExpectedFailure \/ EndOfFile
<1>1. ASSUME NEW t \in OwnTypes, NEW o \in Fresh(t, recNext), BulkCreate(<<o>>)
      PROVE  \E batch \in Batches : BulkCreate(batch)
  <2>1. <<o>> \in Batches BY DEF Batches
  <2> QED BY <1>1, <2>1
<1>2. ASSUME NEW t \in OwnTypes, t # "ROUTE", NEW o \in Fresh(t, recNext),
             NEW p \in Fresh(t, recNext + 1), BulkCreate(<<o, p>>)
      PROVE  \E batch \in Batches : BulkCreate(batch)
  <2>1. <<o, p>> \in Batches BY <1>2 DEF Batches
  <2> QED BY <1>2, <2>1
<1> HIDE DEF Batches
<1>3. {"RIF", "MEMBER", "ROUTE"} = OwnTypes BY DEF OwnTypes
<1>4. CASE \E t \in {"RIF", "MEMBER", "ROUTE"} : \E o \in Fresh(t, recNext) :
             \/ \E ok \in BOOLEAN : Create(o, ok)
             \/ BulkCreate(<<o>>)
             \/ t # "ROUTE" /\ \E p \in Fresh(t, recNext + 1) : BulkCreate(<<o, p>>)
  BY <1>1, <1>2, <1>3, <1>4
<1>5. CASE \E o \in recDev :
             \/ Remove(o)
             \/ \E p \in recDev : p.type = o.type /\ BulkRemove({o, p})
             \/ \E r \in Targets(o.type) \ {o.ref}, bulk \in BOOLEAN :
                  SetAttribute(o, r, bulk, TRUE) \/ (~bulk /\ SetAttribute(o, r, bulk, FALSE))
  BY <1>5
<1> QED BY <1>4, <1>5 DEF Next, Record

(* The shapes hold at first, and every step keeps them.                    *)
LEMMA ShapesInit == Init => Shapes
BY EmptyShapes

LEMMA ShapesStep ==
  ASSUME Shapes, [Next]_vars
  PROVE  Shapes'
<1>0. Flags BY DEF Shapes
<1>1. CASE ApplyRec BY <1>0, <1>1, EmptyShapes
<1>2. CASE CreateSwitch BY <1>2, SwitchShapes
<1>3. CASE \E t \in OwnTypes : \E o \in Fresh(t, recNext) : \E ok \in BOOLEAN : Create(o, ok)
  BY <1>3, CreateShapes
<1>4. CASE \E batch \in Batches : BulkCreate(batch) BY <1>4, BulkCreateShapes
<1>5. CASE \E o : Remove(o) BY <1>5, RemoveShapes
<1>6. CASE \E S : BulkRemove(S) BY <1>6, BulkRemoveShapes
<1>7. CASE \E o \in recDev : \E r \in Targets(o.type), bulk \in BOOLEAN, ok \in BOOLEAN :
             SetAttribute(o, r, bulk, ok)
  BY <1>7, SetShapes
<1>8. CASE GetPorts \/ GetRouter \/ GetMember
  <2>1. RecShape /\ DevShape BY DEF Shapes
  <2> QED BY <1>8, <2>1, GetsAre, GetShapes
<1>9. CASE GetResponse BY <1>9, ResponseShapes
<1>10. CASE ExpectedFailure \/ EndOfFile BY <1>10, QuietShapes
<1>11. CASE UNCHANGED vars
  <2>1. UNCHANGED <<recDev, learned, recNext, expect, answer, dev, vidNext, rec2vid, registry, oids,
                    status, phase, faults, replays, why, refused, differs>>
    BY <1>11 DEF vars, recVars, deviceVars, replayVars, history
  <2>2. \A t : Targets(t)' = Targets(t) BY <2>1 DEF Targets, Live
  <2>3. RecShape' BY <2>1, <2>2 DEF Shapes, RecShape, Bears
  <2>4. DevShape' /\ TableTypes' /\ Flags' /\ Starting'
    BY <2>1 DEF Shapes, DevShape, TableTypes, Flags, Starting
  <2> QED BY <2>3, <2>4 DEF Shapes
<1> QED BY <1>1, <1>2, <1>3, <1>4, <1>5, <1>6, <1>7, <1>8, <1>9, <1>10, <1>11, StepsAre

(* They are the type invariant, and more.                                  *)
LEMMA TypesOf == Shapes => TypeOK
<1>1. SUFFICES ASSUME Shapes PROVE TypeOK
  OBVIOUS
<1>0. RecShape /\ DevShape /\ TableTypes /\ Flags BY <1>1 DEF Shapes
<1>2. \A d \in {recDev, dev} : \A o \in d :
        /\ o.type \in {"SWITCH", "VR", "PORT", "RIF", "MEMBER", "ROUTE"}
        /\ o.id \in Nat \ {Null} /\ o.ref \in Nat
  <2>1. recDev \subseteq Objects /\ dev \subseteq Objects BY <1>0 DEF RecShape, DevShape
  <2> QED BY <2>1 DEF Objects, OwnTypes
<1>3. learned \subseteq Nat /\ recNext \in Nat /\ vidNext \in Nat BY <1>0 DEF RecShape, DevShape
<1> QED BY <1>0, <1>2, <1>3 DEF TypeOK, TableTypes, Flags

-----------------------------------------------------------------------------
(* The map, and what it makes of an object.                                *)

Vid(n) == IF n \in DOMAIN rec2vid THEN rec2vid[n] ELSE Null

(* The image of an object, before and after a step.                        *)
LEMMA ImageIs ==
  \A o : /\ Image(o) = Object(o.type, Vid(o.id), Vid(o.ref))
         /\ Image(o)' = Object(o.type, Vid(o.id)', Vid(o.ref)')
         /\ Image(o).type = o.type /\ Image(o).id = Vid(o.id) /\ Image(o).ref = Vid(o.ref)
<1> QED BY DEF Image, Vid, Object

(* A mapped OID stands for a copy of its object.                           *)
LEMMA MappedIs ==
  ASSUME Living, DevShape, NEW n \in DOMAIN rec2vid, n # Null
  PROVE  /\ n \in learned
         /\ \E o \in recDev : HasOid(o) /\ o.id = n /\ Copied(o)
         /\ \E d \in dev : HasOid(d) /\ d.id = rec2vid[n]
         /\ Exists(rec2vid[n])
         /\ rec2vid[n] \in Nat /\ 0 < rec2vid[n] /\ rec2vid[n] < vidNext
<1>1. n \in learned /\ Bears(n) BY DEF Living
<1>2. PICK o \in recDev : HasOid(o) /\ o.id = n BY <1>1 DEF Bears
<1>3. Copied(o) BY <1>2 DEF Living
<1>4. Image(o) \in dev /\ HasOid(Image(o)) /\ Image(o).id = rec2vid[n]
  BY <1>2, <1>3, ImageIs DEF Copied, Vid, HasOid
<1>5. Exists(rec2vid[n]) BY <1>4, ExistsIs
<1>6. rec2vid[n] \in Nat /\ 0 < rec2vid[n] /\ rec2vid[n] < vidNext BY <1>4, VidsBelow
<1> QED BY <1>1, <1>2, <1>3, <1>4, <1>5, <1>6

(* oid:0x0 stands for itself.                                              *)
LEMMA NullIs == Living => Vid(Null) = Null
<1> QED BY DEF Living, Vid

(* What is copied stays copied, as long as the map has it.                 *)
LEMMA CopyStays ==
  ASSUME Living, NEW o, Copied(o),
         Null \in DOMAIN rec2vid' => rec2vid'[Null] = Null,
         o.id \in DOMAIN rec2vid', rec2vid'[o.id] = rec2vid[o.id],
         o.ref = Null \/ (o.ref \in DOMAIN rec2vid' /\ rec2vid'[o.ref] = rec2vid[o.ref])
  PROVE  Image(o)' = Image(o) /\ (Image(o) \in dev' => Copied(o)')
<1>1. Vid(o.id)' = Vid(o.id) BY DEF Copied, Vid
<1>2. Vid(o.ref)' = Vid(o.ref)
  <2>1. CASE o.ref = Null
    <3>1. Vid(Null) = Null BY NullIs
    <3>2. Vid(Null)' = Null BY DEF Vid
    <3> QED BY <2>1, <3>1, <3>2
  <2>2. CASE o.ref # Null BY <2>2 DEF Copied, Vid
  <2> QED BY <2>1, <2>2
<1>3. Image(o)' = Image(o) BY <1>1, <1>2, ImageIs
<1>4. o.ref \in DOMAIN rec2vid' \cup {Null} OBVIOUS
<1> QED BY <1>3, <1>4 DEF Copied

-----------------------------------------------------------------------------
(* Removals.                                                               *)

NamesOf(S) == {<<o.type, rec2vid[o.id]>> : o \in S}
Cut(S) == {o.id : o \in {p \in S : HasOid(p)}}

(* The copies that go are those of the objects that go.                    *)
LEMMA NamedCopies ==
  ASSUME RecShape, DevShape, Living, NEW S \in SUBSET recDev, NEW p \in recDev, Copied(p),
         \A o \in S : o.id \in DOMAIN rec2vid
  PROVE  Image(p) \in Named(NamesOf(S)) <=> p \in S
<1>1. NameOf(Image(p)) = <<p.type, rec2vid[p.id]>> BY ImageIs DEF NameOf, Copied, Vid
<1>2. ASSUME p \in S PROVE Image(p) \in Named(NamesOf(S))
  <2>1. <<p.type, rec2vid[p.id]>> \in NamesOf(S) BY <1>2 DEF NamesOf
  <2> QED BY <1>1, <2>1 DEF Named, Copied
<1>3. ASSUME Image(p) \in Named(NamesOf(S)) PROVE p \in S
  <2>1. <<p.type, rec2vid[p.id]>> \in NamesOf(S) BY <1>1, <1>3 DEF Named
  <2>2. PICK o \in S : <<p.type, rec2vid[p.id]>> = <<o.type, rec2vid[o.id]>> BY <2>1 DEF NamesOf
  <2>3. p.type = o.type /\ rec2vid[p.id] = rec2vid[o.id] BY <2>2
  <2>4. p.id = o.id BY <2>3 DEF Living, Copied
  <2>5. HasOid(p) <=> HasOid(o) BY <2>3 DEF HasOid
  <2>6. p = o BY <2>4, <2>5 DEF RecShape, Distinct
  <2> QED BY <2>6
<1> QED BY <1>2, <1>3

(* Removing objects from both devices and their OIDs from the map keeps    *)
(* the map sound: nothing that stays refers to what is gone.               *)
LEMMA RemovalKeeps ==
  ASSUME RecShape, DevShape, TableTypes, Living, InPlace, phase = "run",
         NEW S \in SUBSET Removals, \A o \in S : Removable(o, recDev) /\ o.id \in DOMAIN rec2vid,
         recDev' = recDev \ S, learned' = learned,
         dev' = dev \ Named(NamesOf(S)),
         rec2vid' = Restrict(rec2vid, DOMAIN rec2vid \ Cut(S))
  PROVE  Living' /\ InPlace' /\ (Mirrored => Mirrored')
<1>1. DOMAIN rec2vid' = DOMAIN rec2vid \ Cut(S) /\ \A n \in DOMAIN rec2vid' : rec2vid'[n] = rec2vid[n]
  BY MapCut
<1>2. S \subseteq recDev /\ \A o \in S : o.type # "SWITCH" /\ o.type # "VR" /\ o.id \in learned
  BY DEF Removals
<1>3. \A n : n \in Cut(S) <=> \E o \in S : HasOid(o) /\ o.id = n BY DEF Cut
<1>4. Null \notin Cut(S)
  <2>1. \A o \in S : o.id # Null BY <1>2 DEF RecShape, Objects
  <2> QED BY <1>3, <2>1
<1>5. 1 \notin Cut(S)
  <2>1. Object("SWITCH", 1, Null) \in recDev BY DEF RecShape, RecBase
  <2>2. HasOid(Object("SWITCH", 1, Null)) /\ Object("SWITCH", 1, Null).id = 1
        /\ Object("SWITCH", 1, Null).type = "SWITCH"
    BY DEF HasOid, Object
  <2>3. ASSUME NEW o \in S, HasOid(o), o.id = 1 PROVE FALSE
    <3>1. o = Object("SWITCH", 1, Null) BY <1>2, <2>1, <2>2, <2>3 DEF RecShape, Distinct
    <3> QED BY <1>2, <2>2, <3>1
  <2> QED BY <1>3, <2>3
<1>6. ASSUME NEW p \in recDev \ S, Copied(p), HasOid(p) \/ p.id \in {2}
      PROVE  Copied(p)' /\ Image(p)' = Image(p)
  <2>1. p.id \notin Cut(S)
    <3>1. ASSUME NEW o \in S, HasOid(o), o.id = p.id PROVE FALSE
      <4>1. CASE HasOid(p)
        <5>1. o = p BY <1>2, <1>6, <3>1, <4>1 DEF RecShape, Distinct
        <5> QED BY <1>6, <3>1, <5>1
      <4>2. CASE p.id = 2
        <5>1. Object("VR", 2, Null) \in recDev BY DEF RecShape, RecBase
        <5>2. /\ HasOid(Object("VR", 2, Null)) /\ Object("VR", 2, Null).id = 2
              /\ Object("VR", 2, Null).type = "VR"
          BY DEF HasOid, Object
        <5>3. o = Object("VR", 2, Null) BY <1>2, <3>1, <4>2, <5>1, <5>2 DEF RecShape, Distinct
        <5> QED BY <1>2, <3>1, <5>2, <5>3
      <4> QED BY <1>6, <4>1, <4>2
    <3> QED BY <1>3, <3>1
  <2>2. p.ref \notin Cut(S)
    <3>1. ASSUME NEW o \in S, HasOid(o), o.id = p.ref PROVE FALSE
      <4>1. Removable(o, recDev) BY <3>1
      <4>2. o.id \notin Referred(recDev) BY <3>1, <4>1 DEF Removable, HasOid
      <4> QED BY <1>6, <3>1, <4>2, ReferredAre
    <3> QED BY <1>3, <3>1
  <2>3. p.id \in DOMAIN rec2vid /\ p.ref \in DOMAIN rec2vid \cup {Null} /\ Image(p) \in dev
    BY <1>6 DEF Copied
  <2>4. Image(p) \in dev'
    <3>1. Image(p) \notin Named(NamesOf(S)) BY <1>2, <1>6, NamedCopies
    <3> QED BY <2>3, <3>1
  <2>5. Null \in DOMAIN rec2vid' => rec2vid'[Null] = Null BY <1>1 DEF Living
  <2> QED BY <1>1, <1>6, <2>1, <2>2, <2>3, <2>4, <2>5, CopyStays
<1>7. Living'
  <2>1. Null \in DOMAIN rec2vid' => rec2vid'[Null] = Null BY <1>1 DEF Living
  <2>2. ASSUME NEW n \in DOMAIN rec2vid' \ {Null} PROVE n \in learned' /\ Bears(n)'
    <3>1. n \in learned /\ Bears(n) BY <1>1, <2>2 DEF Living
    <3>2. PICK o \in recDev : HasOid(o) /\ o.id = n BY <3>1 DEF Bears
    <3>3. o \notin S BY <1>1, <1>3, <2>2, <3>2
    <3>4. Bears(n)' BY <3>2, <3>3 DEF Bears
    <3> QED BY <3>1, <3>4
  <2>3. ASSUME NEW o \in recDev', HasOid(o), o.id \in DOMAIN rec2vid' PROVE Copied(o)'
    <3>1. o \in recDev \ S /\ Copied(o) BY <1>1, <2>3 DEF Living
    <3> QED BY <1>6, <2>3, <3>1
  <2>4. \A m, n \in DOMAIN rec2vid' : rec2vid'[m] = rec2vid'[n] => m = n BY <1>1 DEF Living
  <2> QED BY <2>1, <2>2, <2>3, <2>4 DEF Living
<1>8. InPlace'
  <2>1. ASSUME NEW n \in DOMAIN rec2vid' \cap (1..4)
        PROVE  rec2vid'[n] = n + VidBase /\ 1 \in DOMAIN rec2vid'
    <3>1. rec2vid[n] = n + VidBase /\ 1 \in DOMAIN rec2vid BY <1>1, <2>1 DEF InPlace
    <3> QED BY <1>1, <1>5, <2>1, <3>1
  <2>2. ASSUME 1 \in DOMAIN rec2vid', NEW o \in Implicit(RecBase)
        PROVE  o \in recDev' <=> Twin(o) \in dev'
    <3>1. o \in recDev <=> Twin(o) \in dev BY <1>1, <2>2 DEF InPlace
    <3>2. /\ o.id \in {1, 2, 3, 4} /\ o.type \notin OwnTypes /\ o.ref = Null
          /\ Twin(o).id = o.id + VidBase /\ Twin(o).type = o.type
      BY ImplicitAre DEF Object, OwnTypes, Twin
    <3>3. ASSUME o \in S PROVE Twin(o) \in Named(NamesOf(S)) \/ Twin(o) \notin dev
      <4>1. rec2vid[o.id] = o.id + VidBase BY <3>2, <3>3 DEF InPlace
      <4>2. NameOf(Twin(o)) \in NamesOf(S) BY <3>2, <3>3, <4>1 DEF NameOf, NamesOf
      <4> QED BY <4>2 DEF Named
    <3>4. ASSUME Twin(o) \in Named(NamesOf(S)), o \in recDev PROVE o \in S
      <4>1. PICK p \in S : NameOf(Twin(o)) = <<p.type, rec2vid[p.id]>> BY <3>4 DEF Named, NamesOf
      <4>2. p.type = o.type /\ rec2vid[p.id] = o.id + VidBase BY <3>2, <4>1 DEF NameOf
      <4>3. p \in Implicit(RecBase) BY <1>2, <3>2, <4>2 DEF RecShape
      <4>4. p.id \in {1, 2, 3, 4} BY <4>3, ImplicitAre DEF Object
      <4>5. rec2vid[p.id] = p.id + VidBase BY <4>4 DEF InPlace
      <4>6. p.id = o.id BY <3>2, <4>2, <4>4, <4>5 DEF VidBase
      <4>7. p = o BY <1>2, <3>4, <4>2, <4>6 DEF RecShape, Distinct, HasOid
      <4> QED BY <4>7
    <3> QED BY <1>2, <3>1, <3>3, <3>4
  <2> QED BY <2>1, <2>2 DEF InPlace
<1>9. ASSUME Mirrored PROVE Mirrored'
  <2>1. 1 \in DOMAIN rec2vid' BY <1>1, <1>5, <1>9 DEF Mirrored
  <2>2. ASSUME NEW o \in recDev \ S, o.id \in learned PROVE Copied(o)' /\ Image(o)' = Image(o)
    <3>1. Copied(o) BY <1>9, <2>2 DEF Mirrored
    <3>2. HasOid(o) \/ o.id = 2 BY DEF RecShape, HasOid, RecBase
    <3> QED BY <1>6, <3>1, <3>2
  <2>3. ASSUME NEW d \in dev', d \notin Implicit(VidBase)
        PROVE  \E o \in recDev' : o.id \in learned' /\ Image(o)' = d
    <3>1. PICK o \in recDev : o.id \in learned /\ Image(o) = d BY <1>9, <2>3 DEF Mirrored
    <3>2. Copied(o) BY <1>9, <3>1 DEF Mirrored
    <3>3. o \notin S BY <1>2, <2>3, <3>1, <3>2, NamedCopies
    <3> QED BY <2>2, <3>1, <3>3
  <2> QED BY <2>1, <2>2, <2>3 DEF Mirrored
<1> QED BY <1>7, <1>8, <1>9

(* Whatever a removal on the recorded device was allowed to remove can be  *)
(* removed from the device of the replay.                                  *)
LEMMA RemovalCan ==
  ASSUME RecShape, DevShape, Living, Mirrored, NEW S \in SUBSET Removals,
         \A o \in S : Removable(o, recDev)
  PROVE  /\ \A o \in S : o.id \in DOMAIN rec2vid
         /\ CanRemove(NamesOf(S))
<1>1. S \subseteq recDev /\ \A o \in S : Copied(o) /\ o.id \in DOMAIN rec2vid
  BY DEF Removals, Mirrored, Copied
<1>2. \A o \in S : NameOf(Image(o)) = <<o.type, rec2vid[o.id]>> BY <1>1, ImageIs DEF NameOf, Vid
<1>3. {NameOf(d) : d \in Named(NamesOf(S))} = NamesOf(S)
  <2>1. ASSUME NEW n \in NamesOf(S) PROVE \E d \in Named(NamesOf(S)) : n = NameOf(d)
    <3>1. PICK o \in S : n = <<o.type, rec2vid[o.id]>> BY DEF NamesOf
    <3>2. Image(o) \in Named(NamesOf(S)) BY <1>1, <1>2, <3>1 DEF Named, Copied
    <3> QED BY <1>2, <3>1, <3>2
  <2>2. \A d \in Named(NamesOf(S)) : NameOf(d) \in NamesOf(S) BY DEF Named
  <2> QED BY <2>1, <2>2
<1>4. ASSUME NEW d \in Named(NamesOf(S)) PROVE Removable(d, dev)
  <2>1. PICK o \in S : NameOf(d) = <<o.type, rec2vid[o.id]>> BY DEF Named, NamesOf
  <2>2. d \in dev /\ d.type = o.type /\ d.id = rec2vid[o.id] BY <2>1 DEF Named, NameOf
  <2>3. CASE d.type = "ROUTE" BY <2>3 DEF Removable
  <2>4. CASE d.type # "ROUTE"
    <3>1. o.id \notin Referred(recDev) BY <2>2, <2>4 DEF Removable
    <3>2. d.id # Null BY <2>2 DEF DevShape, Objects
    <3>3. ASSUME NEW q \in dev, q.ref = d.id \/ (q.type = "ROUTE" /\ q.id = d.id) PROVE FALSE
      <4>1. q \notin Implicit(VidBase) BY <3>2, <3>3, ImplicitAre DEF Object
      <4>2. PICK p \in recDev : p.id \in learned /\ Image(p) = q BY <4>1 DEF Mirrored
      <4>3. Copied(p) BY <4>2 DEF Mirrored
      <4>4. q.type = p.type /\ q.id = rec2vid[p.id] /\ q.ref = Vid(p.ref)
        BY <4>2, <4>3, ImageIs DEF Copied, Vid
      <4>5. CASE q.ref = d.id
        <5>1. p.ref # Null BY <3>2, <4>4, <4>5, NullIs
        <5>2. p.ref \in DOMAIN rec2vid /\ rec2vid[p.ref] = rec2vid[o.id]
          BY <2>2, <4>3, <4>4, <4>5, <5>1 DEF Copied, Vid
        <5>3. p.ref = o.id BY <1>1, <5>2 DEF Living
        <5> QED BY <3>1, <5>3, ReferredAre
      <4>6. CASE q.type = "ROUTE" /\ q.id = d.id
        <5>1. p.id = o.id BY <1>1, <2>2, <4>3, <4>4, <4>6 DEF Living, Copied
        <5> QED BY <3>1, <4>4, <4>6, <5>1, ReferredAre
      <4> QED BY <3>3, <4>5, <4>6
    <3>4. d.id \notin Referred(dev) BY <3>3, ReferredAre
    <3> QED BY <3>4 DEF Removable
  <2> QED BY <2>3, <2>4
<1> QED BY <1>1, <1>3, <1>4 DEF CanRemove

-----------------------------------------------------------------------------
(* A reference is set.                                                     *)

(* Setting a reference on both devices keeps the map sound.                *)
LEMMA SettingKeeps ==
  ASSUME RecShape, DevShape, TableTypes, Living, InPlace, phase = "run",
         NEW o \in recDev, o.type \in {"MEMBER", "ROUTE"}, o.id \in DOMAIN rec2vid,
         NEW r, r \in DOMAIN rec2vid \cup {Null},
         recDev' = (recDev \ {o}) \cup {Object(o.type, o.id, r)}, learned' = learned,
         rec2vid' = rec2vid, Named({<<o.type, rec2vid[o.id]>>}) # {},
         dev' = Redirected(Named({<<o.type, rec2vid[o.id]>>}), Vid(r))
  PROVE  Living' /\ InPlace' /\ (Mirrored => Mirrored')
<1> DEFINE new == Object(o.type, o.id, r)
           copy == Object(o.type, rec2vid[o.id], Vid(r))
           found == Named({<<o.type, rec2vid[o.id]>>})
<1>0. new.type = o.type /\ new.id = o.id /\ new.ref = r /\ (HasOid(new) <=> HasOid(o))
  BY DEF Object, HasOid
<1>1. \A d : d \in found <=> d \in dev /\ d.type = o.type /\ d.id = rec2vid[o.id]
  BY DEF Named, NameOf
<1>2. dev' = (dev \ found) \cup {copy} BY <1>1 DEF Redirected
<1>3. \A n : Vid(n)' = Vid(n) BY DEF Vid
<1>4. \A p : Image(p)' = Image(p) BY <1>3, ImageIs
<1>5. Image(new) = copy BY <1>0, ImageIs DEF Vid
<1>6. Copied(new)' BY <1>0, <1>2, <1>4, <1>5 DEF Copied
<1>7. ASSUME NEW p \in recDev, p # o, Copied(p) PROVE Copied(p)'
  <2>1. Image(p) \notin found
    <3>1. ASSUME Image(p) \in found PROVE FALSE
      <4>1. p.type = o.type /\ rec2vid[p.id] = rec2vid[o.id]
        BY <1>1, <1>7, <3>1, ImageIs DEF Copied, Vid
      <4>2. p.id = o.id BY <1>7, <4>1 DEF Living, Copied
      <4>3. p = o BY <4>1, <4>2 DEF RecShape, Distinct, HasOid
      <4> QED BY <1>7, <4>3
    <3> QED BY <3>1
  <2> QED BY <1>2, <1>4, <1>7, <2>1 DEF Copied
<1> HIDE DEF new, copy, found
<1>r. recDev' = (recDev \ {o}) \cup {new} BY DEF new
<1>8. \A n : Bears(n) => Bears(n)'
  <2>1. ASSUME NEW n, NEW p \in recDev, HasOid(p), p.id = n PROVE Bears(n)'
    <3>1. CASE p = o
      <4>1. new \in recDev' /\ HasOid(new) /\ new.id = n BY <1>0, <1>r, <2>1, <3>1
      <4> QED BY <4>1 DEF Bears
    <3>2. CASE p # o
      <4>1. p \in recDev' BY <1>r, <2>1, <3>2
      <4> QED BY <2>1, <4>1 DEF Bears
    <3> QED BY <3>1, <3>2
  <2> QED BY <2>1 DEF Bears
<1>9. Living'
  <2>1. ASSUME NEW p \in recDev', HasOid(p), p.id \in DOMAIN rec2vid' PROVE Copied(p)'
    BY <1>6, <1>7, <1>r, <2>1 DEF Living
  <2>2. \A n \in DOMAIN rec2vid' \ {Null} : n \in learned' /\ Bears(n)' BY <1>8 DEF Living
  <2> QED BY <2>1, <2>2 DEF Living
<1>10. InPlace'
  <2>1. ASSUME NEW w \in Implicit(RecBase)
        PROVE  /\ w \in recDev' <=> w \in recDev
               /\ Twin(w) \in dev' <=> Twin(w) \in dev
    <3>1. w.type \notin OwnTypes /\ Twin(w).type \notin OwnTypes
      BY ImplicitAre DEF Object, OwnTypes, Twin
    <3>2. o.type \in OwnTypes /\ new.type \in OwnTypes /\ copy.type \in OwnTypes
      BY <1>0 DEF OwnTypes, copy, Object
    <3>3. w # o /\ w # new /\ Twin(w) # copy /\ Twin(w) \notin found BY <1>1, <3>1, <3>2
    <3> QED BY <1>2, <1>r, <3>3
  <2> QED BY <2>1 DEF InPlace
<1>11. ASSUME Mirrored PROVE Mirrored'
  <2>1. ASSUME NEW p \in recDev', p.id \in learned' PROVE Copied(p)'
    BY <1>6, <1>7, <1>r, <1>11, <2>1 DEF Mirrored
  <2>2. ASSUME NEW d \in dev', d \notin Implicit(VidBase)
        PROVE  \E p \in recDev' : p.id \in learned' /\ Image(p)' = d
    <3>1. CASE d = copy
      <4>1. new \in recDev' BY <1>r
      <4>2. o.id \in learned
        <5>1. o.id # Null BY DEF RecShape, Objects
        <5> QED BY <5>1 DEF Living
      <4> QED BY <1>0, <1>4, <1>5, <3>1, <4>1, <4>2
    <3>2. CASE d \in dev \ found
      <4>1. PICK p \in recDev : p.id \in learned /\ Image(p) = d BY <1>11, <2>2, <3>2 DEF Mirrored
      <4>2. p # o
        <5>1. Image(o).type = o.type /\ Image(o).id = rec2vid[o.id] BY ImageIs DEF Vid
        <5> QED BY <1>1, <3>2, <4>1, <5>1
      <4> QED BY <1>4, <1>r, <4>1, <4>2
    <3> QED BY <1>2, <2>2, <3>1, <3>2
  <2>3. 1 \in DOMAIN rec2vid' BY <1>11 DEF Mirrored
  <2> QED BY <2>1, <2>2, <2>3 DEF Mirrored
<1> QED BY <1>9, <1>10, <1>11

-----------------------------------------------------------------------------
(* Objects are added.                                                      *)

(* An OID that is mapped has been used in the recording.                   *)
LEMMA MappedBelow ==
  ASSUME RecShape, Living, NEW n \in DOMAIN rec2vid
  PROVE  n \in Nat /\ n < recNext
<1>1. n = Null \/ n \in learned BY DEF Living
<1>2. Null \in Nat /\ Null < recNext BY DEF RecShape, RecBase, Null
<1> QED BY <1>1, <1>2 DEF RecShape

(* Of a new object, its copy under the map extended by f.                  *)
CopyOf(o, f) == Object(o.type, IF HasOid(o) THEN f[o.id] ELSE rec2vid[o.id], Vid(o.ref))

(* The recording gets the objects S, the device their copies, and the map  *)
(* what f has for those with an OID.                                       *)
Adds(S, N, f) ==
  /\ recDev' = recDev \cup S /\ learned \subseteq learned'
  /\ \A o \in S : o.id \in learned'
  /\ \A n \in learned' : n \in learned \/ \E o \in S : o.id = n
  /\ dev' = dev \cup N /\ rec2vid' = rec2vid ++ f
  /\ \A n : n \in DOMAIN f <=> \E o \in S : HasOid(o) /\ o.id = n
  /\ \A n \in DOMAIN f : n \in Nat /\ recNext <= n /\ f[n] \in Nat /\ vidNext <= f[n]
  /\ \A m, n \in DOMAIN f : f[m] = f[n] => m = n
  /\ \A o \in S : /\ o.type \in OwnTypes
                  /\ ~HasOid(o) => o.id \in DOMAIN rec2vid /\ o.id # Null
                  /\ o.ref \in DOMAIN rec2vid \cup {Null}
                  /\ CopyOf(o, f) \in N
  /\ \A d \in N : \E o \in S : d = CopyOf(o, f)

(* Adding objects to the recorded device and their images to the other,    *)
(* under ids that are new on both, keeps the map sound.                    *)
LEMMA AdditionKeeps ==
  ASSUME RecShape, DevShape, TableTypes, Living, InPlace, NEW S, NEW N, NEW f, Adds(S, N, f)
  PROVE  Living' /\ InPlace' /\ (Mirrored => Mirrored')
<1>a. recDev' = recDev \cup S BY DEF Adds
<1>b. learned \subseteq learned' BY DEF Adds
<1>c. \A o \in S : o.id \in learned' BY DEF Adds
<1>d. \A n \in learned' : n \in learned \/ \E o \in S : o.id = n BY DEF Adds
<1>e. dev' = dev \cup N BY DEF Adds
<1>f. rec2vid' = rec2vid ++ f BY DEF Adds
<1>g. \A n : n \in DOMAIN f <=> \E o \in S : HasOid(o) /\ o.id = n BY DEF Adds
<1>h. \A n \in DOMAIN f : n \in Nat /\ recNext <= n /\ f[n] \in Nat /\ vidNext <= f[n] BY DEF Adds
<1>i. \A m, n \in DOMAIN f : f[m] = f[n] => m = n BY DEF Adds
<1>j. \A o \in S : /\ o.type \in OwnTypes
                   /\ ~HasOid(o) => o.id \in DOMAIN rec2vid /\ o.id # Null
                   /\ o.ref \in DOMAIN rec2vid \cup {Null}
                   /\ CopyOf(o, f) \in N
  BY DEF Adds
<1>k. \A d \in N : \E o \in S : d = CopyOf(o, f) BY DEF Adds
<1>1. /\ DOMAIN rec2vid' = DOMAIN rec2vid \cup DOMAIN f
      /\ \A n \in DOMAIN f : rec2vid'[n] = f[n]
      /\ \A n \in DOMAIN rec2vid : n \notin DOMAIN f /\ rec2vid'[n] = rec2vid[n]
  <2>1. \A n \in DOMAIN rec2vid : n \notin DOMAIN f
    <3>1. recNext \in Nat BY DEF RecShape
    <3> QED BY <1>h, <3>1, MappedBelow
  <2>2. DOMAIN rec2vid' = DOMAIN rec2vid \cup DOMAIN f BY <1>f, Updated
  <2>3. \A n \in DOMAIN f : rec2vid'[n] = f[n] BY <1>f DEF ++
  <2>4. \A n \in DOMAIN rec2vid \ DOMAIN f : rec2vid'[n] = rec2vid[n] BY <1>f DEF ++
  <2> QED BY <2>1, <2>2, <2>3, <2>4
<1>2. recNext \in Nat /\ vidNext \in Nat /\ 5 <= recNext BY DEF RecShape, DevShape, RecBase
<1>3. Null \notin DOMAIN f /\ \A n \in 1..4 : n \notin DOMAIN f BY <1>2, <1>h DEF Null
<1>4. Null \in DOMAIN rec2vid' => rec2vid'[Null] = Null BY <1>1, <1>3 DEF Living
<1>5. ASSUME NEW p, Copied(p) PROVE Copied(p)' /\ Image(p)' = Image(p)
  <2>1. p.id \in DOMAIN rec2vid /\ p.ref \in DOMAIN rec2vid \cup {Null} /\ Image(p) \in dev'
    BY <1>e, <1>5 DEF Copied
  <2> QED BY <1>1, <1>4, <1>5, <2>1, CopyStays
<1>6. ASSUME NEW o \in S PROVE Copied(o)' /\ Image(o)' = CopyOf(o, f)
  <2>0. /\ HasOid(o) => o.id \in DOMAIN f
        /\ ~HasOid(o) => o.id \in DOMAIN rec2vid
        /\ o.ref \in DOMAIN rec2vid \cup {Null} /\ CopyOf(o, f) \in dev'
    BY <1>6, <1>e, <1>g, <1>j
  <2>1. o.id \in DOMAIN rec2vid' /\ Vid(o.id)' = IF HasOid(o) THEN f[o.id] ELSE rec2vid[o.id]
    BY <1>1, <2>0 DEF Vid
  <2>2. o.ref \in DOMAIN rec2vid' \cup {Null} BY <1>1, <2>0
  <2>3. Vid(o.ref)' = Vid(o.ref)
    <3>1. CASE o.ref \in DOMAIN rec2vid BY <1>1, <3>1 DEF Vid
    <3>2. CASE o.ref = Null
      <4>1. Vid(Null) = Null BY NullIs
      <4>2. Vid(Null)' = Null BY <1>4 DEF Vid
      <4> QED BY <3>2, <4>1, <4>2
    <3> QED BY <2>0, <3>1, <3>2
  <2>4. Image(o)' = CopyOf(o, f) BY <2>1, <2>3, ImageIs DEF CopyOf
  <2> QED BY <2>0, <2>1, <2>2, <2>4 DEF Copied
<1>7. \A n : Bears(n) => Bears(n)' BY <1>a DEF Bears
<1>8. Living'
  <2>1. ASSUME NEW n \in DOMAIN rec2vid' \ {Null} PROVE n \in learned' /\ Bears(n)'
    <3>1. CASE n \in DOMAIN rec2vid BY <1>7, <1>b, <2>1, <3>1 DEF Living
    <3>2. CASE n \in DOMAIN f
      <4>1. PICK o \in S : HasOid(o) /\ o.id = n BY <1>g, <3>2
      <4> QED BY <1>a, <1>c, <4>1 DEF Bears
    <3> QED BY <1>1, <3>1, <3>2
  <2>2. ASSUME NEW o \in recDev', HasOid(o), o.id \in DOMAIN rec2vid' PROVE Copied(o)'
    <3>1. CASE o \in S BY <1>6, <3>1
    <3>2. CASE o \in recDev
      <4>1. o.id \notin DOMAIN f
        <5>1. o.id \in Nat /\ o.id < recNext BY <3>2, OidsBelow
        <5> QED BY <1>2, <1>h, <5>1
      <4>2. Copied(o) BY <1>1, <2>2, <3>2, <4>1 DEF Living
      <4> QED BY <1>5, <4>2
    <3> QED BY <1>a, <2>2, <3>1, <3>2
  <2>3. ASSUME NEW m \in DOMAIN rec2vid', NEW n \in DOMAIN rec2vid', rec2vid'[m] = rec2vid'[n]
        PROVE  m = n
    <3>1. ASSUME NEW x \in DOMAIN rec2vid, NEW y \in DOMAIN f PROVE rec2vid[x] # f[y]
      <4>1. rec2vid[x] \in Nat /\ rec2vid[x] < vidNext
        <5>1. CASE x = Null
          <6>1. 0 < vidNext BY DEF DevShape, VidBase
          <6> QED BY <5>1, <6>1 DEF Living, Null
        <5>2. CASE x # Null BY <5>2, MappedIs
        <5> QED BY <5>1, <5>2
      <4> QED BY <1>2, <1>h, <4>1
    <3>2. CASE m \in DOMAIN rec2vid /\ n \in DOMAIN rec2vid BY <1>1, <2>3, <3>2 DEF Living
    <3>3. CASE m \in DOMAIN f /\ n \in DOMAIN f BY <1>1, <1>i, <2>3, <3>3
    <3>4. CASE m \in DOMAIN rec2vid /\ n \in DOMAIN f BY <1>1, <2>3, <3>1, <3>4
    <3>5. CASE m \in DOMAIN f /\ n \in DOMAIN rec2vid BY <1>1, <2>3, <3>1, <3>5
    <3> QED BY <1>1, <3>2, <3>3, <3>4, <3>5
  <2> QED BY <1>4, <2>1, <2>2, <2>3 DEF Living
<1>9. InPlace'
  <2>1. ASSUME NEW n \in DOMAIN rec2vid' \cap (1..4)
        PROVE  rec2vid'[n] = n + VidBase /\ 1 \in DOMAIN rec2vid'
    BY <1>1, <1>3, <2>1 DEF InPlace
  <2>2. 1 \in DOMAIN rec2vid' => 1 \in DOMAIN rec2vid
    <3>1. 1 \in 1..4 OBVIOUS
    <3> QED BY <1>1, <1>3, <3>1
  <2>3. ASSUME NEW w \in Implicit(RecBase)
        PROVE  (w \in recDev' <=> w \in recDev) /\ (Twin(w) \in dev' <=> Twin(w) \in dev)
    <3>1. w.type \notin OwnTypes /\ Twin(w).type \notin OwnTypes
      BY ImplicitAre DEF Object, OwnTypes, Twin
    <3>2. ASSUME NEW d \in N PROVE d.type \in OwnTypes
      <4>1. PICK o \in S : d = CopyOf(o, f) BY <1>k, <3>2
      <4>2. d.type = o.type BY <4>1 DEF CopyOf, Object
      <4> QED BY <1>j, <4>1, <4>2
    <3>3. \A o \in S : o.type \in OwnTypes BY <1>j
    <3> QED BY <1>a, <1>e, <3>1, <3>2, <3>3
  <2> QED BY <2>1, <2>2, <2>3 DEF InPlace
<1>10. ASSUME Mirrored PROVE Mirrored'
  <2>1. ASSUME NEW p \in recDev', p.id \in learned' PROVE Copied(p)'
    <3>1. CASE p \in S BY <1>6, <3>1
    <3>2. CASE p \in recDev
      <4>1. p.id \in learned
        <5>1. ASSUME NEW o \in S, o.id = p.id PROVE p.id \in learned
          <6>1. p.id \in Nat /\ p.id < recNext BY <3>2, OidsBelow
          <6>2. HasOid(o) => o.id \in DOMAIN f BY <1>g, <5>1
          <6>3. HasOid(o) => recNext <= p.id BY <1>h, <5>1, <6>2
          <6>4. ~HasOid(o) BY <1>2, <6>1, <6>3
          <6>5. o.id \in DOMAIN rec2vid /\ o.id # Null BY <1>j, <5>1, <6>4
          <6> QED BY <5>1, <6>5 DEF Living
        <5> QED BY <1>d, <2>1, <5>1
      <4> QED BY <1>5, <1>10, <3>2, <4>1 DEF Mirrored
    <3> QED BY <1>a, <2>1, <3>1, <3>2
  <2>2. ASSUME NEW d \in dev', d \notin Implicit(VidBase)
        PROVE  \E p \in recDev' : p.id \in learned' /\ Image(p)' = d
    <3>1. CASE d \in N
      <4>1. PICK o \in S : d = CopyOf(o, f) BY <1>k, <3>1
      <4> QED BY <1>6, <1>a, <1>c, <4>1
    <3>2. CASE d \in dev
      <4>1. PICK p \in recDev : p.id \in learned /\ Image(p) = d BY <1>10, <2>2, <3>2 DEF Mirrored
      <4>2. Copied(p) BY <1>10, <4>1 DEF Mirrored
      <4> QED BY <1>5, <1>a, <1>b, <4>1, <4>2
    <3> QED BY <1>e, <2>2, <3>1, <3>2
  <2> QED BY <1>1, <1>10, <2>1, <2>2 DEF Mirrored
<1> QED BY <1>8, <1>9, <1>10

(* An object that the recording has, and the replay does not.              *)
LEMMA LossKeeps ==
  ASSUME RecShape, Living, InPlace, NEW S,
         recDev' = recDev \cup S, learned \subseteq learned', dev' = dev, rec2vid' = rec2vid,
         \A o \in S : /\ o.type \in OwnTypes
                      /\ HasOid(o) => recNext <= o.id
  PROVE  Living' /\ InPlace'
<1>1. \A o : (Copied(o)' <=> Copied(o)) /\ Image(o)' = Image(o) BY DEF Copied, Image
<1>2. \A n : Bears(n) => Bears(n)' BY DEF Bears
<1>3. ASSUME NEW o \in S, HasOid(o) PROVE o.id \notin DOMAIN rec2vid
  <2>1. recNext \in Nat BY DEF RecShape
  <2> QED BY <1>3, <2>1, MappedBelow
<1>4. Living' BY <1>1, <1>2, <1>3 DEF Living
<1>5. InPlace'
  <2>1. ASSUME NEW w \in Implicit(RecBase)
        PROVE  (w \in recDev' <=> w \in recDev) /\ (Twin(w) \in dev' <=> Twin(w) \in dev)
    <3>1. w.type \notin OwnTypes BY ImplicitAre DEF Object, OwnTypes
    <3> QED BY <3>1
  <2> QED BY <2>1 DEF InPlace
<1> QED BY <1>4, <1>5

-----------------------------------------------------------------------------
(* As long as the devices do the same, every record keeps the map right.   *)

(* A new object of the recording is not on the recorded device.            *)
LEMMA FreshIsNew ==
  ASSUME RecShape, NEW o, NEW n, FreshObject(o, n), n \in Nat, recNext <= n
  PROVE  /\ o \notin recDev /\ o.id # Null
         /\ HasOid(o) => recNext <= o.id
         /\ ~HasOid(o) => o.type = "ROUTE"
<1>1. recNext \in Nat BY DEF RecShape
<1>2. CASE HasOid(o)
  <2>1. o.id = n BY <1>2 DEF FreshObject
  <2>2. \A p \in recDev : p.id \in Nat /\ p.id < recNext BY OidsBelow
  <2>3. o \notin recDev BY <1>1, <2>1, <2>2
  <2>4. n # 0 BY DEF RecShape, RecBase
  <2> QED BY <1>2, <2>1, <2>3, <2>4 DEF Null
<1>3. CASE ~HasOid(o)
  <2>1. o.type = "ROUTE" BY <1>3 DEF HasOid
  <2>2. o.id = 2 /\ o \notin recDev BY <1>3, <2>1 DEF FreshObject, RecBase
  <2> QED BY <1>3, <2>1, <2>2 DEF Null
<1> QED BY <1>2, <1>3

(* A record that succeeded has put its objects on the recorded device and  *)
(* named their OIDs.                                                       *)
LEMMA RecordedAdds ==
  ASSUME NEW S, S \cap recDev = {}, NEW n, NEW ok, ok = TRUE, Recorded(recDev \cup S, n, ok)
  PROVE  /\ recDev' = recDev \cup S /\ learned \subseteq learned' /\ expect' = "any"
         /\ \A o \in S : o.id \in learned'
         /\ \A m \in learned' : m \in learned \/ \E o \in S : o.id = m
<1>1. recDev' = recDev \cup S /\ learned' = learned \cup {o.id : o \in (recDev \cup S) \ recDev}
  BY DEF Recorded
<1>2. (recDev \cup S) \ recDev = S OBVIOUS
<1>3. expect' = "any" BY DEF Recorded
<1> QED BY <1>1, <1>2, <1>3

(* What a fresh object refers to is mapped, when the devices are the same. *)
LEMMA FreshMapped ==
  ASSUME RecShape, DevShape, Living, Mirrored, phase = "run", NEW o, NEW n, FreshObject(o, n)
  PROVE  /\ o.ref \in DOMAIN rec2vid \cup {Null}
         /\ ~HasOid(o) => o.id \in DOMAIN rec2vid
         /\ Vid(o.ref) = Null \/ Exists(Vid(o.ref))
<1>1. ASSUME o.ref # Null PROVE o.ref \in DOMAIN rec2vid
  <2>1. o.ref \in learned /\ \E w \in recDev : w.id = o.ref
    BY <1>1, TargetsAre DEF FreshObject
  <2> QED BY <2>1 DEF Mirrored, Copied
<1>2. ASSUME ~HasOid(o) PROVE o.id \in DOMAIN rec2vid
  <2>1. o.id = 2 /\ o.id \in learned BY <1>2 DEF FreshObject, RecBase
  <2>2. Object("VR", 2, Null) \in recDev /\ Object("VR", 2, Null).id = 2
    BY DEF RecShape, RecBase, Object
  <2> QED BY <2>1, <2>2 DEF Mirrored, Copied
<1>3. Vid(o.ref) = Null \/ Exists(Vid(o.ref))
  <2>1. CASE o.ref = Null BY <2>1, NullIs
  <2>2. CASE o.ref # Null BY <1>1, <2>2, MappedIs DEF Vid
  <2> QED BY <2>1, <2>2
<1> QED BY <1>1, <1>2, <1>3

(* A request with no unknown OID asks for a copy of the recorded object.   *)
LEMMA TranslatedIs ==
  ASSUME Living, NEW o, NEW bulk \in BOOLEAN, NEW vid, NEW f, HasOid(o) => f[o.id] = vid,
         Unmapped({o.ref} \cup KeyOids(o), bulk) = {}
  PROVE  /\ o.ref \in DOMAIN rec2vid \cup {Null} /\ (~HasOid(o) => o.id \in DOMAIN rec2vid \cup {Null})
         /\ Translated(o, vid, bulk) = CopyOf(o, f)
<1>1. /\ o.ref \in DOMAIN rec2vid \/ (bulk /\ o.ref = Null)
      /\ ~HasOid(o) => o.id \in DOMAIN rec2vid \cup {Null}
  BY DEF Unmapped, KeyOids
<1>2. Mapped(o.ref, bulk) = Vid(o.ref)
  <2>1. CASE o.ref = Null
    <3>1. Vid(Null) = Null BY NullIs
    <3> QED BY <1>1, <2>1, <3>1 DEF Mapped, Vid
  <2>2. CASE o.ref # Null BY <1>1, <2>2 DEF Mapped, Vid
  <2> QED BY <2>1, <2>2
<1> QED BY <1>1, <1>2 DEF Translated, CopyOf

(* Each handler keeps the map sound as long as the device answers as the   *)
(* recorded one did. First the create.                                     *)
LEMMA CreateKeeps ==
  ASSUME Shapes, Faithful => Sound, NEW t \in OwnTypes, NEW o \in Fresh(t, recNext),
         NEW ok \in BOOLEAN, Create(o, ok), Faithful'
  PROVE  Sound'
<1> DEFINE missing == Unmapped({o.ref} \cup KeyOids(o), FALSE)
           new == Translated(o, vidNext, FALSE)
<1>0. RecShape /\ DevShape /\ TableTypes BY DEF Shapes
<1>1. (refused => refused') /\ (differs => differs') BY CreateShapes
<1>2. /\ phase = "run" /\ expect = "any"
      /\ Recorded(recDev \cup {o}, IF HasOid(o) THEN recNext + 1 ELSE recNext, ok)
      /\ \/ /\ missing = {} /\ Valid(new) /\ dev' = dev \cup {new} /\ status' = "ok"
            /\ rec2vid' = IF HasOid(o) THEN rec2vid ++ Entry(o.id, new.id) ELSE rec2vid
            /\ ok
         \/ /\ missing = {} /\ status' \in {"refused", "other"}
            /\ UNCHANGED <<dev, rec2vid>>
            /\ IF ok THEN refused' = TRUE ELSE status' = "refused"
  <2>1. ~differs' /\ phase' = "run" BY DEF Faithful
  <2>2. Stops => phase' = "idle" BY DEF Stops, Raise
  <2> QED BY <2>1, <2>2, CreateOutcomes
<1> HIDE DEF missing, new
<1>3. Sound /\ Living /\ InPlace /\ (~refused => Mirrored) BY <1>1, <1>2 DEF Faithful, Sound
<1>4. recNext \in Nat /\ recNext <= recNext /\ vidNext \in Nat BY <1>0 DEF RecShape, DevShape
<1>5. FreshObject(o, recNext)
  <2>1. /\ o \in Objects /\ o.type = t /\ o.ref \in Targets(t)
        /\ t # "ROUTE" => HasOid(o) /\ o.id = recNext
        /\ t = "ROUTE" => /\ ~HasOid(o) /\ o.id = RecBase + 2 /\ o.id \in learned
                          /\ \A p \in recDev : p.type # "ROUTE"
    BY <1>0, <1>4, FreshAre
  <2> QED BY <2>1 DEF FreshObject
<1>6. o \notin recDev /\ o.id # Null /\ (HasOid(o) => o.id = recNext) /\ o.type \in OwnTypes
  BY <1>0, <1>4, <1>5, FreshIsNew DEF FreshObject
<1>7. CASE /\ missing = {} /\ Valid(new) /\ dev' = dev \cup {new} /\ status' = "ok"
           /\ rec2vid' = IF HasOid(o) THEN rec2vid ++ Entry(o.id, new.id) ELSE rec2vid
           /\ ok
  <2> DEFINE f == IF HasOid(o) THEN Entry(o.id, vidNext) ELSE <<>>
  <2>1. DOMAIN <<>> = {} /\ DOMAIN Entry(o.id, vidNext) = {o.id} /\ Entry(o.id, vidNext)[o.id] = vidNext
    <3>1. DOMAIN <<>> = {} OBVIOUS
    <3> QED BY <3>1, EntryIs
  <2>2. /\ HasOid(o) => DOMAIN f = {o.id} /\ f[o.id] = vidNext
        /\ ~HasOid(o) => DOMAIN f = {}
    BY <2>1
  <2>3. HasOid(o) => new.id = vidNext BY DEF new, Translated, Object
  <2>4. rec2vid' = rec2vid ++ f
    <3>1. CASE HasOid(o) BY <1>7, <2>3, <3>1
    <3>2. CASE ~HasOid(o)
      <4>1. f = <<>> BY <3>2
      <4>2. rec2vid = [k \in DOMAIN rec2vid |-> rec2vid[k]] BY <1>0 DEF TableTypes
      <4>3. rec2vid ++ <<>> = [k \in DOMAIN rec2vid |-> rec2vid[k]] BY <2>1 DEF ++
      <4> QED BY <1>7, <3>2, <4>1, <4>2, <4>3
    <3> QED BY <3>1, <3>2
  <2> HIDE DEF f
  <2>5. new = CopyOf(o, f) /\ o.ref \in DOMAIN rec2vid \cup {Null} /\ (~HasOid(o) => o.id \in DOMAIN rec2vid)
    <3>1. Unmapped({o.ref} \cup KeyOids(o), FALSE) = {} BY <1>7 DEF missing
    <3>2. /\ o.ref \in DOMAIN rec2vid \cup {Null} /\ (~HasOid(o) => o.id \in DOMAIN rec2vid \cup {Null})
          /\ Translated(o, vidNext, FALSE) = CopyOf(o, f)
      BY <1>3, <2>2, <3>1, TranslatedIs
    <3> QED BY <1>6, <3>2 DEF new
  <2>6. /\ recDev' = recDev \cup {o} /\ learned \subseteq learned' /\ expect' = "any"
        /\ o.id \in learned' /\ \A m \in learned' : m \in learned \/ o.id = m
    <3>1. {o} \cap recDev = {} BY <1>6
    <3> DEFINE n == IF HasOid(o) THEN recNext + 1 ELSE recNext
    <3>2. Recorded(recDev \cup {o}, n, ok) BY <1>2
    <3>3. ok = TRUE BY <1>7
    <3> HIDE DEF n
    <3>4. /\ recDev' = recDev \cup {o} /\ learned \subseteq learned' /\ expect' = "any"
          /\ \A p \in {o} : p.id \in learned'
          /\ \A m \in learned' : m \in learned \/ \E p \in {o} : p.id = m
      BY <3>1, <3>2, <3>3, RecordedAdds
    <3> QED BY <3>4
  <2>7. Living' /\ InPlace' /\ (Mirrored => Mirrored')
    <3> DEFINE S == {o}
               N == {new}
    <3>1. \A n : n \in DOMAIN f <=> \E p \in S : HasOid(p) /\ p.id = n BY <2>2
    <3>2. \A n \in DOMAIN f : n \in Nat /\ recNext <= n /\ f[n] \in Nat /\ vidNext <= f[n]
      BY <1>4, <1>6, <2>2
    <3>3. \A m, n \in DOMAIN f : f[m] = f[n] => m = n BY <2>2
    <3>4. \A p \in S : /\ p.type \in OwnTypes
                       /\ ~HasOid(p) => p.id \in DOMAIN rec2vid /\ p.id # Null
                       /\ p.ref \in DOMAIN rec2vid \cup {Null}
                       /\ CopyOf(p, f) \in N
      BY <1>6, <2>5
    <3>5. \A d \in N : \E p \in S : d = CopyOf(p, f) BY <2>5
    <3>6. \A p \in S : p.id \in learned' BY <2>6
    <3>7. \A n \in learned' : n \in learned \/ \E p \in S : p.id = n BY <2>6
    <3>8. recDev' = recDev \cup S /\ dev' = dev \cup N BY <1>7, <2>6
    <3> HIDE DEF S, N
    <3>9. Adds(S, N, f)
      BY <2>4, <2>6, <3>1, <3>2, <3>3, <3>4, <3>5, <3>6, <3>7, <3>8 DEF Adds
    <3> QED BY <1>0, <1>3, <3>9, AdditionKeeps
  <2> QED BY <1>1, <1>3, <2>6, <2>7 DEF Sound
<1>8. CASE /\ missing = {} /\ status' \in {"refused", "other"} /\ UNCHANGED <<dev, rec2vid>>
           /\ IF ok THEN refused' = TRUE ELSE status' = "refused"
  <2>1. CASE ok
    <3>1. {o} \cap recDev = {} /\ ok = TRUE BY <1>6, <2>1
    <3> DEFINE n == IF HasOid(o) THEN recNext + 1 ELSE recNext
    <3>2. Recorded(recDev \cup {o}, n, ok) BY <1>2
    <3> HIDE DEF n
    <3>3. recDev' = recDev \cup {o} /\ learned \subseteq learned' /\ expect' = "any"
      BY <3>1, <3>2, RecordedAdds
    <3>4. \A p \in {o} : p.type \in OwnTypes /\ (HasOid(p) => recNext <= p.id) BY <1>4, <1>6
    <3>5. Living' /\ InPlace'
      <4> DEFINE S == {o}
      <4>1. recDev' = recDev \cup S /\ \A p \in S : p.type \in OwnTypes /\ (HasOid(p) => recNext <= p.id)
        BY <3>3, <3>4
      <4>2. dev' = dev /\ rec2vid' = rec2vid BY <1>8
      <4> HIDE DEF S
      <4> QED BY <1>0, <1>3, <3>3, <4>1, <4>2, LossKeeps
    <3> QED BY <1>8, <2>1, <3>3, <3>5 DEF Sound
  <2>2. CASE ~ok
    <3>1. recDev' = recDev /\ learned' = learned /\ expect' = "E" BY <1>2, <2>2 DEF Recorded
    <3>2. UNCHANGED <<recDev, learned, dev, rec2vid>> BY <1>8, <3>1
    <3>3. Living' /\ InPlace' /\ (Mirrored => Mirrored')
      <4>1. \A p : Copied(p)' <=> Copied(p) BY <3>2 DEF Copied, Image
      <4>2. \A p : Image(p)' = Image(p) BY <3>2 DEF Image
      <4>3. \A n : Bears(n)' <=> Bears(n) BY <3>2 DEF Bears
      <4>4. Living' BY <1>3, <3>2, <4>1, <4>3 DEF Living
      <4>5. InPlace' BY <1>3, <3>2 DEF InPlace
      <4>6. Mirrored => Mirrored' BY <3>2, <4>1, <4>2 DEF Mirrored
      <4> QED BY <4>4, <4>5, <4>6
    <3> QED BY <1>1, <1>3, <1>8, <2>2, <3>1, <3>3 DEF Sound
  <2> QED BY <2>1, <2>2
<1> QED BY <1>2, <1>7, <1>8

(* What held before a step that the replay goes on after.                  *)
LEMMA SoundBefore ==
  ASSUME Faithful => Sound, phase = "run", refused => refused', differs => differs', Faithful'
  PROVE  /\ Sound /\ Living /\ InPlace /\ (~refused' => Mirrored)
         /\ ~differs' /\ ~Stops
<1>1. ~differs' /\ phase' = "run" BY DEF Faithful
<1>2. ~Stops BY <1>1 DEF Stops, Raise
<1>3. Sound BY <1>1 DEF Faithful
<1> QED BY <1>1, <1>2, <1>3 DEF Sound

(* The remove.                                                             *)
LEMMA RemoveKeeps ==
  ASSUME Shapes, Faithful => Sound, NEW o, Remove(o), Faithful'
  PROVE  Sound'
<1> DEFINE ok == Removable(o, recDev)
           name == <<o.type, rec2vid[o.id]>>
<1>0. RecShape /\ DevShape /\ TableTypes BY DEF Shapes
<1>1. (refused => refused') /\ (differs => differs') BY RemoveShapes
<1>2. phase = "run" BY RemoveOutcomes
<1>3. Living /\ InPlace /\ (~refused' => Mirrored) /\ ~differs' /\ ~Stops
  BY <1>1, <1>2, SoundBefore
<1>4. /\ o \in Removals /\ ok /\ Recorded(recDev \ {o}, recNext, ok)
      /\ o.id \in DOMAIN rec2vid /\ dev' = dev \ Named({name})
      /\ rec2vid' = IF HasOid(o) THEN Restrict(rec2vid, DOMAIN rec2vid \ {o.id}) ELSE rec2vid
  BY <1>3, RemoveOutcomes
<1>5. recDev' = recDev \ {o} /\ learned' = learned /\ expect' = "any"
  <2>1. (recDev \ {o}) \ recDev = {} OBVIOUS
  <2>2. recDev' = recDev \ {o} /\ expect' = "any"
        /\ learned' = learned \cup {p.id : p \in (recDev \ {o}) \ recDev}
    BY <1>4 DEF Recorded
  <2>3. {p.id : p \in (recDev \ {o}) \ recDev} = {} BY <2>1
  <2> QED BY <2>2, <2>3
<1> DEFINE S == {o}
<1>6. S \in SUBSET Removals /\ \A p \in S : Removable(p, recDev) /\ p.id \in DOMAIN rec2vid BY <1>4
<1>7. NamesOf(S) = {name} BY DEF NamesOf
<1>8. rec2vid' = Restrict(rec2vid, DOMAIN rec2vid \ Cut(S))
  <2>1. CASE HasOid(o)
    <3>1. Cut(S) = {o.id} BY <2>1 DEF Cut
    <3> QED BY <1>4, <2>1, <3>1
  <2>2. CASE ~HasOid(o)
    <3>1. Cut(S) = {} BY <2>2 DEF Cut
    <3>2. rec2vid = [n \in DOMAIN rec2vid |-> rec2vid[n]] BY <1>0 DEF TableTypes
    <3>3. DOMAIN rec2vid \ {} = DOMAIN rec2vid OBVIOUS
    <3> QED BY <1>4, <2>2, <3>1, <3>2, <3>3 DEF Restrict
  <2> QED BY <2>1, <2>2
<1>9. recDev' = recDev \ S /\ dev' = dev \ Named(NamesOf(S)) BY <1>4, <1>5, <1>7
<1> HIDE DEF S
<1>10. Living' /\ InPlace' /\ (Mirrored => Mirrored')
  BY <1>0, <1>2, <1>3, <1>5, <1>6, <1>8, <1>9, RemovalKeeps
<1> QED BY <1>3, <1>5, <1>10 DEF Sound

(* The bulk remove.                                                        *)
LEMMA BulkRemoveKeeps ==
  ASSUME Shapes, Faithful => Sound, NEW S, BulkRemove(S), Faithful'
  PROVE  Sound'
<1>0. RecShape /\ DevShape /\ TableTypes BY DEF Shapes
<1>1. (refused => refused') /\ (differs => differs') BY BulkRemoveShapes
<1>2. phase = "run" BY BulkRemoveOutcomes
<1>3. Living /\ InPlace /\ (~refused' => Mirrored) /\ ~differs' /\ ~Stops
  BY <1>1, <1>2, SoundBefore
<1>4. /\ S \subseteq Removals /\ \A o \in S : Removable(o, recDev)
      /\ Recorded(recDev \ S, recNext, TRUE)
      /\ Unmapped({o.id : o \in S}, FALSE) = {}
      /\ dev' = dev \ Named(NamesOf(S))
      /\ rec2vid' = Restrict(rec2vid, DOMAIN rec2vid \ Cut(S))
  BY <1>3, BulkRemoveOutcomes DEF NamesOf, Cut
<1>5. recDev' = recDev \ S /\ learned' = learned /\ expect' = "any"
  <2>1. (recDev \ S) \ recDev = {} OBVIOUS
  <2>2. recDev' = recDev \ S /\ expect' = "any"
        /\ learned' = learned \cup {p.id : p \in (recDev \ S) \ recDev}
    BY <1>4 DEF Recorded
  <2>3. {p.id : p \in (recDev \ S) \ recDev} = {} BY <2>1
  <2> QED BY <2>2, <2>3
<1>6. \A o \in S : o.id \in DOMAIN rec2vid BY <1>4 DEF Unmapped
<1>10. Living' /\ InPlace' /\ (Mirrored => Mirrored')
  BY <1>0, <1>2, <1>3, <1>4, <1>5, <1>6, RemovalKeeps
<1> QED BY <1>3, <1>5, <1>10 DEF Sound

(* The set, single and bulk.                                               *)
LEMMA SetKeeps ==
  ASSUME Shapes, Faithful => Sound, NEW o \in recDev, NEW r \in Targets(o.type),
         NEW bulk \in BOOLEAN, NEW ok \in BOOLEAN, SetAttribute(o, r, bulk, ok), Faithful'
  PROVE  Sound'
<1> DEFINE missing == Unmapped({r}, bulk) \cup Unmapped({o.id}, FALSE)
           found == Named({<<o.type, rec2vid[o.id]>>})
           ref == Mapped(r, bulk)
<1>0. RecShape /\ DevShape /\ TableTypes BY DEF Shapes
<1>1. (refused => refused') /\ (differs => differs') BY SetShapes
<1>a. /\ phase = "run" /\ o.type \in {"MEMBER", "ROUTE"} /\ o.id \in learned
      /\ Recorded((recDev \ {o}) \cup {Object(o.type, o.id, r)}, recNext, ok)
      /\ UNCHANGED <<vidNext, rec2vid, registry, oids, status, replays>>
      /\ \/ /\ missing = {} /\ found # {}
            /\ dev' = Redirected(found, ref)
            /\ ok \/ differs'
         \/ Stops
  BY SetOutcomes, ZenonT(100)
<1> HIDE DEF missing, found, ref
<1>3. Living /\ InPlace /\ (~refused' => Mirrored) /\ ~differs' /\ ~Stops
  BY <1>1, <1>a, SoundBefore
<1>4. missing = {} /\ found # {} /\ dev' = Redirected(found, ref) /\ ok BY <1>a, <1>3
<1>5. r \in DOMAIN rec2vid \/ (bulk /\ r = Null)
  BY <1>4 DEF missing, Unmapped
<1>6. o.id \in DOMAIN rec2vid BY <1>4 DEF missing, Unmapped
<1>7. ref = Vid(r)
  <2>1. CASE r = Null
    <3>1. Vid(Null) = Null BY <1>3, NullIs
    <3> QED BY <1>5, <2>1, <3>1 DEF ref, Mapped, Vid
  <2>2. CASE r # Null BY <1>5, <2>2 DEF ref, Mapped, Vid
  <2> QED BY <2>1, <2>2
<1> DEFINE new == Object(o.type, o.id, r)
<1>8. recDev' = (recDev \ {o}) \cup {new} /\ learned' = learned /\ expect' = "any"
  <2>1. /\ recDev' = (recDev \ {o}) \cup {new} /\ expect' = "any"
        /\ learned' = learned \cup {p.id : p \in ((recDev \ {o}) \cup {new}) \ recDev}
    BY <1>4, <1>a DEF Recorded
  <2>2. new.id = o.id BY DEF Object
  <2> HIDE DEF new
  <2>3. \A p \in ((recDev \ {o}) \cup {new}) \ recDev : p.id \in learned BY <1>a, <2>2
  <2> QED BY <2>1, <2>3
<1>9. Living' /\ InPlace' /\ (Mirrored => Mirrored')
  <2>1. r \in DOMAIN rec2vid \cup {Null} BY <1>5
  <2>2. /\ rec2vid' = rec2vid
        /\ Named({<<o.type, rec2vid[o.id]>>}) # {}
        /\ dev' = Redirected(Named({<<o.type, rec2vid[o.id]>>}), Vid(r))
    BY <1>a, <1>4, <1>7 DEF found
  <2> QED BY <1>0, <1>a, <1>3, <1>6, <1>8, <2>1, <2>2, SettingKeeps
<1> QED BY <1>3, <1>8, <1>9 DEF Sound

(* A batch that is accepted is added as a whole.                           *)
LEMMA BatchAdds ==
  ASSUME RecShape, DevShape, TableTypes, Living, NEW batch \in Batches, MissingOf(batch) = {},
         dev' = dev \cup Range(NewOf(batch)), rec2vid' = rec2vid ++ VidsOf(batch),
         recDev' = recDev \cup Range(batch), learned \subseteq learned',
         \A o \in Range(batch) : o.id \in learned',
         \A m \in learned' : m \in learned \/ \E o \in Range(batch) : o.id = m
  PROVE  Adds(Range(batch), Range(NewOf(batch)), VidsOf(batch))
<1> DEFINE new == NewOf(batch)
           f == VidsOf(batch)
           S == Range(batch)
           N == Range(new)
           k == Cardinality(FreshIds(batch))
<1>1. /\ Len(batch) \in {1, 2} /\ Len(batch) \in Nat
      /\ \A i \in 1..Len(batch) : FreshObject(batch[i], recNext + i - 1)
      /\ S = {batch[i] : i \in 1..Len(batch)}
  BY BatchesAre
<1>2. DOMAIN new = 1..Len(batch)
      /\ \A i \in 1..Len(batch) : new[i] = Translated(batch[i], vidNext + i - 1, TRUE)
  BY NewShape
<1>3. N = {new[i] : i \in 1..Len(batch)} BY <1>2 DEF Range
<1>4. recNext \in Nat /\ vidNext \in Nat BY DEF RecShape, DevShape
<1>5. DOMAIN f = FreshIds(batch) /\ \A n \in FreshIds(batch) : f[n] = vidNext + (n - recNext)
  BY DEF VidsOf
<1>6. \A n : n \in FreshIds(batch) <=> \E o \in S : HasOid(o) /\ o.id = n BY DEF FreshIds
<1>7. \A n \in FreshIds(batch) : n \in Nat /\ recNext <= n
  <2>1. FreshIds(batch) = {} \/ (k \in {1, 2} /\ FreshIds(batch) = recNext..(recNext + k - 1))
    BY BatchCount
  <2> HIDE DEF k
  <2> QED BY <1>4, <2>1
<1>8. \A o \in S : Unmapped({o.ref} \cup KeyOids(o), TRUE) = {}
  <2>1. \A w \in S : Unmapped({w.ref} \cup KeyOids(w), TRUE) \subseteq MissingOf(batch)
    BY DEF MissingOf
  <2> QED BY <2>1
<1> HIDE DEF new, f, S, N
<1>9. ASSUME NEW i \in 1..Len(batch), NEW o, o = batch[i]
      PROVE  /\ o.type \in OwnTypes
             /\ ~HasOid(o) => o.id \in DOMAIN rec2vid /\ o.id # Null
             /\ o.ref \in DOMAIN rec2vid \cup {Null}
             /\ new[i] = CopyOf(o, f)
  <2>1. FreshObject(o, recNext + i - 1) /\ o \in S BY <1>1, <1>9
  <2>2. recNext + i - 1 \in Nat /\ recNext <= recNext + i - 1 BY <1>1, <1>4
  <2>3. o.id # Null BY <2>1, <2>2, FreshIsNew
  <2>4. HasOid(o) => f[o.id] = vidNext + i - 1
    <3>1. ASSUME HasOid(o) PROVE f[o.id] = vidNext + i - 1
      <4>1. o.id = recNext + i - 1 /\ o.id \in FreshIds(batch) BY <1>6, <2>1, <3>1 DEF FreshObject
      <4>2. i \in Int BY <1>1
      <4> QED BY <1>4, <1>5, <4>1, <4>2
    <3> QED BY <3>1
  <2>5. /\ o.ref \in DOMAIN rec2vid \cup {Null} /\ (~HasOid(o) => o.id \in DOMAIN rec2vid \cup {Null})
        /\ Translated(o, vidNext + i - 1, TRUE) = CopyOf(o, f)
    <3> DEFINE vid == vidNext + i - 1
               bulk == TRUE
    <3>1. bulk \in BOOLEAN /\ Unmapped({o.ref} \cup KeyOids(o), bulk) = {} BY <1>8, <2>1
    <3>2. HasOid(o) => f[o.id] = vid BY <2>4
    <3> HIDE DEF vid, bulk
    <3>3. /\ o.ref \in DOMAIN rec2vid \cup {Null} /\ (~HasOid(o) => o.id \in DOMAIN rec2vid \cup {Null})
          /\ Translated(o, vid, bulk) = CopyOf(o, f)
      BY <3>1, <3>2, TranslatedIs
    <3> QED BY <3>3 DEF vid, bulk
  <2> QED BY <1>2, <1>9, <2>1, <2>3, <2>5 DEF FreshObject
<1>10. \A n \in DOMAIN f : n \in Nat /\ recNext <= n /\ f[n] \in Nat /\ vidNext <= f[n]
  BY <1>4, <1>5, <1>7
<1>11. \A m, n \in DOMAIN f : f[m] = f[n] => m = n BY <1>4, <1>5, <1>7
<1>12. \A n : n \in DOMAIN f <=> \E o \in S : HasOid(o) /\ o.id = n BY <1>5, <1>6
<1>13. \A o \in S : /\ o.type \in OwnTypes
                    /\ ~HasOid(o) => o.id \in DOMAIN rec2vid /\ o.id # Null
                    /\ o.ref \in DOMAIN rec2vid \cup {Null}
                    /\ CopyOf(o, f) \in N
  <2>1. ASSUME NEW o \in S
        PROVE  /\ o.type \in OwnTypes
               /\ ~HasOid(o) => o.id \in DOMAIN rec2vid /\ o.id # Null
               /\ o.ref \in DOMAIN rec2vid \cup {Null}
               /\ CopyOf(o, f) \in N
    <3>1. PICK i \in 1..Len(batch) : o = batch[i] BY <1>1, <2>1
    <3> QED BY <1>3, <1>9, <3>1
  <2> QED BY <2>1
<1>14. \A d \in N : \E o \in S : d = CopyOf(o, f)
  <2>1. ASSUME NEW d \in N PROVE \E o \in S : d = CopyOf(o, f)
    <3>1. PICK i \in 1..Len(batch) : d = new[i] BY <1>3, <2>1
    <3>2. batch[i] \in S BY <1>1, <3>1
    <3> QED BY <1>9, <3>1, <3>2
  <2> QED BY <2>1
<1>15. /\ recDev' = recDev \cup S /\ learned \subseteq learned'
       /\ \A o \in S : o.id \in learned'
       /\ \A n \in learned' : n \in learned \/ \E o \in S : o.id = n
       /\ dev' = dev \cup N /\ rec2vid' = rec2vid ++ f
  BY DEF S, N, f, new
<1>16. Adds(S, N, f) BY <1>10, <1>11, <1>12, <1>13, <1>14, <1>15 DEF Adds
<1> QED BY <1>16 DEF S, N, f, new

(* The bulk create.                                                        *)
LEMMA BulkCreateKeeps ==
  ASSUME Shapes, Faithful => Sound, NEW batch \in Batches, BulkCreate(batch), Faithful'
  PROVE  Sound'
<1>0. RecShape /\ DevShape /\ TableTypes BY DEF Shapes
<1>1. (refused => refused') /\ (differs => differs') BY BulkCreateShapes
<1>2. phase = "run" BY BulkCreateOutcomes
<1>3. Living /\ InPlace /\ (~refused' => Mirrored) /\ ~differs' /\ ~Stops
  BY <1>1, <1>2, SoundBefore
<1> DEFINE n == recNext + Cardinality({i \in DOMAIN batch : HasOid(batch[i])})
           S == Range(batch)
<1>4. /\ Recorded(recDev \cup S, n, TRUE)
      /\ MissingOf(batch) = {}
      /\ dev' = dev \cup Range(NewOf(batch))
      /\ rec2vid' = rec2vid ++ VidsOf(batch)
  BY <1>3, BulkCreateOutcomes
<1> HIDE DEF n
<1>5. S \cap recDev = {}
  <2>1. ASSUME NEW o \in S PROVE o \notin recDev
    <3>1. PICK i \in 1..Len(batch) : o = batch[i] BY <1>0, <2>1, BatchesAre
    <3>2. FreshObject(o, recNext + i - 1) /\ Len(batch) \in {1, 2} BY <1>0, <3>1, BatchesAre
    <3>3. recNext + i - 1 \in Nat /\ recNext <= recNext + i - 1 BY <1>0, <3>2 DEF RecShape
    <3> QED BY <1>0, <3>2, <3>3, FreshIsNew
  <2> QED BY <2>1
<1>6. /\ recDev' = recDev \cup S /\ learned \subseteq learned' /\ expect' = "any"
      /\ \A o \in S : o.id \in learned'
      /\ \A m \in learned' : m \in learned \/ \E o \in S : o.id = m
  <2> DEFINE ok == TRUE
  <2>1. ok = TRUE /\ Recorded(recDev \cup S, n, ok) BY <1>4
  <2> HIDE DEF ok, S
  <2> QED BY <1>5, <2>1, RecordedAdds
<1>7. Adds(S, Range(NewOf(batch)), VidsOf(batch)) BY <1>0, <1>3, <1>4, <1>6, BatchAdds
<1>8. Living' /\ InPlace' /\ (Mirrored => Mirrored') BY <1>0, <1>3, <1>7, AdditionKeeps
<1> QED BY <1>3, <1>6, <1>8 DEF Sound

-----------------------------------------------------------------------------
(* The answers of the gets.                                                *)

(* A get: what is got matches what was recorded.                           *)
LEMMA GetKeeps ==
  ASSUME Shapes, Faithful => Sound, NEW id, NEW recorded \in Seq(Nat), NEW here, NEW t,
         Get(id, recorded, here, t), AsksFor(id, recorded, here),
         id \in DOMAIN rec2vid /\ Exists(rec2vid[id]) => here \in Seq(Nat),
         refused => refused', differs => differs', Faithful'
  PROVE  Sound'
<1>0. DevShape /\ TableTypes BY DEF Shapes
<1>1. /\ phase = "run" /\ expect = "any" /\ expect' = "G" /\ answer' = recorded
      /\ UNCHANGED <<recDev, learned, dev, rec2vid>>
  BY GetOutcomes
<1>2. Living /\ InPlace /\ (~refused' => Mirrored) /\ ~differs' /\ ~Stops
  BY <1>1, SoundBefore
<1>3. id \in DOMAIN rec2vid BY <1>2, GetOutcomes
<1>4. Exists(rec2vid[id]) BY <1>0, <1>2, <1>3, MappedIs DEF AsksFor
<1>5. oids' = here
  <2>1. oids' = oids \o here BY <1>2, <1>4, GetOutcomes
  <2>2. oids = <<>> BY <1>0, <1>1 DEF TableTypes
  <2>3. here \in Seq(Nat) BY <1>3, <1>4
  <2> QED BY <2>1, <2>2, <2>3
<1>6. Living' /\ InPlace' /\ (Mirrored => Mirrored')
  <2>1. \A p : Copied(p)' <=> Copied(p) BY <1>1 DEF Copied, Image
  <2>2. \A p : Image(p)' = Image(p) BY <1>1 DEF Image
  <2>3. \A n : Bears(n)' <=> Bears(n) BY <1>1 DEF Bears
  <2>4. Living' BY <1>2, <1>1, <2>1, <2>3 DEF Living
  <2>5. InPlace' BY <1>2, <1>1 DEF InPlace
  <2>6. Mirrored => Mirrored' BY <1>1, <2>1, <2>2 DEF Mirrored
  <2> QED BY <2>4, <2>5, <2>6
<1>7. Answered'
  <2>1. \A n, v : Matches(n, v)' <=> Matches(n, v) BY <1>1 DEF Matches
  <2>2. Len(here) = Len(recorded) /\ \A i \in 1..Len(recorded) : Matches(recorded[i], here[i])
    BY <1>2, <1>3 DEF AsksFor
  <2> QED BY <1>1, <1>5, <2>1, <2>2 DEF Answered
<1> QED BY <1>1, <1>2, <1>6, <1>7 DEF Sound

(* What an answer adds to the map.                                         *)
Teaches(f) ==
  /\ recDev' = recDev /\ dev' = dev /\ rec2vid' = rec2vid ++ f
  /\ learned \subseteq learned'
  /\ \A n \in learned' : n \in learned \/ (n \in DOMAIN f /\ n # Null)
  /\ \A n \in DOMAIN f : /\ Matches(n, f[n])
                         /\ n = Null \/ (Bears(n) /\ n \in learned')

(* What the answer of a get teaches: oid:0x0, or the objects that came     *)
(* with the switch.                                                        *)
LEMMA TaughtIs ==
  ASSUME Living, InPlace, NEW f, Teaches(f)
  PROVE  /\ DOMAIN rec2vid' = DOMAIN rec2vid \cup DOMAIN f
         /\ \A n \in DOMAIN rec2vid : rec2vid'[n] = rec2vid[n]
         /\ \A n \in DOMAIN rec2vid' \ DOMAIN rec2vid :
              \/ n = Null /\ rec2vid'[n] = Null
              \/ n \in 2..4 /\ rec2vid'[n] = n + VidBase /\ 1 \in DOMAIN rec2vid
<1>1. rec2vid' = rec2vid ++ f BY DEF Teaches
<1>2. DOMAIN rec2vid' = DOMAIN rec2vid \cup DOMAIN f BY <1>1, Updated
<1>3. \A n \in DOMAIN f : rec2vid'[n] = f[n] BY <1>1 DEF ++
<1>4. \A n \in DOMAIN rec2vid \ DOMAIN f : rec2vid'[n] = rec2vid[n] BY <1>1 DEF ++
<1>5. \A n \in DOMAIN f : Matches(n, f[n]) BY DEF Teaches
<1>6. ASSUME NEW n \in DOMAIN f \cap DOMAIN rec2vid PROVE f[n] = rec2vid[n]
  <2>1. Matches(n, f[n]) BY <1>5
  <2>2. CASE n = Null /\ f[n] = Null BY <2>2 DEF Living
  <2>3. CASE n \in 2..4 /\ f[n] = n + VidBase
    <3>1. n \in 1..4 BY <2>3
    <3> QED BY <2>3, <3>1 DEF InPlace
  <2> QED BY <2>1, <2>2, <2>3 DEF Matches
<1>7. \A n \in DOMAIN rec2vid : rec2vid'[n] = rec2vid[n] BY <1>3, <1>4, <1>6
<1>8. ASSUME NEW n \in DOMAIN rec2vid' \ DOMAIN rec2vid
      PROVE  \/ n = Null /\ rec2vid'[n] = Null
             \/ n \in 2..4 /\ rec2vid'[n] = n + VidBase /\ 1 \in DOMAIN rec2vid
  <2>1. n \in DOMAIN f BY <1>2
  <2>2. Matches(n, rec2vid'[n]) BY <1>3, <1>5, <2>1
  <2> QED BY <2>2 DEF Matches
<1> QED BY <1>2, <1>7, <1>8

(* Learning it keeps the map sound.                                        *)
LEMMA TeachingKeeps ==
  ASSUME RecShape, DevShape, TableTypes, Living, InPlace, NEW f, Teaches(f)
  PROVE  Living' /\ InPlace' /\ (Mirrored => Mirrored')
<1>1. /\ DOMAIN rec2vid' = DOMAIN rec2vid \cup DOMAIN f
      /\ \A n \in DOMAIN rec2vid : rec2vid'[n] = rec2vid[n]
      /\ \A n \in DOMAIN rec2vid' \ DOMAIN rec2vid :
           \/ n = Null /\ rec2vid'[n] = Null
           \/ n \in 2..4 /\ rec2vid'[n] = n + VidBase /\ 1 \in DOMAIN rec2vid
  BY TaughtIs
<1>2. recDev' = recDev /\ dev' = dev /\ learned \subseteq learned' BY DEF Teaches
<1>3. Null \in DOMAIN rec2vid' => rec2vid'[Null] = Null
  <2>1. Null \notin 2..4 BY DEF Null
  <2> QED BY <1>1, <2>1 DEF Living
<1>4. ASSUME NEW p, Copied(p) PROVE Copied(p)' /\ Image(p)' = Image(p)
  <2>1. p.id \in DOMAIN rec2vid /\ p.ref \in DOMAIN rec2vid \cup {Null} /\ Image(p) \in dev'
    BY <1>2, <1>4 DEF Copied
  <2> QED BY <1>1, <1>3, <1>4, <2>1, CopyStays
<1>5. \A o \in recDev : HasOid(o) /\ o.id \in 2..4 => o \in Implicit(RecBase)
  <2>1. ASSUME NEW o \in recDev, HasOid(o), o.id \in 2..4, o.type \in OwnTypes PROVE FALSE
    <3>1. o.type \in {"RIF", "MEMBER"} BY <2>1 DEF OwnTypes, HasOid
    <3>2. 5 <= o.id BY <3>1 DEF RecShape, RecBase
    <3> QED BY <2>1, <3>2
  <2> QED BY <2>1 DEF RecShape
<1>6. ASSUME NEW o \in recDev, HasOid(o), o.id \in DOMAIN rec2vid' \ DOMAIN rec2vid
      PROVE  Copied(o)'
  <2>1. o.id # Null BY DEF RecShape, Objects
  <2>2. o.id \in 2..4 /\ rec2vid'[o.id] = o.id + VidBase /\ 1 \in DOMAIN rec2vid BY <1>1, <1>6, <2>1
  <2>3. o \in Implicit(RecBase) BY <1>5, <1>6, <2>2
  <2>4. o.ref = Null /\ Twin(o) \in dev BY <2>2, <2>3, ImplicitAre DEF InPlace, Object
  <2>5. Vid(o.ref)' = Null BY <1>3, <2>4 DEF Vid
  <2>6. Vid(o.id)' = o.id + VidBase BY <1>6, <2>2 DEF Vid
  <2>7. Image(o)' = Twin(o) BY <2>4, <2>5, <2>6, ImageIs DEF Twin
  <2> QED BY <1>2, <1>6, <2>4, <2>7 DEF Copied
<1>7. ASSUME NEW m \in DOMAIN rec2vid, NEW n \in DOMAIN rec2vid' \ DOMAIN rec2vid
      PROVE  rec2vid[m] # rec2vid'[n]
  <2>1. CASE m = Null
    <3>1. rec2vid[m] = 0 /\ n # Null BY <1>7, <2>1 DEF Living, Null
    <3>2. n \in 2..4 /\ rec2vid'[n] = n + VidBase BY <1>1, <1>7, <3>1
    <3>3. n + VidBase # 0 BY <3>2 DEF VidBase
    <3> QED BY <3>1, <3>2, <3>3
  <2>2. CASE m # Null
    <3>1. rec2vid[m] \in Nat /\ 0 < rec2vid[m] BY <2>2, MappedIs
    <3>2. PICK o \in recDev : HasOid(o) /\ o.id = m /\ Copied(o) BY <2>2, MappedIs
    <3>3. CASE n = Null /\ rec2vid'[n] = Null BY <3>1, <3>3 DEF Null
    <3>4. CASE n \in 2..4 /\ rec2vid'[n] = n + VidBase
      <4>1. CASE m \in 1..4
        <5>1. rec2vid[m] = m + VidBase /\ m # n BY <1>7, <4>1 DEF InPlace
        <5> QED BY <3>4, <4>1, <5>1 DEF VidBase
      <4>2. CASE m \notin 1..4
        <5>1. o.type \in {"RIF", "MEMBER"}
          <6>1. o \notin Implicit(RecBase) BY <3>2, <4>2, ImplicitAre DEF Object
          <6> QED BY <3>2, <6>1 DEF RecShape, OwnTypes, HasOid
        <5>2. Image(o) \in dev /\ Image(o).type = o.type /\ Image(o).id = rec2vid[m]
          BY <3>2, ImageIs DEF Copied, Vid
        <5>3. 15 <= rec2vid[m] BY <5>1, <5>2 DEF DevShape, VidBase
        <5> QED BY <3>1, <3>4, <5>3 DEF VidBase
      <4> QED BY <4>1, <4>2
    <3> QED BY <1>1, <1>7, <3>3, <3>4
  <2> QED BY <2>1, <2>2
<1>8. Living'
  <2>1. ASSUME NEW n \in DOMAIN rec2vid' \ {Null} PROVE n \in learned' /\ Bears(n)'
    <3>1. Bears(n)' <=> Bears(n) BY <1>2 DEF Bears
    <3>2. CASE n \in DOMAIN rec2vid BY <1>2, <2>1, <3>1, <3>2 DEF Living
    <3>3. CASE n \in DOMAIN f BY <2>1, <3>1, <3>3 DEF Teaches
    <3> QED BY <1>1, <2>1, <3>2, <3>3
  <2>2. ASSUME NEW o \in recDev', HasOid(o), o.id \in DOMAIN rec2vid' PROVE Copied(o)'
    <3>1. o \in recDev BY <1>2
    <3>2. CASE o.id \in DOMAIN rec2vid
      <4>1. Copied(o) BY <2>2, <3>1, <3>2 DEF Living
      <4> QED BY <1>4, <4>1
    <3>3. CASE o.id \notin DOMAIN rec2vid BY <1>6, <2>2, <3>1, <3>3
    <3> QED BY <3>2, <3>3
  <2>3. ASSUME NEW m \in DOMAIN rec2vid', NEW n \in DOMAIN rec2vid', rec2vid'[m] = rec2vid'[n]
        PROVE  m = n
    <3>1. CASE m \in DOMAIN rec2vid /\ n \in DOMAIN rec2vid BY <1>1, <2>3, <3>1 DEF Living
    <3>2. CASE m \in DOMAIN rec2vid /\ n \notin DOMAIN rec2vid BY <1>1, <1>7, <2>3, <3>2
    <3>3. CASE m \notin DOMAIN rec2vid /\ n \in DOMAIN rec2vid
      <4>1. rec2vid'[n] = rec2vid[n] BY <1>1, <3>3
      <4>2. rec2vid[n] # rec2vid'[m] BY <1>7, <3>3
      <4> QED BY <2>3, <4>1, <4>2
    <3>4. CASE m \notin DOMAIN rec2vid /\ n \notin DOMAIN rec2vid
      <4>1. /\ (m = 0 /\ rec2vid'[m] = 0) \/ (m \in 2..4 /\ rec2vid'[m] = m + 10)
            /\ (n = 0 /\ rec2vid'[n] = 0) \/ (n \in 2..4 /\ rec2vid'[n] = n + 10)
        BY <1>1, <3>4 DEF Null, VidBase
      <4> QED BY <2>3, <4>1
    <3> QED BY <3>1, <3>2, <3>3, <3>4
  <2> QED BY <1>3, <2>1, <2>2, <2>3 DEF Living
<1>9. InPlace'
  <2>1. ASSUME NEW n \in DOMAIN rec2vid' \cap (1..4)
        PROVE  rec2vid'[n] = n + VidBase /\ 1 \in DOMAIN rec2vid
    <3>1. CASE n \in DOMAIN rec2vid BY <1>1, <2>1, <3>1 DEF InPlace
    <3>2. CASE n \notin DOMAIN rec2vid
      <4>1. n # Null BY <2>1 DEF Null
      <4> QED BY <1>1, <2>1, <3>2, <4>1
    <3> QED BY <3>1, <3>2
  <2>2. 1 \in DOMAIN rec2vid' => 1 \in DOMAIN rec2vid
    <3>1. 1 \in 1..4 OBVIOUS
    <3> QED BY <2>1, <3>1
  <2>3. 1 \in DOMAIN rec2vid => 1 \in DOMAIN rec2vid' BY <1>1
  <2> QED BY <1>2, <2>1, <2>2, <2>3 DEF InPlace
<1>10. ASSUME Mirrored PROVE Mirrored'
  <2>1. ASSUME NEW o \in recDev', o.id \in learned' PROVE Copied(o)'
    <3>1. o \in recDev BY <1>2
    <3>2. CASE o.id \in learned BY <1>4, <1>10, <3>1, <3>2 DEF Mirrored
    <3>3. CASE o.id \notin learned
      <4>1. o.id \in DOMAIN rec2vid' BY <1>1, <2>1, <3>3 DEF Teaches
      <4>2. HasOid(o) BY <3>1, <3>3 DEF RecShape, OwnTypes, HasOid
      <4> QED BY <1>2, <1>8, <3>1, <4>1, <4>2 DEF Living
    <3> QED BY <3>2, <3>3
  <2>2. ASSUME NEW d \in dev', d \notin Implicit(VidBase)
        PROVE  \E p \in recDev' : p.id \in learned' /\ Image(p)' = d
    <3>1. PICK p \in recDev : p.id \in learned /\ Image(p) = d BY <1>2, <1>10, <2>2 DEF Mirrored
    <3>2. Copied(p) BY <1>10, <3>1 DEF Mirrored
    <3> QED BY <1>2, <1>4, <3>1, <3>2
  <2>3. 1 \in DOMAIN rec2vid' BY <1>1, <1>10 DEF Mirrored
  <2> QED BY <2>1, <2>2, <2>3 DEF Mirrored
<1> QED BY <1>8, <1>9, <1>10

(* The answer of a get: after a get that was answered alike, its lists     *)
(* match.                                                                  *)
LEMMA ResponseKeeps ==
  ASSUME Shapes, Faithful => Sound, GetResponse, Faithful'
  PROVE  Sound'
<1>0. RecShape /\ DevShape /\ TableTypes BY DEF Shapes
<1>1. /\ phase = "run" /\ expect = "G" /\ expect' = "any"
      /\ learned' = learned \cup (Range(answer) \ {Null})
      /\ recDev' = recDev /\ dev' = dev /\ refused' = refused /\ differs' = differs
  BY DEF GetResponse, Reading, deviceVars
<1>2. Living /\ InPlace /\ (~refused' => Mirrored) /\ ~differs' /\ ~Stops /\ Answered
  BY <1>1, SoundBefore DEF Sound
<1>3. Len(oids) = Len(answer) /\ rec2vid' = rec2vid ++ Matching
  BY <1>2 DEF GetResponse, Answered
<1> DEFINE f == Matching
<1>4. /\ DOMAIN f = {answer[i] : i \in 1..Len(answer)}
      /\ \A n \in DOMAIN f : \E i \in 1..Len(answer) : answer[i] = n /\ f[n] = oids[i]
  BY <1>0, <1>3, MatchingIs
<1>5. Range(answer) = DOMAIN f
  <2>1. DOMAIN answer = 1..Len(answer) BY <1>0 DEF TableTypes
  <2> HIDE DEF f
  <2> QED BY <1>4, <2>1 DEF Range
<1> HIDE DEF f
<1>6. ASSUME NEW n \in DOMAIN f
      PROVE  Matches(n, f[n]) /\ (n = Null \/ (Bears(n) /\ n \in learned'))
  <2>1. PICK i \in 1..Len(answer) : answer[i] = n /\ f[n] = oids[i] BY <1>4, <1>6
  <2>2. Matches(n, f[n]) BY <1>2, <2>1 DEF Answered
  <2>3. n = Null \/ Bears(n) BY <1>0, <1>1, <2>1 DEF RecShape
  <2> QED BY <1>1, <1>5, <2>2, <2>3
<1>7. Teaches(f)
  <2>1. rec2vid' = rec2vid ++ f BY <1>3 DEF f
  <2>2. learned \subseteq learned' /\ \A n \in learned' : n \in learned \/ (n \in DOMAIN f /\ n # Null)
    BY <1>1, <1>5
  <2> QED BY <1>1, <1>6, <2>1, <2>2 DEF Teaches
<1>8. Living' /\ InPlace' /\ (Mirrored => Mirrored') BY <1>0, <1>2, <1>7, TeachingKeeps
<1> QED BY <1>1, <1>2, <1>8 DEF Sound

(* An expected failure changes neither device.                             *)
LEMMA QuietKeeps ==
  ASSUME Shapes, Faithful => Sound, ExpectedFailure \/ EndOfFile, Faithful'
  PROVE  Sound'
<1>1. ExpectedFailure BY DEF EndOfFile, Faithful
<1>2. /\ phase = "run" /\ expect' = "any"
      /\ UNCHANGED <<recDev, learned, dev, rec2vid, refused, differs>>
  BY <1>1 DEF ExpectedFailure, Reading, deviceVars
<1>3. Living /\ InPlace /\ (~refused' => Mirrored) BY <1>2, SoundBefore
<1>4. \A p : Copied(p)' <=> Copied(p) BY <1>2 DEF Copied, Image
<1>5. \A p : Image(p)' = Image(p) BY <1>2 DEF Image
<1>6. \A n : Bears(n)' <=> Bears(n) BY <1>2 DEF Bears
<1>7. Living' BY <1>2, <1>3, <1>4, <1>6 DEF Living
<1>8. InPlace' BY <1>2, <1>3 DEF InPlace
<1>9. Mirrored => Mirrored' BY <1>2, <1>4, <1>5 DEF Mirrored
<1> QED BY <1>2, <1>3, <1>7, <1>8, <1>9 DEF Sound

(* The switch comes first, and what comes with it is at its place.         *)
LEMMA SwitchKeeps ==
  ASSUME Shapes, CreateSwitch, Faithful'
  PROVE  Sound'
<1>1. /\ phase = "start" /\ recDev' = Implicit(RecBase) /\ learned' = {RecBase + 1}
      /\ expect' = expect
      /\ \/ dev' = Implicit(VidBase) /\ rec2vid' = rec2vid ++ Entry(RecBase + 1, VidBase + 1)
         \/ refused' = TRUE /\ UNCHANGED <<dev, rec2vid>>
  BY DEF CreateSwitch
<1>2. dev = {} /\ rec2vid = <<>> /\ expect = "any" BY <1>1 DEF Shapes, Starting
<1>3. DOMAIN <<>> = {} OBVIOUS
<1>4. CASE refused' = TRUE /\ UNCHANGED <<dev, rec2vid>>
  <2>1. DOMAIN rec2vid' = {} BY <1>2, <1>3, <1>4
  <2>2. Living' BY <2>1 DEF Living
  <2>3. InPlace' BY <2>1 DEF InPlace
  <2> QED BY <1>1, <1>2, <1>4, <2>2, <2>3 DEF Sound
<1>5. CASE dev' = Implicit(VidBase) /\ rec2vid' = rec2vid ++ Entry(RecBase + 1, VidBase + 1)
  <2>1. DOMAIN Entry(1, 11) = {1} /\ Entry(1, 11)[1] = 11 BY EntryIs
  <2>2. RecBase + 1 = 1 /\ VidBase + 1 = 11 BY DEF RecBase, VidBase
  <2>3. DOMAIN rec2vid' = {1} /\ rec2vid'[1] = 11
    <3>1. rec2vid' = <<>> ++ Entry(1, 11) BY <1>2, <1>5, <2>2
    <3> QED BY <1>3, <2>1, <3>1 DEF ++
  <2> DEFINE sw == Object("SWITCH", 1, Null)
  <2>4. sw.type = "SWITCH" /\ sw.id = 1 /\ sw.ref = Null /\ HasOid(sw) BY DEF Object, HasOid
  <2>5. \A o \in recDev' : o.id = 1 => o = sw BY <1>1, ImplicitAre DEF Object
  <2>6. sw \in recDev' BY <1>1, ImplicitAre
  <2>7. Copied(sw)'
    <3>1. Vid(1)' = 11 /\ Vid(Null)' = Null BY <2>3 DEF Vid, Null
    <3>2. Image(sw)' = Object("SWITCH", 11, Null) BY <2>4, <3>1, ImageIs
    <3>3. Object("SWITCH", 11, Null) \in dev' BY <1>5, ImplicitAre
    <3> QED BY <2>3, <2>4, <3>2, <3>3 DEF Copied
  <2> HIDE DEF sw
  <2>8. Living'
    <3>1. 1 \in learned' BY <1>1, <2>2
    <3>2. Bears(1)' BY <2>4, <2>6 DEF Bears
    <3>3. Null \notin DOMAIN rec2vid' BY <2>3 DEF Null
    <3> QED BY <2>3, <2>5, <2>7, <3>1, <3>2, <3>3 DEF Living
  <2>9. InPlace'
    <3>1. \A n \in DOMAIN rec2vid' \cap (1..4) : rec2vid'[n] = n + VidBase BY <2>3 DEF VidBase
    <3>2. ASSUME NEW o \in Implicit(RecBase) PROVE o \in recDev' /\ Twin(o) \in dev'
      BY <1>1, <1>5, <3>2, ImplicitAre DEF Twin, Object, VidBase
    <3> QED BY <2>3, <3>1, <3>2 DEF InPlace
  <2>10. Mirrored'
    <3>1. \A o \in recDev' : o.id \in learned' => Copied(o)' BY <1>1, <2>2, <2>5, <2>7
    <3> QED BY <1>5, <2>3, <3>1 DEF Mirrored
  <2> QED BY <1>1, <1>2, <2>8, <2>9, <2>10 DEF Sound
<1> QED BY <1>1, <1>4, <1>5

-----------------------------------------------------------------------------
(* Every step keeps the map sound.                                         *)
LEMMA SoundStep ==
  ASSUME Shapes, Faithful => Sound, [Next]_vars, Faithful'
  PROVE  Sound'
<1>1. CASE ApplyRec BY <1>1 DEF ApplyRec, Faithful
<1>2. CASE CreateSwitch BY <1>2, SwitchKeeps
<1>3. CASE \E t \in OwnTypes : \E o \in Fresh(t, recNext) : \E ok \in BOOLEAN : Create(o, ok)
  BY <1>3, CreateKeeps
<1>4. CASE \E batch \in Batches : BulkCreate(batch) BY <1>4, BulkCreateKeeps
<1>5. CASE \E o : Remove(o) BY <1>5, RemoveKeeps
<1>6. CASE \E S : BulkRemove(S) BY <1>6, BulkRemoveKeeps
<1>7. CASE \E o \in recDev : \E r \in Targets(o.type), bulk \in BOOLEAN, ok \in BOOLEAN :
             SetAttribute(o, r, bulk, ok)
  BY <1>7, SetKeeps
<1>8. CASE GetPorts \/ GetRouter \/ GetMember
  <2>1. RecShape /\ DevShape BY DEF Shapes
  <2>2. PICK id, recorded, here, t :
           /\ Get(id, recorded, here, t) /\ recorded \in Seq(Nat)
           /\ \A i \in 1..Len(recorded) : recorded[i] = Null \/ Bears(recorded[i])
           /\ id \in DOMAIN rec2vid /\ Exists(rec2vid[id]) => here \in Seq(Nat)
           /\ AsksFor(id, recorded, here)
    BY <1>8, <2>1, GetsAre
  <2>3. (refused => refused') /\ (differs => differs') BY <2>2, GetShapes
  <2> QED BY <2>2, <2>3, GetKeeps
<1>9. CASE GetResponse BY <1>9, ResponseKeeps
<1>10. CASE ExpectedFailure \/ EndOfFile BY <1>10, QuietKeeps
<1>11. CASE UNCHANGED vars
  <2>1. UNCHANGED <<recDev, learned, expect, answer, dev, rec2vid, oids, status, phase, refused, differs>>
    BY <1>11 DEF vars, recVars, deviceVars, replayVars, history
  <2>2. Sound BY <2>1 DEF Faithful
  <2>3. \A p : Copied(p)' <=> Copied(p) BY <2>1 DEF Copied, Image
  <2>4. \A p : Image(p)' = Image(p) BY <2>1 DEF Image
  <2>5. \A n : Bears(n)' <=> Bears(n) BY <2>1 DEF Bears
  <2>6. Living' BY <2>1, <2>2, <2>3, <2>5 DEF Sound, Living
  <2>7. InPlace' BY <2>1, <2>2 DEF Sound, InPlace
  <2>8. Mirrored => Mirrored' BY <2>1, <2>3, <2>4 DEF Mirrored
  <2>9. Answered => Answered' BY <2>1 DEF Answered, Matches
  <2> QED BY <2>1, <2>2, <2>6, <2>7, <2>8, <2>9 DEF Sound
<1> QED BY <1>1, <1>2, <1>3, <1>4, <1>5, <1>6, <1>7, <1>8, <1>9, <1>10, <1>11, StepsAre

-----------------------------------------------------------------------------
(* On a device that has done what the recorded one did, a record is only   *)
(* refused for the reasons that RaisesExplained leaves out.                *)

(* If a step ends alike, the devices were alike before it.                 *)
LEMMA AlikeBefore ==
  ASSUME Shapes, Faithful => Sound, phase = "run", refused => refused', differs => differs',
         ~refused', ~differs'
  PROVE  Sound /\ Living /\ InPlace /\ Mirrored
<1>1. Sound /\ ~refused BY DEF Faithful
<1> QED BY <1>1 DEF Sound

(* Why a handler raises while the devices are alike: a create for oid:0x0  *)
(* only.                                                                   *)
LEMMA CreateRaises ==
  ASSUME Shapes, Faithful => Sound, NEW t \in OwnTypes, NEW o \in Fresh(t, recNext),
         NEW ok \in BOOLEAN, Create(o, ok), ~refused', ~differs'
  PROVE  why' \in {why, "null"}
<1> DEFINE missing == Unmapped({o.ref} \cup KeyOids(o), FALSE)
<1>0. RecShape /\ DevShape BY DEF Shapes
<1>1. (refused => refused') /\ (differs => differs') BY CreateShapes
<1>2. /\ phase = "run"
      /\ GoOn \/ (missing # {} /\ KeyError(missing))
  BY CreateOutcomes
<1>3. Living /\ Mirrored BY <1>1, <1>2, AlikeBefore
<1>4. FreshObject(o, recNext)
  <2>1. recNext \in Nat /\ recNext <= recNext BY <1>0 DEF RecShape
  <2>2. /\ o \in Objects /\ o.type = t /\ o.ref \in Targets(t)
        /\ t # "ROUTE" => HasOid(o) /\ o.id = recNext
        /\ t = "ROUTE" => /\ ~HasOid(o) /\ o.id = RecBase + 2 /\ o.id \in learned
                          /\ \A p \in recDev : p.type # "ROUTE"
    BY <1>0, <2>1, FreshAre
  <2> QED BY <2>2 DEF FreshObject
<1>5. o.ref \in DOMAIN rec2vid \cup {Null} /\ (~HasOid(o) => o.id \in DOMAIN rec2vid)
  BY <1>0, <1>2, <1>3, <1>4, FreshMapped
<1>6. missing \subseteq {Null} BY <1>5 DEF Unmapped, KeyOids
<1> HIDE DEF missing
<1>7. missing # {} /\ KeyError(missing) => why' = "null"
  <2>1. missing # {} => Null \in missing BY <1>6
  <2> QED BY <2>1 DEF KeyError, Raise
<1> QED BY <1>2, <1>7 DEF GoOn

(* A bulk create does not.                                                 *)
LEMMA BulkCreateRaises ==
  ASSUME Shapes, Faithful => Sound, NEW batch \in Batches, BulkCreate(batch), ~refused', ~differs'
  PROVE  why' = why
<1>0. RecShape /\ DevShape /\ TableTypes BY DEF Shapes
<1>1. (refused => refused') /\ (differs => differs') BY BulkCreateShapes
<1>2. phase = "run" BY BulkCreateOutcomes
<1>3. Living /\ Mirrored BY <1>1, <1>2, AlikeBefore
<1>4. ASSUME NEW i \in 1..Len(batch), NEW o, o = batch[i]
      PROVE  /\ FreshObject(o, recNext + i - 1)
             /\ o.ref \in DOMAIN rec2vid \cup {Null} /\ (~HasOid(o) => o.id \in DOMAIN rec2vid)
             /\ Vid(o.ref) = Null \/ Exists(Vid(o.ref))
  <2>1. FreshObject(o, recNext + i - 1) BY <1>0, <1>4, BatchesAre
  <2> QED BY <1>0, <1>2, <1>3, <2>1, FreshMapped
<1>5. MissingOf(batch) = {}
  <2>1. ASSUME NEW o \in Range(batch) PROVE Unmapped({o.ref} \cup KeyOids(o), TRUE) = {}
    <3>1. PICK i \in 1..Len(batch) : o = batch[i] BY <1>0, <2>1, BatchesAre
    <3>2. o.ref \in DOMAIN rec2vid \cup {Null} /\ (~HasOid(o) => o.id \in DOMAIN rec2vid)
      BY <1>4, <3>1
    <3> QED BY <3>2 DEF Unmapped, KeyOids
  <2> QED BY <2>1 DEF MissingOf
<1>6. ASSUME NEW i \in DOMAIN NewOf(batch) PROVE Valid(NewOf(batch)[i])
  <2> DEFINE new == NewOf(batch)[i]
  <2>1. PICK o : o = batch[i] OBVIOUS
  <2>2. /\ i \in 1..Len(batch) /\ new = Translated(o, vidNext + i - 1, TRUE)
        /\ new.type = o.type /\ (HasOid(new) <=> HasOid(o))
    BY <1>0, <1>5, <1>6, <2>1, NewShape
  <2>3. /\ FreshObject(o, recNext + i - 1)
        /\ o.ref \in DOMAIN rec2vid \cup {Null} /\ (~HasOid(o) => o.id \in DOMAIN rec2vid)
        /\ Vid(o.ref) = Null \/ Exists(Vid(o.ref))
    BY <1>4, <2>1, <2>2
  <2>4. new.ref = Vid(o.ref)
    <3>1. new.ref = Mapped(o.ref, TRUE) BY <2>2 DEF Translated, Object
    <3>2. Vid(Null) = Null BY <1>3, NullIs
    <3> QED BY <2>3, <3>1, <3>2 DEF Mapped, Vid
  <2>5. ASSUME ~HasOid(new)
        PROVE  Exists(new.id) /\ NameOf(new) \notin {NameOf(p) : p \in dev}
    <3>1. new.id = rec2vid[o.id] BY <2>2, <2>5 DEF Translated, Object
    <3>2. o.id # Null
      <4>1. ~HasOid(o) BY <2>2, <2>5
      <4>2. o.id = 0 + 2 BY <2>3, <4>1 DEF FreshObject, RecBase
      <4> QED BY <4>2 DEF Null
    <3>3. Exists(new.id) BY <1>0, <1>3, <2>2, <2>3, <2>5, <3>1, <3>2, MappedIs
    <3>4. ASSUME NEW d \in dev, NameOf(d) = NameOf(new) PROVE FALSE
      <4>1. d.type = "ROUTE" BY <2>5, <3>4 DEF NameOf, HasOid
      <4>2. d \notin Implicit(VidBase) BY <4>1, ImplicitAre DEF Object
      <4>3. PICK p \in recDev : Image(p) = d BY <1>3, <4>2 DEF Mirrored
      <4>4. p.type = "ROUTE" BY <4>1, <4>3, ImageIs
      <4> QED BY <2>2, <2>3, <2>5, <4>4 DEF FreshObject
    <3> QED BY <3>3, <3>4
  <2> HIDE DEF new
  <2>6. Valid(new) BY <2>3, <2>4, <2>5 DEF Valid
  <2> QED BY <2>6 DEF new
<1>7. GoOn BY <1>5, <1>6, BulkCreateOutcomes
<1> QED BY <1>7 DEF GoOn

(* A remove for a remove that failed in the recording only.                *)
LEMMA RemoveRaises ==
  ASSUME Shapes, Faithful => Sound, NEW o, Remove(o), ~refused', ~differs'
  PROVE  why' \in {why, "recorded"}
<1> DEFINE ok == Removable(o, recDev)
           name == <<o.type, rec2vid[o.id]>>
<1>0. RecShape /\ DevShape BY DEF Shapes
<1>1. (refused => refused') /\ (differs => differs') BY RemoveShapes
<1>2. /\ phase = "run" /\ o \in Removals
      /\ \/ GoOn
         \/ o.id \notin DOMAIN rec2vid
         \/ ~CanRemove({name}) /\ why' = IF ok THEN "request" ELSE "recorded"
  BY RemoveOutcomes
<1>3. Living /\ Mirrored BY <1>1, <1>2, AlikeBefore
<1>4. o.id \in DOMAIN rec2vid BY <1>2, <1>3 DEF Removals, Mirrored, Copied
<1>5. ok => CanRemove({name})
  <2> DEFINE S == {o}
  <2>1. NamesOf(S) = {name} BY DEF NamesOf
  <2>2. S \in SUBSET Removals /\ (ok => \A p \in S : Removable(p, recDev)) BY <1>2
  <2> HIDE DEF S
  <2>3. ok => CanRemove(NamesOf(S)) BY <1>0, <1>3, <2>2, RemovalCan
  <2> QED BY <2>1, <2>3
<1> HIDE DEF ok, name
<1> QED BY <1>2, <1>4, <1>5 DEF GoOn

(* A bulk remove does not.                                                 *)
LEMMA BulkRemoveRaises ==
  ASSUME Shapes, Faithful => Sound, NEW S, BulkRemove(S), ~refused', ~differs'
  PROVE  why' = why
<1>0. RecShape /\ DevShape BY DEF Shapes
<1>1. (refused => refused') /\ (differs => differs') BY BulkRemoveShapes
<1>2. phase = "run" /\ S \subseteq Removals /\ \A o \in S : Removable(o, recDev)
  BY BulkRemoveOutcomes
<1>3. Living /\ Mirrored BY <1>1, <1>2, AlikeBefore
<1>4. (\A o \in S : o.id \in DOMAIN rec2vid) /\ CanRemove(NamesOf(S))
  BY <1>0, <1>2, <1>3, RemovalCan
<1>5. Unmapped({o.id : o \in S}, FALSE) = {} BY <1>4 DEF Unmapped
<1>6. GoOn BY <1>4, <1>5, BulkRemoveOutcomes DEF NamesOf
<1> QED BY <1>6 DEF GoOn

(* A set for oid:0x0, or for a set that failed in the recording.           *)
LEMMA SetRaises ==
  ASSUME Shapes, Faithful => Sound, NEW o \in recDev, NEW r \in Targets(o.type),
         NEW bulk \in BOOLEAN, NEW ok \in BOOLEAN, SetAttribute(o, r, bulk, ok), ~refused', ~differs'
  PROVE  why' \in {why, "null", "recorded"}
<1> DEFINE missing == Unmapped({r}, bulk) \cup Unmapped({o.id}, FALSE)
           found == Named({<<o.type, rec2vid[o.id]>>})
           ref == Mapped(r, bulk)
<1>0. RecShape /\ DevShape BY DEF Shapes
<1>1. (refused => refused') /\ (differs => differs') BY SetShapes
<1>2. /\ phase = "run" /\ o.type \in {"MEMBER", "ROUTE"} /\ o.id \in learned
      /\ \/ GoOn
         \/ missing # {} /\ KeyError(missing)
         \/ /\ missing = {} /\ why' = IF ok THEN "request" ELSE "recorded"
            /\ ok => ~(found # {} /\ (ref = Null \/ Exists(ref)))
  BY SetOutcomes, ZenonT(100)
<1>3. Living /\ Mirrored BY <1>1, <1>2, AlikeBefore
<1>4. Copied(o) /\ o.id \in DOMAIN rec2vid BY <1>2, <1>3 DEF Mirrored, Copied
<1>5. r \in DOMAIN rec2vid \cup {Null}
  <2>1. r = Null \/ (r \in learned /\ \E w \in recDev : w.id = r) BY <1>2, TargetsAre
  <2> QED BY <1>3, <2>1 DEF Mirrored, Copied
<1>6. missing \subseteq {Null} BY <1>4, <1>5 DEF Unmapped
<1>7. missing = {} => found # {} /\ (ref = Null \/ Exists(ref))
  <2>1. Image(o) \in found
    <3>1. Image(o) \in dev /\ Image(o).type = o.type /\ Image(o).id = rec2vid[o.id]
      BY <1>4, ImageIs DEF Copied, Vid
    <3> QED BY <3>1 DEF Named, NameOf
  <2>2. CASE r = Null
    <3>1. missing = {} => ref = Null BY <1>3, <2>2 DEF Unmapped, Mapped, Living
    <3> QED BY <2>1, <3>1
  <2>3. CASE r # Null
    <3>1. r \in DOMAIN rec2vid /\ ref = rec2vid[r] BY <1>5, <2>3 DEF Mapped
    <3>2. Exists(ref) BY <1>0, <1>3, <2>3, <3>1, MappedIs
    <3> QED BY <2>1, <3>2
  <2> QED BY <2>2, <2>3
<1> HIDE DEF missing, found, ref
<1>8. missing # {} /\ KeyError(missing) => why' = "null"
  <2>1. missing # {} => Null \in missing BY <1>6
  <2> QED BY <2>1 DEF KeyError, Raise
<1> QED BY <1>2, <1>7, <1>8 DEF GoOn

(* A get does not.                                                         *)
LEMMA GetRaises ==
  ASSUME Shapes, Faithful => Sound, NEW id, NEW recorded, NEW here, NEW t,
         Get(id, recorded, here, t), AsksFor(id, recorded, here),
         refused => refused', differs => differs', ~refused', ~differs'
  PROVE  why' = why
<1>1. phase = "run" /\ (GoOn \/ id \notin DOMAIN rec2vid) BY GetOutcomes
<1>2. Mirrored BY <1>1, AlikeBefore
<1>3. id \in DOMAIN rec2vid BY <1>2 DEF AsksFor
<1> QED BY <1>1, <1>3 DEF GoOn

(* So every step keeps RaisesExplained.                                    *)
LEMMA RaisesStep ==
  ASSUME Shapes, Faithful => Sound, RaisesExplained, [Next]_vars
  PROVE  RaisesExplained'
<1> SUFFICES ASSUME ~refused', ~differs'
             PROVE  why' \notin {"unknown", "request", "answer", "status"}
  BY DEF RaisesExplained
<1>a. ASSUME refused => refused', differs => differs', why' \in {why, "none", "null", "recorded", "fault"}
      PROVE  why' \notin {"unknown", "request", "answer", "status"}
  BY <1>a DEF RaisesExplained
<1>1. CASE ApplyRec BY <1>1 DEF ApplyRec
<1>2. CASE CreateSwitch
  <2>1. why' \in {why, "fault"} BY <1>2 DEF CreateSwitch, Raise
  <2> QED BY <1>a, <1>2, <2>1, SwitchShapes
<1>3. CASE \E t \in OwnTypes : \E o \in Fresh(t, recNext) : \E ok \in BOOLEAN : Create(o, ok)
  BY <1>a, <1>3, CreateShapes, CreateRaises
<1>4. CASE \E batch \in Batches : BulkCreate(batch) BY <1>a, <1>4, BulkCreateShapes, BulkCreateRaises
<1>5. CASE \E o : Remove(o) BY <1>a, <1>5, RemoveShapes, RemoveRaises
<1>6. CASE \E S : BulkRemove(S) BY <1>a, <1>6, BulkRemoveShapes, BulkRemoveRaises
<1>7. CASE \E o \in recDev : \E r \in Targets(o.type), bulk \in BOOLEAN, ok \in BOOLEAN :
             SetAttribute(o, r, bulk, ok)
  BY <1>a, <1>7, SetShapes, SetRaises
<1>8. CASE GetPorts \/ GetRouter \/ GetMember
  <2>1. RecShape /\ DevShape BY DEF Shapes
  <2>2. PICK id, recorded, here, t :
           /\ Get(id, recorded, here, t) /\ recorded \in Seq(Nat)
           /\ \A i \in 1..Len(recorded) : recorded[i] = Null \/ Bears(recorded[i])
           /\ id \in DOMAIN rec2vid /\ Exists(rec2vid[id]) => here \in Seq(Nat)
           /\ AsksFor(id, recorded, here)
    BY <1>8, <2>1, GetsAre
  <2>3. (refused => refused') /\ (differs => differs') BY <2>2, GetShapes
  <2>4. why' = why BY <2>2, <2>3, GetRaises
  <2> QED BY <1>a, <2>3, <2>4
<1>9. CASE GetResponse
  <2>1. /\ phase = "run" /\ expect = "G" /\ refused' = refused /\ differs' = differs
        /\ why' = why \/ Len(oids) # Len(answer)
    BY <1>9 DEF GetResponse, Reading, GoOn
  <2>2. Sound BY <2>1, AlikeBefore
  <2>3. why' = why BY <2>1, <2>2 DEF Sound, Answered
  <2> QED BY <1>a, <2>1, <2>3
<1>10. CASE ExpectedFailure
  <2>1. /\ phase = "run" /\ expect = "E" /\ refused' = refused /\ differs' = differs
        /\ why' = why \/ status # "refused"
    BY <1>10 DEF ExpectedFailure, Reading, GoOn
  <2>2. Sound BY <2>1, AlikeBefore
  <2>3. why' = why BY <2>1, <2>2 DEF Sound
  <2> QED BY <1>a, <2>1, <2>3
<1>11. CASE EndOfFile
  <2>1. UNCHANGED <<why, refused, differs>> BY <1>11 DEF EndOfFile, history
  <2> QED BY <1>a, <2>1
<1>12. CASE UNCHANGED vars
  <2>1. UNCHANGED <<why, refused, differs>> BY <1>12 DEF vars, history
  <2> QED BY <1>a, <2>1
<1> QED BY <1>1, <1>2, <1>3, <1>4, <1>5, <1>6, <1>7, <1>8, <1>9, <1>10, <1>11, <1>12, StepsAre

-----------------------------------------------------------------------------
(* The map is right in every state that the invariant allows.              *)

\* The objects of the recording that its records have named, and their copies.
Learnt == {o \in recDev : o.id \in learned}
Images == {Image(o) : o \in Learnt}

(* There are as many images as objects: no two have the same.              *)
LEMMA ImagesCount ==
  ASSUME RecShape, Living, Mirrored
  PROVE  Cardinality(Images) = Cardinality(Learnt)
<1>1. IsFiniteSet(Learnt)
  <2>1. Learnt \subseteq recDev /\ IsFiniteSet(recDev) BY DEF Learnt, RecShape
  <2> QED BY <2>1, FS_Subset
<1>2. ASSUME NEW o \in Learnt, NEW p \in Learnt, Image(o) = Image(p) PROVE o = p
  <2>1. Copied(o) /\ Copied(p) /\ o \in recDev /\ p \in recDev BY DEF Learnt, Mirrored
  <2>2. o.type = p.type /\ rec2vid[o.id] = rec2vid[p.id]
    <3>1. /\ Image(o).type = o.type /\ Image(o).id = rec2vid[o.id]
          /\ Image(p).type = p.type /\ Image(p).id = rec2vid[p.id]
      BY <2>1, ImageIs DEF Copied, Vid
    <3> QED BY <1>2, <3>1
  <2>3. o.id = p.id BY <2>1, <2>2 DEF Living, Copied
  <2> QED BY <2>1, <2>2, <2>3 DEF RecShape, Distinct, HasOid
<1> DEFINE f == [o \in Learnt |-> Image(o)]
<1>3. f \in Bijection(Learnt, Images)
  <2>1. f \in [Learnt -> Images] BY DEF Images
  <2>2. \A o, p \in Learnt : f[o] = f[p] => o = p BY <1>2
  <2>3. \A d \in Images : \E o \in Learnt : f[o] = d BY DEF Images
  <2> HIDE DEF f
  <2> QED BY <2>1, <2>2, <2>3, Fun_IsBij
<1>4. ExistsBijection(Learnt, Images) BY <1>3 DEF ExistsBijection
<1> QED BY <1>1, <1>4, FS_Bijection

(* A sound map is what MapSound asks for.                                  *)
LEMMA SoundMap ==
  ASSUME Shapes, Faithful => Sound
  PROVE  MapSound
<1>0. RecShape BY DEF Shapes
<1>1. ASSUME phase = "run", ~refused, ~differs
      PROVE  /\ Images \subseteq dev
             /\ \A d \in dev \ Implicit(VidBase) : \E o \in Learnt : Image(o) = d
             /\ Cardinality(Images) = Cardinality(Learnt)
             /\ \A o \in Learnt \cap Implicit(RecBase) : Image(o).id = o.id + VidBase - RecBase
  <2>1. Living /\ InPlace /\ Mirrored BY <1>1 DEF Faithful, Sound
  <2>2. Images \subseteq dev BY <2>1 DEF Images, Learnt, Mirrored, Copied
  <2>3. \A d \in dev \ Implicit(VidBase) : \E o \in Learnt : Image(o) = d
    BY <2>1 DEF Learnt, Mirrored
  <2>4. ASSUME NEW o \in Learnt, o \in Implicit(RecBase) PROVE Image(o).id = o.id + VidBase - RecBase
    <3>1. o.id \in 1..4 BY <2>4, ImplicitAre DEF Object
    <3>2. Image(o).id = rec2vid[o.id] /\ o.id \in DOMAIN rec2vid
      BY <2>1, ImageIs DEF Learnt, Mirrored, Copied, Vid
    <3>3. rec2vid[o.id] = o.id + VidBase BY <2>1, <3>1, <3>2 DEF InPlace
    <3> QED BY <3>1, <3>2, <3>3 DEF VidBase, RecBase
  <2>5. Cardinality(Images) = Cardinality(Learnt) BY <1>0, <2>1, ImagesCount
  <2> QED BY <2>2, <2>3, <2>4, <2>5
<1>2. Mirrors BY <1>1 DEF Mirrors, Images, Learnt
<1>3. MapsAlive
  <2>1. ASSUME phase = "run", ~differs, NEW o \in recDev, HasOid(o), o.id \in DOMAIN rec2vid
        PROVE  \E d \in dev : NameOf(d) = <<o.type, rec2vid[o.id]>>
    <3>1. Copied(o) BY <2>1 DEF Faithful, Sound, Living
    <3>2. Image(o) \in dev /\ NameOf(Image(o)) = <<o.type, rec2vid[o.id]>>
      BY <3>1, ImageIs DEF Copied, Vid, NameOf
    <3> QED BY <3>2
  <2> QED BY <2>1 DEF MapsAlive
<1> QED BY <1>2, <1>3 DEF MapSound

(* The invariant holds at first,                                           *)
LEMMA ReplayInit == Init => ReplayInv
<1>1. Init => Shapes BY ShapesInit
<1>2. Init => ~Faithful /\ RaisesExplained BY DEF Init, Faithful, RaisesExplained
<1> QED BY <1>1, <1>2 DEF ReplayInv

(* and every step keeps it.                                                *)
LEMMA ReplayStep == ReplayInv /\ [Next]_vars => ReplayInv'
<1> SUFFICES ASSUME ReplayInv, [Next]_vars PROVE ReplayInv'
  OBVIOUS
<1>0. Shapes /\ (Faithful => Sound) /\ RaisesExplained BY DEF ReplayInv
<1>1. Shapes' BY <1>0, ShapesStep
<1>2. Faithful' => Sound' BY <1>0, SoundStep
<1>3. RaisesExplained' BY <1>0, RaisesStep
<1> QED BY <1>1, <1>2, <1>3 DEF ReplayInv

(* Every state of a replay is well formed: the answers and the map hold    *)
(* OIDs, aliases are never empty, and the OIDs of a get are kept between   *)
(* records only until its answer.                                          *)
THEOREM ReplayTypeCorrect == Spec => []TypeOK
<1>1. Spec => []ReplayInv BY ReplayInit, ReplayStep, PTL DEF Spec
<1>2. ReplayInv => TypeOK BY TypesOf DEF ReplayInv
<1> QED BY <1>1, <1>2, PTL

(* Whatever is recorded, and in whatever order: as long as the device does *)
(* what the recorded one did, the replay builds the recorded configuration *)
(* under other OIDs, object for object; and even after creates that the    *)
(* device refused, a mapped OID stands for a living object of its type.    *)
THEOREM MapIsSound == Spec => []MapSound
<1>1. Spec => []ReplayInv BY ReplayInit, ReplayStep, PTL DEF Spec
<1>2. ReplayInv => MapSound BY SoundMap DEF ReplayInv
<1> QED BY <1>1, <1>2, PTL

(* apply_rec() raises KeyError for an OID it does not know, asserts the    *)
(* status of a request, the length of an answer, or the status before an   *)
(* E, only after the device has refused a create that the recorded one     *)
(* accepted, or has answered in another way.                               *)
THEOREM RaisesAreExplained == Spec => []RaisesExplained
<1>1. Spec => []ReplayInv BY ReplayInit, ReplayStep, PTL DEF Spec
<1>2. ReplayInv => RaisesExplained BY DEF ReplayInv
<1> QED BY <1>1, <1>2, PTL
=============================================================================
