----------------------------- MODULE RecReplay -----------------------------
(***************************************************************************)
(* Sai.apply_rec(): a recording of what SONiC asked of one device          *)
(* (sairedis.rec) is applied to another one.  Two devices run side by      *)
(* side: the recorded one, from which the next record of a well-formed     *)
(* recording is taken, and the device of the replay.  Their OIDs differ;   *)
(* rec2vid maps the one to the other, as does registry, the table of       *)
(* aliases, for names.                                                     *)
(*                                                                         *)
(* A record is a letter: c, s, r create, set and remove one object, C, S,  *)
(* R several; G is the recorded answer to the get g before it; E says that *)
(* the request before it failed.                                           *)
(***************************************************************************)
EXTENDS Naturals, Sequences, FiniteSets, Functions

CONSTANTS
  MaxIds,       \* bound: OIDs created in a recording
  MaxFaults,    \* bound: requests that the device of the replay treats in its own way
  MaxReplays    \* bound: calls of apply_rec

ASSUME ReplayAssumption == MaxIds \in Nat /\ MaxFaults \in Nat /\ MaxReplays \in Nat

VARIABLES
  recDev,       \* recorded device: its objects
  learned,      \* OIDs that a record has named so far; no other is ever used
  recNext,      \* next OID of the recording
  expect,       \* the record that comes next: "any", "G" or "E"
  answer,       \* the OIDs of that G
  dev,          \* device of the replay: its objects
  vidNext,      \* next OID of the replay
  rec2vid,      \* recorded OID -> OID of the replay
  registry,     \* objects_registry: alias -> object
  oids, status, \* locals of apply_rec: OIDs of the last g, status of the last c or g
  phase,        \* "idle", "start" (no record read), "run"
  faults, replays,
  \* history of this replay
  why, refused, differs   \* why it raised; a create refused, a reply unlike the recorded

recVars == <<recDev, learned, recNext, expect, answer>>
deviceVars == <<dev, vidNext>>
replayVars == <<rec2vid, registry, oids, status, phase>>
history == <<why, refused, differs>>
vars == <<recVars, deviceVars, replayVars, faults, replays, history>>

Null == 0
Object(t, n, r) == [type |-> t, id |-> n, ref |-> r]
NameOf(o) == <<o.type, o.id>>
IdsOf(t, d) == {o.id : o \in {p \in d : p.type = t}}

(* A switch comes with a virtual router and two ports.  Routes are known   *)
(* by a key, not by an OID of their own: here the OID within that key.     *)
Implicit(base) ==
  {Object("SWITCH", base + 1, Null), Object("VR", base + 2, Null),
   Object("PORT", base + 3, Null), Object("PORT", base + 4, Null)}
RecBase == 0
VidBase == 10

(* The elements of a finite set of numbers, the smallest first.            *)
InOrder(S) ==
  CHOOSE s \in [1..Cardinality(S) -> S] : \A i, j \in DOMAIN s : i < j => s[i] < s[j]

(* Python's dict: an entry, and an update by another dict.                 *)
Entry(key, value) == [k \in {key} |-> value]
old ++ new == [k \in DOMAIN old \cup DOMAIN new |-> IF k \in DOMAIN new THEN new[k] ELSE old[k]]

HasOid(o) == o.type # "ROUTE"

Init ==
  /\ recDev = {} /\ learned = {} /\ recNext = RecBase + 5
  /\ expect = "any" /\ answer = <<>>
  /\ dev = {} /\ vidNext = VidBase + 5
  /\ rec2vid = <<>> /\ registry = <<>>
  /\ oids = <<>> /\ status = "ok" /\ phase = "idle"
  /\ faults = 0 /\ replays = 0
  /\ why = "none" /\ refused = FALSE /\ differs = FALSE

Faulty == faults < MaxFaults /\ faults' = faults + 1

(* An exception leaves apply_rec().                                        *)
Raise(reason) == phase' = "idle" /\ why' = reason
GoOn == UNCHANGED <<phase, why>>

AsRecorded == UNCHANGED <<faults, refused, differs>>
Differs == Faulty /\ differs' = TRUE /\ UNCHANGED refused

-----------------------------------------------------------------------------
(* Aliases.  f"rif_{alias}" is <<"rif">> \o alias, and "" is <<>>.         *)

Lower(a) == a = <<>> \/ Head(a) \notin {"DEFAULT_VIRTUAL_ROUTER_ID", "PORT_0", "PORT_1"}

(* get_alias_by_key()                                                      *)
AliasOf(name) ==
  LET found == {a \in DOMAIN registry : registry[a] = name /\ Lower(a)}
  IN  IF found = {} THEN <<>> ELSE CHOOSE a \in found : TRUE

(* objects_discovery()                                                     *)
Discovered ==
  LET p == InOrder(IdsOf("PORT", Implicit(VidBase)))
      port == [k \in {<<"PORT_0">>, <<"port0">>} |-> <<"PORT", p[1]>>]
                ++ [k \in {<<"PORT_1">>, <<"port1">>} |-> <<"PORT", p[2]>>]
  IN  Entry(<<"switch">>, <<"SWITCH", VidBase + 1>>)
        ++ Entry(<<"DEFAULT_VIRTUAL_ROUTER_ID">>, <<"VR", VidBase + 2>>) ++ port

(* create_rec_alias(): the alias that o gets, if any, bound to a name.     *)
RecAlias(o, name) ==
  CASE o.type = "RIF" -> Entry(<<"rif">> \o AliasOf(<<"PORT", o.ref>>), name)
    [] o.type = "ROUTE" /\ o.ref # Null -> Entry(<<"route">> \o AliasOf(<<"RIF", o.ref>>), name)
    [] OTHER -> <<>>

-----------------------------------------------------------------------------
(* What the recorded device and its client may do next.                    *)

Reading(kind) == phase = "run" /\ expect = kind
Live(t) == IdsOf(t, recDev) \cap learned

Targets(t) == IF t = "RIF" THEN Live("PORT") ELSE Live("RIF") \cup {Null}

\* Objects that a create record can be about, the first with OID n.
Fresh(t, n) ==
  {Object(t, m, r) : m \in (IF t = "ROUTE" THEN Live("VR") \ IdsOf(t, recDev) ELSE {n}),
                     r \in Targets(t)}

Referred(d) == {o.ref : o \in d} \cup IdsOf("ROUTE", d)
Removable(o, d) == o.type = "ROUTE" \/ o.id \notin Referred(d)
Removals == {o \in recDev : o.type \notin {"SWITCH", "VR"} /\ o.id \in learned}

(* The recording has an object (ok), or an E comes next.                   *)
Recorded(d, n, ok) ==
  /\ recDev' = IF ok THEN d ELSE recDev
  /\ learned' = IF ok THEN learned \cup {o.id : o \in d \ recDev} ELSE learned
  /\ recNext' = n
  /\ expect' = IF ok THEN "any" ELSE "E"
  /\ UNCHANGED answer

-----------------------------------------------------------------------------
(* The device of the replay.                                               *)

Exists(n) == n \in {o.id : o \in {p \in dev : HasOid(p)}}
Valid(o) ==
  /\ o.ref = Null \/ Exists(o.ref)
  /\ ~HasOid(o) => Exists(o.id) /\ NameOf(o) \notin {NameOf(p) : p \in dev}

\* The objects with these names, if they can all be removed.
Named(names) == {o \in dev : NameOf(o) \in names}
CanRemove(names) ==
  /\ {NameOf(o) : o \in Named(names)} = names
  /\ \A o \in Named(names) : Removable(o, dev)

-----------------------------------------------------------------------------
(* Translation: rec2vid[...] raises KeyError for an OID it does not have.  *)
(* Only the bulk records let oid:0x0 pass.                                 *)

Unmapped(S, bulk) == (S \ (IF bulk THEN {Null} ELSE {})) \ DOMAIN rec2vid
KeyError(S) == Raise(IF Null \in S THEN "null" ELSE "unknown")

\* Mutant: bulk records are sent with the OIDs of the recording.
MappedSingleOnly(r, bulk) == IF bulk THEN r ELSE rec2vid[r]

Mapped(r, bulk) == IF bulk /\ r = Null THEN Null ELSE rec2vid[r]
KeyOids(o) == IF HasOid(o) THEN {} ELSE {o.id}

\* o as it is created: under a new OID, or with the OID in its key replaced.
Translated(o, vid, bulk) ==
  Object(o.type, IF HasOid(o) THEN vid ELSE rec2vid[o.id], Mapped(o.ref, bulk))

-----------------------------------------------------------------------------
(* apply_rec()                                                             *)

\* Mutant: the map of the last replay is kept.
ApplyRecKeepsMap ==
  /\ phase = "idle" /\ replays < MaxReplays
  /\ replays' = replays + 1 /\ phase' = "start"
  /\ recDev' = {} /\ learned' = {} /\ recNext' = RecBase + 5 /\ expect' = "any" /\ answer' = <<>>
  /\ dev' = {} /\ vidNext' = VidBase + 5
  /\ registry' = <<>> /\ oids' = <<>> /\ status' = "none"
  /\ why' = "none" /\ refused' = FALSE /\ differs' = FALSE
  /\ UNCHANGED <<rec2vid, faults>>

(* cleanup(): a new device, no aliases, no map; then the file is read.     *)
ApplyRec ==
  /\ phase = "idle" /\ replays < MaxReplays
  /\ replays' = replays + 1 /\ phase' = "start"
  /\ recDev' = {} /\ learned' = {} /\ recNext' = RecBase + 5 /\ expect' = "any" /\ answer' = <<>>
  /\ dev' = {} /\ vidNext' = VidBase + 5
  /\ rec2vid' = <<>> /\ registry' = <<>> /\ oids' = <<>> /\ status' = "none"
  /\ why' = "none" /\ refused' = FALSE /\ differs' = FALSE
  /\ UNCHANGED faults

EndOfFile ==
  /\ Reading("any") /\ phase' = "idle"
  /\ UNCHANGED <<recVars, deviceVars, rec2vid, registry, oids, status, faults, replays, history>>

(* c of the switch, with which every recording begins.                     *)
CreateSwitch ==
  /\ phase = "start"
  /\ recDev' = Implicit(RecBase) /\ learned' = {RecBase + 1}
  /\ \/ /\ dev' = Implicit(VidBase) /\ status' = "ok"
        /\ rec2vid' = rec2vid ++ Entry(RecBase + 1, VidBase + 1)
        /\ \/ registry' = registry ++ Discovered /\ phase' = "run" /\ AsRecorded /\ UNCHANGED why
           \/ UNCHANGED registry /\ Raise("fault") /\ Differs
     \/ /\ status' \in {"refused", "other"} /\ phase' = "run"
        /\ Faulty /\ refused' = TRUE
        /\ UNCHANGED <<dev, rec2vid, registry, differs, why>>
  /\ UNCHANGED <<recNext, expect, answer, vidNext, oids, replays>>

(* c: a status that is not SUCCESS is left to the E that may follow.  (The *)
(* map also gets an entry under the key of a route, which nothing reads.)  *)
Create(o, ok) ==
  /\ Reading("any") /\ recNext < RecBase + 5 + MaxIds
  /\ Recorded(recDev \cup {o}, IF HasOid(o) THEN recNext + 1 ELSE recNext, ok)
  /\ LET missing == Unmapped({o.ref} \cup KeyOids(o), FALSE)
         new == Translated(o, vidNext, FALSE)
     IN IF missing # {}
          THEN /\ KeyError(missing) /\ AsRecorded
               /\ UNCHANGED <<deviceVars, rec2vid, registry, status>>
          ELSE /\ vidNext' = IF HasOid(o) THEN vidNext + 1 ELSE vidNext
               /\ \/ /\ Valid(new) /\ dev' = dev \cup {new} /\ status' = "ok" /\ GoOn
                     /\ rec2vid' = IF HasOid(o) THEN rec2vid ++ Entry(o.id, new.id) ELSE rec2vid
                     /\ registry' = registry ++ RecAlias(new, NameOf(new))
                     /\ IF ok THEN AsRecorded ELSE Differs
                  \/ /\ status' \in {"refused", "other"} /\ GoOn
                     /\ UNCHANGED <<dev, rec2vid, registry>>
                     /\ CASE ok /\ Valid(new) -> Faulty /\ refused' = TRUE /\ UNCHANGED differs
                          [] ok /\ ~Valid(new) -> refused' = TRUE /\ UNCHANGED <<faults, differs>>
                          [] ~ok -> IF status' = "other" THEN Differs ELSE AsRecorded
                  \/ Raise("fault") /\ Differs /\ UNCHANGED <<dev, rec2vid, registry, status>>
  /\ UNCHANGED <<oids, replays>>

(* r: the map forgets the OID first.  The alias is looked for under        *)
(* "SAI_OBJECT_TYPE_...:oid", where there is none.                         *)
Remove(o) ==
  /\ Reading("any") /\ o \in Removals
  /\ LET ok == Removable(o, recDev)
         name == <<o.type, rec2vid[o.id]>>
     IN /\ Recorded(recDev \ {o}, recNext, ok)
        /\ IF o.id \notin DOMAIN rec2vid
             THEN KeyError({o.id}) /\ AsRecorded /\ UNCHANGED <<dev, rec2vid>>
             ELSE /\ rec2vid' = IF HasOid(o) THEN Restrict(rec2vid, DOMAIN rec2vid \ {o.id}) ELSE rec2vid
                  /\ \/ /\ CanRemove({name}) /\ dev' = dev \ Named({name}) /\ GoOn
                        /\ IF ok THEN AsRecorded ELSE Differs
                     \/ /\ ~CanRemove({name}) /\ UNCHANGED dev /\ AsRecorded
                        /\ Raise(IF ok THEN "request" ELSE "recorded")
                     \/ ok /\ CanRemove({name}) /\ UNCHANGED dev /\ Raise("fault") /\ Differs
  /\ UNCHANGED <<vidNext, registry, oids, status, replays>>

(* s and S: the attribute of o that refers to another object.              *)
SetAttribute(o, r, bulk, ok) ==
  /\ Reading("any") /\ o \in recDev /\ o.type \in {"MEMBER", "ROUTE"} /\ o.id \in learned
  /\ Recorded((recDev \ {o}) \cup {Object(o.type, o.id, r)}, recNext, ok)
  /\ LET missing == Unmapped({r}, bulk) \cup Unmapped({o.id}, FALSE)
         found == Named({<<o.type, rec2vid[o.id]>>})
         ref == Mapped(r, bulk)
     IN IF missing # {}
          THEN KeyError(missing) /\ AsRecorded /\ UNCHANGED dev
          ELSE \/ /\ found # {} /\ (ref = Null \/ Exists(ref)) /\ GoOn
                  /\ dev' = (dev \ found) \cup {Object(p.type, p.id, ref) : p \in found}
                  /\ IF ok THEN AsRecorded ELSE Differs
               \/ /\ UNCHANGED dev
                  /\ IF ok /\ found # {} /\ (ref = Null \/ Exists(ref))
                       THEN Raise("fault") /\ Differs
                       ELSE Raise(IF ok THEN "request" ELSE "recorded") /\ AsRecorded
  /\ UNCHANGED <<vidNext, rec2vid, registry, oids, status, replays>>

(* C: the objects are mapped, and get their aliases, when all are made.    *)
(* Those with an OID are bound to the name of their type.                  *)
BulkCreate(batch) ==
  /\ Reading("any") /\ recNext < RecBase + 5 + MaxIds
  /\ Recorded(recDev \cup Range(batch), recNext + Cardinality({i \in DOMAIN batch : HasOid(batch[i])}), TRUE)
  /\ LET missing == UNION {Unmapped({o.ref} \cup KeyOids(o), TRUE) : o \in Range(batch)}
         new == [i \in DOMAIN batch |-> Translated(batch[i], vidNext + i - 1, TRUE)]
         alias == [i \in DOMAIN new |->
                    RecAlias(new[i], <<new[i].type, IF HasOid(new[i]) THEN Null ELSE new[i].id>>)]
         valid == \A i \in DOMAIN new : Valid(new[i])
         fresh == {o.id : o \in {p \in Range(batch) : HasOid(p)}}
     IN IF missing # {}
          THEN /\ KeyError(missing) /\ AsRecorded
               /\ UNCHANGED <<deviceVars, rec2vid, registry>>
          ELSE /\ vidNext' = vidNext + Cardinality(fresh)
               /\ \/ /\ valid /\ dev' = dev \cup Range(new) /\ GoOn /\ AsRecorded
                     /\ rec2vid' = rec2vid ++ [n \in fresh |-> vidNext + (n - recNext)]
                     /\ registry' = (registry ++ alias[1]) ++ alias[Len(new)]
                  \/ /\ \E S \in SUBSET {i \in DOMAIN new : Valid(new[i])} :
                          S # DOMAIN new /\ dev' = dev \cup {new[i] : i \in S}
                     /\ UNCHANGED <<rec2vid, registry>>
                     /\ IF valid THEN Raise("fault") /\ Differs ELSE Raise("request") /\ AsRecorded
  /\ UNCHANGED <<oids, status, replays>>

(* R                                                                       *)
BulkRemove(S) ==
  /\ Reading("any") /\ S \subseteq Removals /\ \A o \in S : Removable(o, recDev)
  /\ Recorded(recDev \ S, recNext, TRUE)
  /\ LET missing == Unmapped({o.id : o \in S}, FALSE)
         names == {<<o.type, rec2vid[o.id]>> : o \in S}
         gone == {AliasOf(n) : n \in names}
     IN IF missing # {}
          THEN KeyError(missing) /\ AsRecorded /\ UNCHANGED <<dev, rec2vid, registry>>
          ELSE /\ rec2vid' = Restrict(rec2vid, DOMAIN rec2vid \ {o.id : o \in {p \in S : HasOid(p)}})
               /\ \/ /\ CanRemove(names) /\ dev' = dev \ Named(names) /\ GoOn /\ AsRecorded
                     /\ registry' = Restrict(registry, DOMAIN registry \ gone)
                  \/ /\ dev' \in {dev \ Named(T) : T \in SUBSET names \ {names}}
                     /\ UNCHANGED registry
                     /\ IF CanRemove(names) THEN Raise("fault") /\ Differs ELSE Raise("request") /\ AsRecorded
  /\ UNCHANGED <<vidNext, oids, status, replays>>

(* What the device may answer when it is asked for the OIDs s: these, or   *)
(* in another order, or another object of the type t in place of null.     *)
Replies(s, t) ==
  {<<n>> : n \in IF s = <<Null>> THEN IdsOf(t, dev) ELSE {}}
  \cup {p \in [DOMAIN s -> Range(s)] : Range(p) = Range(s)}

(* g: PORT_LIST or DEFAULT_VIRTUAL_ROUTER_ID of the switch (id), or the    *)
(* reference of a member; recorded is the answer of the recorded device,   *)
(* here that of the device of the replay.                                  *)
Get(id, recorded, here, t) ==
  /\ Reading("any")
  /\ expect' = "G" /\ answer' = recorded
  /\ IF id \notin DOMAIN rec2vid
       THEN KeyError({id}) /\ AsRecorded /\ UNCHANGED <<oids, status>>
       ELSE \/ /\ Exists(rec2vid[id]) /\ status' = "ok" /\ GoOn
               /\ \E reply \in Replies(here, t) :
                    /\ oids' = oids \o reply
                    /\ IF reply = here THEN AsRecorded ELSE Differs
            \/ /\ status' \in {"refused", "other"} /\ UNCHANGED oids /\ GoOn
               /\ IF Exists(rec2vid[id]) THEN Differs ELSE AsRecorded
            \/ Raise("fault") /\ Differs /\ UNCHANGED <<oids, status>>
  /\ UNCHANGED <<recDev, learned, recNext, deviceVars, rec2vid, registry, replays>>

GetPorts == Get(RecBase + 1, InOrder(IdsOf("PORT", recDev)), InOrder(IdsOf("PORT", dev)), "PORT")
GetRouter == Get(RecBase + 1, InOrder(IdsOf("VR", recDev)), InOrder(IdsOf("VR", dev)), "VR")
GetMember ==
  \E o \in {p \in recDev : p.type = "MEMBER"} :
    Get(o.id, <<o.ref>>, <<(CHOOSE p \in dev : HasOid(p) /\ p.id = rec2vid[o.id]).ref>>, "RIF")

(* The OIDs of the recorded answer, matched by position with those got.    *)
Matching == [n \in Range(answer) |-> oids[CHOOSE i \in DOMAIN answer : answer[i] = n]]

\* Mutant: the OIDs of a get are kept for the next one.
GetResponseKeeps ==
  /\ Reading("G")
  /\ expect' = "any" /\ answer' = <<>>
  /\ learned' = learned \cup (Range(answer) \ {Null})
  /\ IF Len(oids) # Len(answer)
       THEN Raise("answer") /\ UNCHANGED rec2vid
       ELSE GoOn /\ rec2vid' = rec2vid ++ Matching
  /\ UNCHANGED <<recDev, recNext, deviceVars, registry, oids, status, faults, replays, refused, differs>>

\* Mutant: the OIDs are matched from the last to the first.
GetResponseReversed ==
  /\ Reading("G")
  /\ expect' = "any" /\ answer' = <<>> /\ oids' = <<>>
  /\ learned' = learned \cup (Range(answer) \ {Null})
  /\ IF Len(oids) # Len(answer)
       THEN Raise("answer") /\ UNCHANGED rec2vid
       ELSE GoOn /\ rec2vid' = rec2vid ++ [n \in Range(answer) |->
                        oids[Len(oids) + 1 - CHOOSE i \in DOMAIN answer : answer[i] = n]]
  /\ UNCHANGED <<recDev, recNext, deviceVars, registry, status, faults, replays, refused, differs>>

(* G                                                                       *)
GetResponse ==
  /\ Reading("G")
  /\ expect' = "any" /\ answer' = <<>>
  /\ learned' = learned \cup (Range(answer) \ {Null})
  /\ IF Len(oids) # Len(answer)
       THEN Raise("answer") /\ UNCHANGED <<rec2vid, oids>>
       ELSE /\ rec2vid' = rec2vid ++ Matching
            /\ oids' = <<>>
            /\ GoOn
  /\ UNCHANGED <<recDev, recNext, deviceVars, registry, status, faults, replays, refused, differs>>

(* E, after a record that failed when it was recorded.                     *)
ExpectedFailure ==
  /\ Reading("E")
  /\ expect' = "any"
  /\ IF status \in {"refused", "ok"} THEN GoOn ELSE Raise("status")
  /\ UNCHANGED <<recDev, learned, recNext, answer, deviceVars, rec2vid, registry, oids, status,
                 faults, replays, refused, differs>>

-----------------------------------------------------------------------------
Record ==
  \/ CreateSwitch \/ EndOfFile
  \/ \E t \in {"RIF", "MEMBER", "ROUTE"} : \E o \in Fresh(t, recNext) :
       \/ \E ok \in BOOLEAN : Create(o, ok)
       \/ BulkCreate(<<o>>)
       \/ t # "ROUTE" /\ \E p \in Fresh(t, recNext + 1) : BulkCreate(<<o, p>>)
  \/ \E o \in recDev :
       \/ Remove(o)
       \/ \E p \in recDev : p.type = o.type /\ BulkRemove({o, p})
       \/ \E r \in Targets(o.type) \ {o.ref}, bulk \in BOOLEAN :
            SetAttribute(o, r, bulk, TRUE) \/ (~bulk /\ SetAttribute(o, r, bulk, FALSE))
  \/ GetPorts \/ GetRouter \/ GetMember \/ GetResponse \/ ExpectedFailure

Next == ApplyRec \/ Record

Spec == Init /\ [][Next]_vars

-----------------------------------------------------------------------------
\* An object of the recording as the replay should have made it.
Image(o) ==
  Object(o.type, IF o.id \in DOMAIN rec2vid THEN rec2vid[o.id] ELSE Null,
         IF o.ref \in DOMAIN rec2vid THEN rec2vid[o.ref] ELSE Null)

TypeOK ==
  /\ \A d \in {recDev, dev} : \A o \in d :
       o.type \in {"SWITCH", "VR", "PORT", "RIF", "MEMBER", "ROUTE"} /\ o.id \in Nat \ {Null} /\ o.ref \in Nat
  /\ learned \subseteq Nat /\ recNext \in Nat /\ vidNext \in Nat
  /\ expect \in {"any", "G", "E"} /\ answer \in Seq(Nat)
  /\ rec2vid \in [DOMAIN rec2vid -> Nat]
  /\ \A a \in DOMAIN registry : a # <<>> /\ Len(registry[a]) = 2
  /\ oids \in Seq(Nat) /\ (oids # <<>> => expect = "G" \/ phase = "idle")
  /\ status \in {"none", "ok", "refused", "other"} /\ phase \in {"idle", "start", "run"}
  /\ faults \in 0..MaxFaults /\ replays \in 0..MaxReplays
  /\ why \in {"none", "null", "unknown", "request", "recorded", "answer", "status", "fault"}
  /\ refused \in BOOLEAN /\ differs \in BOOLEAN

(* As long as the device does what the recorded one did, the replay builds *)
(* the recorded configuration, object for object and reference for         *)
(* reference, under other OIDs, and every port stands for the port in its  *)
(* place and not for another one.                                          *)
Mirrors ==
  phase = "run" /\ ~refused /\ ~differs =>
    LET named == {o \in recDev : o.id \in learned} IN
    /\ {Image(o) : o \in named} \subseteq dev
    /\ \A d \in dev \ Implicit(VidBase) : \E o \in named : Image(o) = d
    /\ Cardinality({Image(o) : o \in named}) = Cardinality(named)
    /\ \A o \in named \cap Implicit(RecBase) : Image(o).id = o.id + VidBase - RecBase

(* A create that the device refuses goes unnoticed, and the replay goes on *)
(* without the object.  Even then a recorded OID that is mapped stands for *)
(* an object of its type that exists in this replay, as long as gets are   *)
(* answered, and requests accepted, as they were in the recording.         *)
MapsAlive ==
  phase = "run" /\ ~differs =>
    \A o \in recDev : HasOid(o) /\ o.id \in DOMAIN rec2vid =>
      \E d \in dev : NameOf(d) = <<o.type, rec2vid[o.id]>>

(* The map is right: see its two parts.                                    *)
MapSound == Mirrors /\ MapsAlive

(* A replay that raises has met a device unlike the recorded one, except   *)
(* for two kinds of records it cannot apply at all: oid:0x0 in c or s, and *)
(* a failed request other than a c.                                        *)
RaisesExplained ==
  why \in {"unknown", "request", "answer", "status"} => refused \/ differs

(* "This alias can be used in data-driven configuration": an alias of an   *)
(* object names an object that exists.                                     *)
AliasUsable ==
  phase = "run" => \A a \in DOMAIN registry : registry[a][2] # Null => Named({registry[a]}) # {}
=============================================================================
