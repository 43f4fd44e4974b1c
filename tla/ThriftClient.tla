---------------------------- MODULE ThriftClient ----------------------------
(***************************************************************************)
(* SaiThriftClient: one synchronous Thrift call per object and attribute.  *)
(* The bulk calls are loops of single calls, the type of an object is      *)
(* remembered by the number of its oid (sai_type_map, which nothing        *)
(* clears), and the status of a call is a global of the generated adapter, *)
(* which keeps the status of an earlier call when a call does not get as   *)
(* far as the server.  The connection can break, the server restart, other *)
(* clients work on the same objects; and a call that is interrupted while  *)
(* it waits (a timeout of the test, a Ctrl-C that a bare except swallows)  *)
(* leaves its reply for the next call to read.                             *)
(***************************************************************************)
EXTENDS Naturals, Sequences, Functions

CONSTANTS
  Kinds,       \* object types with an oid
  Keys,        \* keys of entries (routes, FDB entries)
  MaxOid,      \* bound on the numbers of a server's objects
  MaxItems,    \* bound on the attributes of a get and the keys of a bulk call
  MaxFaults,   \* bound on crashes, broken connections and interruptions
  MaxDue,      \* bound on restarts ordered over SSH and not yet carried out
  Modes        \* how cleanup() restarts the server: "ssh", "local" or "no"

ASSUME ThriftAssumption ==
  /\ MaxOid \in Nat \ {0} /\ MaxItems \in Nat \ {0} /\ MaxFaults \in Nat /\ MaxDue \in Nat
  /\ Modes \subseteq {"ssh", "local", "no"} /\ Modes # {}
  /\ "NULL" \notin Kinds

Oids == 1..MaxOid
Statuses == {"SUCCESS", "OVERFLOW", "FAILURE"}   \* FAILURE: any other

VARIABLES
  mode,      \* configuration of cleanup()
  up,        \* saiserver accepts connections
  due,       \* restarts ordered over SSH and not yet carried out
  objs,      \* the server's objects: oid -> [kind, own: this client was told]
  entries,   \* keys of the server's entries
  conn,      \* thrift_transport: "open", "reset" by the server, "closed"
  owed,      \* replies on the connection that no call has read
  types,     \* sai_type_map
  status,    \* sai_adapter.status
  job,       \* the call in progress, or how the last one ended
  faults     \* crashes, breaks and interruptions so far

vars == <<mode, up, due, objs, entries, conn, owed, types, status, job, faults>>

Put(f, o, v) == [x \in DOMAIN f \union {o} |-> IF x = o THEN v ELSE f[x]]

-----------------------------------------------------------------------------
(* The server *)

Shape(op) ==
  CASE op = "create" -> "oid" [] op = "query" -> "type" [] op = "get" -> "value"
    [] op = "get_stats" -> "counters" [] OTHER -> "status"

IsA(o, kind) == o \in DOMAIN objs /\ objs[o].kind = kind

(* What the server may do with a request: refuse it, which it may do to    *)
(* any, or carry it out.                                                   *)
Served(op, on, kind, own) ==
  LET Does(os, es, st, o, k) ==
        [objs |-> os, entries |-> es, did |-> st # "FAILURE",
         reply |-> [shape |-> Shape(op), st |-> st, oid |-> o, kind |-> k]]
      Done(es) == {Does(objs, es, "SUCCESS", 0, "NULL")}
  IN {Does(objs, entries, "FAILURE", 0, "NULL")} \union
     CASE op = "create" ->
            {Does(Put(objs, o, [kind |-> kind, own |-> own]), entries, "SUCCESS", o, "NULL")
             : o \in Oids \ DOMAIN objs}
       [] op = "query" ->
            {Does(objs, entries, "SUCCESS", 0,
                  IF on \in DOMAIN objs THEN objs[on].kind ELSE "NULL")}
       [] op = "remove" /\ IsA(on, kind) ->
            {Does(Restrict(objs, DOMAIN objs \ {on}), entries, "SUCCESS", 0, "NULL")}
       [] op = "get" /\ IsA(on, kind) ->
            {Does(objs, entries, st, 0, "NULL") : st \in {"SUCCESS", "OVERFLOW"}}
       [] op \in {"set", "get_stats", "clear_stats"} /\ IsA(on, kind) -> Done(entries)
       [] op = "flush" -> UNION {Done(es) : es \in SUBSET entries}
       [] op = "bulk_create" /\ on \notin entries -> Done(entries \union {on})
       [] op = "bulk_remove" /\ on \in entries -> Done(entries \ {on})
       [] op = "bulk_set" /\ on \in entries -> Done(entries)
       [] OTHER -> {}

Down ==   \* the server dies, and what was on the way with it
  /\ up' = FALSE /\ objs' = <<>> /\ entries' = {}
  /\ conn' = IF conn = "open" THEN "reset" ELSE conn
  /\ owed' = <<>>

-----------------------------------------------------------------------------
(* One Thrift call, from the client's side: it sends the request and reads *)
(* the oldest reply, which the generated code takes for its own.  A result *)
(* of another type, or no reply, is an exception.                          *)
NoReply == [answered |-> FALSE, st |-> "FAILURE", oid |-> 0, kind |-> "NULL"]

Taken(op, r) ==
  IF r.shape = Shape(op) \/ r.st = "FAILURE"
  THEN [answered |-> TRUE, st |-> r.st, oid |-> r.oid, kind |-> r.kind]
  ELSE NoReply

Exchanges(op, on, kind) ==
  LET Ends(s, c, q, f, g) ==
        [objs |-> s.objs, entries |-> s.entries, did |-> s.did, conn |-> c,
         owed |-> q, faults |-> faults + f, got |-> g]
      Nothing == [objs |-> objs, entries |-> entries, did |-> FALSE]
      Told == Served(op, on, kind, owed = <<>>)
      Untold == Served(op, on, kind, FALSE)
  IN IF conn # "open" THEN {Ends(Nothing, conn, owed, 0, NoReply)}
     ELSE {LET q == Append(owed, s.reply)
           IN Ends(s, "open", Tail(q), 0, Taken(op, Head(q))) : s \in Told}
          \union IF faults = MaxFaults THEN {}
                 ELSE {Ends(s, "reset", <<>>, 1, NoReply) : s \in Untold \union {Nothing}}
                      \union {Ends(s, "open", Append(owed, s.reply), 1, NoReply) : s \in Untold}

Exchange(x) ==
  /\ objs' = x.objs /\ entries' = x.entries
  /\ conn' = x.conn /\ owed' = x.owed /\ faults' = x.faults
  /\ UNCHANGED <<mode, up, due>>

(* The adapter clears its status, calls, and notes the error it is told:   *)
(* an exception leaves the status of an earlier call, or success.          *)
AdapterStatus(x) == IF x.got.answered THEN {x.got.st} ELSE {status, "SUCCESS"}

-----------------------------------------------------------------------------
(* Calls.  on: the oid; items: the keys of a bulk call, or for each        *)
(* attribute whether the adapter has a parameter of its name; asked: items *)
(* tried; out: how the call ended, "" until then.  did (items the server   *)
(* carried out) and inStep (no reply was owed when it began) are history.  *)
BulkOps == {"bulk_create", "bulk_remove", "bulk_set"}
OidOps == {"remove", "set", "get", "get_stats", "clear_stats"}

NewCall(op, on, items, kind, assert) ==
  [op |-> op, on |-> on, items |-> items, kind |-> kind, assert |-> assert,
   asked |-> 0, did |-> 0, inStep |-> owed = <<>>, out |-> ""]

KnownType(o) == IF o \in DOMAIN types THEN types[o] ELSE "NULL"
Names(op) == IF op = "get" THEN UNION {[1..n -> BOOLEAN] : n \in 1..MaxItems}
             ELSE IF op = "set" THEN {<<TRUE>>, <<FALSE>>} ELSE {<<TRUE>>}

(* The calls a test makes, with do_assert on or off. *)
CallsWith(a) ==
  {NewCall("create", 0, <<TRUE>>, k, a) : k \in Kinds} \union
  (UNION {{NewCall(op, o, s, KnownType(o), a) : o \in Oids, s \in Names(op)}
          : op \in OidOps}) \union
  {NewCall(op, 0, s, "entry", a)
   : op \in BulkOps, s \in UNION {[1..n -> Keys] : n \in 0..MaxItems}} \union
  {NewCall("flush", 0, <<TRUE>>, "switch", a)}

Calls == UNION {CallsWith(a) : a \in BOOLEAN}

Init ==
  /\ mode \in Modes
  /\ up = TRUE /\ due = 0 /\ objs = <<>> /\ entries = {}
  /\ conn = "open" /\ owed = <<>> /\ types = <<>> /\ status = "SUCCESS"
  /\ job = [NewCall("none", 0, <<>>, "NULL", TRUE) EXCEPT !.inStep = TRUE, !.out = "SUCCESS"]
  /\ faults = 0

Begin ==
  /\ job.out # "" /\ job' \in Calls
  /\ UNCHANGED <<mode, up, due, objs, entries, conn, owed, types, status, faults>>

At(ops) == job.out = "" /\ job.op \in ops /\ job.kind # "NULL"

(* The end of a call.  Only what a call with several items has told and    *)
(* done is kept.                                                           *)
Ended(j, out) ==
  IF j.op \in BulkOps \union {"get"}
  THEN [j EXCEPT !.on = 0, !.kind = "NULL", !.assert = TRUE, !.out = out]
  ELSE [NewCall("none", 0, <<>>, "NULL", TRUE) EXCEPT !.inStep = TRUE, !.out = out]

(* One item is through: the next one, or the end of the call.              *)
Answered(x, out) ==
  LET on == [job EXCEPT !.asked = @ + 1, !.did = @ + (IF x.did THEN 1 ELSE 0)]
  IN job' = IF out = "" THEN on ELSE Ended(on, out)

(* do_assert: anything but success raises. *)
Judged(st) == IF job.assert /\ st # "SUCCESS" THEN "raised" ELSE st

(* An oid this client has not created: the server is asked for its type.   *)
(* The exception of a failed query, or the missing function for type NULL. *)
Get_object_type ==
  /\ job.out = "" /\ job.op \in OidOps /\ job.kind = "NULL"
  /\ \E x \in Exchanges("query", job.on, "NULL") :
       /\ Exchange(x)
       /\ job' = IF x.got.kind # "NULL" THEN [job EXCEPT !.kind = x.got.kind]
                 ELSE Ended(job, "raised")
  /\ UNCHANGED <<types, status>>

(* Mutant: the type is noted whatever the call returned. *)
NotedAlways(got) == Put(types, got.oid, job.kind)

(* Mutant: a number that has a type keeps it. *)
NotedOnce(got) ==
  IF got.st = "SUCCESS" /\ got.oid \notin DOMAIN types THEN Put(types, got.oid, job.kind) ELSE types

Noted(got) == IF got.st = "SUCCESS" THEN Put(types, got.oid, job.kind) ELSE types

Told(got) == IF got.answered THEN Judged(got.st) ELSE "raised"

(* Without counters there is nothing to list, do_assert or not.            *)
Listed(got) == IF got.answered /\ got.st = "SUCCESS" THEN "SUCCESS" ELSE "raised"

(* The status of the flush is not looked at. *)
Flushed(got) == IF got.answered THEN "SUCCESS" ELSE "raised"

(* Mutant: an exception stands for no value. *)
ReadAny(got) ==
  IF status' = "FAILURE" THEN Judged("FAILURE")
  ELSE IF job.asked + 1 < Len(job.items) THEN "" ELSE Judged(status')

(* The status decides, and a failure drops what was read before.  With a   *)
(* good status left from an earlier call, an exception's value has nothing *)
(* to convert.  An overflow adds no value, and only the last one is told.  *)
Read(got) ==
  IF status' = "FAILURE" THEN Judged("FAILURE")
  ELSE IF ~got.answered THEN "raised"
  ELSE IF job.asked + 1 < Len(job.items) THEN "" ELSE Judged(status')

Written(got) == Judged(got.st)

(* Mutant: the failure of an entry does not end the loop. *)
CreatedGoesOn(got) == IF Told(got) = "raised" THEN "raised" ELSE ""

Created(got) == IF got.answered /\ got.st = "SUCCESS" THEN "" ELSE Told(got)

(* Without do_assert the one status returned is unpacked as two values.    *)
Changed(got) == IF job.assert /\ got.answered /\ got.st = "SUCCESS" THEN "" ELSE "raised"

(* What the caller makes of an item; "": on to the next one.               *)
Outcome(got) ==
  CASE job.op = "get_stats" -> Listed(got)
    [] job.op = "flush" -> Flushed(got)
    [] job.op = "get" -> Read(got)
    [] job.op = "set" -> Written(got)
    [] job.op = "bulk_create" -> Created(got)
    [] job.op \in {"bulk_remove", "bulk_set"} -> Changed(got)
    [] OTHER -> Told(got)

(* One exchange for the next item.                                         *)
Asks(op) ==
  /\ At({op}) /\ job.asked < Len(job.items)
  /\ \E x \in Exchanges(op, IF op \in BulkOps THEN job.items[job.asked + 1] ELSE job.on, job.kind) :
       /\ Exchange(x) /\ status' \in AdapterStatus(x)
       /\ types' = IF op = "create" /\ x.got.answered THEN Noted(x.got) ELSE types
       /\ Answered(x, Outcome(x.got))

Create == Asks("create")
Remove == Asks("remove")
Clear_stats == Asks("clear_stats")
Get_stats == Asks("get_stats")
Flush_fdb_entries == Asks("flush")

(* One attribute.  A parameter the adapter function does not have raises   *)
(* before anything is sent, and no exception gets out.                     *)
NotSent ==
  [objs |-> objs, entries |-> entries, did |-> FALSE, conn |-> conn, owed |-> owed,
   faults |-> faults, got |-> NoReply]

Attribute(op) ==
  /\ At({op})
  /\ LET sent == job.items[job.asked + 1] IN
     \E x \in IF sent THEN Exchanges(op, job.on, job.kind) ELSE {NotSent} :
       /\ Exchange(x) /\ status' \in IF sent THEN AdapterStatus(x) ELSE {status}
       /\ Answered(x, Outcome(x.got))
  /\ UNCHANGED types

Set == Attribute("set")
Get == Attribute("get")

(* The bulk calls: loops of create(), remove() and set(). *)
Bulk_create == Asks("bulk_create")
Bulk_remove == Asks("bulk_remove")
Bulk_set == Asks("bulk_set")

BulkDone ==
  /\ At(BulkOps) /\ job.asked = Len(job.items)
  /\ job' = Ended(job, "SUCCESS")
  /\ UNCHANGED <<mode, up, due, objs, entries, conn, owed, types, status, faults>>

-----------------------------------------------------------------------------
(* cleanup(): close, have saiserver restarted (over SSH without waiting    *)
(* for the command, or by a local process), sleep, and connect once.       *)
CleanupRestart ==
  /\ job.out # ""
  /\ job' = NewCall("cleanup", 0, <<>>, "switch", TRUE)
  /\ IF mode = "local"
     THEN up' = FALSE /\ objs' = <<>> /\ entries' = {} /\ due' = due
     ELSE /\ due' = due + (IF mode = "ssh" THEN 1 ELSE 0) /\ due' <= MaxDue
          /\ UNCHANGED <<up, objs, entries>>
  /\ conn' = "closed" /\ owed' = <<>>
  /\ UNCHANGED <<mode, types, status, faults>>

CleanupConnect ==
  /\ At({"cleanup"})
  /\ conn' = IF up THEN "open" ELSE "closed"
  /\ job' = Ended(job, IF up THEN "SUCCESS" ELSE "raised")
  /\ UNCHANGED <<mode, up, due, objs, entries, owed, types, status, faults>>

-----------------------------------------------------------------------------
(* The server's own steps, and other clients. *)

SshRestart ==
  /\ due > 0 /\ due' = due - 1
  /\ Down
  /\ UNCHANGED <<mode, types, status, job, faults>>

Crash ==
  /\ up /\ faults < MaxFaults /\ faults' = faults + 1
  /\ Down
  /\ UNCHANGED <<mode, due, types, status, job>>

Boot ==
  /\ ~up /\ up' = TRUE
  /\ UNCHANGED <<mode, due, objs, entries, conn, owed, types, status, job, faults>>

OtherClient ==
  /\ up
  /\ \/ \E o \in Oids \ DOMAIN objs, k \in Kinds :
          objs' = Put(objs, o, [kind |-> k, own |-> FALSE]) /\ entries' = entries
     \/ \E o \in DOMAIN objs : objs' = Restrict(objs, DOMAIN objs \ {o}) /\ entries' = entries
     \/ \E k \in Keys : objs' = objs /\ entries' \in {entries \union {k}, entries \ {k}}
  /\ UNCHANGED <<mode, up, due, conn, owed, types, status, job, faults>>

Next ==
  \/ Begin \/ Get_object_type
  \/ Create \/ Remove \/ Set \/ Get \/ Get_stats \/ Clear_stats \/ Flush_fdb_entries
  \/ Bulk_create \/ Bulk_remove \/ Bulk_set \/ BulkDone
  \/ CleanupRestart \/ CleanupConnect
  \/ SshRestart \/ Crash \/ Boot \/ OtherClient

Spec == Init /\ [][Next]_vars

-----------------------------------------------------------------------------
Range2(f) == {f[d] : d \in DOMAIN f}

(* Every variable has its type: only oids have types, a connection the     *)
(* client uses is to a server that runs, replies are owed only on it.      *)
TypeOK ==
  /\ mode \in Modes /\ up \in BOOLEAN /\ due \in 0..MaxDue /\ faults \in 0..MaxFaults
  /\ DOMAIN objs \subseteq Oids
  /\ Range2(objs) \subseteq [kind : Kinds, own : BOOLEAN]
  /\ entries \subseteq Keys
  /\ conn \in {"open", "reset", "closed"} /\ (conn = "open" => up)
  /\ owed # <<>> => conn = "open"
  /\ DOMAIN types \subseteq Oids /\ Range2(types) \subseteq Kinds
  /\ status \in Statuses
  /\ job.out \in Statuses \union {"", "raised"}
  /\ job.did <= job.asked /\ job.asked <= Len(job.items)

(* sai_type_map is never cleared, yet the type it has for an object that   *)
(* this client created, and was told the oid of, is that object's: numbers *)
(* used again after a restart or a removal are noted anew, and the oids    *)
(* that calls out of step read are of objects nobody was told of.          *)
OwnTyped == \A o \in DOMAIN objs : objs[o].own => o \in DOMAIN types /\ types[o] = objs[o].kind

(* What a bulk call says it did is what it did: with success every entry   *)
(* was carried out, a failure returned is that of the last entry asked for *)
(* and all before it were, and an exception leaves at most the last in     *)
(* doubt.                                                                  *)
BulkTold ==
  job.op \in BulkOps /\ job.inStep =>
    /\ job.out = "SUCCESS" => job.did = Len(job.items)
    /\ job.out = "FAILURE" => job.did = job.asked - 1
    /\ job.out = "raised" => job.did \in {job.asked - 1, job.asked}

(* A get that returns success was answered by the server for every         *)
(* attribute: neither an exception swallowed on the way nor the status of  *)
(* an earlier call passes for a value.                                     *)
GetTold == job.op = "get" /\ job.inStep /\ job.out = "SUCCESS" => job.did = Len(job.items)

(* A call of several items reports what the server did, as long as every   *)
(* call before it has read its reply.                                      *)
ReportsTrue == BulkTold /\ GetTold
=============================================================================
