------------------------- MODULE ThriftClient_proofs -------------------------
(***************************************************************************)
(* Proofs about ThriftClient: type correctness, that the remembered types  *)
(* are those of the client's own objects, and that a call of several items *)
(* reports what the server did.                                            *)
(***************************************************************************)
EXTENDS ThriftClient, Integers, TLAPS

-----------------------------------------------------------------------------
(* The inductive invariant.                                                *)

Records == [kind : Kinds, own : BOOLEAN]
Replies ==
  [shape : {"oid", "type", "value", "counters", "status"}, st : Statuses,
   oid : Oids \cup {0}, kind : Kinds \cup {"NULL"}]

(* The objects and keys of a server, as they are or as a request leaves    *)
(* them.                                                                   *)
Stocked(os, es) ==
  DOMAIN os \subseteq Oids /\ (\A o \in DOMAIN os : os[o] \in Records) /\ es \subseteq Keys

Linked(c, q) ==
  /\ c \in {"open", "reset", "closed"} /\ q \in Seq(Replies)
  /\ q # <<>> => c = "open"

Types ==
  /\ mode \in Modes /\ up \in BOOLEAN /\ due \in 0..MaxDue /\ faults \in 0..MaxFaults
  /\ Stocked(objs, entries)
  /\ Linked(conn, owed) /\ (conn = "open" => up)
  /\ DOMAIN types \subseteq Oids /\ \A o \in DOMAIN types : types[o] \in Kinds
  /\ status \in Statuses

(* A call knows its items and does not go beyond them; what creates an     *)
(* object has its type, what reads or writes has an attribute left.        *)
Several == BulkOps \cup {"get"}
CallOps == OidOps \cup BulkOps \cup {"create", "flush", "none", "cleanup", "query"}
Outs == Statuses \cup {"", "raised"}

CallRecords ==
  [op : CallOps, on : Oids \cup {0}, items : Seq(Keys) \cup Seq(BOOLEAN),
   kind : Kinds \cup {"NULL", "entry", "switch"}, assert : BOOLEAN,
   asked : Nat, did : Nat, inStep : BOOLEAN, out : Outs]

Bounded(j) ==
  /\ j \in CallRecords
  /\ j.did <= j.asked /\ j.asked <= Len(j.items)
  /\ j.op \in BulkOps => j.items \in Seq(Keys)
  /\ j.op \in {"get", "set"} => j.items \in Seq(BOOLEAN)

JobOK(j) ==
  /\ Bounded(j)
  /\ j.out = "" =>
       /\ j.op = "create" => j.kind \in Kinds
       /\ j.op \in {"get", "set"} => j.asked < Len(j.items)

(* Replies that nobody has read tell of objects that are not this client's *)
(* own, though their numbers may have been used again.                     *)
IsNew(r) == r.shape = "oid" /\ r.st = "SUCCESS"
NotOwn(os, o) == o \in DOMAIN os => ~os[o].own
Untaken(os, q) ==
  \A i \in 1..Len(q) : IsNew(q[i]) => q[i].oid \in Oids /\ NotOwn(os, q[i].oid)

(* A call that began in step stays so, and has done all it has asked for,  *)
(* as long as it goes on.                                                  *)
InStep ==
  job.out = "" /\ job.inStep /\ job.op \in Several => owed = <<>> /\ job.did = job.asked

IInv ==
  Types /\ JobOK(job) /\ Untaken(objs, owed) /\ OwnTyped /\ InStep /\ ReportsTrue

-----------------------------------------------------------------------------
(* The server.                                                             *)

Answer(op, st, o, k) == [shape |-> Shape(op), st |-> st, oid |-> o, kind |-> k]
Object(kind, own) == [kind |-> kind, own |-> own]
Leaves(os, es, r) == [objs |-> os, entries |-> es, did |-> r.st # "FAILURE", reply |-> r]

(* The request is refused or carried out.                                  *)
CanLeave(s, op, on, kind, own) ==
  \/ s = Leaves(objs, entries, Answer(op, "FAILURE", 0, "NULL"))
  \/ /\ op = "create"
     /\ \E o \in Oids \ DOMAIN objs :
          s = Leaves(Put(objs, o, Object(kind, own)), entries, Answer(op, "SUCCESS", o, "NULL"))
  \/ /\ op = "remove"
     /\ s = Leaves(Restrict(objs, DOMAIN objs \ {on}), entries, Answer(op, "SUCCESS", 0, "NULL"))
  \/ /\ op # "create"
     /\ \E st \in {"SUCCESS", "OVERFLOW"}, es \in SUBSET Keys, k \in Kinds \cup {"NULL"} :
          s = Leaves(objs, es, Answer(op, st, 0, k))

LEMMA ServedCases ==
  ASSUME Stocked(objs, entries), NEW op \in CallOps, NEW on, NEW kind, NEW own,
         op \in BulkOps => on \in Keys,
         NEW s \in Served(op, on, kind, own)
  PROVE  CanLeave(s, op, on, kind, own)
<1>1. CASE op = "create"
  BY <1>1 DEF Served, CanLeave, Leaves, Answer, Object
<1>2. CASE op = "query"
  <2>1. on \in DOMAIN objs => objs[on].kind \in Kinds
    BY DEF Stocked, Records
  <2>. QED BY <1>2, <2>1 DEF Served, CanLeave, Leaves, Answer, Object, Stocked
<1>3. CASE op = "remove"
  BY <1>3 DEF Served, CanLeave, Leaves, Answer, Object
<1>4. CASE op = "get"
  BY <1>4 DEF Served, CanLeave, Leaves, Answer, Object, Stocked
<1>5. CASE op \in {"set", "get_stats", "clear_stats"}
  BY <1>5 DEF Served, CanLeave, Leaves, Answer, Object, Stocked
<1>6. CASE op = "flush"
  BY <1>6 DEF Served, CanLeave, Leaves, Answer, Object, Stocked
<1>7. CASE op = "bulk_create"
  BY <1>7 DEF Served, CanLeave, Leaves, Answer, Object, Stocked, BulkOps
<1>8. CASE op = "bulk_remove"
  BY <1>8 DEF Served, CanLeave, Leaves, Answer, Object, Stocked, BulkOps
<1>9. CASE op = "bulk_set"
  BY <1>9 DEF Served, CanLeave, Leaves, Answer, Object, Stocked, BulkOps
<1>10. CASE op \in {"none", "cleanup"}
  BY <1>10 DEF Served, CanLeave, Leaves, Answer, Object
<1>. QED BY <1>1, <1>2, <1>3, <1>4, <1>5, <1>6, <1>7, <1>8, <1>9, <1>10
         DEF CallOps, OidOps, BulkOps

(* What the server makes of a request: an object is the caller's own only  *)
(* if it has been told of it, and only a create's reply names an object.   *)
Fits(s, op, kind, own) ==
  /\ Stocked(s.objs, s.entries) /\ s.did \in BOOLEAN
  /\ s.reply \in Replies /\ s.reply.shape = Shape(op)
  /\ s.did <=> s.reply.st # "FAILURE"
  /\ \A o \in DOMAIN s.objs :
       \/ o \in DOMAIN objs /\ s.objs[o] = objs[o]
       \/ /\ op = "create" /\ IsNew(s.reply) /\ s.reply.oid = o
          /\ s.objs[o] = Object(kind, own)
  /\ IsNew(s.reply) =>
       /\ op = "create" /\ s.reply.oid \in Oids /\ s.reply.oid \in DOMAIN s.objs
       /\ s.objs[s.reply.oid] = Object(kind, own)

LEMMA AnswerWell ==
  ASSUME NEW op \in CallOps, NEW st \in Statuses, NEW o \in Oids \cup {0},
         NEW k \in Kinds \cup {"NULL"}
  PROVE  /\ Answer(op, st, o, k) \in Replies
         /\ Answer(op, st, o, k).shape = Shape(op) /\ Answer(op, st, o, k).st = st
         /\ Answer(op, st, o, k).oid = o
         /\ IsNew(Answer(op, st, o, k)) <=> op = "create" /\ st = "SUCCESS"
<1>1. /\ Shape(op) \in {"oid", "type", "value", "counters", "status"}
      /\ Shape(op) = "oid" <=> op = "create"
  BY DEF Shape
<1>. QED BY <1>1 DEF Answer, Replies, IsNew

LEMMA ServedWell ==
  ASSUME Stocked(objs, entries), NEW op \in CallOps, NEW on, NEW kind, NEW own, own \in BOOLEAN,
         op \in BulkOps => on \in Keys, op = "create" => kind \in Kinds,
         NEW s \in Served(op, on, kind, own)
  PROVE  Fits(s, op, kind, own)
<1>b. {"SUCCESS", "OVERFLOW", "FAILURE"} = Statuses /\ "NULL" \in Kinds \cup {"NULL"}
      /\ 0 \in Oids \cup {0}
  BY DEF Statuses
<1>1. CASE s = Leaves(objs, entries, Answer(op, "FAILURE", 0, "NULL"))
  <2>1. PICK r : r = Answer(op, "FAILURE", 0, "NULL")
    OBVIOUS
  <2>2. r \in Replies /\ r.shape = Shape(op) /\ r.st = "FAILURE" /\ ~IsNew(r)
    BY <1>b, <2>1, AnswerWell
  <2>3. s.objs = objs /\ s.entries = entries /\ s.did = FALSE /\ s.reply = r
    BY <1>1, <2>1, <2>2 DEF Leaves
  <2>. QED BY <2>2, <2>3 DEF Fits
<1>2. ASSUME op = "create", NEW o \in Oids \ DOMAIN objs,
             s = Leaves(Put(objs, o, Object(kind, own)), entries,
                        Answer(op, "SUCCESS", o, "NULL"))
      PROVE  Fits(s, op, kind, own)
  <2>0. PICK w : w = Object(kind, own)
    OBVIOUS
  <2>1. PICK r : r = Answer(op, "SUCCESS", o, "NULL")
    OBVIOUS
  <2>2. w \in Records
    BY <1>2, <2>0 DEF Records, Object
  <2>3. PICK os : os = Put(objs, o, w)
    OBVIOUS
  <2>4. /\ DOMAIN os = DOMAIN objs \cup {o}
        /\ os[o] = w
        /\ \A u \in DOMAIN objs : os[u] = objs[u]
    BY <1>2, <2>3 DEF Put
  <2>5. Stocked(os, entries)
    BY <2>2, <2>4 DEF Stocked
  <2>7. r \in Replies /\ r.shape = Shape(op) /\ r.st = "SUCCESS" /\ r.oid = o /\ IsNew(r)
    <3>1. o \in Oids \cup {0} /\ "SUCCESS" \in Statuses /\ op = "create"
      BY <1>2, <1>b
    <3>2. /\ Answer(op, "SUCCESS", o, "NULL") \in Replies
          /\ Answer(op, "SUCCESS", o, "NULL").shape = Shape(op)
          /\ Answer(op, "SUCCESS", o, "NULL").st = "SUCCESS"
          /\ Answer(op, "SUCCESS", o, "NULL").oid = o
          /\ IsNew(Answer(op, "SUCCESS", o, "NULL"))
      BY <1>b, <3>1, AnswerWell
    <3>. QED BY <2>1, <3>2
  <2>6. s.objs = os /\ s.entries = entries /\ s.did /\ s.reply = r
    BY <1>2, <2>0, <2>1, <2>3, <2>7 DEF Leaves
  <2>. QED BY <1>2, <2>0, <2>4, <2>5, <2>6, <2>7 DEF Fits
<1>3. ASSUME op = "remove",
             s = Leaves(Restrict(objs, DOMAIN objs \ {on}), entries,
                        Answer(op, "SUCCESS", 0, "NULL"))
      PROVE  Fits(s, op, kind, own)
  <2>1. PICK os, r : /\ os = Restrict(objs, DOMAIN objs \ {on})
                     /\ r = Answer(op, "SUCCESS", 0, "NULL")
    OBVIOUS
  <2>2. DOMAIN os = DOMAIN objs \ {on} /\ \A u \in DOMAIN os : os[u] = objs[u]
    BY <2>1 DEF Restrict
  <2>3. Stocked(os, entries)
    BY <2>2 DEF Stocked
  <2>5. r \in Replies /\ r.shape = Shape(op) /\ r.st = "SUCCESS" /\ ~IsNew(r)
    <3>1. "SUCCESS" \in Statuses
      BY <1>b
    <3>. QED BY <1>3, <1>b, <2>1, <3>1, AnswerWell
  <2>4. s.objs = os /\ s.entries = entries /\ s.did /\ s.reply = r
    BY <1>3, <2>1, <2>5 DEF Leaves
  <2>. QED BY <2>2, <2>3, <2>4, <2>5 DEF Fits
<1>4. ASSUME op # "create", NEW st \in {"SUCCESS", "OVERFLOW"}, NEW es \in SUBSET Keys,
             NEW k \in Kinds \cup {"NULL"},
             s = Leaves(objs, es, Answer(op, st, 0, k))
      PROVE  Fits(s, op, kind, own)
  <2>1. PICK r : r = Answer(op, st, 0, k)
    OBVIOUS
  <2>2. r \in Replies /\ r.shape = Shape(op) /\ r.st = st /\ ~IsNew(r)
    <3>1. st \in Statuses
      BY <1>b
    <3>. QED BY <1>4, <1>b, <2>1, <3>1, AnswerWell
  <2>3. s.objs = objs /\ s.entries = es /\ s.did /\ s.reply = r
    BY <1>4, <2>1, <2>2 DEF Leaves
  <2>. QED BY <2>2, <2>3 DEF Fits, Stocked
<1>5. CanLeave(s, op, on, kind, own)
  BY ServedCases
<1>. QED BY <1>1, <1>2, <1>3, <1>4, <1>5 DEF CanLeave

-----------------------------------------------------------------------------
(* An exchange.                                                            *)

Stays == [objs |-> objs, entries |-> entries, did |-> FALSE]
Ending(s, c, q, f, g) ==
  [objs |-> s.objs, entries |-> s.entries, did |-> s.did, conn |-> c, owed |-> q,
   faults |-> faults + f, got |-> g]

(* The connection is gone; the oldest reply is read; it breaks before the  *)
(* reply, with or without the request carried out; it is interrupted.      *)
CanEnd(x, op, on, kind) ==
  \/ conn # "open" /\ x = Ending(Stays, conn, owed, 0, NoReply)
  \/ /\ conn = "open"
     /\ \E s \in Served(op, on, kind, owed = <<>>) :
          x = Ending(s, "open", Tail(Append(owed, s.reply)), 0,
                     Taken(op, Head(Append(owed, s.reply))))
  \/ /\ conn = "open" /\ faults # MaxFaults
     /\ \/ x = Ending(Stays, "reset", <<>>, 1, NoReply)
        \/ \E s \in Served(op, on, kind, FALSE) :
             \/ x = Ending(s, "reset", <<>>, 1, NoReply)
             \/ x = Ending(s, "open", Append(owed, s.reply), 1, NoReply)

LEMMA ExchangeCases ==
  ASSUME NEW op, NEW on, NEW kind, NEW x \in Exchanges(op, on, kind)
  PROVE  CanEnd(x, op, on, kind)
<1>1. CASE conn # "open"
  BY <1>1 DEF Exchanges, CanEnd, Ending, Stays
<1>2. CASE conn = "open"
  <2>1. CASE faults = MaxFaults
    BY <1>2, <2>1 DEF Exchanges, CanEnd, Ending
  <2>2. CASE faults # MaxFaults
    BY <1>2, <2>2 DEF Exchanges, CanEnd, Ending, Stays
  <2>. QED BY <2>1, <2>2
<1>. QED BY <1>1, <1>2

(* What the call has been told, and what it knows of the server's objects. *)
GotOK(g) ==
  /\ g.answered \in BOOLEAN /\ g.st \in Statuses /\ g.kind \in Kinds \cup {"NULL"}
  /\ ~g.answered => g.st = "FAILURE" /\ g.kind = "NULL"

(* An object becomes the client's own only when a create is told of it; no *)
(* create is told of an object of its own that has another type.           *)
Learns(x, op, kind) ==
  /\ \A o \in DOMAIN x.objs : x.objs[o].own =>
       \/ o \in DOMAIN objs /\ x.objs[o] = objs[o]
       \/ /\ op = "create" /\ x.got.st = "SUCCESS" /\ x.got.oid = o
          /\ x.objs[o].kind = kind
  /\ op = "create" /\ x.got.st = "SUCCESS" =>
       /\ x.got.oid \in Oids
       /\ x.got.oid \in DOMAIN x.objs /\ x.objs[x.got.oid].own =>
            x.objs[x.got.oid].kind = kind

(* A call in step that is answered is told what was done, and stays so.    *)
KeepsStep(x) ==
  owed = <<>> /\ x.got.answered => x.owed = <<>> /\ (x.did <=> x.got.st # "FAILURE")

Goes(x, op, kind) ==
  /\ Stocked(x.objs, x.entries) /\ Linked(x.conn, x.owed)
  /\ x.conn = "open" => conn = "open"
  /\ x.faults \in 0..MaxFaults /\ x.did \in BOOLEAN
  /\ GotOK(x.got) /\ Learns(x, op, kind) /\ Untaken(x.objs, x.owed) /\ KeepsStep(x)

LEMMA EndingIs ==
  ASSUME NEW s, NEW c, NEW q, NEW f, NEW g, NEW x, x = Ending(s, c, q, f, g)
  PROVE  /\ x.objs = s.objs /\ x.entries = s.entries /\ x.did = s.did
         /\ x.conn = c /\ x.owed = q /\ x.faults = faults + f /\ x.got = g
BY DEF Ending

LEMMA NoReplyOK == GotOK(NoReply) /\ ~NoReply.answered /\ NoReply.st = "FAILURE"
BY DEF GotOK, NoReply, Statuses

(* What is owed stays untaken while requests are carried out that nobody   *)
(* is told of.                                                             *)
OwnKept(os) == \A o \in DOMAIN os : os[o].own => o \in DOMAIN objs /\ os[o] = objs[o]

LEMMA UntakenKept ==
  ASSUME Untaken(objs, owed), owed \in Seq(Replies), NEW op, NEW kind, NEW s,
         Fits(s, op, kind, FALSE)
  PROVE  /\ Untaken(s.objs, owed)
         /\ Untaken(s.objs, Append(owed, s.reply))
         /\ OwnKept(s.objs)
<1>0. Object(kind, FALSE).own = FALSE
  BY DEF Object
<1>1. \A o \in DOMAIN s.objs : s.objs[o].own => o \in DOMAIN objs /\ s.objs[o] = objs[o]
  BY <1>0 DEF Fits
<1>2. ASSUME NEW r, IsNew(r), r.oid \in Oids, NotOwn(objs, r.oid)
      PROVE  NotOwn(s.objs, r.oid)
  BY <1>1, <1>2 DEF NotOwn
<1>3. Untaken(s.objs, owed)
  BY <1>2 DEF Untaken
<1>4. IsNew(s.reply) => s.reply.oid \in Oids /\ NotOwn(s.objs, s.reply.oid)
  BY <1>0 DEF Fits, NotOwn
<1>5. ASSUME NEW i \in 1..Len(Append(owed, s.reply))
      PROVE  \/ i \in 1..Len(owed) /\ Append(owed, s.reply)[i] = owed[i]
             \/ Append(owed, s.reply)[i] = s.reply
  <2>1. s.reply \in Replies
    BY DEF Fits
  <2>. QED BY <2>1
<1>. QED BY <1>1, <1>3, <1>4, <1>5 DEF Untaken, OwnKept

LEMMA TakenIs ==
  ASSUME NEW op \in CallOps, NEW r \in Replies
  PROVE  /\ GotOK(Taken(op, r))
         /\ r.shape = Shape(op) => Taken(op, r).answered /\ Taken(op, r).st = r.st
         /\ op = "create" /\ Taken(op, r).st = "SUCCESS" =>
              IsNew(r) /\ Taken(op, r).oid = r.oid
<1>1. r.st \in Statuses /\ r.kind \in Kinds \cup {"NULL"}
  BY DEF Replies
<1>2. CASE r.shape = Shape(op) \/ r.st = "FAILURE"
  <2>1. PICK g : g = Taken(op, r)
    OBVIOUS
  <2>2. /\ g.answered = TRUE /\ g.st = r.st /\ g.oid = r.oid /\ g.kind = r.kind
    BY <1>2, <2>1 DEF Taken
  <2>3. GotOK(g)
    BY <1>1, <2>2 DEF GotOK
  <2>4. op = "create" /\ g.st = "SUCCESS" => r.shape = "oid" /\ r.st = "SUCCESS"
    BY <1>2, <2>2 DEF Shape
  <2>. QED BY <2>1, <2>2, <2>3, <2>4 DEF IsNew
<1>3. CASE ~(r.shape = Shape(op) \/ r.st = "FAILURE")
  <2>1. Taken(op, r) = NoReply
    BY <1>3 DEF Taken
  <2>. QED BY <1>3, <2>1, NoReplyOK
<1>. QED BY <1>2, <1>3

LEMMA ExchangeWell ==
  ASSUME Types, Untaken(objs, owed), NEW op \in CallOps, NEW on, NEW kind,
         op \in BulkOps => on \in Keys, op = "create" => kind \in Kinds,
         NEW x \in Exchanges(op, on, kind)
  PROVE  Goes(x, op, kind)
<1>0. /\ Stocked(objs, entries) /\ Linked(conn, owed) /\ owed \in Seq(Replies)
      /\ faults \in 0..MaxFaults /\ MaxFaults \in Nat
      /\ \A o : Untaken(o, <<>>)
      /\ \A c \in {"reset", "closed"} : Linked(c, <<>>)
  BY ThriftAssumption DEF Types, Linked, Untaken
<1>1. CASE conn # "open" /\ x = Ending(Stays, conn, owed, 0, NoReply)
  <2>1. /\ x.objs = Stays.objs /\ x.entries = Stays.entries /\ x.did = Stays.did
        /\ x.conn = conn /\ x.owed = owed /\ x.faults = faults + 0 /\ x.got = NoReply
    BY <1>1, EndingIs
  <2>2. Stays.objs = objs /\ Stays.entries = entries /\ Stays.did = FALSE
    BY DEF Stays
  <2>3. faults + 0 = faults
    BY <1>0
  <2>. QED BY <1>0, <2>1, <2>2, <2>3, NoReplyOK DEF Goes, Learns, KeepsStep
<1>2. ASSUME conn = "open", faults # MaxFaults,
             x = Ending(Stays, "reset", <<>>, 1, NoReply)
      PROVE  Goes(x, op, kind)
  <2>1. /\ x.objs = Stays.objs /\ x.entries = Stays.entries /\ x.did = Stays.did
        /\ x.conn = "reset" /\ x.owed = <<>> /\ x.faults = faults + 1 /\ x.got = NoReply
    BY <1>2, EndingIs
  <2>2. Stays.objs = objs /\ Stays.entries = entries /\ Stays.did = FALSE
    BY DEF Stays
  <2>3. faults + 1 \in 0..MaxFaults
    BY <1>0, <1>2
  <2>. QED BY <1>0, <2>1, <2>2, <2>3, NoReplyOK DEF Goes, Learns, KeepsStep
<1>3. ASSUME conn = "open", faults # MaxFaults, NEW s \in Served(op, on, kind, FALSE),
             \/ x = Ending(s, "reset", <<>>, 1, NoReply)
             \/ x = Ending(s, "open", Append(owed, s.reply), 1, NoReply)
      PROVE  Goes(x, op, kind)
  <2>0. Fits(s, op, kind, FALSE)
    BY <1>0, ServedWell
  <2>1. /\ Untaken(s.objs, Append(owed, s.reply))
        /\ OwnKept(s.objs)
    BY <1>0, <2>0, UntakenKept
  <2>2. /\ Stocked(s.objs, s.entries) /\ s.did \in BOOLEAN /\ s.reply \in Replies
    BY <2>0 DEF Fits
  <2>3. faults + 1 \in 0..MaxFaults
    BY <1>0, <1>3
  <2>4. /\ x.objs = s.objs /\ x.entries = s.entries /\ x.did = s.did
        /\ x.faults = faults + 1 /\ x.got = NoReply
        /\ \/ x.conn = "reset" /\ x.owed = <<>>
           \/ x.conn = "open" /\ x.owed = Append(owed, s.reply)
    BY <1>3 DEF Ending
  <2>5. Linked("open", Append(owed, s.reply))
    BY <1>0, <2>2 DEF Linked
  <2>6. Linked(x.conn, x.owed) /\ Untaken(x.objs, x.owed)
    BY <1>0, <2>1, <2>4, <2>5
  <2>. QED BY <1>3, <2>1, <2>2, <2>3, <2>4, <2>6, NoReplyOK DEF Goes, Learns, KeepsStep, OwnKept
<1>4. ASSUME conn = "open", NEW s \in Served(op, on, kind, owed = <<>>),
             x = Ending(s, "open", Tail(Append(owed, s.reply)), 0,
                        Taken(op, Head(Append(owed, s.reply))))
      PROVE  Goes(x, op, kind)
  <2>1. /\ x.objs = s.objs /\ x.entries = s.entries /\ x.did = s.did
        /\ x.conn = "open" /\ x.owed = Tail(Append(owed, s.reply))
        /\ x.faults = faults + 0
        /\ x.got = Taken(op, Head(Append(owed, s.reply)))
    BY <1>4 DEF Ending
  <2>2. x.faults \in 0..MaxFaults
    BY <1>0, <2>1
  <2>3. CASE owed = <<>>
    <3>1. (owed = <<>>) = TRUE
      BY <2>3
    <3>2. s \in Served(op, on, kind, TRUE)
      BY <1>4, <3>1
    <3>3. Fits(s, op, kind, TRUE)
      BY <1>0, <3>2, ServedWell
    <3>4. s.reply \in Replies /\ s.reply.shape = Shape(op)
      BY <3>3 DEF Fits
    <3>5. x.owed = <<>> /\ x.got = Taken(op, s.reply)
      BY <2>1, <2>3, <3>4
    <3>6. /\ GotOK(x.got) /\ x.got.answered /\ x.got.st = s.reply.st
          /\ op = "create" /\ x.got.st = "SUCCESS" => IsNew(s.reply) /\ x.got.oid = s.reply.oid
      BY <3>4, <3>5, TakenIs
    <3>7. op = "create" /\ IsNew(s.reply) => x.got.oid = s.reply.oid /\ x.got.st = "SUCCESS"
      BY <3>6 DEF IsNew
    <3>8. Object(kind, TRUE).kind = kind
      BY DEF Object
    <3>9. Learns(x, op, kind)
      BY <2>1, <3>3, <3>6, <3>7, <3>8 DEF Learns, Fits
    <3>10. KeepsStep(x)
      BY <2>1, <3>3, <3>5, <3>6 DEF KeepsStep, Fits
    <3>11. Linked("open", <<>>)
      BY DEF Linked
    <3>. QED BY <1>0, <1>4, <2>1, <2>2, <3>3, <3>5, <3>6, <3>9, <3>10, <3>11 DEF Goes, Fits
  <2>4. CASE owed # <<>>
    <3>1. (owed = <<>>) = FALSE
      BY <2>4
    <3>2. s \in Served(op, on, kind, FALSE)
      BY <1>4, <3>1
    <3>3. Fits(s, op, kind, FALSE)
      BY <1>0, <3>2, ServedWell
    <3>4. s.reply \in Replies
      BY <3>3 DEF Fits
    <3>5. /\ Untaken(s.objs, Append(owed, s.reply))
          /\ OwnKept(s.objs)
      BY <1>0, <3>3, UntakenKept
    <3>6. PICK q : q = Append(owed, s.reply)
      OBVIOUS
    <3>7. /\ q \in Seq(Replies) /\ q # <<>> /\ Head(q) = q[1] /\ q[1] \in Replies
          /\ Len(q) \in Nat /\ 1 \in 1..Len(q)
          /\ Tail(q) \in Seq(Replies)
          /\ \A i \in 1..Len(Tail(q)) : i + 1 \in 1..Len(q) /\ Tail(q)[i] = q[i + 1]
      BY <1>0, <3>4, <3>6
    <3>8. x.owed = Tail(q) /\ x.got = Taken(op, q[1])
      BY <2>1, <3>6, <3>7
    <3>9. Untaken(x.objs, x.owed)
      BY <2>1, <3>5, <3>6, <3>7, <3>8 DEF Untaken
    <3>10. Linked(x.conn, x.owed)
      BY <2>1, <3>7, <3>8 DEF Linked
    <3>11. /\ GotOK(x.got)
           /\ op = "create" /\ x.got.st = "SUCCESS" => IsNew(q[1]) /\ x.got.oid = q[1].oid
      BY <3>7, <3>8, TakenIs
    <3>12. IsNew(q[1]) => q[1].oid \in Oids /\ NotOwn(s.objs, q[1].oid)
      BY <3>5, <3>6, <3>7 DEF Untaken
    <3>13. Learns(x, op, kind)
      BY <2>1, <3>5, <3>11, <3>12 DEF Learns, NotOwn, OwnKept
    <3>14. KeepsStep(x)
      BY <2>4 DEF KeepsStep
    <3>15. Stocked(x.objs, x.entries) /\ x.did \in BOOLEAN
      BY <2>1, <3>3 DEF Fits
    <3>. QED BY <1>4, <2>2, <3>9, <3>10, <3>11, <3>13, <3>14, <3>15 DEF Goes
  <2>. QED BY <2>3, <2>4
<1>5. CanEnd(x, op, on, kind)
  BY ExchangeCases
<1>. QED BY <1>1, <1>2, <1>3, <1>4, <1>5 DEF CanEnd

-----------------------------------------------------------------------------
(* The call in progress.                                                   *)

LEMMA NoItems == \A S : <<>> \in Seq(S) /\ Len(<<>>) = 0
OBVIOUS

LEMMA JobFields ==
  ASSUME NEW j, Bounded(j)
  PROVE  /\ j.op \in CallOps /\ j.assert \in BOOLEAN /\ j.inStep \in BOOLEAN /\ j.out \in Outs
         /\ j.asked \in Nat /\ j.did \in Nat /\ Len(j.items) \in Nat
         /\ j.did <= j.asked /\ j.asked <= Len(j.items)
         /\ j.kind \in Kinds \cup {"NULL", "entry", "switch"} /\ j.on \in Oids \cup {0}
<1>1. j \in CallRecords
  BY DEF Bounded
<1>2. Len(j.items) \in Nat
  <2>1. j.items \in Seq(Keys) \/ j.items \in Seq(BOOLEAN)
    BY <1>1 DEF CallRecords
  <2>. QED BY <2>1
<1>. QED BY <1>1, <1>2 DEF Bounded, CallRecords

Fresh(j) ==
  /\ JobOK(j) /\ j.asked = 0 /\ j.did = 0 /\ j.out = ""
  /\ j.inStep <=> owed = <<>>

LEMMA NewCallIs ==
  ASSUME NEW op \in CallOps, NEW on \in Oids \cup {0},
         NEW items \in Seq(Keys) \cup Seq(BOOLEAN),
         NEW kind \in Kinds \cup {"NULL", "entry", "switch"}, NEW a, a \in BOOLEAN,
         op \in BulkOps => items \in Seq(Keys),
         op \in {"get", "set"} => items \in Seq(BOOLEAN) /\ items # <<>>,
         op = "create" => kind \in Kinds
  PROVE  Fresh(NewCall(op, on, items, kind, a))
<1>1. PICK b \in BOOLEAN : b <=> owed = <<>>
  <2>1. (owed = <<>>) \in BOOLEAN
    OBVIOUS
  <2>. QED BY <2>1
<1>2. PICK j : j = NewCall(op, on, items, kind, a)
  OBVIOUS
<1>3. j = [op |-> op, on |-> on, items |-> items, kind |-> kind, assert |-> a,
           asked |-> 0, did |-> 0, inStep |-> owed = <<>>, out |-> ""]
  BY <1>2 DEF NewCall
<1>4. "" \in Outs /\ (owed = <<>>) \in BOOLEAN
  BY DEF Outs
<1>5. j \in CallRecords
  BY <1>3, <1>4 DEF CallRecords
<1>6. /\ j.asked = 0 /\ j.did = 0 /\ j.out = "" /\ j.op = op /\ j.items = items
      /\ j.kind = kind /\ (j.inStep <=> owed = <<>>)
  BY <1>3
<1>7. Len(items) \in Nat /\ (items # <<>> => 0 < Len(items))
  OBVIOUS
<1>8. j.did <= j.asked /\ j.asked <= Len(j.items)
  <2>1. j.did = 0 /\ j.asked = 0 /\ Len(j.items) \in Nat
    BY <1>6, <1>7
  <2>. QED BY ONLY <2>1
<1>9. j.op \in {"get", "set"} => j.asked < Len(j.items)
  BY <1>6, <1>7
<1>10. JobOK(j)
  <2>1. /\ j.op \in BulkOps => j.items \in Seq(Keys)
        /\ j.op \in {"get", "set"} => j.items \in Seq(BOOLEAN)
        /\ j.op = "create" => j.kind \in Kinds
    BY <1>6
  <2>. QED BY ONLY <1>5, <1>8, <1>9, <2>1 DEF JobOK, Bounded
<1>. QED BY <1>2, <1>6, <1>10 DEF Fresh

LEMMA EndedIs ==
  ASSUME NEW j, Bounded(j), NEW out \in Outs, out # ""
  PROVE  /\ JobOK(Ended(j, out)) /\ Ended(j, out).out = out
         /\ j.op \in Several =>
              /\ Ended(j, out).op = j.op /\ Ended(j, out).items = j.items
              /\ Ended(j, out).asked = j.asked /\ Ended(j, out).did = j.did
              /\ Ended(j, out).inStep = j.inStep
         /\ j.op \notin Several => Ended(j, out).op = "none"
<1>0. j \in CallRecords /\ "" \in Outs
  BY DEF Bounded, Outs
<1>1. CASE j.op \in Several
  <2>1. PICK e : e = Ended(j, out)
    OBVIOUS
  <2>2. e = [j EXCEPT !.on = 0, !.kind = "NULL", !.assert = TRUE, !.out = out]
    BY <1>1, <2>1 DEF Ended, Several
  <2>3. e \in CallRecords
    BY <1>0, <2>2 DEF CallRecords
  <2>4. /\ e.op = j.op /\ e.items = j.items /\ e.asked = j.asked /\ e.did = j.did
        /\ e.inStep = j.inStep /\ e.out = out
    BY <1>0, <2>2 DEF CallRecords
  <2>5. JobOK(e)
    BY <2>3, <2>4 DEF JobOK, Bounded
  <2>. QED BY <1>1, <2>1, <2>4, <2>5
<1>2. CASE j.op \notin Several
  <2>1. PICK n : n = NewCall("none", 0, <<>>, "NULL", TRUE)
    OBVIOUS
  <2>2. n \in CallRecords /\ n.op = "none" /\ n.items = <<>> /\ n.asked = 0 /\ n.did = 0
    <3>1. "none" \in CallOps
      BY DEF CallOps
    <3>2. <<>> \in Seq(Keys)
      BY NoItems
    <3>3. (owed = <<>>) \in BOOLEAN
      OBVIOUS
    <3>. QED BY <1>0, <2>1, <3>1, <3>2, <3>3 DEF NewCall, CallRecords
  <2>3. PICK e : e = Ended(j, out)
    OBVIOUS
  <2>4. e = [n EXCEPT !.inStep = TRUE, !.out = out]
    BY <1>2, <2>1, <2>3 DEF Ended, Several
  <2>5. e \in CallRecords
    BY <2>2, <2>4 DEF CallRecords
  <2>6. /\ e.op = "none" /\ e.items = <<>> /\ e.asked = 0 /\ e.did = 0
        /\ e.out = out
    BY <2>2, <2>4 DEF CallRecords
  <2>7. e.did <= e.asked /\ e.asked <= Len(e.items) /\ e.op \notin BulkOps
    <3>1. Len(e.items) = 0 /\ e.did = 0 /\ e.asked = 0
      BY <2>6, NoItems
    <3>. QED BY ONLY <2>6, <3>1 DEF BulkOps
  <2>8. JobOK(e)
    BY ONLY <2>5, <2>6, <2>7 DEF JobOK, Bounded
  <2>. QED BY <1>2, <2>3, <2>6, <2>8
<1>. QED BY <1>1, <1>2

(* One item further.                                                       *)
OneMore(j, x) == [j EXCEPT !.asked = @ + 1, !.did = @ + (IF x.did THEN 1 ELSE 0)]

Further(j, x, e) ==
  /\ e \in CallRecords
  /\ e.op = j.op /\ e.items = j.items /\ e.kind = j.kind /\ e.inStep = j.inStep /\ e.out = j.out
  /\ e.asked = j.asked + 1
  /\ \E k \in {0, 1} : e.did = j.did + k /\ (k = 1 <=> x.did)

LEMMA OneMoreIs ==
  ASSUME NEW j, Bounded(j), NEW x, j.asked < Len(j.items)
  PROVE  Further(j, x, OneMore(j, x))
<1>0. j \in CallRecords
  BY DEF Bounded
<1>1. j.did \in Nat /\ j.asked \in Nat
  BY JobFields
<1>2. PICK e : e = OneMore(j, x)
  OBVIOUS
<1>3. PICK k \in {0, 1} : k = IF x.did THEN 1 ELSE 0
  OBVIOUS
<1>4. e = [j EXCEPT !.asked = @ + 1, !.did = @ + k]
  BY <1>2, <1>3 DEF OneMore
<1>5. e \in CallRecords
  <2>1. j.asked + 1 \in Nat /\ j.did + k \in Nat
    BY <1>1
  <2>. QED BY <1>0, <1>4, <2>1 DEF CallRecords
<1>6. /\ e.op = j.op /\ e.items = j.items /\ e.kind = j.kind /\ e.inStep = j.inStep
      /\ e.out = j.out /\ e.asked = j.asked + 1 /\ e.did = j.did + k
  BY <1>0, <1>4 DEF CallRecords
<1>7. k = 1 <=> x.did
  BY <1>3
<1>. QED BY <1>2, <1>5, <1>6, <1>7 DEF Further

(* A call as it begins.                                                    *)
LEMMA CallsWell ==
  ASSUME Types, NEW j \in Calls
  PROVE  Fresh(j)
<1>1. /\ 0 \in Oids \cup {0} /\ "switch" \in Kinds \cup {"NULL", "entry", "switch"}
      /\ "entry" \in Kinds \cup {"NULL", "entry", "switch"}
      /\ \A o : KnownType(o) \in Kinds \cup {"NULL"}
      /\ {"create", "flush"} \subseteq CallOps /\ OidOps \subseteq CallOps
      /\ BulkOps \subseteq CallOps
  BY DEF Types, KnownType, CallOps
<1>2. <<TRUE>> \in Seq(BOOLEAN) /\ <<FALSE>> \in Seq(BOOLEAN) /\ <<TRUE>> # <<>> /\ <<FALSE>> # <<>>
  OBVIOUS
<1>3. ASSUME NEW op \in OidOps, NEW s \in Names(op)
      PROVE  s \in Seq(BOOLEAN) /\ s # <<>>
  <2>1. CASE op = "get"
    <3>1. PICK n \in 1..MaxItems : s \in [1..n -> BOOLEAN]
      BY <2>1 DEF Names
    <3>. QED BY <3>1
  <2>2. CASE op # "get"
    <3>1. s = <<TRUE>> \/ s = <<FALSE>>
      BY <2>2 DEF Names
    <3>. QED BY <1>2, <3>1
  <2>. QED BY <2>1, <2>2
<1>4. ASSUME NEW s \in UNION {[1..n -> Keys] : n \in 0..MaxItems}
      PROVE  s \in Seq(Keys)
  <2>1. PICK n \in 0..MaxItems : s \in [1..n -> Keys]
    OBVIOUS
  <2>. QED BY <2>1
<1>a. PICK a : a \in BOOLEAN /\ j \in CallsWith(a)
  BY DEF Calls
<1>5. \/ \E k \in Kinds : j = NewCall("create", 0, <<TRUE>>, k, a)
      \/ \E op \in OidOps, o \in Oids : \E s \in Names(op) : j = NewCall(op, o, s, KnownType(o), a)
      \/ \E op \in BulkOps, s \in UNION {[1..n -> Keys] : n \in 0..MaxItems} :
           j = NewCall(op, 0, s, "entry", a)
      \/ j = NewCall("flush", 0, <<TRUE>>, "switch", a)
  BY <1>a DEF CallsWith
<1>6. CASE \E k \in Kinds : j = NewCall("create", 0, <<TRUE>>, k, a)
  <2>1. PICK k \in Kinds : j = NewCall("create", 0, <<TRUE>>, k, a)
    BY <1>6
  <2>2. "create" \notin BulkOps
    BY DEF BulkOps
  <2>. QED BY <1>a, <1>1, <1>2, <2>1, <2>2, NewCallIs
<1>7. CASE \E op \in OidOps, o \in Oids : \E s \in Names(op) :
             j = NewCall(op, o, s, KnownType(o), a)
  <2>1. PICK op \in OidOps, o \in Oids : \E s \in Names(op) : j = NewCall(op, o, s, KnownType(o), a)
    BY <1>7
  <2>2. PICK s \in Names(op) : j = NewCall(op, o, s, KnownType(o), a)
    BY <2>1
  <2>3. op \notin BulkOps /\ op # "create"
    BY DEF OidOps, BulkOps
  <2>4. op \in CallOps /\ o \in Oids \cup {0} /\ s \in Seq(BOOLEAN) /\ s # <<>>
    BY <1>1, <1>3
  <2>5. KnownType(o) \in Kinds \cup {"NULL", "entry", "switch"}
    BY <1>1
  <2>. QED BY <1>a, <2>2, <2>3, <2>4, <2>5, NewCallIs
<1>8. CASE \E op \in BulkOps, s \in UNION {[1..n -> Keys] : n \in 0..MaxItems} :
             j = NewCall(op, 0, s, "entry", a)
  <2>1. PICK op \in BulkOps, s \in UNION {[1..n -> Keys] : n \in 0..MaxItems} :
          j = NewCall(op, 0, s, "entry", a)
    BY <1>8
  <2>2. op \notin {"get", "set", "create"}
    BY DEF BulkOps
  <2>3. s \in Seq(Keys)
    BY <1>4
  <2>. QED BY <1>a, <1>1, <2>1, <2>2, <2>3, NewCallIs
<1>9. CASE j = NewCall("flush", 0, <<TRUE>>, "switch", a)
  <2>1. "flush" \notin BulkOps
    BY DEF BulkOps
  <2>. QED BY <1>a, <1>1, <1>2, <1>9, <2>1, NewCallIs
<1>. QED BY <1>5, <1>6, <1>7, <1>8, <1>9

(* What the caller makes of the answer to an item.  It goes on only after  *)
(* an item that the server says it has done; a bulk call returns a failure *)
(* only if the server told it of one, and never success before the end; a  *)
(* get returns success only for a last attribute that was answered.        *)
Says(oc, g) ==
  /\ oc \in Outs
  /\ oc = "" => /\ job.op \in Several /\ g.answered /\ g.st # "FAILURE"
                /\ job.op = "get" => job.asked + 1 < Len(job.items)
  /\ job.op \in BulkOps =>
       /\ oc # "SUCCESS"
       /\ oc = "FAILURE" => g.answered /\ g.st = "FAILURE"
  /\ job.op = "get" /\ oc = "SUCCESS" =>
       g.answered /\ g.st # "FAILURE" /\ ~(job.asked + 1 < Len(job.items))

LEMMA OutcomeSays ==
  ASSUME NEW g, GotOK(g), status' \in Statuses, job.op \in CallOps, job.assert \in BOOLEAN,
         g.answered => status' = g.st
  PROVE  Says(Outcome(g), g)
<1>1. \A st \in Statuses : /\ Judged(st) \in Statuses \cup {"raised"} /\ Judged(st) # ""
                           /\ Judged(st) \in {st, "raised"}
  BY DEF Judged, Statuses
<1>2. g.st \in Statuses /\ g.answered \in BOOLEAN /\ "FAILURE" \in Statuses
  BY DEF GotOK, Statuses
<1>3. CASE job.op = "get"
  <2>1. Outcome(g) = Read(g) /\ job.op \notin BulkOps /\ job.op \in Several
    BY <1>3 DEF Outcome, BulkOps, Several
  <2>2. CASE status' = "FAILURE"
    <3>1. Read(g) = Judged("FAILURE")
      BY <2>2 DEF Read
    <3>. QED BY <1>1, <1>2, <2>1, <3>1 DEF Says, Outs
  <2>3. CASE status' # "FAILURE" /\ ~g.answered
    <3>1. Read(g) = "raised"
      BY <2>3 DEF Read
    <3>. QED BY <2>1, <3>1 DEF Says, Outs
  <2>4. CASE status' # "FAILURE" /\ g.answered /\ job.asked + 1 < Len(job.items)
    <3>1. Read(g) = ""
      BY <2>4 DEF Read
    <3>. QED BY <2>1, <2>4, <3>1 DEF Says, Outs
  <2>5. CASE status' # "FAILURE" /\ g.answered /\ ~(job.asked + 1 < Len(job.items))
    <3>1. Read(g) = Judged(status')
      BY <2>5 DEF Read
    <3>. QED BY <1>1, <2>1, <2>5, <3>1 DEF Says, Outs
  <2>. QED BY <1>2, <2>2, <2>3, <2>4, <2>5
<1>4. CASE job.op \in BulkOps
  <2>1. job.op # "get" /\ job.op \in Several
    BY <1>4 DEF BulkOps, Several
  <2>2. Outcome(g) = Created(g) \/ Outcome(g) = Changed(g)
    BY <1>4 DEF Outcome, BulkOps
  <2>3. /\ Created(g) \in Outs /\ Created(g) # "SUCCESS"
        /\ Created(g) = "" => g.answered /\ g.st = "SUCCESS"
        /\ Created(g) = "FAILURE" => g.answered /\ g.st = "FAILURE"
    BY <1>1, <1>2 DEF Created, Told, Outs, Statuses
  <2>4. /\ Changed(g) \in {"", "raised"}
        /\ Changed(g) = "" => g.answered /\ g.st = "SUCCESS"
    BY <1>2 DEF Changed
  <2>. QED BY <2>1, <2>2, <2>3, <2>4 DEF Says, Outs
<1>5. CASE job.op # "get" /\ job.op \notin BulkOps
  <2>1. Outcome(g) \in Statuses \cup {"raised"}
    BY <1>1, <1>2, <1>5 DEF Outcome, Listed, Flushed, Written, Told, Statuses, BulkOps
  <2>2. Outcome(g) # "" /\ Outcome(g) \in Outs
    BY <2>1 DEF Outs, Statuses
  <2>. QED BY <1>5, <2>2 DEF Says
<1>. QED BY <1>3, <1>4, <1>5

-----------------------------------------------------------------------------
(* The state outside the call: the objects, the connection and the types.  *)

Store == Types /\ Untaken(objs, owed) /\ OwnTyped

(* After an exchange, with the type of an object noted if it was created.  *)
LEMMA StoreStep ==
  ASSUME Store, NEW x, NEW op, Goes(x, op, job.kind), Exchange(x), status' \in Statuses,
         op = "create" => job.kind \in Kinds,
         types' = IF op = "create" /\ x.got.answered THEN Noted(x.got) ELSE types
  PROVE  Store'
<1>1. /\ objs' = x.objs /\ entries' = x.entries /\ conn' = x.conn /\ owed' = x.owed
      /\ faults' = x.faults /\ mode' = mode /\ up' = up /\ due' = due
  BY DEF Exchange
<1>2. CASE op = "create" /\ x.got.answered /\ x.got.st = "SUCCESS"
  <2>1. PICK o : o = x.got.oid
    OBVIOUS
  <2>2. types' = Put(types, o, job.kind)
    BY <1>2, <2>1 DEF Noted
  <2>3. /\ DOMAIN types' = DOMAIN types \cup {o} /\ types'[o] = job.kind
        /\ \A u \in DOMAIN types : u # o => types'[u] = types[u]
    BY <2>2 DEF Put
  <2>4. /\ o \in Oids /\ (o \in DOMAIN objs' /\ objs'[o].own => objs'[o].kind = job.kind)
        /\ \A u \in DOMAIN objs' : objs'[u].own =>
             u = o \/ (u \in DOMAIN objs /\ objs'[u] = objs[u])
    <3>1. Learns(x, op, job.kind)
      BY DEF Goes
    <3>2. /\ x.got.oid \in Oids
          /\ x.got.oid \in DOMAIN x.objs /\ x.objs[x.got.oid].own =>
               x.objs[x.got.oid].kind = job.kind
      BY <1>2, <3>1, Zenon DEF Learns
    <3>3. \A u \in DOMAIN x.objs : x.objs[u].own =>
             x.got.oid = u \/ (u \in DOMAIN objs /\ x.objs[u] = objs[u])
      BY <3>1 DEF Learns
    <3>. QED BY <1>1, <2>1, <3>2, <3>3
  <2>5. /\ DOMAIN types' \subseteq Oids /\ \A u \in DOMAIN types' : types'[u] \in Kinds
    BY <1>2, <2>3, <2>4 DEF Store, Types
  <2>6. Types'
    BY <1>1, <2>5 DEF Store, Types, Goes
  <2>7. OwnTyped'
    BY <2>3, <2>4 DEF Store, OwnTyped
  <2>. QED BY <1>1, <2>6, <2>7 DEF Store, Goes
<1>3. CASE ~(op = "create" /\ x.got.answered /\ x.got.st = "SUCCESS")
  <2>1. types' = types
    BY <1>3 DEF Noted
  <2>2. ~(op = "create" /\ x.got.st = "SUCCESS")
    BY <1>3 DEF Goes, GotOK
  <2>3. \A u \in DOMAIN objs' : objs'[u].own => u \in DOMAIN objs /\ objs'[u] = objs[u]
    BY <1>1, <2>2 DEF Goes, Learns
  <2>4. Types'
    BY <1>1, <2>1 DEF Store, Types, Goes
  <2>5. OwnTyped'
    BY <2>1, <2>3 DEF Store, OwnTyped
  <2>. QED BY <1>1, <2>4, <2>5 DEF Store, Goes
<1>. QED BY <1>2, <1>3

(* A step that leaves no reply owed and no object that was not there.      *)
LEMMA StoreShrinks ==
  ASSUME Store, owed' = <<>> \/ owed' = owed,
         /\ Stocked(objs, entries)' /\ Linked(conn, owed)' /\ (conn = "open" => up)'
         /\ mode' = mode /\ up' \in BOOLEAN /\ due' \in 0..MaxDue /\ faults' \in 0..MaxFaults
         /\ UNCHANGED <<types, status>>,
         \A o \in DOMAIN objs' : objs'[o].own => o \in DOMAIN objs /\ objs'[o] = objs[o]
  PROVE  Store'
<1>1. Types'
  BY DEF Store, Types
<1>2. OwnTyped'
  BY DEF Store, OwnTyped
<1>3. Untaken(objs', owed')
  <2>1. CASE owed' = <<>>
    BY <2>1 DEF Untaken
  <2>2. CASE owed' = owed
    BY <2>2 DEF Untaken, NotOwn, Store
  <2>. QED BY <2>1, <2>2
<1>. QED BY <1>1, <1>2, <1>3 DEF Store

-----------------------------------------------------------------------------
(* The call.                                                               *)

Going == JobOK(job) /\ InStep /\ ReportsTrue

(* A call ends without success or a failure returned, or is of one item.   *)
LEMMA EndsWell ==
  ASSUME NEW j, Bounded(j), NEW oc \in Outs, oc # "", job' = Ended(j, oc),
         j.inStep /\ j.op \in BulkOps =>
           /\ oc = "SUCCESS" => j.did = Len(j.items)
           /\ oc = "FAILURE" => j.did = j.asked - 1
           /\ oc = "raised" => j.did \in {j.asked - 1, j.asked},
         j.inStep /\ j.op = "get" /\ oc = "SUCCESS" => j.did = Len(j.items)
  PROVE  Going'
<1>1. PICK e : e = job'
  OBVIOUS
<1>2. JobOK(e) /\ e.out = oc
  BY <1>1, EndedIs
<1>3. CASE j.op \in Several
  <2>1. /\ e.op = j.op /\ e.items = j.items /\ e.asked = j.asked /\ e.did = j.did
        /\ e.inStep = j.inStep
    BY <1>1, <1>3, EndedIs
  <2>2. InStep' /\ ReportsTrue'
    BY <1>1, <1>2, <2>1 DEF InStep, ReportsTrue, BulkTold, GetTold
  <2>. QED BY <1>1, <1>2, <2>2 DEF Going
<1>4. CASE j.op \notin Several
  <2>1. e.op = "none"
    BY <1>1, <1>4, EndedIs
  <2>2. InStep' /\ ReportsTrue'
    BY <1>1, <1>2, <2>1 DEF InStep, ReportsTrue, BulkTold, GetTold, Several, BulkOps
  <2>. QED BY <1>1, <1>2, <2>2 DEF Going
<1>. QED BY <1>3, <1>4

(* A call that is between two items, or does not move.                     *)
LEMMA GoesOn ==
  ASSUME NEW j, JobOK(j), j.out = "", job' = j,
         j.inStep /\ j.op \in Several => owed' = <<>> /\ j.did = j.asked
  PROVE  Going'
<1>1. InStep'
  BY DEF InStep
<1>2. ReportsTrue'
  BY DEF ReportsTrue, BulkTold, GetTold
<1>. QED BY <1>1, <1>2 DEF Going

LEMMA Waits ==
  ASSUME Going, UNCHANGED job, owed' = <<>> \/ owed' = owed
  PROVE  Going'
BY DEF Going, InStep, ReportsTrue, BulkTold, GetTold

(* One item is through.                                                    *)
LEMMA AnsweredWell ==
  ASSUME Going, job.out = "", job.asked < Len(job.items), NEW x,
         NEW oc, Says(oc, x.got), KeepsStep(x), owed' = x.owed, Answered(x, oc)
  PROVE  Going'
<1>1. PICK j : j = OneMore(job, x)
  OBVIOUS
<1>0. Bounded(job)
  BY DEF Going, JobOK
<1>f. Further(job, x, j)
  <2>1. Further(job, x, OneMore(job, x))
    BY <1>0, OneMoreIs
  <2>. QED BY <1>1, <2>1
<1>2. /\ j \in CallRecords /\ j.op = job.op /\ j.items = job.items /\ j.kind = job.kind
      /\ j.inStep = job.inStep /\ j.out = "" /\ j.asked = job.asked + 1
  BY <1>f DEF Further
<1>k. PICK k \in {0, 1} : j.did = job.did + k /\ (k = 1 <=> x.did)
  BY <1>f DEF Further
<1>3. /\ job.did \in Nat /\ job.asked \in Nat /\ Len(job.items) \in Nat
      /\ job.did <= job.asked /\ job.inStep \in BOOLEAN /\ job.op \in CallOps
  BY <1>0, JobFields
<1>4. j.did <= j.asked /\ j.asked <= Len(j.items)
  <2>1. /\ job.did + k <= job.asked + 1 /\ job.asked + 1 <= Len(job.items)
    BY ONLY job.asked < Len(job.items), k \in {0, 1}, <1>3
  <2>. QED BY <1>2, <1>k, <2>1
<1>5. Bounded(j)
  BY <1>2, <1>4 DEF Going, JobOK, Bounded
<1>6. job' = IF oc = "" THEN j ELSE Ended(j, oc)
  BY <1>1 DEF Answered, OneMore
<1>7. job.inStep /\ job.op \in Several => owed = <<>> /\ job.did = job.asked
  BY DEF Going, InStep
<1>8. /\ x.got.answered /\ owed = <<>> => x.owed = <<>> /\ (x.did <=> x.got.st # "FAILURE")
      /\ BulkOps \subseteq Several /\ "get" \in Several
  BY DEF KeepsStep, Several
<1>9. CASE oc = ""
  <2>1. job.op \in Several /\ x.got.answered /\ x.got.st # "FAILURE"
    BY <1>9 DEF Says
  <2>2. job.inStep => owed' = <<>> /\ j.did = j.asked
    BY <1>2, <1>k, <1>3, <1>7, <1>8, <2>1
  <2>3. /\ job.op # "create" /\ job.op # "set"
        /\ job.op = "get" => job.asked + 1 < Len(job.items)
    BY <1>9, <2>1 DEF Says, Several, BulkOps
  <2>4. JobOK(j)
    BY <1>2, <1>5, <2>3 DEF JobOK
  <2>. QED BY <1>2, <1>6, <1>9, <2>2, <2>4, GoesOn
<1>10. CASE oc # ""
  <2>1. oc \in Outs
    BY DEF Says
  <2>2. ASSUME job.inStep, job.op \in BulkOps
        PROVE  /\ oc # "SUCCESS"
               /\ oc = "FAILURE" => j.did = j.asked - 1
               /\ j.did \in {j.asked - 1, j.asked}
    <3>1. job.did = job.asked /\ owed = <<>>
      BY <1>7, <1>8, <2>2
    <3>2. oc # "SUCCESS" /\ (oc = "FAILURE" => ~x.did)
      BY <1>8, <2>2, <3>1 DEF Says
    <3>3. oc = "FAILURE" => k = 0
      BY <1>k, <3>2
    <3>4. j.did = job.did + k /\ j.asked = job.asked + 1 /\ job.did \in Nat /\ k \in {0, 1}
      BY <1>2, <1>3, <1>k
    <3>5. j.did = j.asked - 1 \/ j.did = j.asked
      BY ONLY <3>1, <3>4
    <3>6. k = 0 => j.did = j.asked - 1
      BY ONLY <3>1, <3>4
    <3>. QED BY <3>2, <3>3, <3>5, <3>6
  <2>3. ASSUME job.inStep, job.op = "get", oc = "SUCCESS"
        PROVE  j.did = Len(j.items)
    <3>1. job.did = job.asked /\ owed = <<>>
      BY <1>7, <1>8, <2>3
    <3>2. x.did = TRUE /\ ~(job.asked + 1 < Len(job.items))
      BY <1>8, <2>3, <3>1 DEF Says
    <3>3. k = 1 /\ j.did = job.did + k
      BY <1>k, <3>2
    <3>4. job.asked + 1 = Len(job.items)
      BY ONLY job.asked < Len(job.items), <1>3, <3>2
    <3>. QED BY <1>2, <3>1, <3>3, <3>4
  <2>. QED BY <1>2, <1>5, <1>6, <1>10, <2>1, <2>2, <2>3, EndsWell
<1>. QED BY <1>9, <1>10

-----------------------------------------------------------------------------
(* The actions.                                                            *)

LEMMA InvIs == IInv <=> Store /\ Going
BY DEF IInv, Store, Going

LEMMA InvNextIs == IInv' <=> Store' /\ Going'
BY DEF IInv, Store, Going

LEMMA StatusAfter ==
  ASSUME Types, NEW x, GotOK(x.got), status' \in AdapterStatus(x)
  PROVE  status' \in Statuses /\ (x.got.answered => status' = x.got.st)
BY DEF Types, GotOK, AdapterStatus, Statuses

(* An item that is not sent changes nothing.                               *)
LEMMA NotSentGoes ==
  ASSUME Store, NEW op \in {"set", "get"}, NEW kind
  PROVE  Goes(NotSent, op, kind)
<1>1. PICK x : x = NotSent
  OBVIOUS
<1>2. /\ x.objs = objs /\ x.entries = entries /\ x.did = FALSE /\ x.conn = conn /\ x.owed = owed
      /\ x.faults = faults /\ x.got = NoReply
  BY <1>1 DEF NotSent
<1>3. /\ Stocked(objs, entries) /\ Linked(conn, owed) /\ faults \in 0..MaxFaults
      /\ Untaken(objs, owed)
  BY DEF Store, Types
<1>4. ~NoReply.answered
  BY DEF NoReply
<1>5. Learns(x, op, kind)
  BY <1>2 DEF Learns
<1>. QED BY <1>1, <1>2, <1>3, <1>4, <1>5, NoReplyOK DEF Goes, KeepsStep

LEMMA AsksStep ==
  ASSUME IInv, NEW op \in CallOps, Asks(op), op \notin {"set", "get"}
  PROVE  IInv'
<1>0. Store /\ Going /\ Types /\ Untaken(objs, owed)
  BY InvIs DEF Store
<1>1. job.out = "" /\ job.op = op /\ job.asked < Len(job.items)
  BY DEF Asks, At
<1>2. PICK on : on = IF op \in BulkOps THEN job.items[job.asked + 1] ELSE job.on
  OBVIOUS
<1>3. PICK x \in Exchanges(op, on, job.kind) :
        /\ Exchange(x) /\ status' \in AdapterStatus(x)
        /\ types' = IF op = "create" /\ x.got.answered THEN Noted(x.got) ELSE types
        /\ Answered(x, Outcome(x.got))
  BY <1>2 DEF Asks
<1>4. Bounded(job) /\ (op = "create" => job.kind \in Kinds)
  BY <1>0, <1>1 DEF Going, JobOK
<1>5. job.asked \in Nat /\ Len(job.items) \in Nat /\ job.op \in CallOps /\ job.assert \in BOOLEAN
  BY <1>4, JobFields
<1>6. op \in BulkOps => on \in Keys
  <2>1. op \in BulkOps => job.items \in Seq(Keys)
    BY <1>1, <1>4 DEF Bounded
  <2>a. job.asked \in Nat /\ Len(job.items) \in Nat /\ job.asked < Len(job.items)
    BY <1>1, <1>5
  <2>2. job.asked + 1 \in 1..Len(job.items)
    BY ONLY <2>a
  <2>. QED BY <1>2, <2>1, <2>2
<1>7. Goes(x, op, job.kind)
  BY <1>0, <1>3, <1>4, <1>6, ExchangeWell
<1>8. GotOK(x.got) /\ x.did \in BOOLEAN /\ KeepsStep(x)
  BY <1>7 DEF Goes
<1>9. status' \in Statuses /\ (x.got.answered => status' = x.got.st)
  BY <1>0, <1>3, <1>8, StatusAfter
<1>10. Store'
  BY <1>0, <1>3, <1>4, <1>7, <1>9, StoreStep
<1>11. Says(Outcome(x.got), x.got)
  BY <1>5, <1>8, <1>9, OutcomeSays
<1>12. owed' = x.owed
  BY <1>3 DEF Exchange
<1>13. Going'
  BY <1>0, <1>1, <1>3, <1>8, <1>11, <1>12, AnsweredWell
<1>. QED BY <1>10, <1>13, InvNextIs

LEMMA AttributeStep ==
  ASSUME IInv, NEW op \in {"set", "get"}, Attribute(op)
  PROVE  IInv'
<1>0. Store /\ Going /\ Types /\ Untaken(objs, owed)
  BY InvIs DEF Store
<1>1. job.out = "" /\ job.op = op /\ op \notin BulkOps /\ op \in CallOps /\ op # "create"
  BY DEF Attribute, At, BulkOps, CallOps, OidOps
<1>2. PICK x : /\ x \in Exchanges(op, job.on, job.kind) \/ x = NotSent
               /\ status' \in AdapterStatus(x) \/ (status' = status /\ x = NotSent)
               /\ Exchange(x) /\ Answered(x, Outcome(x.got))
  <2>1. CASE job.items[job.asked + 1]
    BY <2>1 DEF Attribute
  <2>2. CASE ~job.items[job.asked + 1]
    BY <2>2 DEF Attribute
  <2>. QED BY <2>1, <2>2
<1>3. types' = types
  BY DEF Attribute
<1>4. Bounded(job) /\ job.asked < Len(job.items)
  BY <1>0, <1>1 DEF Going, JobOK
<1>5. job.op \in CallOps /\ job.assert \in BOOLEAN
  BY <1>4, JobFields
<1>7. Goes(x, op, job.kind)
  BY <1>0, <1>1, <1>2, ExchangeWell, NotSentGoes
<1>8. GotOK(x.got) /\ x.did \in BOOLEAN /\ KeepsStep(x)
  BY <1>7 DEF Goes
<1>9. status' \in Statuses /\ (x.got.answered => status' = x.got.st)
  <2>1. CASE status' \in AdapterStatus(x)
    BY <1>0, <1>8, <2>1, StatusAfter
  <2>2. CASE status' = status /\ x = NotSent
    BY <1>0, <2>2, NoReplyOK DEF Types, NotSent
  <2>. QED BY <1>2, <2>1, <2>2
<1>10. Store'
  BY <1>0, <1>1, <1>2, <1>3, <1>7, <1>9, StoreStep
<1>11. Says(Outcome(x.got), x.got)
  BY <1>5, <1>8, <1>9, OutcomeSays
<1>12. owed' = x.owed
  BY <1>2 DEF Exchange
<1>13. Going'
  BY <1>0, <1>1, <1>2, <1>4, <1>8, <1>11, <1>12, AnsweredWell
<1>. QED BY <1>10, <1>13, InvNextIs

LEMMA QueryStep ==
  ASSUME IInv, Get_object_type
  PROVE  IInv'
<1>0. Store /\ Going /\ Types /\ Untaken(objs, owed)
  BY InvIs DEF Store
<1>1. job.out = "" /\ job.op \in OidOps /\ UNCHANGED <<types, status>>
  BY DEF Get_object_type
<1>2. PICK x \in Exchanges("query", job.on, "NULL") :
        /\ Exchange(x)
        /\ job' = IF x.got.kind # "NULL" THEN [job EXCEPT !.kind = x.got.kind]
                  ELSE Ended(job, "raised")
  BY DEF Get_object_type
<1>3. "query" \in CallOps /\ "query" \notin BulkOps
  BY DEF CallOps, BulkOps
<1>4. Goes(x, "query", "NULL")
  BY <1>0, <1>3, ExchangeWell
<1>5. Goes(x, "query", job.kind)
  BY <1>4 DEF Goes, Learns
<1>6. GotOK(x.got) /\ KeepsStep(x) /\ owed' = x.owed
  BY <1>2, <1>4 DEF Goes, Exchange
<1>7. Store'
  <2>1. status' \in Statuses
    BY <1>0, <1>1 DEF Types
  <2>2. types' = IF "query" = "create" /\ x.got.answered THEN Noted(x.got) ELSE types
    BY <1>1
  <2>. QED BY <1>0, <1>2, <1>5, <2>1, <2>2, StoreStep
<1>8. /\ JobOK(job) /\ Bounded(job) /\ job \in CallRecords
      /\ job.op \notin BulkOps /\ job.op # "create"
  BY <1>0, <1>1 DEF Going, JobOK, Bounded, OidOps, BulkOps
<1>9. CASE x.got.kind # "NULL"
  <2>1. x.got.answered /\ x.got.kind \in Kinds /\ x.got.st \in Statuses
    BY <1>6, <1>9 DEF GotOK
  <2>2. PICK j : j = [job EXCEPT !.kind = x.got.kind]
    OBVIOUS
  <2>3. j \in CallRecords
    BY <1>8, <2>1, <2>2 DEF CallRecords
  <2>4. /\ j.op = job.op /\ j.items = job.items /\ j.asked = job.asked /\ j.did = job.did
        /\ j.inStep = job.inStep /\ j.out = job.out
    BY <1>8, <2>2 DEF CallRecords
  <2>5. JobOK(j)
    BY <1>8, <2>3, <2>4 DEF JobOK, Bounded
  <2>6. job.inStep /\ job.op \in Several => owed = <<>> /\ job.did = job.asked
    BY <1>0, <1>1 DEF Going, InStep
  <2>7. job.inStep /\ job.op \in Several => owed' = <<>>
    BY <1>6, <2>1, <2>6 DEF KeepsStep
  <2>. QED BY <1>1, <1>2, <1>7, <1>9, <2>2, <2>4, <2>5, <2>6, <2>7, GoesOn, InvNextIs
<1>10. CASE x.got.kind = "NULL"
  <2>1. "raised" \in Outs
    BY DEF Outs
  <2>. QED BY <1>2, <1>7, <1>8, <1>10, <2>1, EndsWell, InvNextIs
<1>. QED BY <1>9, <1>10

LEMMA BeginStep ==
  ASSUME IInv, Begin
  PROVE  IInv'
<1>0. Store /\ Going /\ Types
  BY InvIs DEF Store
<1>1. PICK j \in Calls : job' = j
  BY DEF Begin
<1>2. /\ UNCHANGED <<mode, up, due, objs, entries, conn, owed, types, status, faults>>
  BY DEF Begin
<1>3. Fresh(j)
  BY <1>0, CallsWell
<1>4. /\ JobOK(j) /\ j.out = "" /\ j.did = j.asked /\ (j.inStep => owed' = <<>>)
  BY <1>2, <1>3 DEF Fresh
<1>5. Going'
  BY <1>1, <1>4, GoesOn
<1>6. Store'
  BY <1>0, <1>2 DEF Store, Types, Stocked, Linked, Untaken, OwnTyped, NotOwn
<1>. QED BY <1>5, <1>6, InvNextIs

LEMMA BulkDoneStep ==
  ASSUME IInv, BulkDone
  PROVE  IInv'
<1>0. Store /\ Going
  BY InvIs
<1>1. /\ job.out = "" /\ job.op \in BulkOps /\ job.asked = Len(job.items)
      /\ job' = Ended(job, "SUCCESS")
      /\ UNCHANGED <<mode, up, due, objs, entries, conn, owed, types, status, faults>>
  BY DEF BulkDone, At
<1>2. Bounded(job) /\ (job.inStep => job.did = Len(job.items)) /\ job.op # "get"
  BY <1>0, <1>1 DEF Going, JobOK, InStep, Several, BulkOps
<1>3. "SUCCESS" \in Outs
  BY DEF Outs, Statuses
<1>4. Going'
  BY <1>1, <1>2, <1>3, EndsWell
<1>5. Store'
  BY <1>0, <1>1 DEF Store, Types, Stocked, Linked, Untaken, OwnTyped, NotOwn
<1>. QED BY <1>4, <1>5, InvNextIs

LEMMA CleanupRestartStep ==
  ASSUME IInv, CleanupRestart
  PROVE  IInv'
<1>0. Store /\ Going /\ Types
  BY InvIs DEF Store
<1>1. /\ job' = NewCall("cleanup", 0, <<>>, "switch", TRUE)
      /\ conn' = "closed" /\ owed' = <<>> /\ UNCHANGED <<mode, types, status, faults>>
  BY DEF CleanupRestart
<1>2. \/ up' = FALSE /\ objs' = <<>> /\ entries' = {} /\ due' = due
      \/ /\ due' = due + (IF mode = "ssh" THEN 1 ELSE 0) /\ due' <= MaxDue
         /\ UNCHANGED <<up, objs, entries>>
  BY DEF CleanupRestart
<1>3. due' \in 0..MaxDue
  <2>1. PICK k \in {0, 1} : k = IF mode = "ssh" THEN 1 ELSE 0
    OBVIOUS
  <2>2. due' = due \/ (due' = due + k /\ due' <= MaxDue)
    BY <1>2, <2>1
  <2>3. due \in 0..MaxDue /\ MaxDue \in Nat
    BY <1>0, ThriftAssumption DEF Types
  <2>. QED BY ONLY <2>2, <2>3, k \in {0, 1}
<1>4. Stocked(objs', entries') /\ up' \in BOOLEAN
  <2>1. CASE up' = FALSE /\ objs' = <<>> /\ entries' = {}
    <3>1. Stocked(<<>>, {})
      BY DEF Stocked
    <3>2. up' \in BOOLEAN
      BY <2>1
    <3>. QED BY <2>1, <3>1, <3>2
  <2>2. CASE UNCHANGED <<up, objs, entries>>
    BY <1>0, <2>2 DEF Types, Stocked
  <2>. QED BY <1>2, <2>1, <2>2
<1>5. Linked(conn', owed')
  BY <1>1 DEF Linked
<1>6. \A o \in DOMAIN objs' : objs'[o].own => o \in DOMAIN objs /\ objs'[o] = objs[o]
  BY <1>2
<1>7. Store'
  <2>1. faults' \in 0..MaxFaults
    BY <1>0, <1>1 DEF Types
  <2>. QED BY <1>0, <1>1, <1>3, <1>4, <1>5, <1>6, <2>1, StoreShrinks
<1>8. Going'
  <2>1. "cleanup" \in CallOps /\ "cleanup" \notin Several /\ "cleanup" \notin BulkOps
    BY DEF CallOps, Several, BulkOps
  <2>2. Fresh(NewCall("cleanup", 0, <<>>, "switch", TRUE))
    BY <2>1, NoItems, NewCallIs
  <2>3. job'.op = "cleanup"
    BY <1>1 DEF NewCall
  <2>4. PICK j : j = job'
    OBVIOUS
  <2>5. JobOK(j) /\ j.out = "" /\ j.op \notin Several
    BY <1>1, <2>1, <2>2, <2>3, <2>4 DEF Fresh
  <2>. QED BY <2>4, <2>5, GoesOn
<1>. QED BY <1>7, <1>8, InvNextIs

LEMMA CleanupConnectStep ==
  ASSUME IInv, CleanupConnect
  PROVE  IInv'
<1>0. Store /\ Going /\ Types
  BY InvIs DEF Store
<1>1. /\ job.op = "cleanup" /\ job' = Ended(job, IF up THEN "SUCCESS" ELSE "raised")
      /\ conn' = IF up THEN "open" ELSE "closed"
      /\ UNCHANGED <<mode, up, due, objs, entries, owed, types, status, faults>>
      /\ job.out = ""
  BY DEF CleanupConnect, At
<1>2. PICK oc : oc = IF up THEN "SUCCESS" ELSE "raised"
  OBVIOUS
<1>3. oc \in Outs /\ oc # ""
  BY <1>2 DEF Outs, Statuses
<1>4. Bounded(job) /\ job.op \notin BulkOps /\ job.op # "get"
  BY <1>0, <1>1 DEF Going, JobOK, BulkOps
<1>5. Going'
  BY <1>1, <1>2, <1>3, <1>4, EndsWell
<1>6. owed # <<>> => up
  BY <1>0 DEF Types, Linked
<1>7. Linked(conn', owed') /\ (conn' = "open" => up')
  BY <1>0, <1>1, <1>6 DEF Types, Linked
<1>8. Store'
  BY <1>0, <1>1, <1>7 DEF Store, Types, Stocked, Untaken, OwnTyped, NotOwn
<1>. QED BY <1>5, <1>8, InvNextIs

(* The server dies.                                                        *)
LEMMA DownStep ==
  ASSUME IInv, Down, due' \in 0..MaxDue, faults' \in 0..MaxFaults,
         UNCHANGED <<mode, types, status, job>>
  PROVE  IInv'
<1>0. Store /\ Going /\ Types
  BY InvIs DEF Store
<1>1. /\ up' = FALSE /\ objs' = <<>> /\ entries' = {} /\ owed' = <<>>
      /\ conn' = IF conn = "open" THEN "reset" ELSE conn
  BY DEF Down
<1>2. Stocked(objs', entries') /\ conn' # "open" /\ Linked(conn', owed')
  BY <1>0, <1>1 DEF Stocked, Types, Linked
<1>3. \A o \in DOMAIN objs' : objs'[o].own => o \in DOMAIN objs /\ objs'[o] = objs[o]
  BY <1>1
<1>4. Store'
  BY <1>0, <1>1, <1>2, <1>3, StoreShrinks
<1>5. Going'
  BY <1>0, <1>1, Waits
<1>. QED BY <1>4, <1>5, InvNextIs

LEMMA SshRestartStep ==
  ASSUME IInv, SshRestart
  PROVE  IInv'
<1>1. due \in 0..MaxDue /\ faults \in 0..MaxFaults /\ MaxDue \in Nat
  BY ThriftAssumption DEF IInv, Types
<1>2. /\ due > 0 /\ due' = due - 1 /\ faults' = faults /\ Down
      /\ UNCHANGED <<mode, types, status, job>>
  BY DEF SshRestart
<1>3. due' \in 0..MaxDue
  BY <1>1, <1>2
<1>. QED BY <1>1, <1>2, <1>3, DownStep

LEMMA CrashStep ==
  ASSUME IInv, Crash
  PROVE  IInv'
<1>1. due \in 0..MaxDue /\ faults \in 0..MaxFaults /\ MaxFaults \in Nat
  BY ThriftAssumption DEF IInv, Types
<1>2. /\ faults < MaxFaults /\ faults' = faults + 1 /\ due' = due /\ Down
      /\ UNCHANGED <<mode, types, status, job>>
  BY DEF Crash
<1>3. faults' \in 0..MaxFaults
  BY <1>1, <1>2
<1>. QED BY <1>1, <1>2, <1>3, DownStep

LEMMA BootStep ==
  ASSUME IInv, Boot
  PROVE  IInv'
<1>0. Store /\ Going
  BY InvIs
<1>1. up' = TRUE /\ UNCHANGED <<mode, due, objs, entries, conn, owed, types, status, job, faults>>
  BY DEF Boot
<1>2. Store'
  BY <1>0, <1>1 DEF Store, Types, Stocked, Linked, Untaken, OwnTyped, NotOwn
<1>3. Going'
  BY <1>0, <1>1, Waits
<1>. QED BY <1>2, <1>3, InvNextIs

LEMMA OtherClientStep ==
  ASSUME IInv, OtherClient
  PROVE  IInv'
<1>0. Store /\ Going /\ Types /\ Stocked(objs, entries)
  BY InvIs DEF Store, Types
<1>1. UNCHANGED <<mode, up, due, conn, owed, types, status, job, faults>>
  BY DEF OtherClient
<1>2. /\ Stocked(objs', entries')
      /\ \A o \in DOMAIN objs' : objs'[o].own => o \in DOMAIN objs /\ objs'[o] = objs[o]
  <2>1. ASSUME NEW o \in Oids \ DOMAIN objs, NEW k \in Kinds,
               objs' = Put(objs, o, [kind |-> k, own |-> FALSE]), entries' = entries
        PROVE  <1>2!:
    <3>1. PICK w : w = [kind |-> k, own |-> FALSE]
      OBVIOUS
    <3>2. w \in Records /\ w.own = FALSE
      BY <3>1 DEF Records
    <3>3. PICK os : os = objs'
      OBVIOUS
    <3>4. /\ DOMAIN os = DOMAIN objs \cup {o} /\ os[o] = w
          /\ \A u \in DOMAIN objs : os[u] = objs[u]
      BY <2>1, <3>1, <3>3 DEF Put
    <3>5. Stocked(os, entries')
      BY <1>0, <2>1, <3>2, <3>4 DEF Stocked
    <3>. QED BY <3>2, <3>3, <3>4, <3>5
  <2>2. ASSUME NEW o \in DOMAIN objs, objs' = Restrict(objs, DOMAIN objs \ {o}),
               entries' = entries
        PROVE  <1>2!:
    BY <1>0, <2>2 DEF Stocked, Restrict
  <2>3. ASSUME NEW k \in Keys, objs' = objs, entries' \in {entries \union {k}, entries \ {k}}
        PROVE  <1>2!:
    BY <1>0, <2>3 DEF Stocked
  <2>. QED BY <2>1, <2>2, <2>3 DEF OtherClient
<1>3. Store'
  <2>1. Linked(conn', owed') /\ (conn' = "open" => up') /\ due' \in 0..MaxDue
        /\ faults' \in 0..MaxFaults /\ up' \in BOOLEAN
    BY <1>0, <1>1 DEF Types
  <2>. QED BY <1>0, <1>1, <1>2, <2>1, StoreShrinks
<1>4. Going'
  BY <1>0, <1>1, Waits
<1>. QED BY <1>3, <1>4, InvNextIs

-----------------------------------------------------------------------------
(* The theorems.                                                           *)

LEMMA InvInit == Init => IInv
<1>. SUFFICES ASSUME Init PROVE IInv
  OBVIOUS
<1>1. PICK n : n = NewCall("none", 0, <<>>, "NULL", TRUE)
  OBVIOUS
<1>2. "none" \in CallOps /\ "none" \notin BulkOps /\ "none" \notin Several
  BY DEF CallOps, BulkOps, Several
<1>3. Fresh(n) /\ n.op = "none"
  BY <1>1, <1>2, NoItems, NewCallIs DEF NewCall
<1>4. n \in CallRecords /\ Bounded(n)
  BY <1>3 DEF Fresh, JobOK, Bounded
<1>5. job = [n EXCEPT !.inStep = TRUE, !.out = "SUCCESS"]
  BY <1>1 DEF Init
<1>6. job \in CallRecords
  BY <1>4, <1>5 DEF CallRecords, Outs, Statuses
<1>7. /\ job.op = "none" /\ job.items = n.items /\ job.asked = n.asked /\ job.did = n.did
      /\ job.out = "SUCCESS"
  BY <1>3, <1>4, <1>5 DEF CallRecords
<1>8. JobOK(job)
  BY <1>2, <1>4, <1>6, <1>7 DEF JobOK, Bounded
<1>9. InStep /\ ReportsTrue
  BY <1>2, <1>7 DEF InStep, ReportsTrue, BulkTold, GetTold
<1>10. Types
  BY ThriftAssumption DEF Init, Types, Stocked, Linked, Statuses
<1>11. Untaken(objs, owed) /\ OwnTyped
  BY DEF Init, Untaken, OwnTyped
<1>. QED BY <1>8, <1>9, <1>10, <1>11 DEF IInv

LEMMA InvStep == IInv /\ [Next]_vars => IInv'
<1>. SUFFICES ASSUME IInv, [Next]_vars PROVE IInv'
  OBVIOUS
<1>1. CASE UNCHANGED vars
  <2>0. Store /\ Going
    BY InvIs
  <2>1. Store'
    BY <1>1, <2>0 DEF vars, Store, Types, Stocked, Linked, Untaken, OwnTyped, NotOwn
  <2>2. Going'
    BY <1>1, <2>0, Waits DEF vars
  <2>. QED BY <2>1, <2>2, InvNextIs
<1>2. CASE Create \/ Remove \/ Get_stats \/ Clear_stats \/ Flush_fdb_entries
           \/ Bulk_create \/ Bulk_remove \/ Bulk_set
  <2>1. PICK op \in {"create", "remove", "get_stats", "clear_stats", "flush",
                     "bulk_create", "bulk_remove", "bulk_set"} : Asks(op)
    BY <1>2 DEF Create, Remove, Get_stats, Clear_stats, Flush_fdb_entries,
                Bulk_create, Bulk_remove, Bulk_set
  <2>2. op \in CallOps /\ op \notin {"set", "get"}
    BY DEF CallOps, OidOps, BulkOps
  <2>. QED BY <2>1, <2>2, AsksStep
<1>3. CASE Set \/ Get
  BY <1>3, AttributeStep DEF Set, Get
<1>4. CASE Begin \/ Get_object_type \/ BulkDone \/ CleanupRestart \/ CleanupConnect
  BY <1>4, BeginStep, QueryStep, BulkDoneStep, CleanupRestartStep, CleanupConnectStep
<1>5. CASE SshRestart \/ Crash \/ Boot \/ OtherClient
  BY <1>5, SshRestartStep, CrashStep, BootStep, OtherClientStep
<1>. QED BY <1>1, <1>2, <1>3, <1>4, <1>5 DEF Next

(* Every variable keeps its type: only oids have types, the client's       *)
(* connection is open only to a server that runs, and a call never goes    *)
(* past its items or counts as done more than it has asked for.            *)
THEOREM TypeCorrect == Spec => []TypeOK
<1>1. IInv => TypeOK
  <2>. SUFFICES ASSUME IInv PROVE TypeOK
    OBVIOUS
  <2>1. Range2(objs) \subseteq [kind : Kinds, own : BOOLEAN] /\ Range2(types) \subseteq Kinds
    BY DEF IInv, Types, Stocked, Records, Range2
  <2>2. job.out \in Statuses \cup {"", "raised"}
    BY JobFields DEF IInv, JobOK, Outs
  <2>3. job.did <= job.asked /\ job.asked <= Len(job.items)
    BY DEF IInv, JobOK, Bounded
  <2>. QED BY <2>1, <2>2, <2>3 DEF IInv, Types, Stocked, Linked, TypeOK
<1>. QED BY <1>1, InvInit, InvStep, PTL DEF Spec

(* The type that SaiThriftClient remembers for an object it created and    *)
(* was told of is the object's type, although the map is never cleared and *)
(* numbers are used again after restarts, removals and by other clients.   *)
THEOREM OwnTypesAreRight == Spec => []OwnTyped
<1>1. IInv => OwnTyped
  BY DEF IInv
<1>. QED BY <1>1, InvInit, InvStep, PTL DEF Spec

(* A bulk call or a get reports what the server did, as long as no call    *)
(* before it left its reply unread.                                        *)
THEOREM ReportsAreTrue == Spec => []ReportsTrue
<1>1. IInv => ReportsTrue
  BY DEF IInv
<1>. QED BY <1>1, InvInit, InvStep, PTL DEF Spec
=============================================================================
