----------------------------- MODULE SaiSwitch ------------------------------
(***************************************************************************)
(* The switch behind Sai.create / remove / set / get as a test set-up sees *)
(* it: objects that refer to one another, ids that are a type and a number *)
(* of VIDCOUNTER (the numbers start again after a cleanup, so a kept id    *)
(* may come to name another object), and what SAI refuses: a missing or a  *)
(* repeated object, and the removal of one in use.  A handler is a         *)
(* sequence of calls; the first that does not succeed raises, the rest are *)
(* not made.  A machine m has                                              *)
(*   objs   object id -> [of : ids it refers to, key]                      *)
(*   pvid   port or LAG -> VLAN id                                         *)
(*   next   VIDCOUNTER                                                     *)
(*   attr   name -> object id or value: attributes of the Python objects   *)
(*   lists  name -> sequence of object ids: the lists they keep            *)
(*   ok     no call has raised                                             *)
(***************************************************************************)
EXTENDS Naturals, Sequences, FiniteSets, TLC

DefaultVlan == <<"default_vlan">>   \* npu.default_vlan_oid
DefaultVlanId == 1                  \* npu.default_vlan_id

(* The calls of a handler.  A handle is an object id or the name of an     *)
(* attribute that holds one when the call is made.                         *)
Make(kind, of, key, name, list) ==
  [do |-> "make", kind |-> kind, of |-> of, key |-> key, name |-> name, list |-> list]
Drop(h) == [do |-> "drop", h |-> h]
Touch(h) == [do |-> "touch", h |-> h]
Flush(h) == [do |-> "flush", h |-> h]
Pvid(h, v) == [do |-> "pvid", h |-> h, v |-> v]
Let(name, v) == [do |-> "let", name |-> name, v |-> v]
Track(list, s) == [do |-> "track", list |-> list, s |-> s]
Extend(list, s) == [do |-> "extend", list |-> list, s |-> s]
Refresh(list, kind) == [do |-> "refresh", list |-> list, kind |-> kind]
Join(i) == [do |-> "join", i |-> i]

Resolve(m, h) == IF h \in DOMAIN m.attr THEN m.attr[h] ELSE h
Exists(m, o) == o \in DOMAIN m.objs
InUse(m, o) == \E x \in DOMAIN m.objs : o \in m.objs[x].of
OfKind(m, k) == {o \in DOMAIN m.objs : o[1] = k}
Raised(m) == [m EXCEPT !.ok = FALSE]
Without(f, D) == [x \in DOMAIN f \ D |-> f[x]]

(* A switch lists its objects by id.                                       *)
InOrder(S) ==
  LET rank(o) == Cardinality({x \in S : x[2] <= o[2]})
  IN  [i \in 1..Cardinality(S) |-> CHOOSE o \in S : rank(o) = i]

(* Routes and FDB entries are named by their key, other objects by an id.  *)
Entries == {"ROUTE", "FDB"}

(* No two objects of these kinds refer to the same things.                 *)
Single == {"BP", "VLANM", "LAGM", "RIF"}

Refused(m, kind, of, key) ==
  \/ \E o \in of : ~Exists(m, o)
  \/ kind \in Entries /\ Exists(m, <<kind, key>>)
  \/ kind = "VLAN" /\ \E v \in OfKind(m, kind) : m.objs[v].key = key
  \/ kind \in Single /\ of # {} /\ \E o \in OfKind(m, kind) : m.objs[o].of = of

(* A number is taken before the request, and lost with a create that fails. *)
MakeFails(m, kind) == [m EXCEPT !.ok = FALSE, !.next = IF kind \in Entries THEN @ ELSE @ + 1]

DoMake(m, op) ==
  LET of == {Resolve(m, h) : h \in op.of}
      oid == <<op.kind, IF op.kind \in Entries THEN op.key ELSE m.next + 1>>
  IN  IF Refused(m, op.kind, of, op.key) THEN MakeFails(m, op.kind)
      ELSE [m EXCEPT
             !.objs = (oid :> [of |-> of, key |-> op.key]) @@ @,
             !.pvid = IF op.kind \in {"PORT", "LAG"} THEN (oid :> DefaultVlanId) @@ @ ELSE @,
             !.next = IF op.kind \in Entries THEN @ ELSE @ + 1,
             !.attr = IF op.name = <<>> THEN @ ELSE (op.name :> oid) @@ @,
             !.lists = IF op.list = "" THEN @ ELSE [@ EXCEPT ![op.list] = Append(@, oid)]]

(* remove, set and get ask for the RID of the id first: it has to exist.   *)
DoDrop(m, o) ==
  IF ~Exists(m, o) \/ InUse(m, o) THEN Raised(m)
  ELSE [m EXCEPT !.objs = Without(@, {o}), !.pvid = Without(@, {o})]

DoTouch(m, o) == IF Exists(m, o) THEN m ELSE Raised(m)

DoPvid(m, o, v) == IF Exists(m, o) THEN [m EXCEPT !.pvid[o] = v] ELSE Raised(m)

(* get of an object list: once to learn its length, once to read it.       *)
DoRefresh(m, list, kind) == [m EXCEPT !.lists[list] = InOrder(OfKind(m, kind))]

(* SAI_FDB_FLUSH_ENTRY_TYPE_DYNAMIC for one bridge port                    *)
DoFlush(m, o) ==
  [m EXCEPT !.objs = Without(@, {x \in OfKind(m, "FDB") :
                                   o \in @[x].of /\ @[x].key = "dynamic"})]

(* get_vlan_member(default_vlan_oid, bp), and create_vlan_member() if None *)
DoJoin(m, i) ==
  LET bp == m.lists.bps[i]
      vlan == m.attr[DefaultVlan]
  IN  IF \E x \in OfKind(m, "VLANM") : m.objs[x].of = {vlan, bp} THEN m
      ELSE DoMake(m, Make("VLANM", {vlan, bp}, "untagged", <<>>, ""))

Apply(m, op) ==
  CASE op.do = "make" -> DoMake(m, op)
    [] op.do = "drop" -> DoDrop(m, Resolve(m, op.h))
    [] op.do = "touch" -> DoTouch(m, Resolve(m, op.h))
    [] op.do = "flush" -> DoFlush(m, Resolve(m, op.h))
    [] op.do = "pvid" -> DoPvid(m, Resolve(m, op.h), op.v)
    [] op.do = "let" -> [m EXCEPT !.attr = (op.name :> op.v) @@ @]
    [] op.do = "track" -> [m EXCEPT !.lists[op.list] = op.s]
    [] op.do = "extend" ->
         [m EXCEPT !.lists[op.list] = @ \o [i \in DOMAIN op.s |-> Resolve(m, op.s[i])]]
    [] op.do = "refresh" -> DoRefresh(m, op.list, op.kind)
    [] op.do = "join" -> DoJoin(m, op.i)

(* What only the Python object does cannot fail.                           *)
Silent == {"let", "track", "extend"}

(* The calls of ops in turn; the one at bad (if any) fails.  They are run  *)
(* Block at a time, to keep the recursion shallow.                         *)
Block == 16

Run(m, ops, bad) ==
  LET call(before, i) ==
        CASE i > Len(ops) \/ ~before.ok -> before
          [] i \in DOMAIN ops /\ i = bad /\ ops[i].do \notin Silent ->
               IF ops[i].do = "make" THEN MakeFails(before, ops[i].kind) ELSE Raised(before)
          [] OTHER -> Apply(before, ops[i])
      block(from, b) ==
        LET upto[i \in 0..Block] ==
              IF i = 0 THEN from
              ELSE LET before == upto[i - 1] IN call(before, (b - 1) * Block + i)
        IN  upto[Block]
      blocks[b \in 0..(Len(ops) \div Block + 1)] ==
        IF b = 0 THEN m
        ELSE LET before == blocks[b - 1]
             IN  IF before.ok THEN block(before, b) ELSE before
  IN  blocks[Len(ops) \div Block + 1]

(* The calls of ss[1], then those of ss[2], ...                            *)
Flat(ss) ==
  LET upto[i \in 0..Len(ss)] == IF i = 0 THEN <<>> ELSE upto[i - 1] \o ss[i]
  IN  upto[Len(ss)]

For(s, Calls(_)) == Flat([i \in DOMAIN s |-> Calls(s[i])])
=============================================================================
