---------------------------- MODULE FlexCounters ----------------------------
(***************************************************************************)
(* Flex counters: syncd polls the counters of objects in groups and writes *)
(* them to COUNTERS_DB, a thread per group, at any time.  Clients (pytest, *)
(* and the sai command) tell it what to poll by requests over operate(),   *)
(* which it stores in FLEX_COUNTER_DB; counters they delete themselves.    *)
(* clear_flex_counters() scans FLEX_COUNTER_DB and undoes what it finds.   *)
(* As RedisRpc shows, a request that is given up on may still be carried   *)
(* out, and its answer, or another client's, be read by whoever waits.     *)
(* Counter names, intervals and values are left out.                       *)
(***************************************************************************)
EXTENDS Naturals, Sequences, FiniteSets

CONSTANTS
  Clients,
  Testers,     \* clients that run tests; the others are sai commands
  Groups,      \* names of counter groups
  Oids,        \* objects whose counters are polled
  MaxOrphans   \* bound on the requests under way whose client has gone on

Nobody == "nobody"   \* the client of such a request

ASSUME FlexAssumption ==
  Testers \subseteq Clients /\ Nobody \notin Clients /\ MaxOrphans \in Nat

VARIABLES
  polls,     \* FLEX_COUNTER_TABLE: <<group, oid>>
  groups,    \* FLEX_COUNTER_GROUP_TABLE: <<group>>
  on,        \* groups whose thread polls
  counters,  \* COUNTERS_DB: objects that have counters
  reqs,      \* requests syncd has not carried out
  call,      \* client -> its call
  clean      \* history: a call has cleared everything, nothing was set up since

vars == <<polls, groups, on, counters, reqs, call, clean>>

-----------------------------------------------------------------------------
(* A call is a sequence of steps: requests to syncd, scans of a table,     *)
(* commands to COUNTERS_DB.                                                *)
Ask(op, key) == [do |-> "ask", op |-> op, key |-> key]
Scan(table) == [do |-> "scan", op |-> table, key |-> <<>>]
Delete(oid) == [do |-> "delete", op |-> "del", key |-> <<oid>>]
Flush == [do |-> "flush", op |-> "flushdb", key |-> <<>>]

GroupKeys == {<<g>> : g \in Groups}
PollKeys == Groups \X Oids

Set_flex_counter_group(k) == {<<Ask("enable", k)>>, <<Ask("disable", k)>>}
Del_flex_counter_group(k) == <<Ask("del_group", k)>>
Start_flex_counter_poll(k) == <<Ask("start_poll", k)>>
Stop_flex_counter_poll(k) == <<Ask("stop_poll", k)>>
Del_flex_counter(o) == <<Delete(o)>>

\* Mutant: the counters go first.
FlushFirst == <<Flush, Scan("polls"), Scan("groups")>>

Clear_flex_counters == <<Scan("polls"), Scan("groups"), Flush>>

(* The end of test_port_counters(): "same as calling clear_flex_counters". *)
Tidy(k) ==
  Stop_flex_counter_poll(k) \o Del_flex_counter_group(<<k[1]>>) \o Del_flex_counter(k[2])

SaiCommands ==
  (UNION {Set_flex_counter_group(k) : k \in GroupKeys})
  \cup {Del_flex_counter_group(k) : k \in GroupKeys}
  \cup {Start_flex_counter_poll(k) : k \in PollKeys}
  \cup {Stop_flex_counter_poll(k) : k \in PollKeys}
  \cup {Del_flex_counter(o) : o \in Oids}

TestCalls == {Clear_flex_counters} \cup {Tidy(k) : k \in PollKeys}

Calls(c) == SaiCommands \cup IF c \in Testers THEN TestCalls ELSE {}

(* What a call has to find for its promise that nothing is left: Tidy(k)   *)
(* undoes one poll, clear_flex_counters() whatever there is.               *)
Promises(s) ==
  \/ s = Clear_flex_counters
  \/ \E k \in PollKeys : /\ s = Tidy(k)
                         /\ polls \subseteq {k} /\ groups \subseteq {<<k[1]>>}
                         /\ counters \subseteq {k[2]}

(* todo: steps left; open, left: a scan in progress and the keys it has    *)
(* yet to return; waiting: for an answer; alone: history, the call         *)
(* promises a clean table, nothing was set up since it began, and it has   *)
(* read no answer but its own.                                             *)
Idle == [todo |-> <<>>, open |-> FALSE, left |-> {}, waiting |-> FALSE, alone |-> FALSE]

Init ==
  /\ polls = {} /\ groups = {} /\ on = {} /\ counters = {}
  /\ reqs = <<>> /\ call = [c \in Clients |-> Idle]
  /\ clean = FALSE

-----------------------------------------------------------------------------
(* The clients.                                                            *)

Begin(c) ==
  /\ call[c].todo = <<>>
  /\ \E s \in Calls(c) :
       call' = [call EXCEPT ![c] = [Idle EXCEPT !.todo = s, !.alone = Promises(s)]]
  /\ UNCHANGED <<polls, groups, on, counters, reqs, clean>>

(* The next step of the call can be taken, and is one of this kind.        *)
Due(c, kind) ==
  call[c].todo # <<>> /\ ~call[c].waiting /\ Head(call[c].todo).do = kind

Send(c) ==
  /\ Due(c, "ask")
  /\ reqs' = Append(reqs, [by |-> c, op |-> Head(call[c].todo).op, key |-> Head(call[c].todo).key])
  /\ call' = [call EXCEPT ![c].waiting = TRUE]
  /\ UNCHANGED <<polls, groups, on, counters, clean>>

By(c) == {i \in DOMAIN reqs : reqs[i].by = c}
Orphaned(c) == [i \in DOMAIN reqs |-> IF i \in By(c) THEN [reqs[i] EXCEPT !.by = Nobody] ELSE reqs[i]]

\* Mutant: the request is sent once more.
SendAgain(c) ==
  /\ call[c].waiting
  /\ reqs' = Append(reqs, [by |-> c, op |-> Head(call[c].todo).op, key |-> Head(call[c].todo).key])
  /\ UNCHANGED <<polls, groups, on, counters, call, clean>>

(* The answer does not come in time, or the caller is interrupted.         *)
GiveUp(c) ==
  /\ call[c].waiting /\ Cardinality(By(c) \cup By(Nobody)) <= MaxOrphans
  /\ reqs' = Orphaned(c)
  /\ call' = [call EXCEPT ![c] = Idle]
  /\ UNCHANGED <<polls, groups, on, counters, clean>>

(* One step is done: the rest of the call, or its end.                     *)
After(s, rest) == IF rest = <<>> THEN Idle ELSE [s EXCEPT !.todo = rest]
Promised(c, rest) == rest = <<>> /\ call[c].alone

Table(t) == IF t = "polls" THEN polls ELSE groups

(* SCAN returns each key that is there from its start to its end; it may   *)
(* return others, keys that are gone already, and keys more than once.     *)
ScanStart(c) ==
  /\ Due(c, "scan") /\ ~call[c].open
  /\ call' = [call EXCEPT ![c].open = TRUE, ![c].left = Table(Head(call[c].todo).op)]
  /\ UNCHANGED <<polls, groups, on, counters, reqs, clean>>

Undo(t, k) == Ask(IF t = "polls" THEN "stop_poll" ELSE "del_group", k)

ScanKey(c) ==
  /\ Due(c, "scan") /\ call[c].open
  /\ LET t == Head(call[c].todo).op IN
     \E k \in call[c].left \cup Table(t) :
       call' = [call EXCEPT ![c].todo = <<Undo(t, k)>> \o @, ![c].left = @ \ {k}]
  /\ UNCHANGED <<polls, groups, on, counters, reqs, clean>>

ScanEnd(c) ==
  /\ Due(c, "scan") /\ call[c].open
  /\ call[c].left \cap Table(Head(call[c].todo).op) = {}
  /\ LET rest == Tail(call[c].todo) IN
     /\ call' = [call EXCEPT ![c] = After([@ EXCEPT !.open = FALSE, !.left = {}], rest)]
     /\ clean' = (clean \/ Promised(c, rest))
  /\ UNCHANGED <<polls, groups, on, counters, reqs>>

(* flushdb() of COUNTERS_DB, or the DEL of one object's counters.          *)
Erase(c) ==
  /\ Due(c, "flush") \/ Due(c, "delete")
  /\ counters' = IF Due(c, "flush") THEN {} ELSE counters \ {Head(call[c].todo).key[1]}
  /\ LET rest == Tail(call[c].todo) IN
     /\ call' = [call EXCEPT ![c] = After(@, rest)]
     /\ clean' = (clean \/ Promised(c, rest))
  /\ UNCHANGED <<polls, groups, on, reqs>>

-----------------------------------------------------------------------------
(* syncd.                                                                  *)

(* What a request does.  Whether a group's thread goes on polling when the *)
(* group's entry is deleted is left open.                                  *)
Carried(r) ==
  \/ /\ r.op \in {"enable", "disable"}
     /\ groups' = groups \cup {r.key}
     /\ on' = IF r.op = "enable" THEN on \cup {r.key} ELSE on \ {r.key}
     /\ UNCHANGED polls
  \/ /\ r.op = "del_group"
     /\ groups' = groups \ {r.key} /\ on' \in {on, on \ {r.key}}
     /\ UNCHANGED polls
  \/ r.op = "start_poll" /\ polls' = polls \cup {r.key} /\ UNCHANGED <<groups, on>>
  \/ r.op = "stop_poll" /\ polls' = polls \ {r.key} /\ UNCHANGED <<groups, on>>

SetsUp(r) == r.op \in {"enable", "disable", "start_poll"}

\* Mutant: the caller does not look at the status.
AnsweredUnchecked(c, ok) == After([call[c] EXCEPT !.waiting = FALSE], Tail(call[c].todo))

(* The call goes on, or raises because its request has failed.             *)
Answered(c, ok) ==
  IF ok THEN After([call[c] EXCEPT !.waiting = FALSE], Tail(call[c].todo)) ELSE Idle

(* The answer goes to its client, to another one that waits and then does  *)
(* not see its own, or to nobody.                                          *)
Serve ==
  /\ reqs # <<>>
  /\ LET r == Head(reqs) IN
     \E ok \in BOOLEAN, to \in {c \in Clients : call[c].waiting} \cup {Nobody} :
       LET setUp == ok /\ SetsUp(r)
           now == [c \in Clients |-> IF c = to THEN Answered(c, ok) ELSE call[c]]
       IN
       /\ IF ok THEN Carried(r) ELSE UNCHANGED <<polls, groups, on>>
       /\ reqs' = Tail(IF to = r.by THEN reqs ELSE Orphaned(to))
       /\ Cardinality({i \in DOMAIN reqs' : reqs'[i].by = Nobody}) <= MaxOrphans
       /\ call' = [c \in Clients |->
                     IF setUp \/ (c = to /\ to # r.by) THEN [now[c] EXCEPT !.alone = FALSE]
                     ELSE now[c]]
       /\ clean' = (clean /\ ~setUp)
  /\ UNCHANGED counters

(* A group's thread writes the counters of one of its objects.             *)
Poll ==
  /\ \E k \in polls : <<k[1]>> \in on /\ counters' = counters \cup {k[2]}
  /\ UNCHANGED <<polls, groups, on, reqs, call, clean>>

Next ==
  \/ \E c \in Clients : \/ Begin(c) \/ Send(c) \/ GiveUp(c) \/ Erase(c)
                        \/ ScanStart(c) \/ ScanKey(c) \/ ScanEnd(c)
  \/ Serve \/ Poll

Spec == Init /\ [][Next]_vars

-----------------------------------------------------------------------------
Requests ==
  [by : Clients \cup {Nobody}, op : {"enable", "disable", "del_group"}, key : GroupKeys]
  \cup [by : Clients \cup {Nobody}, op : {"start_poll", "stop_poll"}, key : PollKeys]

(* Every variable has its type, and a client waits for its request, of     *)
(* which there is one under way.                                           *)
TypeOK ==
  /\ polls \subseteq PollKeys /\ groups \subseteq GroupKeys /\ on \subseteq GroupKeys
  /\ counters \subseteq Oids
  /\ reqs \in Seq(Requests)
  /\ clean \in BOOLEAN
  /\ \A c \in Clients :
       /\ call[c].open \in BOOLEAN /\ call[c].alone \in BOOLEAN
       /\ call[c].left \subseteq PollKeys \cup GroupKeys
       /\ By(c) # {} => call[c].waiting /\ Cardinality(By(c)) = 1

(* A call of clear_flex_counters() that returns leaves no poll, no group   *)
(* and no counters, and none come back until somebody sets up new ones: it *)
(* is enough that it asks syncd first and deletes what syncd has written   *)
(* last, although other clients and calls that were given up on change the *)
(* tables while it scans them.  (Not if it has read another's answer.)     *)
(* The same holds of what test_port_counters() does instead, if its own    *)
(* poll was the only one.                                                  *)
ClearComplete ==
  clean => polls = {} /\ groups = {} /\ counters = {}
=============================================================================
