------------------------ MODULE FlexCounters_proofs ------------------------
(***************************************************************************)
(* Proofs about FlexCounters, for every set of clients, groups and objects *)
(* and every number of requests whose client has gone on.                  *)
(***************************************************************************)
EXTENDS FlexCounters, SequenceTheorems, FiniteSetTheorems, TLAPS

Keys == GroupKeys \cup PollKeys

Asked ==
  {Ask(op, k) : op \in {"enable", "disable", "del_group"}, k \in GroupKeys}
  \cup {Ask(op, k) : op \in {"start_poll", "stop_poll"}, k \in PollKeys}

Steps == Asked \cup {Scan("polls"), Scan("groups"), Flush} \cup {Delete(o) : o \in Oids}

Records ==
  [todo : Seq(Steps), open : BOOLEAN, left : SUBSET Keys, waiting : BOOLEAN, alone : BOOLEAN]

Types ==
  /\ polls \subseteq PollKeys /\ groups \subseteq GroupKeys /\ on \subseteq GroupKeys
  /\ counters \subseteq Oids
  /\ reqs \in Seq(Requests)
  /\ clean \in BOOLEAN
  /\ call \in [Clients -> Records]

(* How far a call is, and what it has achieved by then if it is alone: the *)
(* keys that a scan has yet to return, and the one that is being undone,   *)
(* are all that is left of the table; the tables behind it are empty.      *)
ScansPolls(s) ==
  /\ s.left \subseteq PollKeys
  /\ s.todo = <<Scan("polls"), Scan("groups"), Flush>>
  /\ s.alone /\ s.open => polls \subseteq s.left

UndoesPoll(s) ==
  \E k \in PollKeys :
    /\ s.left \subseteq PollKeys
    /\ s.todo = <<Ask("stop_poll", k), Scan("polls"), Scan("groups"), Flush>>
    /\ s.alone => polls \subseteq s.left \cup {k}

ScansGroups(s) ==
  /\ s.left \subseteq GroupKeys
  /\ s.todo = <<Scan("groups"), Flush>>
  /\ s.alone => polls = {}
  /\ s.alone /\ s.open => groups \subseteq s.left

UndoesGroup(s) ==
  \E k \in GroupKeys :
    /\ s.left \subseteq GroupKeys
    /\ s.todo = <<Ask("del_group", k), Scan("groups"), Flush>>
    /\ s.alone => polls = {} /\ groups \subseteq s.left \cup {k}

Flushes(s) ==
  /\ s.todo = <<Flush>>
  /\ s.alone => polls = {} /\ groups = {}

Tidies(s) ==
  \E k \in PollKeys :
    /\ s.todo = <<Ask("stop_poll", k), Ask("del_group", <<k[1]>>), Delete(k[2])>>
    /\ s.alone => polls \subseteq {k} /\ groups \subseteq {<<k[1]>>} /\ counters \subseteq {k[2]}

TidiesOn(s) ==
  \E k \in PollKeys :
    /\ s.todo = <<Ask("del_group", <<k[1]>>), Delete(k[2])>>
    /\ s.alone => polls = {} /\ groups \subseteq {<<k[1]>>} /\ counters \subseteq {k[2]}

Deletes(s) ==
  \E o \in Oids :
    /\ s.todo = <<Delete(o)>>
    /\ s.alone => polls = {} /\ groups = {} /\ counters \subseteq {o}

Asks(s) == \E a \in Asked : s.todo = <<a>>

Stage(s) ==
  \/ s.todo = <<>> \/ Asks(s) \/ Deletes(s) \/ Tidies(s) \/ TidiesOn(s)
  \/ ScansPolls(s) \/ UndoesPoll(s) \/ ScansGroups(s) \/ UndoesGroup(s) \/ Flushes(s)

(* A client waits only for an answer to a request, which is its next step. *)
(* It has one request under way at most, and none that it does not wait    *)
(* for.                                                                    *)
Matched(c) ==
  /\ call[c].waiting => call[c].todo # <<>> /\ Head(call[c].todo).do = "ask"
  /\ \A i \in By(c) :
       /\ call[c].waiting /\ call[c].todo # <<>>
       /\ Head(call[c].todo) = Ask(reqs[i].op, reqs[i].key)
  /\ \A i, j \in By(c) : i = j

IInv ==
  /\ Types
  /\ \A c \in Clients : Stage(call[c])
  /\ \A c \in Clients : Matched(c)
  /\ ClearComplete

-----------------------------------------------------------------------------
(* Calls as tuples of steps.                                               *)
LEMMA Joined ==
  ASSUME NEW S, NEW s \in Seq(S), NEW t \in Seq(S), NEW u \in Seq(S),
         Len(u) = Len(s) + Len(t),
         \A i \in 1..Len(s) : u[i] = s[i],
         \A i \in 1..Len(t) : u[Len(s) + i] = t[i]
  PROVE  s \o t = u
<1>1. /\ s \o t \in Seq(S) /\ Len(s \o t) = Len(u)
      /\ \A i \in 1..Len(u) : (s \o t)[i] = IF i <= Len(s) THEN s[i] ELSE t[i - Len(s)]
  BY ConcatProperties
<1>2. Len(s) \in Nat /\ Len(t) \in Nat
  OBVIOUS
<1>3. ASSUME NEW i \in 1..Len(u) PROVE (s \o t)[i] = u[i]
  <2>1. CASE i <= Len(s)
    BY <1>1, <1>2, <2>1
  <2>2. CASE ~(i <= Len(s))
    <3>1. i - Len(s) \in 1..Len(t) /\ Len(s) + (i - Len(s)) = i
      BY <1>2, <2>2
    <3>2. u[i] = t[i - Len(s)]
      BY <3>1
    <3>3. QED
      BY <1>1, <2>2, <3>2
  <2>3. QED
    BY <2>1, <2>2
<1>4. QED
  BY <1>1, <1>3, SeqEqual

LEMMA FourJoined ==
  ASSUME NEW x, NEW a, NEW b, NEW d
  PROVE  <<x>> \o <<a, b, d>> = <<x, a, b, d>>
<1> DEFINE S == {x, a, b, d}
           s == <<x>>
           t == <<a, b, d>>
           u == <<x, a, b, d>>
<1>1. s \in Seq(S) /\ t \in Seq(S) /\ u \in Seq(S)
  OBVIOUS
<1>2. /\ Len(u) = Len(s) + Len(t)
      /\ \A i \in 1..Len(s) : u[i] = s[i]
      /\ \A i \in 1..Len(t) : u[Len(s) + i] = t[i]
  OBVIOUS
<1> HIDE DEF s, t, u, S
<1>3. s \o t = u
  BY <1>1, <1>2, Joined
<1>4. QED
  BY <1>3 DEF s, t, u

LEMMA JoinedTuples ==
  ASSUME NEW x, NEW a, NEW b
  PROVE  /\ <<x>> \o <<a>> = <<x, a>>
         /\ <<x>> \o <<a, b>> = <<x, a, b>>
         /\ <<x, a>> \o <<b>> = <<x, a, b>>
<1> DEFINE S == {x, a, b}
<1>1. <<x>> \o <<a>> = <<x, a>>
  <2> DEFINE s == <<x>>
             t == <<a>>
             u == <<x, a>>
  <2>1. s \in Seq(S) /\ t \in Seq(S) /\ u \in Seq(S)
    OBVIOUS
  <2>2. /\ Len(u) = Len(s) + Len(t)
        /\ \A i \in 1..Len(s) : u[i] = s[i]
        /\ \A i \in 1..Len(t) : u[Len(s) + i] = t[i]
    <3>1. Len(u) = 2 /\ Len(s) = 1 /\ Len(t) = 1
      OBVIOUS
    <3>2. u[1] = s[1] /\ u[1 + 1] = t[1]
      OBVIOUS
    <3> HIDE DEF s, t, u
    <3>3. \A i \in 1..1 : i = 1
      OBVIOUS
    <3>4. QED
      BY <3>1, <3>2, <3>3
  <2> HIDE DEF s, t, u, S
  <2>3. s \o t = u
    BY <2>1, <2>2, Joined
  <2>4. QED
    BY <2>3 DEF s, t, u
<1>2. <<x>> \o <<a, b>> = <<x, a, b>>
  <2> DEFINE s == <<x>>
             t == <<a, b>>
             u == <<x, a, b>>
  <2>1. s \in Seq(S) /\ t \in Seq(S) /\ u \in Seq(S)
    OBVIOUS
  <2>2. /\ Len(u) = Len(s) + Len(t)
        /\ \A i \in 1..Len(s) : u[i] = s[i]
        /\ \A i \in 1..Len(t) : u[Len(s) + i] = t[i]
    OBVIOUS
  <2> HIDE DEF s, t, u, S
  <2>3. s \o t = u
    BY <2>1, <2>2, Joined
  <2>4. QED
    BY <2>3 DEF s, t, u
<1>3. <<x, a>> \o <<b>> = <<x, a, b>>
  <2> DEFINE s == <<x, a>>
             t == <<b>>
             u == <<x, a, b>>
  <2>1. s \in Seq(S) /\ t \in Seq(S) /\ u \in Seq(S)
    OBVIOUS
  <2>2. /\ Len(u) = Len(s) + Len(t)
        /\ \A i \in 1..Len(s) : u[i] = s[i]
        /\ \A i \in 1..Len(t) : u[Len(s) + i] = t[i]
    OBVIOUS
  <2> HIDE DEF s, t, u, S
  <2>3. s \o t = u
    BY <2>1, <2>2, Joined
  <2>4. QED
    BY <2>3 DEF s, t, u
<1>4. QED
  BY <1>1, <1>2, <1>3

LEMMA TidySteps ==
  ASSUME NEW k \in PollKeys
  PROVE  Tidy(k) = <<Ask("stop_poll", k), Ask("del_group", <<k[1]>>), Delete(k[2])>>
<1>1. <<Ask("stop_poll", k)>> \o <<Ask("del_group", <<k[1]>>)>>
        = <<Ask("stop_poll", k), Ask("del_group", <<k[1]>>)>>
  BY JoinedTuples
<1>2. <<Ask("stop_poll", k), Ask("del_group", <<k[1]>>)>> \o <<Delete(k[2])>>
        = <<Ask("stop_poll", k), Ask("del_group", <<k[1]>>), Delete(k[2])>>
  BY JoinedTuples
<1>3. QED
  BY <1>1, <1>2 DEF Tidy, Stop_flex_counter_poll, Del_flex_counter_group, Del_flex_counter

(* Steps are told apart by what they do.                                   *)
LEMMA StepKinds ==
  ASSUME NEW s, Stage(s), s.todo # <<>>
  PROVE  /\ Head(s.todo).do = "ask" =>
              \/ Asks(s) \/ Tidies(s) \/ TidiesOn(s) \/ UndoesPoll(s) \/ UndoesGroup(s)
         /\ Head(s.todo).do = "scan" => ScansPolls(s) \/ ScansGroups(s)
         /\ Head(s.todo).do = "flush" => Flushes(s)
         /\ Head(s.todo).do = "delete" => Deletes(s)
<1>1. Asks(s) => Head(s.todo).do = "ask"
  BY DEF Asks, Asked, Ask
<1>2. Deletes(s) => Head(s.todo).do = "delete"
  BY DEF Deletes, Delete
<1>3. Tidies(s) \/ TidiesOn(s) => Head(s.todo).do = "ask"
  <2>1. ASSUME NEW k, NEW x, NEW y PROVE Head(<<Ask("stop_poll", k), x, y>>).do = "ask"
    BY DEF Ask
  <2>2. ASSUME NEW k, NEW x PROVE Head(<<Ask("del_group", k), x>>).do = "ask"
    BY DEF Ask
  <2>3. QED
    BY <2>1, <2>2 DEF Tidies, TidiesOn
<1>4. UndoesPoll(s) \/ UndoesGroup(s) => Head(s.todo).do = "ask"
  <2>1. ASSUME NEW k, NEW x, NEW y, NEW z
        PROVE Head(<<Ask("stop_poll", k), x, y, z>>).do = "ask"
    BY DEF Ask
  <2>2. ASSUME NEW k, NEW x, NEW y PROVE Head(<<Ask("del_group", k), x, y>>).do = "ask"
    BY DEF Ask
  <2>3. QED
    BY <2>1, <2>2 DEF UndoesPoll, UndoesGroup
<1>5. ScansPolls(s) \/ ScansGroups(s) => Head(s.todo).do = "scan"
  BY DEF ScansPolls, ScansGroups, Scan
<1>6. Flushes(s) => Head(s.todo).do = "flush"
  BY DEF Flushes, Flush
<1>7. QED
  BY <1>1, <1>2, <1>3, <1>4, <1>5, <1>6 DEF Stage

(* What a call has achieved lasts while the tables lose keys and syncd     *)
(* writes the counters of polls that are there; and nothing is said of a   *)
(* call that is not alone.                                                 *)
LEMMA StageLasts ==
  ASSUME NEW s, Stage(s), polls' \subseteq polls, groups' \subseteq groups,
         counters' \subseteq counters \cup {k[2] : k \in polls}
  PROVE  Stage(s)'
<1>1. Deletes(s) => Deletes(s)'
  BY DEF Deletes
<1>2. Tidies(s) => Tidies(s)'
  BY DEF Tidies
<1>3. TidiesOn(s) => TidiesOn(s)'
  BY DEF TidiesOn
<1>4. /\ ScansPolls(s) => ScansPolls(s)'
      /\ ScansGroups(s) => ScansGroups(s)'
      /\ Flushes(s) => Flushes(s)'
  BY DEF ScansPolls, ScansGroups, Flushes
<1>5. UndoesPoll(s) => UndoesPoll(s)'
  BY DEF UndoesPoll
<1>6. UndoesGroup(s) => UndoesGroup(s)'
  BY DEF UndoesGroup
<1>7. Asks(s) => Asks(s)'
  BY DEF Asks
<1>8. QED
  BY <1>1, <1>2, <1>3, <1>4, <1>5, <1>6, <1>7 DEF Stage

Disturbed(s) == [s EXCEPT !.alone = FALSE]

LEMMA StageDisturbed ==
  ASSUME NEW s \in Records, Stage(s)
  PROVE  Disturbed(s) \in Records /\ Stage(Disturbed(s))'
<1> DEFINE d == Disturbed(s)
<1>1. d \in Records /\ d.todo = s.todo /\ d.left = s.left /\ d.alone = FALSE
  BY DEF Records, Disturbed
<1> HIDE DEF d
<1>2. Deletes(s) => Deletes(d)'
  BY <1>1 DEF Deletes
<1>3. Tidies(s) => Tidies(d)'
  BY <1>1 DEF Tidies
<1>4. TidiesOn(s) => TidiesOn(d)'
  BY <1>1 DEF TidiesOn
<1>5. /\ ScansPolls(s) => ScansPolls(d)'
      /\ ScansGroups(s) => ScansGroups(d)'
      /\ Flushes(s) => Flushes(d)'
  BY <1>1 DEF ScansPolls, ScansGroups, Flushes
<1>6. UndoesPoll(s) => UndoesPoll(d)'
  BY <1>1 DEF UndoesPoll
<1>7. UndoesGroup(s) => UndoesGroup(d)'
  BY <1>1 DEF UndoesGroup
<1>8. Asks(s) => Asks(d)'
  BY <1>1 DEF Asks
<1>9. Stage(d)'
  BY <1>1, <1>2, <1>3, <1>4, <1>5, <1>6, <1>7, <1>8 DEF Stage
<1>10. QED
  BY <1>1, <1>9 DEF d

(* An answered request takes its call to the next stage, if the request    *)
(* has been carried out or the call is not alone.                          *)
LEMMA StageAnswered ==
  ASSUME NEW s, Stage(s), s.todo # <<>>, Head(s.todo).do = "ask",
         NEW r, r.todo = Tail(s.todo), r.todo # <<>> => r.left = s.left,
         r.alone => /\ s.alone
                    /\ polls' \subseteq polls /\ groups' \subseteq groups /\ counters' = counters
                    /\ Head(s.todo).op = "stop_poll" => Head(s.todo).key \notin polls'
                    /\ Head(s.todo).op = "del_group" => Head(s.todo).key \notin groups'
  PROVE  Stage(r)'
<1>1. CASE Asks(s)
  <2>1. r.todo = <<>>
    BY <1>1 DEF Asks
  <2>2. QED
    BY <2>1 DEF Stage
<1>2. CASE Tidies(s)
  <2>1. PICK k \in PollKeys :
          /\ s.todo = <<Ask("stop_poll", k), Ask("del_group", <<k[1]>>), Delete(k[2])>>
          /\ s.alone => polls \subseteq {k} /\ groups \subseteq {<<k[1]>>} /\ counters \subseteq {k[2]}
    BY <1>2 DEF Tidies
  <2>2. /\ r.todo = <<Ask("del_group", <<k[1]>>), Delete(k[2])>>
        /\ Head(s.todo) = Ask("stop_poll", k)
    BY <2>1
  <2>3. r.alone => k \notin polls'
    BY <2>2 DEF Ask
  <2>4. TidiesOn(r)'
    BY <2>1, <2>2, <2>3 DEF TidiesOn
  <2>5. QED
    BY <2>4 DEF Stage
<1>3. CASE TidiesOn(s)
  <2>1. PICK k \in PollKeys :
          /\ s.todo = <<Ask("del_group", <<k[1]>>), Delete(k[2])>>
          /\ s.alone => polls = {} /\ groups \subseteq {<<k[1]>>} /\ counters \subseteq {k[2]}
    BY <1>3 DEF TidiesOn
  <2>2. r.todo = <<Delete(k[2])>> /\ Head(s.todo) = Ask("del_group", <<k[1]>>)
    BY <2>1
  <2>3. r.alone => <<k[1]>> \notin groups'
    BY <2>2 DEF Ask
  <2>4. r.alone => polls' = {} /\ groups' = {} /\ counters' \subseteq {k[2]}
    BY <2>1, <2>3
  <2>5. k[2] \in Oids
    BY DEF PollKeys
  <2>6. Deletes(r)'
    BY <2>2, <2>4, <2>5 DEF Deletes
  <2>7. QED
    BY <2>6 DEF Stage
<1>4. CASE UndoesPoll(s)
  <2>1. PICK k \in PollKeys :
          /\ s.left \subseteq PollKeys
          /\ s.todo = <<Ask("stop_poll", k), Scan("polls"), Scan("groups"), Flush>>
          /\ s.alone => polls \subseteq s.left \cup {k}
    BY <1>4 DEF UndoesPoll
  <2>2. /\ r.todo = <<Scan("polls"), Scan("groups"), Flush>> /\ r.left = s.left
        /\ Head(s.todo) = Ask("stop_poll", k)
    BY <2>1
  <2>3. r.alone => k \notin polls'
    BY <2>2 DEF Ask
  <2>4. ScansPolls(r)'
    BY <2>1, <2>2, <2>3 DEF ScansPolls
  <2>5. QED
    BY <2>4 DEF Stage
<1>5. CASE UndoesGroup(s)
  <2>1. PICK k \in GroupKeys :
          /\ s.left \subseteq GroupKeys
          /\ s.todo = <<Ask("del_group", k), Scan("groups"), Flush>>
          /\ s.alone => polls = {} /\ groups \subseteq s.left \cup {k}
    BY <1>5 DEF UndoesGroup
  <2>2. /\ r.todo = <<Scan("groups"), Flush>> /\ r.left = s.left
        /\ Head(s.todo) = Ask("del_group", k)
    BY <2>1
  <2>3. r.alone => k \notin groups'
    BY <2>2 DEF Ask
  <2>4. ScansGroups(r)'
    BY <2>1, <2>2, <2>3 DEF ScansGroups
  <2>5. QED
    BY <2>4 DEF Stage
<1>6. QED
  BY <1>1, <1>2, <1>3, <1>4, <1>5, StepKinds

LEMMA IdleIsRecord == Idle \in Records /\ Stage(Idle)'
<1>1. Idle \in Records
  BY DEF Idle, Records
<1>2. Idle.todo = <<>>
  BY DEF Idle
<1>3. QED
  BY <1>1, <1>2 DEF Stage

(* The table that is scanned, the request that undoes a key of it, and the *)
(* types of what a scan returns.                                           *)
LEMMA Scanned ==
  ASSUME Types, NEW c \in Clients, Stage(call[c]), Due(c, "scan")
  PROVE  /\ ScansPolls(call[c]) \/ ScansGroups(call[c])
         /\ ScansPolls(call[c]) => /\ Head(call[c].todo).op = "polls"
                                   /\ Tail(call[c].todo) = <<Scan("groups"), Flush>>
         /\ ScansGroups(call[c]) => /\ Head(call[c].todo).op = "groups"
                                    /\ Tail(call[c].todo) = <<Flush>>
<1>1. ScansPolls(call[c]) \/ ScansGroups(call[c])
  BY StepKinds DEF Due
<1>2. ASSUME NEW x, NEW y PROVE Head(<<Scan("polls"), x, y>>).op = "polls"
  BY DEF Scan
<1>3. ASSUME NEW x PROVE Head(<<Scan("groups"), x>>).op = "groups"
  BY DEF Scan
<1>4. ScansPolls(call[c]) => /\ Head(call[c].todo).op = "polls"
                             /\ Tail(call[c].todo) = <<Scan("groups"), Flush>>
  BY <1>2 DEF ScansPolls
<1>5. ScansGroups(call[c]) => /\ Head(call[c].todo).op = "groups"
                              /\ Tail(call[c].todo) = <<Flush>>
  BY <1>3 DEF ScansGroups
<1>6. QED
  BY <1>1, <1>4, <1>5

-----------------------------------------------------------------------------
(* A step of a client that has no request under way: the call becomes r.   *)
LEMMA OneStep ==
  ASSUME IInv, NEW c \in Clients, By(c) = {},
         NEW r \in Records, Stage(r)', ~r.waiting, call' = [call EXCEPT ![c] = r],
         reqs' = reqs, polls' = polls, groups' = groups, on' = on,
         counters' \subseteq counters, clean' \in BOOLEAN,
         clean' => clean \/ (polls = {} /\ groups = {} /\ counters' = {})
  PROVE  IInv'
<1>1. Types'
  BY DEF IInv, Types
<1>2. ASSUME NEW d \in Clients PROVE Stage(call[d])'
  <2>1. CASE d = c
    BY <2>1 DEF IInv, Types
  <2>2. CASE d # c
    <3>1. call'[d] = call[d]
      BY <2>2 DEF IInv, Types
    <3>2. Stage(call[d])
      BY DEF IInv
    <3> DEFINE s == call[d]
    <3>3. Stage(s) /\ call'[d] = s
      BY <3>1, <3>2
    <3> HIDE DEF s
    <3>4. QED
      BY <3>3, StageLasts
  <2>3. QED
    BY <2>1, <2>2
<1>3. ASSUME NEW d \in Clients PROVE Matched(d)'
  <2>1. By(d)' = By(d)
    BY DEF By
  <2>2. CASE d = c
    <3>1. call'[d] = r
      BY <2>2 DEF IInv, Types
    <3>2. QED
      BY <2>1, <2>2, <3>1 DEF Matched
  <2>3. CASE d # c
    <3>1. call'[d] = call[d] /\ Matched(d)
      BY <2>3 DEF IInv, Types
    <3>2. QED
      BY <2>1, <3>1 DEF Matched
  <2>4. QED
    BY <2>2, <2>3
<1>4. ClearComplete'
  BY DEF IInv, ClearComplete
<1>5. QED
  BY <1>1, <1>2, <1>3, <1>4 DEF IInv

(* A call begins with no step of it done.                                  *)
LEMMA CallKinds ==
  ASSUME NEW c \in Clients, NEW t \in Calls(c)
  PROVE  \/ \E a \in Asked : t = <<a>>
         \/ \E o \in Oids : t = <<Delete(o)>>
         \/ t = Clear_flex_counters
         \/ \E k \in PollKeys : t = Tidy(k)
<1>1. CASE t \in UNION {Set_flex_counter_group(k) : k \in GroupKeys}
  BY <1>1 DEF Set_flex_counter_group, Asked
<1>2. CASE t \in {Del_flex_counter_group(k) : k \in GroupKeys}
  BY <1>2 DEF Del_flex_counter_group, Asked
<1>3. CASE t \in {Start_flex_counter_poll(k) : k \in PollKeys}
              \cup {Stop_flex_counter_poll(k) : k \in PollKeys}
  BY <1>3 DEF Start_flex_counter_poll, Stop_flex_counter_poll, Asked
<1>4. CASE t \in {Del_flex_counter(o) : o \in Oids}
  BY <1>4 DEF Del_flex_counter
<1>5. CASE t \in TestCalls
  BY <1>5 DEF TestCalls
<1>6. QED
  BY <1>1, <1>2, <1>3, <1>4, <1>5 DEF Calls, SaiCommands

LEMMA StepsOfCalls ==
  /\ Clear_flex_counters \in Seq(Steps)
  /\ \A a \in Steps : <<a>> \in Seq(Steps)
  /\ \A k \in PollKeys : Tidy(k) \in Seq(Steps)
<1>1. Clear_flex_counters \in Seq(Steps)
  <2>1. Scan("polls") \in Steps /\ Scan("groups") \in Steps /\ Flush \in Steps
    BY DEF Steps
  <2>2. QED
    BY <2>1 DEF Clear_flex_counters
<1>2. ASSUME NEW k \in PollKeys PROVE Tidy(k) \in Seq(Steps)
  <2>1. <<k[1]>> \in GroupKeys /\ k[2] \in Oids
    BY DEF PollKeys, GroupKeys
  <2>2. Ask("stop_poll", k) \in Steps
    BY DEF Steps, Asked
  <2>3. Ask("del_group", <<k[1]>>) \in Steps /\ Delete(k[2]) \in Steps
    BY <2>1 DEF Steps, Asked
  <2>4. Tidy(k) = <<Ask("stop_poll", k), Ask("del_group", <<k[1]>>), Delete(k[2])>>
    BY TidySteps
  <2>5. QED
    BY <2>2, <2>3, <2>4
<1>3. QED
  BY <1>1, <1>2

(* The promise of test_port_counters()'s cleanup is about its own poll.    *)
LEMMA PromisesMeet ==
  /\ \A x : ~Promises(<<x>>)
  /\ \A k \in PollKeys : Promises(Tidy(k)) =>
       polls \subseteq {k} /\ groups \subseteq {<<k[1]>>} /\ counters \subseteq {k[2]}
<1>1. ASSUME NEW x PROVE ~Promises(<<x>>)
  <2>1. <<x>> # Clear_flex_counters
    BY DEF Clear_flex_counters
  <2>2. ASSUME NEW k \in PollKeys PROVE <<x>> # Tidy(k)
    <3>1. Tidy(k) = <<Ask("stop_poll", k), Ask("del_group", <<k[1]>>), Delete(k[2])>>
      BY TidySteps
    <3>2. QED
      BY <3>1
  <2>3. QED
    BY <2>1, <2>2 DEF Promises
<1>2. ASSUME NEW k \in PollKeys, Promises(Tidy(k))
      PROVE  polls \subseteq {k} /\ groups \subseteq {<<k[1]>>} /\ counters \subseteq {k[2]}
  <2>1. Tidy(k)[1] = Ask("stop_poll", k)
    <3>1. Tidy(k) = <<Ask("stop_poll", k), Ask("del_group", <<k[1]>>), Delete(k[2])>>
      BY TidySteps
    <3>2. QED
      BY <3>1
  <2>2. Tidy(k) # Clear_flex_counters
    <3>1. Clear_flex_counters[1] = Scan("polls")
      BY DEF Clear_flex_counters
    <3>2. Ask("stop_poll", k) # Scan("polls")
      BY DEF Ask, Scan
    <3>3. QED
      BY <2>1, <3>1, <3>2
  <2>3. PICK j \in PollKeys :
          /\ Tidy(k) = Tidy(j)
          /\ polls \subseteq {j} /\ groups \subseteq {<<j[1]>>} /\ counters \subseteq {j[2]}
    BY <1>2, <2>2 DEF Promises
  <2>4. Tidy(j)[1] = Ask("stop_poll", j)
    <3>1. Tidy(j) = <<Ask("stop_poll", j), Ask("del_group", <<j[1]>>), Delete(j[2])>>
      BY TidySteps
    <3>2. QED
      BY <3>1
  <2>5. k = j
    BY <2>1, <2>3, <2>4 DEF Ask
  <2>6. QED
    BY <2>3, <2>5
<1>3. QED
  BY <1>1, <1>2

LEMMA BeginStage ==
  ASSUME NEW c \in Clients, NEW t \in Calls(c),
         polls' = polls, groups' = groups, counters' = counters,
         NEW p \in BOOLEAN, p => Promises(t),
         NEW r, r = [todo |-> t, open |-> FALSE, left |-> {}, waiting |-> FALSE, alone |-> p]
  PROVE  r \in Records /\ Stage(r)'
<1>1. r = [todo |-> t, open |-> FALSE, left |-> {}, waiting |-> FALSE, alone |-> p]
  OBVIOUS
<1>2. t \in Seq(Steps) => r \in Records
  BY <1>1 DEF Records
<1>3. r.todo = t /\ r.left = {} /\ r.open = FALSE /\ r.alone = p
  BY <1>1
<1>4. CASE \E a \in Asked : t = <<a>>
  <2>1. t \in Seq(Steps)
    BY <1>4, StepsOfCalls DEF Steps
  <2>2. Asks(r)'
    BY <1>3, <1>4 DEF Asks
  <2>3. QED
    BY <1>2, <2>1, <2>2 DEF Stage
<1>5. CASE \E o \in Oids : t = <<Delete(o)>>
  <2>1. t \in Seq(Steps)
    BY <1>5, StepsOfCalls DEF Steps
  <2>2. ~r.alone
    BY <1>3, <1>5, PromisesMeet
  <2>3. Deletes(r)'
    BY <1>3, <1>5, <2>2 DEF Deletes
  <2>4. QED
    BY <1>2, <2>1, <2>3 DEF Stage
<1>6. CASE t = Clear_flex_counters
  <2>1. ScansPolls(r)'
    BY <1>3, <1>6 DEF ScansPolls, Clear_flex_counters
  <2>2. QED
    BY <1>2, <1>6, <2>1, StepsOfCalls DEF Stage
<1>7. CASE \E k \in PollKeys : t = Tidy(k)
  <2>1. PICK k \in PollKeys : t = Tidy(k)
    BY <1>7
  <2>2. r.alone => polls \subseteq {k} /\ groups \subseteq {<<k[1]>>} /\ counters \subseteq {k[2]}
    BY <1>3, <2>1, PromisesMeet
  <2>3. Tidies(r)'
    BY <1>3, <2>1, <2>2, TidySteps DEF Tidies
  <2>4. QED
    BY <1>2, <2>1, <2>3, StepsOfCalls DEF Stage
<1>8. QED
  BY <1>4, <1>5, <1>6, <1>7, CallKinds

LEMMA BeginStep ==
  ASSUME IInv, NEW c \in Clients, Begin(c)
  PROVE  IInv'
<1>1. PICK t \in Calls(c) :
        call' = [call EXCEPT ![c] = [Idle EXCEPT !.todo = t, !.alone = Promises(t)]]
  BY DEF Begin
<1>2. PICK p \in BOOLEAN : p = Promises(t)
  BY DEF Promises
<1>3. PICK r : r = [Idle EXCEPT !.todo = t, !.alone = p]
  OBVIOUS
<1>4. r = [todo |-> t, open |-> FALSE, left |-> {}, waiting |-> FALSE, alone |-> p]
  BY <1>3 DEF Idle
<1>5. call' = [call EXCEPT ![c] = r]
  BY <1>1, <1>2, <1>3, Zenon
<1>6. UNCHANGED <<polls, groups, on, counters, reqs, clean>> /\ call[c].todo = <<>>
  BY DEF Begin
<1>7. p => Promises(t)
  BY <1>2, Zenon
<1>8. r \in Records /\ Stage(r)'
  BY <1>4, <1>6, <1>7, BeginStage
<1>9. By(c) = {}
  BY <1>6 DEF IInv, Matched
<1>10. clean' \in BOOLEAN /\ ~r.waiting
  BY <1>4, <1>6 DEF IInv, Types
<1>11. QED
  BY <1>5, <1>6, <1>8, <1>9, <1>10, OneStep

LEMMA ScanStartStep ==
  ASSUME IInv, NEW c \in Clients, ScanStart(c)
  PROVE  IInv'
<1> DEFINE s == call[c]
<1>1. s \in Records /\ Stage(s) /\ Due(c, "scan")
  BY DEF IInv, Types, ScanStart
<1>2. PICK r : r = [s EXCEPT !.open = TRUE, !.left = Table(Head(s.todo).op)]
  OBVIOUS
<1>3. call' = [call EXCEPT ![c] = r]
  BY <1>2 DEF IInv, Types, Records, ScanStart
<1>4. UNCHANGED <<polls, groups, on, counters, reqs, clean>>
  BY DEF ScanStart
<1>5. By(c) = {}
  BY DEF ScanStart, Due, IInv, Matched
<1>6. Table(Head(s.todo).op) \subseteq Keys
  BY DEF Table, IInv, Types, Keys
<1>7. /\ r \in Records /\ r.todo = s.todo /\ r.left = Table(Head(s.todo).op)
      /\ r.alone = s.alone /\ ~r.waiting
  BY <1>1, <1>2, <1>6 DEF Records, Due
<1>8. Stage(r)'
  <2>1. CASE ScansPolls(s)
    <3>1. r.left = polls /\ polls \subseteq PollKeys
      BY <1>1, <1>7, <2>1, Scanned DEF Table, IInv, Types
    <3>2. ScansPolls(r)'
      BY <1>4, <1>7, <2>1, <3>1 DEF ScansPolls
    <3>3. QED
      BY <3>2 DEF Stage
  <2>2. CASE ScansGroups(s)
    <3>1. r.left = groups /\ groups \subseteq GroupKeys
      BY <1>1, <1>7, <2>2, Scanned DEF Table, IInv, Types
    <3>2. ScansGroups(r)'
      BY <1>4, <1>7, <2>2, <3>1 DEF ScansGroups
    <3>3. QED
      BY <3>2 DEF Stage
  <2>3. QED
    BY <1>1, <2>1, <2>2, Scanned DEF IInv
<1>9. clean' \in BOOLEAN
  BY <1>4 DEF IInv, Types
<1>10. QED
  BY <1>3, <1>4, <1>5, <1>7, <1>8, <1>9, OneStep

LEMMA ScanKeyStep ==
  ASSUME IInv, NEW c \in Clients, ScanKey(c)
  PROVE  IInv'
<1> DEFINE s == call[c]
           t == Head(s.todo).op
<1>1. s \in Records /\ Stage(s) /\ Due(c, "scan") /\ s.open
  BY DEF IInv, Types, ScanKey
<1>2. PICK k \in s.left \cup Table(t) :
        call' = [call EXCEPT ![c].todo = <<Undo(t, k)>> \o @, ![c].left = @ \ {k}]
  BY DEF ScanKey
<1>3. PICK r : r = [s EXCEPT !.todo = <<Undo(t, k)>> \o s.todo, !.left = s.left \ {k}]
  OBVIOUS
<1>4. call' = [call EXCEPT ![c] = r]
  BY <1>2, <1>3 DEF IInv, Types, Records
<1>5. UNCHANGED <<polls, groups, on, counters, reqs, clean>>
  BY DEF ScanKey
<1>6. By(c) = {}
  BY DEF ScanKey, Due, IInv, Matched
<1>7. clean' \in BOOLEAN
  BY <1>5 DEF IInv, Types
<1>8. /\ r.todo = <<Undo(t, k)>> \o s.todo /\ r.left = s.left \ {k}
      /\ r.alone = s.alone /\ r.open = s.open /\ ~r.waiting
  BY <1>1, <1>3 DEF Records, Due
<1>9. r.todo \in Seq(Steps) => r \in Records
  <2>1. r.left \subseteq Keys
    BY <1>1, <1>8 DEF Records
  <2>2. QED
    BY <1>1, <1>3, <1>8, <2>1 DEF Records
<1>10. r.todo \in Seq(Steps) /\ Stage(r)'
  <2>1. CASE ScansPolls(s)
    <3>1. t = "polls" /\ k \in PollKeys
      BY <1>1, <2>1, Scanned DEF Table, IInv, Types, ScansPolls
    <3>2. Undo(t, k) = Ask("stop_poll", k)
      BY <3>1 DEF Undo
    <3>3. r.todo = <<Ask("stop_poll", k), Scan("polls"), Scan("groups"), Flush>>
      <4>1. r.todo = <<Ask("stop_poll", k)>> \o <<Scan("polls"), Scan("groups"), Flush>>
        BY <1>8, <2>1, <3>2 DEF ScansPolls
      <4>2. <<Ask("stop_poll", k)>> \o <<Scan("polls"), Scan("groups"), Flush>>
              = <<Ask("stop_poll", k), Scan("polls"), Scan("groups"), Flush>>
        BY FourJoined, Zenon
      <4>3. QED
        BY <4>1, <4>2, Zenon
    <3>4. s.alone => polls \subseteq s.left
      BY <1>1, <2>1 DEF ScansPolls
    <3>5. UndoesPoll(r)'
      BY <1>5, <1>8, <2>1, <3>1, <3>3, <3>4 DEF UndoesPoll, ScansPolls
    <3>6. Ask("stop_poll", k) \in Steps
      BY <3>1 DEF Steps, Asked
    <3>7. r.todo \in Seq(Steps)
      BY <3>3, <3>6 DEF Steps
    <3>8. QED
      BY <3>5, <3>7 DEF Stage
  <2>2. CASE ScansGroups(s)
    <3>1. t = "groups" /\ k \in GroupKeys
      BY <1>1, <2>2, Scanned DEF Table, IInv, Types, ScansGroups
    <3>2. Undo(t, k) = Ask("del_group", k)
      BY <3>1 DEF Undo
    <3>3. r.todo = <<Ask("del_group", k), Scan("groups"), Flush>>
      <4>1. r.todo = <<Ask("del_group", k)>> \o <<Scan("groups"), Flush>>
        BY <1>8, <2>2, <3>2 DEF ScansGroups
      <4>2. <<Ask("del_group", k)>> \o <<Scan("groups"), Flush>>
              = <<Ask("del_group", k), Scan("groups"), Flush>>
        BY JoinedTuples
      <4>3. QED
        BY <4>1, <4>2, Zenon
    <3>4. s.alone => polls = {} /\ groups \subseteq s.left
      BY <1>1, <2>2 DEF ScansGroups
    <3>5. UndoesGroup(r)'
      BY <1>5, <1>8, <2>2, <3>1, <3>3, <3>4 DEF UndoesGroup, ScansGroups
    <3>6. Ask("del_group", k) \in Steps
      BY <3>1 DEF Steps, Asked
    <3>7. r.todo \in Seq(Steps)
      BY <3>3, <3>6 DEF Steps
    <3>8. QED
      BY <3>5, <3>7 DEF Stage
  <2>3. QED
    BY <1>1, <2>1, <2>2, Scanned DEF IInv
<1>11. QED
  BY <1>4, <1>5, <1>6, <1>7, <1>8, <1>9, <1>10, OneStep

LEMMA ScanEndStep ==
  ASSUME IInv, NEW c \in Clients, ScanEnd(c)
  PROVE  IInv'
<1> DEFINE s == call[c]
           rest == Tail(s.todo)
<1>1. s \in Records /\ Stage(s) /\ Due(c, "scan") /\ s.open
  BY DEF IInv, Types, ScanEnd
<1>2. rest # <<>>
  BY <1>1, Scanned DEF IInv
<1>3. PICK r : r = [s EXCEPT !.open = FALSE, !.left = {}, !.todo = rest]
  OBVIOUS
<1>4. r = After([s EXCEPT !.open = FALSE, !.left = {}], rest)
  BY <1>1, <1>2, <1>3 DEF After, Records
<1>5. call' = [call EXCEPT ![c] = r]
  BY <1>4 DEF ScanEnd
<1>6. UNCHANGED <<polls, groups, on, counters, reqs>>
  BY DEF ScanEnd
<1>7. By(c) = {}
  BY DEF ScanEnd, Due, IInv, Matched
<1>8. clean' = clean
  BY <1>2 DEF ScanEnd, Promised, IInv, Types
<1>9. r.todo = rest /\ r.left = {} /\ r.open = FALSE /\ r.alone = s.alone /\ ~r.waiting
  BY <1>1, <1>3 DEF Records, Due
<1>10. r \in Records
  <2>1. s.todo \in Seq(Steps) /\ s.todo # <<>>
    BY <1>1 DEF Records, Due
  <2>2. rest \in Seq(Steps)
    BY <2>1, HeadTailProperties
  <2>3. QED
    BY <1>1, <1>3, <2>2 DEF Records
<1>11. s.left \cap Table(Head(s.todo).op) = {}
  BY DEF ScanEnd
<1>12. Stage(r)'
  <2>1. CASE ScansPolls(s)
    <3>1. rest = <<Scan("groups"), Flush>> /\ s.left \cap polls = {}
      BY <1>1, <1>11, <2>1, Scanned DEF Table, IInv
    <3>2. s.alone => polls = {}
      BY <1>1, <2>1, <3>1 DEF ScansPolls
    <3>3. ScansGroups(r)'
      BY <1>6, <1>9, <3>1, <3>2 DEF ScansGroups
    <3>4. QED
      BY <3>3 DEF Stage
  <2>2. CASE ScansGroups(s)
    <3>1. rest = <<Flush>> /\ s.left \cap groups = {}
      BY <1>1, <1>11, <2>2, Scanned DEF Table, IInv
    <3>2. s.alone => polls = {} /\ groups = {}
      BY <1>1, <2>2, <3>1 DEF ScansGroups
    <3>3. Flushes(r)'
      BY <1>6, <1>9, <3>1, <3>2 DEF Flushes
    <3>4. QED
      BY <3>3 DEF Stage
  <2>3. QED
    BY <1>1, <2>1, <2>2, Scanned DEF IInv
<1>13. clean' \in BOOLEAN
  BY <1>8 DEF IInv, Types
<1>14. QED
  BY <1>5, <1>6, <1>7, <1>8, <1>9, <1>10, <1>12, <1>13, OneStep

LEMMA EraseStep ==
  ASSUME IInv, NEW c \in Clients, Erase(c)
  PROVE  IInv'
<1> DEFINE s == call[c]
           rest == Tail(s.todo)
<1>1. s \in Records /\ Stage(s) /\ s.todo # <<>>
  BY DEF IInv, Types, Erase, Due
<1>2. /\ rest = <<>>
      /\ s.alone => polls = {} /\ groups = {} /\ counters' = {}
  <2>1. CASE Due(c, "flush")
    <3>1. Flushes(s)
      BY <1>1, <2>1, StepKinds DEF Due
    <3>2. counters' = {}
      BY <2>1 DEF Erase
    <3>3. QED
      BY <3>1, <3>2 DEF Flushes
  <2>2. CASE ~Due(c, "flush")
    <3>1. Due(c, "delete") /\ counters' = counters \ {Head(s.todo).key[1]}
      BY <2>2 DEF Erase
    <3>2. Deletes(s)
      BY <1>1, <3>1, StepKinds DEF Due
    <3>3. PICK o \in Oids :
            /\ s.todo = <<Delete(o)>>
            /\ s.alone => polls = {} /\ groups = {} /\ counters \subseteq {o}
      BY <3>2 DEF Deletes
    <3>4. Head(s.todo).key[1] = o
      BY <3>3 DEF Delete
    <3>5. QED
      BY <3>1, <3>3, <3>4
  <2>3. QED
    BY <2>1, <2>2
<1>3. counters' \subseteq counters
  BY DEF Erase
<1>4. call' = [call EXCEPT ![c] = Idle]
  BY <1>2 DEF Erase, After
<1>5. UNCHANGED <<polls, groups, on, reqs>> /\ clean' = (clean \/ Promised(c, rest))
  BY DEF Erase
<1>6. Promised(c, rest) => polls = {} /\ groups = {} /\ counters' = {}
  BY <1>2 DEF Promised
<1>7. By(c) = {}
  BY DEF Erase, Due, IInv, Matched
<1>8. clean' \in BOOLEAN
  BY <1>5
<1>9. clean' => clean \/ (polls = {} /\ groups = {} /\ counters' = {})
  BY <1>5, <1>6
<1>10. PICK r : r = Idle
  OBVIOUS
<1>11. r \in Records /\ Stage(r)' /\ ~r.waiting
  <2>1. r.todo = <<>> /\ ~r.waiting
    BY <1>10 DEF Idle
  <2>2. QED
    BY <1>10, <2>1, IdleIsRecord DEF Stage
<1>12. call' = [call EXCEPT ![c] = r]
  BY <1>4, <1>10
<1>13. QED
  BY <1>3, <1>5, <1>7, <1>8, <1>9, <1>11, <1>12, OneStep

LEMMA PollStep ==
  ASSUME IInv, Poll
  PROVE  IInv'
<1>1. PICK k \in polls : counters' = counters \cup {k[2]}
  BY DEF Poll
<1>2. UNCHANGED <<polls, groups, on, reqs, call, clean>>
  BY DEF Poll
<1>3. k[2] \in Oids
  BY <1>1 DEF IInv, Types, PollKeys
<1>4. Types'
  BY <1>1, <1>2, <1>3 DEF IInv, Types
<1>5. ASSUME NEW c \in Clients PROVE Stage(call[c])'
  <2>1. PICK s : s = call[c]
    OBVIOUS
  <2>2. Stage(s) /\ call'[c] = s
    BY <1>2, <2>1 DEF IInv
  <2>3. Stage(s)'
    BY <1>1, <1>2, <2>2, StageLasts
  <2>4. QED
    BY <2>2, <2>3
<1>6. ASSUME NEW c \in Clients PROVE Matched(c)'
  BY <1>2 DEF IInv, Matched, By
<1>7. ClearComplete'
  BY <1>1, <1>2 DEF IInv, ClearComplete
<1>8. QED
  BY <1>4, <1>5, <1>6, <1>7 DEF IInv

LEMMA SendStep ==
  ASSUME IInv, NEW c \in Clients, Send(c)
  PROVE  IInv'
<1> DEFINE s == call[c]
           q == [by |-> c, op |-> Head(s.todo).op, key |-> Head(s.todo).key]
<1>1. s \in Records /\ Stage(s) /\ s.todo # <<>> /\ Head(s.todo).do = "ask" /\ ~s.waiting
  BY DEF IInv, Types, Send, Due
<1>2. reqs' = Append(reqs, q) /\ UNCHANGED <<polls, groups, on, counters, clean>>
  BY DEF Send
<1>3. Head(s.todo) \in Asked
  <2>1. Head(s.todo) \in Steps
    BY <1>1, HeadTailProperties DEF Records
  <2>2. QED
    BY <1>1, <2>1 DEF Steps, Scan, Delete, Flush
<1>4. q \in Requests /\ Head(s.todo) = Ask(q.op, q.key)
  BY <1>3 DEF Asked, Ask, Requests
<1>5. PICK r : r = [s EXCEPT !.waiting = TRUE]
  OBVIOUS
<1>6. call' = [call EXCEPT ![c] = r]
  BY <1>5 DEF IInv, Types, Records, Send
<1>7. /\ r \in Records /\ r.waiting /\ r.todo = s.todo /\ r.left = s.left
      /\ r.alone = s.alone /\ r.open = s.open
  BY <1>1, <1>5 DEF Records
<1> HIDE DEF q
<1>8. reqs \in Seq(Requests) /\ Len(reqs) \in Nat
  BY DEF IInv, Types
<1>9. /\ reqs' \in Seq(Requests)
      /\ DOMAIN reqs' = DOMAIN reqs \cup {Len(reqs) + 1}
      /\ Len(reqs) + 1 \notin DOMAIN reqs
      /\ reqs'[Len(reqs) + 1] = q
      /\ \A i \in DOMAIN reqs : reqs'[i] = reqs[i]
  BY <1>2, <1>4, <1>8
<1>10. Types'
  BY <1>2, <1>6, <1>7, <1>9 DEF IInv, Types
<1>11. Stage(r)'
  <2>1. Stage(r)
    BY <1>1, <1>7 DEF Stage, Asks, Deletes, Tidies, TidiesOn, ScansPolls, UndoesPoll,
                      ScansGroups, UndoesGroup, Flushes
  <2>2. QED
    BY <1>2, <2>1, StageLasts
<1>12. ASSUME NEW d \in Clients PROVE Stage(call[d])' /\ Matched(d)'
  <2>1. CASE d = c
    <3>1. By(c) = {} /\ q.by = c
      BY <1>1 DEF IInv, Matched, q
    <3>2. By(c)' = {Len(reqs) + 1}
      BY <1>9, <3>1 DEF By
    <3>3. call'[c] = r
      BY <1>6 DEF IInv, Types
    <3>4. Matched(c)'
      BY <1>1, <1>4, <1>7, <1>9, <3>2, <3>3 DEF Matched
    <3>5. QED
      BY <1>11, <2>1, <3>3, <3>4
  <2>2. CASE d # c
    <3>1. PICK e : e = call[d]
      OBVIOUS
    <3>2. call'[d] = e /\ Stage(e) /\ Matched(d) /\ q.by # d
      BY <1>6, <2>2, <3>1 DEF IInv, Types, q
    <3>3. Stage(e)'
      BY <1>2, <3>2, StageLasts
    <3>4. By(d)' = By(d)
      BY <1>9, <3>2 DEF By
    <3>5. \A i \in By(d) : reqs'[i] = reqs[i]
      BY <1>9 DEF By
    <3>6. Matched(d)'
      BY <3>1, <3>2, <3>4, <3>5 DEF Matched
    <3>7. QED
      BY <3>2, <3>3, <3>6
  <2>3. QED
    BY <2>1, <2>2
<1>13. ClearComplete'
  BY <1>2 DEF IInv, ClearComplete
<1>14. QED
  BY <1>10, <1>12, <1>13 DEF IInv

-----------------------------------------------------------------------------
(* Requests whose client goes on are nobody's; nothing else changes.       *)
LEMMA OrphanedRequests ==
  ASSUME Types, NEW x
  PROVE  /\ Orphaned(x) \in Seq(Requests)
         /\ Len(Orphaned(x)) = Len(reqs) /\ DOMAIN Orphaned(x) = DOMAIN reqs
         /\ \A i \in DOMAIN reqs :
              /\ Orphaned(x)[i].op = reqs[i].op /\ Orphaned(x)[i].key = reqs[i].key
              /\ Orphaned(x)[i].by = IF reqs[i].by = x THEN Nobody ELSE reqs[i].by
<1> DEFINE e(i) == IF i \in By(x) THEN [reqs[i] EXCEPT !.by = Nobody] ELSE reqs[i]
<1>1. /\ reqs \in Seq(Requests) /\ Len(reqs) \in Nat /\ DOMAIN reqs = 1..Len(reqs)
      /\ \A i \in DOMAIN reqs : reqs[i] \in Requests
  BY DEF Types
<1>2. ASSUME NEW r \in Requests
      PROVE  /\ [r EXCEPT !.by = Nobody] \in Requests
             /\ [r EXCEPT !.by = Nobody].op = r.op
             /\ [r EXCEPT !.by = Nobody].key = r.key
             /\ [r EXCEPT !.by = Nobody].by = Nobody
  BY DEF Requests
<1>3. ASSUME NEW i \in DOMAIN reqs
      PROVE  /\ e(i) \in Requests /\ e(i).op = reqs[i].op /\ e(i).key = reqs[i].key
             /\ e(i).by = IF reqs[i].by = x THEN Nobody ELSE reqs[i].by
  <2>1. CASE reqs[i].by = x
    <3>1. e(i) = [reqs[i] EXCEPT !.by = Nobody]
      BY <2>1 DEF By
    <3>2. QED
      BY <1>1, <1>2, <2>1, <3>1
  <2>2. CASE reqs[i].by # x
    BY <1>1, <2>2 DEF By
  <2>3. QED
    BY <2>1, <2>2
<1>4. Orphaned(x) = [i \in DOMAIN reqs |-> e(i)]
  BY DEF Orphaned
<1> HIDE DEF e
<1>5. Orphaned(x) \in Seq(Requests) /\ Len(Orphaned(x)) = Len(reqs)
  BY <1>1, <1>3, <1>4
<1>6. QED
  BY <1>1, <1>3, <1>4, <1>5

LEMMA GiveUpStep ==
  ASSUME IInv, NEW c \in Clients, GiveUp(c)
  PROVE  IInv'
<1>1. reqs' = Orphaned(c) /\ call' = [call EXCEPT ![c] = Idle]
  BY DEF GiveUp
<1>2. UNCHANGED <<polls, groups, on, counters, clean>>
  BY DEF GiveUp
<1>3. /\ reqs' \in Seq(Requests) /\ DOMAIN reqs' = DOMAIN reqs
      /\ \A i \in DOMAIN reqs :
           /\ reqs'[i].op = reqs[i].op /\ reqs'[i].key = reqs[i].key
           /\ reqs'[i].by = IF reqs[i].by = c THEN Nobody ELSE reqs[i].by
  BY <1>1, OrphanedRequests DEF IInv
<1>4. Types'
  BY <1>1, <1>2, <1>3, IdleIsRecord DEF IInv, Types
<1>5. ASSUME NEW d \in Clients PROVE Stage(call[d])' /\ Matched(d)'
  <2>1. CASE d = c
    <3>1. call'[d] = Idle /\ By(d)' = {}
      BY <1>1, <1>3, <2>1, FlexAssumption DEF IInv, Types, By
    <3>2. Idle.todo = <<>> /\ ~Idle.waiting
      BY DEF Idle
    <3>3. QED
      BY <3>1, <3>2 DEF Stage, Matched
  <2>2. CASE d # c
    <3>1. PICK e : e = call[d]
      OBVIOUS
    <3>2. call'[d] = e /\ Stage(e) /\ Matched(d)
      BY <1>1, <2>2, <3>1 DEF IInv, Types
    <3>3. Stage(e)'
      BY <1>2, <3>2, StageLasts
    <3>4. By(d)' = By(d) /\ By(d) \subseteq DOMAIN reqs
      BY <1>3, <2>2, FlexAssumption DEF By
    <3>5. Matched(d)'
      BY <1>3, <3>1, <3>2, <3>4 DEF Matched
    <3>6. QED
      BY <3>2, <3>3, <3>5
  <2>3. QED
    BY <2>1, <2>2
<1>6. ClearComplete'
  BY <1>2 DEF IInv, ClearComplete
<1>7. QED
  BY <1>4, <1>5, <1>6 DEF IInv

(* The first request is gone, and so are those of the client that has read *)
(* its answer.                                                             *)
LEMMA ServedRequests ==
  ASSUME IInv, reqs # <<>>, NEW to,
         reqs' = Tail(IF to = Head(reqs).by THEN reqs ELSE Orphaned(to))
  PROVE  /\ reqs' \in Seq(Requests) /\ Head(reqs) \in Requests
         /\ \A d \in Clients :
              /\ d = to => By(d)' = {}
              /\ d # to => \A i \in By(d)' :
                             /\ i + 1 \in By(d)
                             /\ reqs'[i].op = reqs[i + 1].op /\ reqs'[i].key = reqs[i + 1].key
<1>1. PICK q : q = IF to = Head(reqs).by THEN reqs ELSE Orphaned(to)
  OBVIOUS
<1>2. reqs \in Seq(Requests) /\ Len(reqs) \in Nat /\ DOMAIN reqs = 1..Len(reqs)
  BY DEF IInv, Types
<1>3. /\ q \in Seq(Requests) /\ Len(q) = Len(reqs) /\ q # <<>>
      /\ \A i \in DOMAIN reqs :
           /\ q[i].op = reqs[i].op /\ q[i].key = reqs[i].key
           /\ \A d \in Clients : q[i].by = d => reqs[i].by = d
           /\ to \in Clients /\ q[i].by = to => to = Head(reqs).by
  <2>1. CASE to = Head(reqs).by
    BY <1>1, <1>2, <2>1
  <2>2. CASE to # Head(reqs).by
    <3>1. q = Orphaned(to)
      BY <1>1, <2>2
    <3>2. /\ q \in Seq(Requests) /\ Len(q) = Len(reqs)
          /\ \A i \in DOMAIN reqs :
               /\ q[i].op = reqs[i].op /\ q[i].key = reqs[i].key
               /\ q[i].by = IF reqs[i].by = to THEN Nobody ELSE reqs[i].by
      BY <3>1, OrphanedRequests DEF IInv
    <3>3. q # <<>>
      BY <1>2, <3>2
    <3>4. ASSUME NEW i \in DOMAIN reqs, NEW d \in Clients, q[i].by = d
          PROVE  reqs[i].by = d /\ d # to
      <4>1. d # Nobody
        BY FlexAssumption
      <4>2. QED
        BY <3>2, <3>4, <4>1
    <3>5. QED
      BY <3>2, <3>3, <3>4
  <2>3. QED
    BY <2>1, <2>2
<1>4. /\ reqs' = Tail(q) /\ reqs' \in Seq(Requests) /\ Len(reqs') = Len(q) - 1
      /\ \A i \in 1..Len(reqs') : reqs'[i] = q[i + 1]
  BY <1>1, <1>3, HeadTailProperties
<1>5. Head(reqs) \in Requests /\ 1 \in DOMAIN reqs /\ Head(reqs) = reqs[1]
  BY <1>2
<1>6. ASSUME NEW i \in DOMAIN reqs'
      PROVE  i \in Nat \ {0} /\ i + 1 \in DOMAIN reqs /\ reqs'[i] = q[i + 1]
  <2>1. i \in 1..Len(reqs')
    BY <1>4
  <2>2. QED
    BY <1>2, <1>3, <1>4, <2>1
<1>7. ASSUME NEW d \in Clients, NEW i \in By(d)'
      PROVE  /\ d # to /\ i + 1 \in By(d)
             /\ reqs'[i].op = reqs[i + 1].op /\ reqs'[i].key = reqs[i + 1].key
  <2>1. i \in DOMAIN reqs' /\ reqs'[i].by = d
    BY DEF By
  <2>2. i + 1 \in By(d)
    BY <1>3, <1>6, <2>1 DEF By
  <2>3. ASSUME d = to PROVE FALSE
    <3>1. 1 \in By(d)
      BY <1>3, <1>5, <1>6, <2>1, <2>3 DEF By
    <3>2. i + 1 = 1
      BY <2>2, <3>1 DEF IInv, Matched
    <3>3. QED
      BY <1>6, <2>1, <3>2
  <2>4. QED
    BY <1>3, <1>6, <2>1, <2>2, <2>3
<1>8. QED
  BY <1>4, <1>5, <1>7

LEMMA CarriedOut ==
  ASSUME Types, NEW r \in Requests, Carried(r)
  PROVE  /\ polls' \subseteq PollKeys /\ groups' \subseteq GroupKeys /\ on' \subseteq GroupKeys
         /\ ~SetsUp(r) => polls' \subseteq polls /\ groups' \subseteq groups
         /\ r.op = "stop_poll" => r.key \notin polls'
         /\ r.op = "del_group" => r.key \notin groups'
<1>1. /\ r.op \in {"enable", "disable", "del_group"} => r.key \in GroupKeys
      /\ r.op \in {"start_poll", "stop_poll"} => r.key \in PollKeys
      /\ r.op \in {"enable", "disable", "del_group", "start_poll", "stop_poll"}
  BY DEF Requests
<1>2. CASE r.op \in {"enable", "disable"}
  BY <1>1, <1>2 DEF Carried, Types, SetsUp
<1>3. CASE r.op = "del_group"
  BY <1>1, <1>3 DEF Carried, Types, SetsUp
<1>4. CASE r.op = "start_poll"
  BY <1>1, <1>4 DEF Carried, Types, SetsUp
<1>5. CASE r.op = "stop_poll"
  BY <1>1, <1>5 DEF Carried, Types, SetsUp
<1>6. QED
  BY <1>1, <1>2, <1>3, <1>4, <1>5

LEMMA AnsweredCall ==
  ASSUME IInv, NEW c \in Clients, call[c].waiting, NEW ok \in BOOLEAN,
         NEW a, a = Answered(c, ok)
  PROVE  /\ a \in Records /\ ~a.waiting
         /\ a.alone => call[c].alone
         /\ ok => a.todo = Tail(call[c].todo)
         /\ ~ok => a.todo = <<>>
         /\ a.todo # <<>> => a.left = call[c].left
<1> DEFINE s == call[c]
<1>1. s \in Records /\ s.todo # <<>>
  BY DEF IInv, Types, Matched
<1>2. Tail(s.todo) \in Seq(Steps)
  BY <1>1, HeadTailProperties DEF Records
<1>3. Idle \in Records /\ ~Idle.waiting /\ ~Idle.alone /\ Idle.todo = <<>>
  BY IdleIsRecord DEF Idle
<1>4. CASE ~ok \/ Tail(s.todo) = <<>>
  <2>1. a = Idle
    BY <1>4 DEF Answered, After
  <2>2. QED
    BY <1>3, <1>4, <2>1
<1>5. CASE ok /\ Tail(s.todo) # <<>>
  <2>1. PICK w : w = [s EXCEPT !.waiting = FALSE]
    OBVIOUS
  <2>2. /\ w \in Records /\ w.todo = s.todo /\ w.left = s.left /\ w.alone = s.alone
        /\ w.waiting = FALSE
    BY <1>1, <2>1 DEF Records
  <2>3. a = [w EXCEPT !.todo = Tail(s.todo)]
    BY <1>5, <2>1 DEF Answered, After
  <2>4. /\ a \in Records /\ a.todo = Tail(s.todo) /\ a.left = w.left /\ a.alone = w.alone
        /\ a.waiting = w.waiting
    BY <1>2, <2>2, <2>3 DEF Records
  <2>5. QED
    BY <1>5, <2>2, <2>4
<1>6. QED
  BY <1>4, <1>5

LEMMA DisturbedRecord ==
  ASSUME NEW s \in Records
  PROVE  /\ Disturbed(s) \in Records /\ Disturbed(s).todo = s.todo
         /\ Disturbed(s).left = s.left /\ Disturbed(s).waiting = s.waiting
         /\ Disturbed(s).alone = FALSE
BY DEF Records, Disturbed

LEMMA ServeStep ==
  ASSUME IInv, Serve
  PROVE  IInv'
<1> DEFINE r == Head(reqs)
<1>1. PICK ok \in BOOLEAN, to \in {c \in Clients : call[c].waiting} \cup {Nobody} :
        LET setUp == ok /\ SetsUp(r)
            now == [c \in Clients |-> IF c = to THEN Answered(c, ok) ELSE call[c]]
        IN
        /\ IF ok THEN Carried(r) ELSE UNCHANGED <<polls, groups, on>>
        /\ reqs' = Tail(IF to = r.by THEN reqs ELSE Orphaned(to))
        /\ call' = [c \in Clients |->
                      IF setUp \/ (c = to /\ to # r.by) THEN [now[c] EXCEPT !.alone = FALSE]
                      ELSE now[c]]
        /\ clean' = (clean /\ ~setUp)
  BY DEF Serve
<1>2. reqs # <<>> /\ UNCHANGED counters
  BY DEF Serve
<1> DEFINE setUp == ok /\ SetsUp(r)
<1>3. /\ reqs' \in Seq(Requests) /\ r \in Requests
      /\ \A d \in Clients :
           /\ d = to => By(d)' = {}
           /\ d # to => \A i \in By(d)' :
                          /\ i + 1 \in By(d)
                          /\ reqs'[i].op = reqs[i + 1].op /\ reqs'[i].key = reqs[i + 1].key
  BY <1>1, <1>2, ServedRequests
<1>4. /\ polls' \subseteq PollKeys /\ groups' \subseteq GroupKeys /\ on' \subseteq GroupKeys
      /\ ~setUp => polls' \subseteq polls /\ groups' \subseteq groups
      /\ ok /\ r.op = "stop_poll" => r.key \notin polls'
      /\ ok /\ r.op = "del_group" => r.key \notin groups'
  <2>1. CASE ok
    BY <1>1, <1>3, <2>1, CarriedOut DEF IInv
  <2>2. CASE ~ok
    BY <1>1, <2>2 DEF IInv, Types
  <2>3. QED
    BY <2>1, <2>2
<1>5. clean' \in BOOLEAN /\ (clean' => clean /\ ~setUp)
  BY <1>1
<1>6. ASSUME NEW d \in Clients, d # to
      PROVE  call'[d] = IF setUp THEN Disturbed(call[d]) ELSE call[d]
  BY <1>1, <1>6 DEF Disturbed
<1>7. ASSUME NEW d \in Clients, d = to
      PROVE  call'[d] = IF setUp \/ to # r.by THEN Disturbed(Answered(d, ok)) ELSE Answered(d, ok)
  BY <1>1, <1>7 DEF Disturbed
<1>8. DOMAIN call' = Clients /\ call' = [d \in Clients |-> call'[d]]
  BY <1>1
<1> HIDE DEF setUp
<1>9. ASSUME NEW d \in Clients
      PROVE  call'[d] \in Records /\ Stage(call[d])' /\ Matched(d)'
  <2>1. CASE d # to
    <3>1. PICK s : s = call[d]
      OBVIOUS
    <3>2. PICK e : e = call'[d]
      OBVIOUS
    <3>3. s \in Records /\ Stage(s) /\ Matched(d) /\ e = IF setUp THEN Disturbed(s) ELSE s
      BY <1>6, <2>1, <3>1, <3>2 DEF IInv, Types
    <3>4. e \in Records /\ e.todo = s.todo /\ e.waiting = s.waiting
      BY <3>3, DisturbedRecord
    <3>5. Stage(e)'
      <4>1. CASE setUp
        BY <3>3, <4>1, StageDisturbed
      <4>2. CASE ~setUp
        BY <1>2, <1>4, <3>3, <4>2, StageLasts
      <4>3. QED
        BY <4>1, <4>2
    <3>6. Matched(d)'
      <4>1. \A i \in By(d)' : /\ i + 1 \in By(d)
                              /\ reqs'[i].op = reqs[i + 1].op /\ reqs'[i].key = reqs[i + 1].key
        BY <1>3, <2>1
      <4>2. \A i, j \in By(d)' : i = j
        <5>1. By(d)' \subseteq Nat
          BY <1>3 DEF By
        <5>2. QED
          BY <3>3, <4>1, <5>1 DEF Matched
      <4>3. ASSUME NEW i \in By(d)'
            PROVE  /\ e.waiting /\ e.todo # <<>>
                   /\ Head(e.todo) = Ask(reqs'[i].op, reqs'[i].key)
        BY <3>1, <3>3, <3>4, <4>1 DEF Matched
      <4>4. e.waiting => e.todo # <<>> /\ Head(e.todo).do = "ask"
        BY <3>1, <3>3, <3>4 DEF Matched
      <4>5. QED
        BY <3>2, <4>2, <4>3, <4>4 DEF Matched
    <3>7. QED
      BY <3>2, <3>4, <3>5, <3>6
  <2>2. CASE d = to
    <3>1. PICK s : s = call[d]
      OBVIOUS
    <3>2. s.waiting /\ s \in Records /\ Stage(s) /\ Matched(d)
      BY <2>2, <3>1, FlexAssumption DEF IInv, Types
    <3>3. s.todo # <<>> /\ Head(s.todo).do = "ask"
      BY <3>1, <3>2 DEF Matched
    <3>4. PICK a : a = Answered(d, ok)
      OBVIOUS
    <3>5. /\ a \in Records /\ ~a.waiting
          /\ a.alone => s.alone
          /\ ok => a.todo = Tail(s.todo)
          /\ ~ok => a.todo = <<>>
          /\ a.todo # <<>> => a.left = s.left
      BY <3>1, <3>2, <3>4, AnsweredCall
    <3>6. PICK e : e = call'[d]
      OBVIOUS
    <3>7. e = IF setUp \/ to # r.by THEN Disturbed(a) ELSE a
      BY <1>7, <2>2, <3>4, <3>6
    <3>8. /\ e \in Records /\ ~e.waiting /\ e.todo = a.todo /\ e.left = a.left
          /\ e.alone => a.alone /\ ~setUp /\ to = r.by
      BY <3>5, <3>7, DisturbedRecord
    <3>9. Stage(e)'
      <4>1. CASE ~ok
        BY <3>5, <3>8, <4>1 DEF Stage
      <4>2. CASE ok
        <5>1. e.alone => Head(s.todo) = Ask(r.op, r.key)
          <6>1. e.alone => 1 \in By(d) /\ reqs[1] = r
            BY <1>2, <2>2, <3>8 DEF By, IInv, Types
          <6>2. QED
            BY <3>1, <3>2, <6>1 DEF Matched
        <5>2. e.alone => Head(s.todo).op = r.op /\ Head(s.todo).key = r.key
          BY <5>1 DEF Ask
        <5>3. e.alone => /\ s.alone
                         /\ polls' \subseteq polls /\ groups' \subseteq groups /\ counters' = counters
                         /\ Head(s.todo).op = "stop_poll" => Head(s.todo).key \notin polls'
                         /\ Head(s.todo).op = "del_group" => Head(s.todo).key \notin groups'
          BY <1>2, <1>4, <3>5, <3>8, <4>2, <5>2
        <5>4. e.todo = Tail(s.todo) /\ (e.todo # <<>> => e.left = s.left)
          BY <3>5, <3>8, <4>2
        <5>5. QED
          BY <3>2, <3>3, <5>3, <5>4, StageAnswered
      <4>3. QED
        BY <4>1, <4>2
    <3>10. By(d)' = {}
      BY <1>3, <2>2
    <3>11. QED
      BY <3>6, <3>8, <3>9, <3>10 DEF Matched
  <2>3. QED
    BY <2>1, <2>2
<1>10. call' \in [Clients -> Records]
  BY <1>8, <1>9
<1>11. Types'
  BY <1>2, <1>3, <1>4, <1>5, <1>10 DEF IInv, Types
<1>12. ClearComplete'
  BY <1>2, <1>4, <1>5 DEF IInv, ClearComplete
<1>13. QED
  BY <1>9, <1>11, <1>12 DEF IInv

-----------------------------------------------------------------------------
LEMMA InitStep == Init => IInv
<1> SUFFICES ASSUME Init PROVE IInv
  OBVIOUS
<1>1. Types
  <2>1. <<>> \in Seq(Requests)
    OBVIOUS
  <2>2. QED
    BY <2>1, IdleIsRecord DEF Init, Types
<1>2. Idle.todo = <<>> /\ ~Idle.waiting
  BY DEF Idle
<1>3. ASSUME NEW c \in Clients PROVE Stage(call[c]) /\ Matched(c)
  <2>1. call[c] = Idle /\ By(c) = {}
    BY DEF Init, By
  <2>2. QED
    BY <1>2, <2>1 DEF Stage, Matched
<1>4. QED
  BY <1>1, <1>3 DEF IInv, ClearComplete, Init

LEMMA Inductive == IInv /\ [Next]_vars => IInv'
<1> SUFFICES ASSUME IInv, [Next]_vars PROVE IInv'
  OBVIOUS
<1>1. CASE UNCHANGED vars
  BY <1>1 DEF vars, IInv, Types, Stage, Asks, Deletes, Tidies, TidiesOn, ScansPolls,
              UndoesPoll, ScansGroups, UndoesGroup, Flushes, Matched, By, ClearComplete
<1>2. CASE Serve
  BY <1>2, ServeStep
<1>3. CASE Poll
  BY <1>3, PollStep
<1>4. ASSUME NEW c \in Clients,
             \/ Begin(c) \/ Send(c) \/ GiveUp(c) \/ Erase(c)
             \/ ScanStart(c) \/ ScanKey(c) \/ ScanEnd(c)
      PROVE  IInv'
  BY <1>4, BeginStep, SendStep, GiveUpStep, EraseStep, ScanStartStep, ScanKeyStep, ScanEndStep
<1>5. QED
  BY <1>1, <1>2, <1>3, <1>4 DEF Next

(* Every variable has its type, and a client has one request under way at  *)
(* most, for which it waits: nothing is asked of syncd twice, also when    *)
(* answers are lost, or read by another client.                            *)
THEOREM TypeCorrect == Spec => []TypeOK
<1>1. IInv => TypeOK
  <2> SUFFICES ASSUME IInv PROVE TypeOK
    OBVIOUS
  <2>1. ASSUME NEW c \in Clients
        PROVE  /\ call[c].open \in BOOLEAN /\ call[c].alone \in BOOLEAN
               /\ call[c].left \subseteq PollKeys \cup GroupKeys
    BY DEF IInv, Types, Records, Keys
  <2>2. ASSUME NEW c \in Clients, By(c) # {}
        PROVE  call[c].waiting /\ Cardinality(By(c)) = 1
    <3>1. PICK i \in By(c) : By(c) = {i}
      BY <2>2 DEF IInv, Matched
    <3>2. Cardinality({i}) = 1
      BY FS_Singleton
    <3>3. QED
      BY <3>1, <3>2 DEF IInv, Matched
  <2>3. QED
    BY <2>1, <2>2 DEF TypeOK, IInv, Types
<1>2. QED
  BY InitStep, Inductive, <1>1, PTL DEF Spec

(* Once a call that promises it has returned there are no polls, groups    *)
(* and counters until somebody sets up new ones: for any number of other   *)
(* clients, scans that miss or repeat keys, and abandoned requests.        *)
THEOREM ClearIsComplete == Spec => []ClearComplete
<1>1. IInv => ClearComplete
  BY DEF IInv
<1>2. QED
  BY InitStep, Inductive, <1>1, PTL DEF Spec
=============================================================================
