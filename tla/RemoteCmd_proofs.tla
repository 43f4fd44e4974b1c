-------------------------- MODULE RemoteCmd_proofs --------------------------
(***************************************************************************)
(* Proofs about RemoteCmd, for every set of clients and commands, every    *)
(* number of polls and every bound on calls and faults.                    *)
(***************************************************************************)
EXTENDS RemoteCmd, SequenceTheorems, TLAPS

(* The requests that a list of statuses answers.                           *)
Told(s) == UNION {m.for : m \in Elements(s)}

(* The commands the listener has read and not yet carried out.             *)
InHand == IF lpc \in {"delete", "execute"} THEN IdsIn(batch) ELSE {}

Pushed == IdsIn(cmdQ) \cup InHand
Answered == Told(reply) \cup Told(statusQ)

Owned(x) == x \in abandoned \/ (pc[x[1]] = "poll" /\ x = Own(x[1]))

(* Calls are numbered from 1; the id of a command not yet pushed is new.   *)
Numbered ==
  /\ \A c \in Clients : pc[c] # "idle" => issued[c] >= 1
  /\ \A x \in Pushed \cup executed : 1 <= x[2] /\ x[2] <= issued[x[1]]

Unpushed ==
  \A c \in Clients : pc[c] \in {"delStatus", "push"} => Own(c) \notin Pushed \cup executed

(* A command is in the list or done, and its status is in one place: with  *)
(* the listener, in the status list, or with the clients that read it.     *)
OnePlace ==
  /\ Pushed \cap executed = {}
  /\ lpc = "execute" => InHand \cap IdsIn(cmdQ) = {}
  /\ Answered \subseteq executed
  /\ Told(reply) \cap Told(statusQ) = {}
  /\ \A c \in Clients : Told(seen[c]) \subseteq executed \ Told(reply)
  /\ lpc # "reply" => reply = <<>>

(* What can still be answered is of the call in progress or abandoned.     *)
Placement == \A x \in Pushed \cup Answered : Owned(x)

(* A status is that of one command, or of none.                            *)
Single(s) == \A m \in Elements(s) : \A x, y \in m.for : x = y
SingleStatus == Single(reply) /\ Single(statusQ) /\ \A c \in Clients : Single(seen[c])

(* Only a client that polls has statuses, only an idle one has an answer.  *)
Asking ==
  \A c \in Clients : (pc[c] # "poll" => seen[c] = <<>>) /\ (pc[c] # "idle" => got[c] = {})

IInv ==
  /\ TypeOK /\ Numbered /\ Unpushed /\ OnePlace /\ Placement /\ SingleStatus /\ Asking
  /\ StatusExplained /\ AgentsKnown

-----------------------------------------------------------------------------
(* TypeOK, one part of the state at a time.                                *)
Command == [id : Ids, cmd : Commands]
Status == [for : SUBSET Ids, ok : BOOLEAN]

ListTypes == cmdQ \in Seq(Command) /\ statusQ \in Seq(Status)

ClientTypes ==
  /\ pc \in [Clients -> {"idle", "delStatus", "push", "poll"}]
  /\ left \in [Clients -> Nat] /\ \A c \in Clients : pc[c] = "poll" => left[c] <= Attempts
  /\ seen \in [Clients -> Seq(Status)]
  /\ issued \in [Clients -> Nat] /\ got \in [Clients -> SUBSET Ids]

ListenerTypes ==
  /\ lpc \in {"down", "read", "delete", "execute", "reply"}
  /\ batch \in Seq(Command) /\ (lpc \in {"delete", "execute"} => batch # <<>>)
  /\ reply \in Seq(Status)

ServerTypes ==
  /\ handle \subseteq Ids /\ agents \subseteq Ids /\ strays \subseteq Ids
  /\ iface \in {"absent", "down", "up"}

HistoryTypes == executed \subseteq Ids /\ abandoned \subseteq Ids /\ faults \in Nat

LEMMA TypeParts ==
  TypeOK <=> ListTypes /\ ClientTypes /\ ListenerTypes /\ ServerTypes /\ HistoryTypes
BY DEF TypeOK, ListTypes, ClientTypes, ListenerTypes, ServerTypes, HistoryTypes, Command, Status

-----------------------------------------------------------------------------
(* Lists: what Append, Head and the concatenation of two lists hold.       *)
LEMMA Empty == Elements(<<>>) = {} /\ IdsIn(<<>>) = {} /\ Told(<<>>) = {}
BY DEF Elements, IdsIn, Told

LEMMA OfAppend ==
  ASSUME NEW S, NEW s \in Seq(S), NEW m \in S
  PROVE  IdsIn(Append(s, m)) = IdsIn(s) \cup {m.id}
<1>1. Elements(Append(s, m)) = Elements(s) \cup {m}
  BY DEF Elements
<1>2. QED
  BY <1>1 DEF IdsIn

LEMMA OfOne ==
  ASSUME NEW m PROVE Elements(<<m>>) = {m} /\ Told(<<m>>) = m.for
<1>1. Elements(<<m>>) = {m}
  BY DEF Elements
<1>2. QED
  BY <1>1 DEF Told

LEMMA OfHead ==
  ASSUME NEW S, NEW s \in Seq(S), s # <<>>
  PROVE  Head(s) \in S /\ Head(s) \in Elements(s) /\ Head(s).id \in IdsIn(s)
<1>1. Head(s) \in S /\ Head(s) \in Elements(s)
  BY DEF Elements
<1>2. QED
  BY <1>1 DEF IdsIn

LEMMA OfConcat ==
  ASSUME NEW S, NEW r \in Seq(S), NEW s \in Seq(S)
  PROVE  /\ r \o s \in Seq(S)
         /\ Elements(r \o s) = Elements(r) \cup Elements(s)
         /\ Told(r \o s) = Told(r) \cup Told(s)
<1> DEFINE t == r \o s
<1>1. /\ t \in Seq(S) /\ Len(t) = Len(r) + Len(s)
      /\ \A i \in 1..Len(r) + Len(s) : t[i] = IF i <= Len(r) THEN r[i] ELSE s[i - Len(r)]
  BY ConcatProperties
<1>2. Len(r) \in Nat /\ Len(s) \in Nat
  OBVIOUS
<1> HIDE DEF t
<1>3. Elements(t) \subseteq Elements(r) \cup Elements(s)
  <2> SUFFICES ASSUME NEW i \in 1..Len(t) PROVE t[i] \in Elements(r) \cup Elements(s)
    BY DEF Elements
  <2>1. i <= Len(r) => i \in 1..Len(r) /\ t[i] = r[i]
    BY <1>1, <1>2
  <2>2. ~(i <= Len(r)) => i - Len(r) \in 1..Len(s) /\ t[i] = s[i - Len(r)]
    BY <1>1, <1>2
  <2>3. QED
    BY <2>1, <2>2 DEF Elements
<1>4. \A i \in 1..Len(r) : i \in 1..Len(t) /\ t[i] = r[i]
  BY <1>1, <1>2
<1>5. \A i \in 1..Len(s) : Len(r) + i \in 1..Len(t) /\ t[Len(r) + i] = s[i]
  <2> SUFFICES ASSUME NEW i \in 1..Len(s)
               PROVE  Len(r) + i \in 1..Len(t) /\ t[Len(r) + i] = s[i]
    OBVIOUS
  <2>1. /\ Len(r) + i \in 1..Len(r) + Len(s) /\ ~(Len(r) + i <= Len(r))
        /\ Len(r) + i - Len(r) = i
    BY <1>2
  <2>2. QED
    BY <1>1, <2>1
<1>6. Elements(r) \subseteq Elements(t) /\ Elements(s) \subseteq Elements(t)
  BY <1>4, <1>5 DEF Elements
<1>7. Elements(t) = Elements(r) \cup Elements(s)
  BY <1>3, <1>6
<1>8. Told(t) = Told(r) \cup Told(s)
  BY <1>7 DEF Told
<1>9. QED
  BY <1>1, <1>7, <1>8 DEF t

LEMMA OwnInIds == ASSUME TypeOK, NEW c \in Clients PROVE Own(c) \in Ids
BY DEF TypeOK, Own, Ids

-----------------------------------------------------------------------------
(* Which part of the state the two sides leave to each other.              *)
LEMMA ByListener ==
  ASSUME Listener \/ ListenerCrash \/ IfaceChanges
  PROVE  UNCHANGED <<clientVars, issued, got, abandoned>>
BY DEF Listener, Execute, ListenerStart, ListenerRead, ListenerDelete, ExecIface,
       ExecSetIface, ExecStart, ExecStop, Refuse, ListenerReply, ListenerCrash,
       IfaceChanges, Replies, history

LEMMA ByClient ==
  ASSUME NEW c \in Clients, Call(c) \/ Interrupt(c)
  PROVE  UNCHANGED <<listenerVars, serverVars, executed, strays>>
BY DEF Call, DelCmd, DelStatus, Push, Poll, Finish, Interrupt, Aborted, history

LEMMA NextCases ==
  ASSUME [Next]_vars
  PROVE  \/ \E c \in Clients :
              \/ DelCmd(c) \/ DelStatus(c) \/ Push(c) \/ Poll(c) \/ Finish(c)
              \/ Interrupt(c) \/ RedisRestart(c)
         \/ ListenerStart \/ ListenerRead \/ ListenerDelete
         \/ ExecIface \/ ExecSetIface \/ ExecStart \/ ExecStop \/ Refuse
         \/ ListenerReply \/ ListenerCrash \/ IfaceChanges
         \/ UNCHANGED vars
BY DEF Next, Call, Listener, Execute

(* What becomes of a command: its id, then the status that carries it.     *)
LEMMA FirstInIds ==
  ASSUME TypeOK, lpc \in {"delete", "execute"}
  PROVE  First \in Command /\ First.id \in Ids /\ First.id \in IdsIn(batch)
<1>1. batch \in Seq(Command) /\ batch # <<>>
  BY TypeParts DEF ListenerTypes
<1>2. First \in Command /\ First.id \in IdsIn(batch)
  BY <1>1, OfHead DEF First
<1>3. QED
  BY <1>2 DEF Command

LEMMA OneStatus ==
  ASSUME NEW S \in SUBSET Ids, NEW b \in BOOLEAN
  PROVE  <<[for |-> S, ok |-> b]>> \in Seq(Status)
BY DEF Status

LEMMA NoCommand == <<>> \in Seq(Command) /\ <<>> \in Seq(Status)
OBVIOUS

(* The lists: only Push and ListenerReply add to one.                      *)
LEMMA ListTypesStep == TypeOK /\ [Next]_vars => ListTypes'
<1> SUFFICES ASSUME TypeOK, [Next]_vars PROVE ListTypes'
  OBVIOUS
<1>0. ListTypes /\ ListenerTypes
  BY TypeParts
<1> USE <1>0, NoCommand DEF ListTypes, ListenerTypes
<1>1. ASSUME NEW c \in Clients, DelCmd(c) \/ DelStatus(c) \/ RedisRestart(c) \/ Finish(c)
      PROVE  ListTypes'
  BY <1>1 DEF DelCmd, DelStatus, RedisRestart, Finish
<1>2. ASSUME NEW c \in Clients, Push(c) PROVE ListTypes'
  <2>1. ASSUME NEW k \in Commands PROVE [id |-> Own(c), cmd |-> k] \in Command
    BY OwnInIds DEF Command
  <2>2. QED
    BY <1>2, <2>1 DEF Push
<1>3. ASSUME NEW c \in Clients, Poll(c) \/ Interrupt(c) PROVE ListTypes'
  BY <1>3 DEF Poll, Interrupt
<1>4. CASE ListenerDelete
  BY <1>4 DEF ListenerDelete
<1>5. CASE ListenerStart \/ ListenerRead \/ Execute \/ ListenerCrash \/ IfaceChanges
  BY <1>5 DEF ListenerStart, ListenerRead, Execute, ExecIface, ExecSetIface, ExecStart,
              ExecStop, Refuse, Replies, Dies, ListenerCrash, IfaceChanges
<1>6. CASE ListenerReply
  <2>1. cmdQ' = cmdQ /\ statusQ' = reply \o statusQ
    BY <1>6 DEF ListenerReply
  <2>2. reply \o statusQ \in Seq(Status)
    BY OfConcat
  <2>3. QED
    BY <2>1, <2>2
<1>7. CASE UNCHANGED vars
  BY <1>7 DEF vars
<1>8. QED
  BY <1>1, <1>2, <1>3, <1>4, <1>5, <1>6, <1>7 DEF Next, Call, Listener

(* The clients: a poll is left whenever one is made.                       *)
LEMMA ClientTypesStep == TypeOK /\ [Next]_vars => ClientTypes'
<1> SUFFICES ASSUME TypeOK, [Next]_vars PROVE ClientTypes'
  OBVIOUS
<1>0. ClientTypes /\ ListTypes
  BY TypeParts
<1> USE <1>0, NoCommand DEF ClientTypes, Goto
<1>1. ASSUME NEW c \in Clients, DelCmd(c) PROVE ClientTypes'
  BY <1>1 DEF DelCmd
<1>2. ASSUME NEW c \in Clients, DelStatus(c) PROVE ClientTypes'
  BY <1>2 DEF DelStatus, history
<1>3. ASSUME NEW c \in Clients, Push(c) PROVE ClientTypes'
  BY <1>3, CmdBoundsAssumption DEF Push, history
<1>4. ASSUME NEW c \in Clients, Poll(c) PROVE ClientTypes'
  <2>1. left[c] - 1 \in Nat /\ left[c] - 1 <= left[c]
    BY <1>4 DEF Poll, Polling
  <2>2. statusQ \in Seq(Status)
    BY DEF ListTypes
  <2>3. left' = [left EXCEPT ![c] = left[c] - 1] /\ seen' = [seen EXCEPT ![c] = statusQ]
    BY <1>4 DEF Poll
  <2>4. left' \in [Clients -> Nat] /\ seen' \in [Clients -> Seq(Status)]
    BY <2>1, <2>2, <2>3
  <2>5. \A d \in Clients : left'[d] <= left[d]
    BY <2>1, <2>3
  <2>6. UNCHANGED <<pc, issued, got>>
    BY <1>4 DEF Poll, history
  <2>7. \A d \in Clients : pc'[d] = "poll" => left'[d] <= Attempts
    BY <2>4, <2>5, <2>6, CmdBoundsAssumption
  <2>8. QED
    BY <2>4, <2>6, <2>7
<1>5. ASSUME NEW c \in Clients, Finish(c) PROVE ClientTypes'
  <2>1. Answer(seen[c]) \in SUBSET Ids
    <3>1. CASE seen[c] = <<>>
      BY <3>1 DEF Answer
    <3>2. CASE seen[c] # <<>>
      <4>1. Head(seen[c]) \in Status
        BY <3>2, OfHead
      <4>2. QED
        BY <3>2, <4>1 DEF Answer, Status
    <3>3. QED
      BY <3>1, <3>2
  <2>2. QED
    BY <1>5, <2>1 DEF Finish
<1>6. ASSUME NEW C \in SUBSET Clients, Aborted(C) PROVE ClientTypes'
  BY <1>6, CmdBoundsAssumption DEF Aborted
<1>7. ASSUME NEW c \in Clients, Interrupt(c) \/ RedisRestart(c) PROVE ClientTypes'
  <2>1. PICK C \in SUBSET Clients : Aborted(C)
    BY <1>7 DEF Interrupt, RedisRestart
  <2>2. QED
    BY <1>6, <2>1
<1>8. CASE Listener \/ ListenerCrash \/ IfaceChanges
  BY <1>8, ByListener DEF clientVars
<1>9. CASE UNCHANGED vars
  BY <1>9 DEF vars, clientVars, history
<1>10. QED
  BY <1>1, <1>2, <1>3, <1>4, <1>5, <1>7, <1>8, <1>9 DEF Next, Call

(* The listener: it has a command before it carries one out.               *)
LEMMA ListenerTypesStep == TypeOK /\ [Next]_vars => ListenerTypes'
<1> SUFFICES ASSUME TypeOK, [Next]_vars PROVE ListenerTypes'
  OBVIOUS
<1>0. ListTypes /\ ListenerTypes
  BY TypeParts
<1> USE <1>0, NoCommand DEF ListenerTypes
<1>1. ASSUME NEW c \in Clients, Call(c) \/ Interrupt(c) PROVE ListenerTypes'
  BY <1>1, ByClient DEF listenerVars
<1>2. ASSUME NEW c \in Clients, RedisRestart(c) PROVE ListenerTypes'
  BY <1>2 DEF RedisRestart, listenerVars
<1>3. CASE ListenerStart \/ ListenerRead \/ ListenerDelete \/ ListenerReply
  BY <1>3 DEF ListenerStart, ListenerRead, ListenerDelete, ListenerReply, ListTypes
<1>4. ASSUME NEW S \in SUBSET Ids, NEW b \in BOOLEAN, lpc' = "reply", batch' = batch,
             reply' = <<[for |-> S, ok |-> b]>>
      PROVE  ListenerTypes'
  BY <1>4, OneStatus
<1>5. ASSUME NEW b \in BOOLEAN, lpc = "execute", Replies(b) PROVE ListenerTypes'
  BY <1>4, <1>5, FirstInIds DEF Replies
<1>6. CASE ExecIface
  <2>1. PICK k \in DOMAIN Answering : Accepts(k) /\ Replies(iface \in Answering[k])
    BY <1>6 DEF ExecIface
  <2>2. (iface \in Answering[k]) \in BOOLEAN
    OBVIOUS
  <2>3. QED
    BY <1>5, <2>1, <2>2, Zenon DEF Accepts
<1>7. CASE Dies
  BY <1>7 DEF Dies
<1>8. CASE ExecSetIface \/ ExecStart \/ ExecStop
  BY <1>5, <1>7, <1>8 DEF ExecSetIface, ExecStart, ExecStop, Accepts
<1>9. CASE Refuse
  BY <1>4, <1>9 DEF Refuse
<1>10. CASE ListenerCrash \/ IfaceChanges
  BY <1>7, <1>10 DEF ListenerCrash, IfaceChanges, listenerVars
<1>11. CASE UNCHANGED vars
  BY <1>11 DEF vars, listenerVars
<1>12. QED
  BY <1>1, <1>2, <1>3, <1>6, <1>8, <1>9, <1>10, <1>11 DEF Next, Listener, Execute

(* The server: the interface, the agents, and the handle of the last one.  *)
LEMMA ServerTypesStep == TypeOK /\ [Next]_vars => ServerTypes'
<1> SUFFICES ASSUME TypeOK, [Next]_vars PROVE ServerTypes'
  OBVIOUS
<1>0. ServerTypes
  BY TypeParts
<1> USE <1>0 DEF ServerTypes
<1>1. ASSUME NEW c \in Clients, Call(c) \/ Interrupt(c) PROVE ServerTypes'
  BY <1>1, ByClient DEF listenerVars, serverVars
<1>2. ASSUME NEW c \in Clients, RedisRestart(c) PROVE ServerTypes'
  BY <1>2 DEF RedisRestart, listenerVars, serverVars
<1>3. CASE ListenerStart \/ ListenerRead \/ ListenerDelete \/ ListenerReply \/ ExecIface \/ Refuse
  BY <1>3 DEF ListenerStart, ListenerRead, ListenerDelete, ListenerReply, ExecIface, Refuse,
              serverVars, history
<1>4. CASE ExecSetIface
  <2>1. \A k \in DOMAIN Setting : Setting[k] \in {"up", "down"}
    BY DEF Setting
  <2>2. iface' = iface \/ \E k \in DOMAIN Setting : iface' = Setting[k]
    BY <1>4 DEF ExecSetIface
  <2>3. UNCHANGED <<handle, agents, strays>> \/ Dies
    BY <1>4 DEF ExecSetIface
  <2>4. QED
    BY <2>1, <2>2, <2>3 DEF Dies
<1>5. CASE ExecStart
  <2>1. First.id \in Ids
    BY <1>5, FirstInIds DEF ExecStart, Accepts
  <2>2. QED
    BY <1>5, <2>1 DEF ExecStart
<1>6. CASE ExecStop
  BY <1>6 DEF ExecStop, Dies
<1>7. CASE ListenerCrash \/ IfaceChanges
  BY <1>7 DEF ListenerCrash, IfaceChanges, Dies, listenerVars, history
<1>8. CASE UNCHANGED vars
  BY <1>8 DEF vars, listenerVars, serverVars, history
<1>9. QED
  BY <1>1, <1>2, <1>3, <1>4, <1>5, <1>6, <1>7, <1>8 DEF Next, Listener, Execute

(* The history variables hold ids.                                         *)
LEMMA HistoryTypesStep == TypeOK /\ [Next]_vars => HistoryTypes'
<1> SUFFICES ASSUME TypeOK, [Next]_vars PROVE HistoryTypes'
  OBVIOUS
<1>0. HistoryTypes
  BY TypeParts
<1> USE <1>0 DEF HistoryTypes
<1>1. ASSUME NEW c \in Clients, Finish(c) PROVE HistoryTypes'
  BY <1>1, OwnInIds DEF Finish
<1>2. ASSUME NEW C \in SUBSET Clients, Aborted(C) PROVE abandoned' \subseteq Ids
  BY <1>2, OwnInIds DEF Aborted
<1>3. ASSUME NEW c \in Clients, Interrupt(c) \/ RedisRestart(c) PROVE HistoryTypes'
  <2>1. PICK C \in SUBSET Clients : Aborted(C)
    BY <1>3 DEF Interrupt, RedisRestart
  <2>2. executed' = executed /\ faults' = faults + 1
    BY <1>3 DEF Interrupt, RedisRestart, Aborted
  <2>3. QED
    BY <1>2, <2>1, <2>2
<1>4. ASSUME NEW c \in Clients, DelCmd(c) \/ DelStatus(c) \/ Push(c) \/ Poll(c)
      PROVE  HistoryTypes'
  BY <1>4 DEF DelCmd, DelStatus, Push, Poll, history
<1>5. CASE ListenerStart \/ ListenerRead \/ ListenerDelete \/ ListenerReply \/ Refuse
  BY <1>5 DEF ListenerStart, ListenerRead, ListenerDelete, ListenerReply, Refuse, history
<1>6. CASE ExecIface \/ ExecSetIface \/ ExecStart \/ ExecStop
  <2>1. First.id \in Ids
    BY <1>6, FirstInIds DEF ExecIface, ExecSetIface, ExecStart, ExecStop, Accepts
  <2>2. executed' = executed \cup {First.id} /\ UNCHANGED <<abandoned, faults>>
    BY <1>6 DEF ExecIface, ExecSetIface, ExecStart, ExecStop, Replies
  <2>3. QED
    BY <2>1, <2>2
<1>7. CASE ListenerCrash \/ IfaceChanges
  BY <1>7 DEF ListenerCrash, IfaceChanges, history
<1>8. CASE UNCHANGED vars
  BY <1>8 DEF vars, history
<1>9. QED
  BY <1>1, <1>3, <1>4, <1>5, <1>6, <1>7, <1>8 DEF Next, Call, Listener, Execute

LEMMA TypeStep == TypeOK /\ [Next]_vars => TypeOK'
<1>1. TypeOK' <=> ListTypes' /\ ClientTypes' /\ ListenerTypes' /\ ServerTypes' /\ HistoryTypes'
  BY TypeParts, PTL
<1>2. QED
  BY <1>1, ListTypesStep, ClientTypesStep, ListenerTypesStep, ServerTypesStep, HistoryTypesStep

-----------------------------------------------------------------------------
(* What each kind of step does to the commands and the statuses.           *)
LEMMA PushAdds ==
  ASSUME TypeOK, NEW c \in Clients, Push(c)
  PROVE  /\ pc[c] = "push" /\ pc' = [pc EXCEPT ![c] = "poll"]
         /\ seen' = [seen EXCEPT ![c] = <<>>]
         /\ IdsIn(cmdQ)' = IdsIn(cmdQ) \cup {Own(c)}
         /\ Pushed' = Pushed \cup {Own(c)} /\ InHand' = InHand
         /\ UNCHANGED <<statusQ, lpc, reply, issued, executed, abandoned, got>>
<1>1. PICK k \in Commands : cmdQ' = Append(cmdQ, [id |-> Own(c), cmd |-> k])
  BY DEF Push
<1>2. cmdQ \in Seq(Command) /\ [id |-> Own(c), cmd |-> k] \in Command
  BY TypeParts, OwnInIds DEF ListTypes, Command
<1>3. IdsIn(cmdQ)' = IdsIn(cmdQ) \cup {Own(c)}
  BY <1>1, <1>2, OfAppend
<1>4. InHand' = InHand
  BY DEF Push, InHand, listenerVars
<1>5. QED
  BY <1>3, <1>4 DEF Push, Pushed, Goto, listenerVars, history

(* A command is carried out, whether its status comes of it or not.        *)
CarriesOut == ExecIface \/ ExecSetIface \/ ExecStart \/ ExecStop

LEMMA CarriedOut ==
  ASSUME TypeOK, CarriesOut
  PROVE  /\ lpc = "execute" /\ First.id \in Ids /\ First.id \in InHand /\ InHand' = {}
         /\ executed' = executed \cup {First.id}
         /\ \/ lpc' = "reply" /\ Told(reply)' = {First.id} /\ Single(reply)'
            \/ lpc' = "down" /\ reply' = <<>>
         /\ UNCHANGED <<cmdQ, statusQ, clientVars, issued, abandoned, got>>
<1>1. lpc = "execute"
  BY DEF CarriesOut, ExecIface, ExecSetIface, ExecStart, ExecStop, Accepts
<1>2. First.id \in Ids /\ First.id \in InHand
  BY <1>1, FirstInIds DEF InHand
<1>3. /\ executed' = executed \cup {First.id}
      /\ UNCHANGED <<cmdQ, statusQ, clientVars, issued, abandoned, got>>
  BY DEF CarriesOut, ExecIface, ExecSetIface, ExecStart, ExecStop, Replies, Dies
<1>4. (\E b : Replies(b)) \/ Dies
  BY Zenon DEF CarriesOut, ExecIface, ExecSetIface, ExecStart, ExecStop
<1>5. ASSUME NEW b, Replies(b)
      PROVE  lpc' = "reply" /\ Told(reply)' = {First.id} /\ Single(reply)'
  <2>1. PICK m : m = [for |-> {First.id}, ok |-> b]
    OBVIOUS
  <2>2. reply' = <<m>> /\ m.for = {First.id} /\ lpc' = "reply"
    BY <1>5, <2>1 DEF Replies
  <2>3. Elements(reply') = {m} /\ Told(reply') = {First.id}
    BY <2>2, OfOne
  <2>4. QED
    BY <2>2, <2>3 DEF Single
<1>6. InHand' = {}
  BY <1>4 DEF InHand, Replies, Dies
<1>7. QED
  BY <1>1, <1>2, <1>3, <1>4, <1>5, <1>6 DEF Dies

(* The other steps of the listener: a command moves on or is dropped.      *)
LEMMA ListenerMoves ==
  ASSUME TypeOK, OnePlace,
         \/ ListenerStart \/ ListenerRead \/ ListenerDelete \/ Refuse \/ ListenerReply
         \/ ListenerCrash \/ IfaceChanges
  PROVE  /\ executed' = executed
         /\ IdsIn(cmdQ)' \subseteq IdsIn(cmdQ) /\ Pushed' \subseteq Pushed
         /\ lpc' = "execute" => InHand' \cap IdsIn(cmdQ)' = {}
         /\ Told(reply)' \subseteq Told(reply) /\ Answered' \subseteq Answered
         /\ Told(reply)' \cap Told(statusQ)' = {}
         /\ lpc' # "reply" => reply' = <<>>
<1> USE Empty DEF InHand, Pushed, Answered, OnePlace
<1>1. CASE ListenerStart
  BY <1>1 DEF ListenerStart, history
<1>2. CASE ListenerRead
  BY <1>2 DEF ListenerRead, history
<1>3. CASE ListenerDelete
  BY <1>3 DEF ListenerDelete, history
<1>4. CASE Refuse
  <2>1. PICK m : m = [for |-> {}, ok |-> FALSE]
    OBVIOUS
  <2>2. reply' = <<m>> /\ m.for = {}
    BY <1>4, <2>1 DEF Refuse
  <2>3. Told(reply') = {}
    BY <2>2, OfOne
  <2>4. QED
    BY <1>4, <2>3 DEF Refuse, history
<1>5. CASE ListenerReply
  <2>1. reply \in Seq(Status) /\ statusQ \in Seq(Status)
    BY TypeParts DEF ListTypes, ListenerTypes
  <2>2. Told(statusQ)' = Told(reply) \cup Told(statusQ)
    BY <1>5, <2>1, OfConcat DEF ListenerReply
  <2>3. QED
    BY <1>5, <2>2 DEF ListenerReply, history
<1>6. CASE ListenerCrash
  BY <1>6 DEF ListenerCrash, Dies
<1>7. CASE IfaceChanges
  BY <1>7 DEF IfaceChanges, listenerVars, history
<1>8. QED
  BY <1>1, <1>2, <1>3, <1>4, <1>5, <1>6, <1>7

(* Only Push makes a command known.                                        *)
LEMMA OnlyPushAdds ==
  ASSUME TypeOK, OnePlace, [Next]_vars, \A c \in Clients : ~Push(c)
  PROVE  /\ Pushed' \subseteq Pushed
         /\ (Pushed \cup executed)' \subseteq Pushed \cup executed
<1>1. ASSUME NEW c \in Clients, Call(c) \/ Interrupt(c)
      PROVE  cmdQ' \in {cmdQ, <<>>} /\ UNCHANGED <<lpc, batch, executed>>
  <2>1. cmdQ' \in {cmdQ, <<>>}
    BY <1>1 DEF Call, DelCmd, DelStatus, Poll, Finish, Interrupt
  <2>2. QED
    BY <1>1, <2>1, ByClient DEF listenerVars
<1>2. ASSUME NEW c \in Clients, RedisRestart(c)
      PROVE  cmdQ' = <<>> /\ executed' = executed /\ (lpc' = "down" \/ UNCHANGED <<lpc, batch>>)
  BY <1>2 DEF RedisRestart, Aborted, listenerVars
<1>3. CASE CarriesOut
  BY <1>3, CarriedOut DEF Pushed
<1>4. CASE \/ ListenerStart \/ ListenerRead \/ ListenerDelete \/ Refuse \/ ListenerReply
           \/ ListenerCrash \/ IfaceChanges
  BY <1>4, ListenerMoves
<1>5. CASE UNCHANGED vars
  BY <1>5 DEF vars, listenerVars, history, Pushed, InHand
<1>6. ASSUME NEW c \in Clients, Call(c) \/ Interrupt(c) \/ RedisRestart(c)
      PROVE  Pushed' \subseteq Pushed /\ executed' = executed
  BY <1>1, <1>2, <1>6, Empty DEF Pushed, InHand
<1>7. QED
  BY <1>3, <1>4, <1>5, <1>6 DEF Next, Listener, Execute, CarriesOut

LEMMA AllInIds == ASSUME TypeOK PROVE Pushed \cup executed \subseteq Ids
<1>1. IdsIn(cmdQ) \subseteq Ids /\ IdsIn(batch) \subseteq Ids
  <2>1. ASSUME NEW s \in Seq(Command) PROVE IdsIn(s) \subseteq Ids
    <3>1. \A m \in Elements(s) : m \in Command
      BY DEF Elements
    <3>2. \A m \in Command : m.id \in Ids
      BY DEF Command
    <3>3. QED
      BY <3>1, <3>2 DEF IdsIn
  <2>2. QED
    BY <2>1, TypeParts DEF ListTypes, ListenerTypes
<1>2. QED
  BY <1>1, TypeParts DEF Pushed, InHand, HistoryTypes

(* Only DelCmd makes a call, and it takes the next number.                 *)
LEMMA OnlyDelCmdCalls ==
  ASSUME TypeOK, [Next]_vars
  PROVE  \/ issued' = issued /\ \A c \in Clients : pc'[c] # "idle" => pc[c] # "idle"
         \/ \E c \in Clients : /\ issued' = [issued EXCEPT ![c] = @ + 1]
                               /\ pc[c] = "idle" /\ pc' = [pc EXCEPT ![c] = "delStatus"]
                               /\ UNCHANGED <<lpc, batch, executed>> /\ IdsIn(cmdQ)' = {}
<1> USE DEF Goto
<1>0. ClientTypes
  BY TypeParts
<1>1. ASSUME NEW c \in Clients, DelCmd(c)
      PROVE  /\ issued' = [issued EXCEPT ![c] = @ + 1]
             /\ pc[c] = "idle" /\ pc' = [pc EXCEPT ![c] = "delStatus"]
             /\ UNCHANGED <<lpc, batch, executed>> /\ IdsIn(cmdQ)' = {}
  BY <1>1, Empty DEF DelCmd, listenerVars
<1>2. ASSUME NEW c \in Clients, DelStatus(c) \/ Push(c) \/ Poll(c) \/ Finish(c)
      PROVE  issued' = issued /\ \A d \in Clients : pc'[d] # "idle" => pc[d] # "idle"
  BY <1>0, <1>2 DEF DelStatus, Push, Poll, Finish, history, ClientTypes
<1>3. ASSUME NEW c \in Clients, Interrupt(c) \/ RedisRestart(c)
      PROVE  issued' = issued /\ \A d \in Clients : pc'[d] # "idle" => pc[d] # "idle"
  BY <1>0, <1>3 DEF Interrupt, RedisRestart, Aborted
<1>4. CASE Listener \/ ListenerCrash \/ IfaceChanges \/ UNCHANGED vars
  BY <1>4, ByListener DEF vars, clientVars, history
<1>5. QED
  BY <1>1, <1>2, <1>3, <1>4 DEF Next, Call

-----------------------------------------------------------------------------
(* Numbers only grow.                                                      *)
LEMMA NumberedStep == TypeOK /\ OnePlace /\ Numbered /\ [Next]_vars => Numbered'
<1> SUFFICES ASSUME TypeOK, OnePlace, Numbered, [Next]_vars PROVE Numbered'
  OBVIOUS
<1>0. ClientTypes /\ \A x \in Ids : x[1] \in Clients /\ x[2] \in Nat
  BY TypeParts DEF Ids
<1>1. \A x \in Pushed \cup executed : x \in Ids
  BY AllInIds
<1>2. /\ issued' \in [Clients -> Nat] /\ \A c \in Clients : issued[c] <= issued'[c]
      /\ \A c \in Clients : pc'[c] # "idle" => issued'[c] >= 1
  <2>0. issued \in [Clients -> Nat] /\ \A c \in Clients : pc[c] # "idle" => issued[c] >= 1
    BY <1>0 DEF ClientTypes, Numbered
  <2>1. CASE issued' = issued /\ \A c \in Clients : pc'[c] # "idle" => pc[c] # "idle"
    BY <2>0, <2>1
  <2>2. ASSUME NEW c \in Clients, issued' = [issued EXCEPT ![c] = @ + 1],
               pc' = [pc EXCEPT ![c] = "delStatus"]
        PROVE  /\ issued' \in [Clients -> Nat] /\ \A d \in Clients : issued[d] <= issued'[d]
               /\ \A d \in Clients : pc'[d] # "idle" => issued'[d] >= 1
    <3>1. pc \in [Clients -> {"idle", "delStatus", "push", "poll"}]
      BY <1>0 DEF ClientTypes
    <3>2. QED
      BY <2>0, <2>2, <3>1
  <2>3. QED
    BY <2>1, <2>2, OnlyDelCmdCalls
<1>3. ASSUME NEW x \in Pushed \cup executed PROVE 1 <= x[2] /\ x[2] <= issued'[x[1]]
  <2>1. x[1] \in Clients /\ x[2] \in Nat /\ 1 <= x[2] /\ x[2] <= issued[x[1]]
    BY <1>0, <1>1 DEF Numbered
  <2>2. issued[x[1]] <= issued'[x[1]] /\ issued[x[1]] \in Nat /\ issued'[x[1]] \in Nat
    BY <1>0, <1>2, <2>1 DEF ClientTypes
  <2>3. QED
    BY <2>1, <2>2
<1>4. ASSUME NEW c \in Clients, Push(c) PROVE Numbered'
  <2>1. (Pushed \cup executed)' = Pushed \cup executed \cup {Own(c)} /\ issued' = issued
    BY <1>4, PushAdds
  <2>2. issued[c] >= 1 /\ issued[c] \in Nat
    BY <1>0, <1>4 DEF Numbered, Push, ClientTypes
  <2>3. Own(c)[1] = c /\ Own(c)[2] = issued[c]
    BY DEF Own
  <2>4. QED
    BY <1>2, <1>3, <2>1, <2>2, <2>3 DEF Numbered
<1>5. CASE \A c \in Clients : ~Push(c)
  <2>1. (Pushed \cup executed)' \subseteq Pushed \cup executed
    BY <1>5, OnlyPushAdds
  <2>2. QED
    BY <1>2, <1>3, <2>1 DEF Numbered
<1>6. QED
  BY <1>4, <1>5

(* A new call has a new number, and keeps it to itself until Push.         *)
LEMMA UnpushedStep ==
  TypeOK /\ OnePlace /\ Numbered /\ Unpushed /\ [Next]_vars => Unpushed'
<1> SUFFICES ASSUME TypeOK, OnePlace, Numbered, Unpushed, [Next]_vars,
                    NEW c \in Clients, pc'[c] \in {"delStatus", "push"}
             PROVE  Own(c)' \notin (Pushed \cup executed)'
  BY DEF Unpushed
<1>0. ClientTypes
  BY TypeParts
<1>1. ASSUME NEW d \in Clients, Push(d) PROVE Own(c)' \notin (Pushed \cup executed)'
  <2>1. c # d /\ pc[c] \in {"delStatus", "push"}
    BY <1>0, <1>1, PushAdds DEF ClientTypes
  <2>2. (Pushed \cup executed)' = Pushed \cup executed \cup {Own(d)} /\ issued' = issued
    BY <1>1, PushAdds
  <2>3. QED
    BY <2>1, <2>2 DEF Unpushed, Own
<1>2. CASE \A d \in Clients : ~Push(d)
  <2>1. (Pushed \cup executed)' \subseteq Pushed \cup executed
    BY <1>2, OnlyPushAdds
  <2>2. CASE issued' = issued /\ pc[c] \in {"delStatus", "push"}
    BY <2>1, <2>2 DEF Unpushed, Own
  <2>3. CASE issued'[c] = issued[c] + 1
    <3>1. \A x \in Pushed \cup executed : x[1] = c => x[2] <= issued[c]
      BY DEF Numbered
    <3>2. issued[c] \in Nat
      BY <1>0 DEF ClientTypes
    <3>3. Own(c)'[1] = c /\ Own(c)'[2] = issued[c] + 1
      BY <2>3 DEF Own
    <3>4. QED
      BY <2>1, <3>1, <3>2, <3>3
  <2>4. ASSUME NEW d \in Clients, DelCmd(d)
        PROVE  issued'[c] = issued[c] + 1 \/ (Own(c)' = Own(c) /\ pc[c] \in {"delStatus", "push"})
    BY <1>0, <2>4 DEF DelCmd, Goto, ClientTypes, Own
  <2>5. ASSUME NEW d \in Clients, Poll(d) \/ Finish(d) \/ DelStatus(d) \/ Interrupt(d) \/ RedisRestart(d)
        PROVE  issued' = issued /\ pc[c] \in {"delStatus", "push"}
    BY <1>0, <2>5 DEF Poll, Finish, DelStatus, Interrupt, RedisRestart, Aborted, Goto, ClientTypes,
                      history
  <2>6. CASE Listener \/ ListenerCrash \/ IfaceChanges \/ UNCHANGED vars
    BY <2>2, <2>6, ByListener DEF vars, clientVars, history
  <2>7. QED
    BY <1>2, <2>1, <2>2, <2>3, <2>4, <2>5, <2>6 DEF Next, Call, Unpushed
<1>3. QED
  BY <1>1, <1>2

(* A command leaves the list before it is carried out, and its status is   *)
(* handed on from one place to the next.                                   *)
LEMMA OnePlaceStep == TypeOK /\ Unpushed /\ OnePlace /\ [Next]_vars => OnePlace'
<1> SUFFICES ASSUME TypeOK, Unpushed, OnePlace, [Next]_vars PROVE OnePlace'
  OBVIOUS
<1>0. ClientTypes
  BY TypeParts
<1>1. ASSUME NEW c \in Clients, Push(c) PROVE OnePlace'
  <2>1. Own(c) \notin Pushed \cup executed
    BY <1>1, PushAdds DEF Unpushed
  <2>2. \A d \in Clients : Told(seen'[d]) \subseteq Told(seen[d])
    BY <1>0, <1>1, PushAdds, Empty DEF ClientTypes
  <2>3. QED
    BY <1>1, <2>1, <2>2, PushAdds DEF OnePlace, Pushed, Answered
<1>2. ASSUME NEW c \in Clients, DelCmd(c) \/ DelStatus(c) \/ Poll(c) \/ Finish(c) \/ Interrupt(c)
      PROVE  OnePlace'
  <2>1. UNCHANGED <<lpc, batch, reply, executed>>
    BY <1>2, ByClient DEF Call, listenerVars
  <2>2. cmdQ' \in {cmdQ, <<>>} /\ statusQ' \in {statusQ, <<>>}
    BY <1>2 DEF DelCmd, DelStatus, Poll, Finish, Interrupt
  <2>3. \A d \in Clients : seen'[d] \in {seen[d], <<>>, statusQ}
    BY <1>0, <1>2 DEF DelCmd, DelStatus, Poll, Finish, Interrupt, Aborted, ClientTypes
  <2>4. QED
    BY <2>1, <2>2, <2>3, Empty DEF OnePlace, Pushed, Answered, InHand
<1>3. ASSUME NEW c \in Clients, RedisRestart(c) PROVE OnePlace'
  <2>1. cmdQ' = <<>> /\ statusQ' = <<>> /\ executed' = executed
    BY <1>3 DEF RedisRestart, Aborted
  <2>2. \A d \in Clients : seen'[d] \in {seen[d], <<>>}
    BY <1>0, <1>3 DEF RedisRestart, Aborted, ClientTypes
  <2>3. UNCHANGED <<lpc, batch, reply>> \/ (lpc' = "down" /\ reply' = <<>>)
    BY <1>3 DEF RedisRestart, listenerVars
  <2>4. QED
    BY <2>1, <2>2, <2>3, Empty DEF OnePlace, Pushed, Answered, InHand
<1>4. CASE CarriesOut
  <2>1. UNCHANGED <<cmdQ, statusQ, seen>>
    BY <1>4, CarriedOut DEF clientVars
  <2>2. First.id \notin executed /\ First.id \notin IdsIn(cmdQ)
    BY <1>4, CarriedOut DEF OnePlace, Pushed
  <2>3. \A d \in Clients : Told(seen'[d]) \subseteq executed
    BY <2>1 DEF OnePlace
  <2>4. lpc' = "down" => Told(reply)' = {}
    BY <1>4, CarriedOut, Empty
  <2>5. QED
    BY <1>4, <2>1, <2>2, <2>3, <2>4, CarriedOut DEF OnePlace, Pushed, Answered
<1>5. CASE \/ ListenerStart \/ ListenerRead \/ ListenerDelete \/ Refuse \/ ListenerReply
           \/ ListenerCrash \/ IfaceChanges
  <2>1. seen' = seen
    BY <1>5, ByListener DEF Listener, Execute, clientVars
  <2>2. QED
    BY <1>5, <2>1, ListenerMoves DEF OnePlace
<1>6. CASE UNCHANGED vars
  BY <1>6 DEF vars, clientVars, listenerVars, history, OnePlace, Pushed, Answered, InHand
<1>7. QED
  BY <1>1, <1>2, <1>3, <1>4, <1>5, <1>6 DEF Next, Call, Listener, Execute, CarriesOut

(* A call ends with its status read, or is abandoned.                      *)
LEMMA PlacementStep == TypeOK /\ OnePlace /\ Placement /\ [Next]_vars => Placement'
<1> SUFFICES ASSUME TypeOK, OnePlace, Placement, [Next]_vars PROVE Placement'
  OBVIOUS
<1>0. ClientTypes
  BY TypeParts
<1>a. \A x \in Pushed \cup Answered : x \in Ids /\ x[1] \in Clients
  BY AllInIds DEF OnePlace, Ids
<1>b. ASSUME NEW x \in Pushed \cup Answered, UNCHANGED <<pc, issued, abandoned>> PROVE Owned(x)'
  BY <1>b DEF Placement, Owned, Own
<1>1. ASSUME NEW c \in Clients, DelCmd(c) PROVE Placement'
  <2>1. ASSUME NEW x \in Pushed \cup Answered PROVE Owned(x)'
    BY <1>0, <1>1, <1>a DEF DelCmd, Goto, Placement, Owned, Own, ClientTypes
  <2>2. IdsIn(cmdQ)' = {} /\ InHand' = InHand /\ Answered' = Answered
    BY <1>1, Empty DEF DelCmd, InHand, listenerVars, Answered
  <2>3. QED
    BY <2>1, <2>2 DEF Placement, Pushed
<1>2. ASSUME NEW c \in Clients, DelStatus(c) PROVE Placement'
  <2>1. ASSUME NEW x \in Pushed \cup Answered PROVE Owned(x)'
    BY <1>0, <1>2, <1>a DEF DelStatus, Goto, Placement, Owned, Own, ClientTypes, history
  <2>2. IdsIn(cmdQ)' = IdsIn(cmdQ) /\ InHand' = InHand /\ Answered' \subseteq Answered
    BY <1>2, Empty DEF DelStatus, InHand, listenerVars, Answered
  <2>3. QED
    BY <2>1, <2>2 DEF Placement, Pushed
<1>3. ASSUME NEW c \in Clients, Push(c) PROVE Placement'
  <2>1. ASSUME NEW x \in Pushed \cup Answered PROVE Owned(x)'
    BY <1>0, <1>3, <1>a, PushAdds DEF Placement, Owned, Own, ClientTypes
  <2>2. Owned(Own(c))'
    BY <1>0, <1>3, PushAdds DEF Owned, Own, ClientTypes
  <2>3. Pushed' = Pushed \cup {Own(c)} /\ Answered' = Answered
    BY <1>3, PushAdds DEF Answered
  <2>4. Own(c)' = Own(c)
    BY <1>3, PushAdds DEF Own
  <2>5. QED
    BY <2>1, <2>2, <2>3, <2>4 DEF Placement, Owned
<1>4. ASSUME NEW c \in Clients, Poll(c) PROVE Placement'
  <2>1. UNCHANGED <<pc, issued, abandoned, cmdQ, statusQ, lpc, batch, reply>>
    BY <1>4 DEF Poll, history, listenerVars
  <2>2. QED
    BY <1>b, <2>1 DEF Placement, Pushed, Answered, InHand
<1>5. ASSUME NEW c \in Clients, Finish(c) PROVE Placement'
  <2>1. /\ UNCHANGED <<cmdQ, lpc, batch, reply, issued>> /\ statusQ' = <<>>
        /\ abandoned' = abandoned \cup ({Own(c)} \ Answer(seen[c]))
        /\ \A d \in Clients \ {c} : pc'[d] = pc[d]
    BY <1>0, <1>5 DEF Finish, listenerVars, Goto, ClientTypes
  <2>2. Pushed' = Pushed /\ Answered' = Told(reply) /\ Own(c)' = Own(c)
    BY <2>1, Empty DEF Pushed, InHand, Answered, Own
  <2>3. Answer(seen[c]) \subseteq Told(seen[c])
    <3>1. CASE seen[c] = <<>>
      BY <3>1 DEF Answer
    <3>2. CASE seen[c] # <<>>
      <4>1. Head(seen[c]) \in Elements(seen[c])
        BY <1>0, <3>2, OfHead DEF ClientTypes
      <4>2. QED
        BY <3>2, <4>1 DEF Answer, Told
    <3>3. QED
      BY <3>1, <3>2
  <2>4. Answer(seen[c]) \cap (Pushed \cup Told(reply)) = {}
    BY <2>3 DEF OnePlace
  <2>5. ASSUME NEW x \in Pushed \cup Told(reply) PROVE Owned(x)'
    <3>1. x \in Pushed \cup Answered /\ x[1] \in Clients /\ Owned(x)
      BY <1>a DEF Answered, Placement
    <3>2. CASE x = Own(c)
      BY <2>1, <2>4, <3>2 DEF Owned
    <3>3. CASE x # Own(c)
      BY <2>1, <3>1, <3>3 DEF Owned, Own
    <3>4. QED
      BY <3>2, <3>3
  <2>6. QED
    BY <2>2, <2>5 DEF Placement
<1>6. ASSUME NEW c \in Clients, Interrupt(c) \/ RedisRestart(c) PROVE Placement'
  <2>1. PICK C \in SUBSET Clients : Aborted(C)
    BY <1>6 DEF Interrupt, RedisRestart
  <2>2. ASSUME NEW x \in Pushed \cup Answered PROVE Owned(x)'
    <3>1. x[1] \in Clients /\ Owned(x)
      BY <1>a DEF Placement
    <3>2. issued' = issued /\ abandoned \subseteq abandoned'
      BY <2>1 DEF Aborted
    <3>3. CASE x[1] \in C /\ pc[x[1]] = "poll" /\ x = Own(x[1])
      BY <2>1, <3>3 DEF Aborted, Owned
    <3>4. CASE x[1] \notin C
      BY <2>1, <3>1, <3>2, <3>4 DEF Aborted, Owned, Own
    <3>5. QED
      BY <3>1, <3>2, <3>3, <3>4 DEF Owned
  <2>3. cmdQ' \in {cmdQ, <<>>} /\ statusQ' \in {statusQ, <<>>}
    BY <1>6 DEF Interrupt, RedisRestart
  <2>4. UNCHANGED <<lpc, batch, reply>> \/ (lpc' = "down" /\ reply' = <<>>)
    BY <1>6 DEF Interrupt, RedisRestart, listenerVars
  <2>5. (Pushed \cup Answered)' \subseteq Pushed \cup Answered
    BY <2>3, <2>4, Empty DEF Pushed, Answered, InHand
  <2>6. QED
    BY <2>2, <2>5 DEF Placement
<1>7. CASE Listener \/ ListenerCrash \/ IfaceChanges
  <2>1. UNCHANGED <<pc, issued, abandoned>>
    BY <1>7, ByListener DEF clientVars
  <2>2. (Pushed \cup Answered)' \subseteq Pushed \cup Answered
    <3>1. CASE CarriesOut
      <4>1. Told(reply)' \subseteq {First.id} /\ First.id \in Pushed /\ statusQ' = statusQ
        BY <3>1, CarriedOut, Empty DEF Pushed
      <4>2. Pushed' \subseteq Pushed
        BY <3>1, CarriedOut DEF Pushed
      <4>3. QED
        BY <4>1, <4>2 DEF Answered
    <3>2. CASE ~CarriesOut
      BY <1>7, <3>2, ListenerMoves DEF Listener, Execute, CarriesOut
    <3>3. QED
      BY <3>1, <3>2
  <2>3. QED
    BY <1>b, <2>1, <2>2 DEF Placement
<1>8. CASE UNCHANGED vars
  BY <1>b, <1>8 DEF vars, clientVars, listenerVars, history, Placement, Pushed, Answered, InHand
<1>9. QED
  BY <1>1, <1>2, <1>3, <1>4, <1>5, <1>6, <1>7, <1>8 DEF Next, Call

(* A status is made for one command; lists of statuses are only put one    *)
(* in front of the other.                                                  *)
LEMMA SingleStatusStep == TypeOK /\ SingleStatus /\ [Next]_vars => SingleStatus'
<1> SUFFICES ASSUME TypeOK, SingleStatus, [Next]_vars PROVE SingleStatus'
  OBVIOUS
<1>0. ClientTypes
  BY TypeParts
<1>a. Single(<<>>)
  BY Empty DEF Single
<1> USE <1>a DEF SingleStatus
<1>1. ASSUME NEW c \in Clients, Call(c) \/ Interrupt(c) PROVE SingleStatus'
  <2>1. reply' = reply /\ statusQ' \in {statusQ, <<>>}
    BY <1>1, ByClient DEF listenerVars, Call, DelCmd, DelStatus, Push, Poll, Finish, Interrupt
  <2>2. \A d \in Clients : seen'[d] \in {seen[d], <<>>, statusQ}
    BY <1>0, <1>1 DEF Call, DelCmd, DelStatus, Push, Poll, Finish, Interrupt, Aborted, ClientTypes
  <2>3. QED
    BY <2>1, <2>2
<1>2. ASSUME NEW c \in Clients, RedisRestart(c) PROVE SingleStatus'
  <2>1. \A d \in Clients : seen'[d] \in {seen[d], <<>>}
    BY <1>0, <1>2 DEF RedisRestart, Aborted, ClientTypes
  <2>2. statusQ' = <<>> /\ reply' \in {reply, <<>>}
    BY <1>2 DEF RedisRestart, listenerVars
  <2>3. QED
    BY <2>1, <2>2
<1>3. CASE CarriesOut
  BY <1>3, CarriedOut DEF clientVars
<1>4. CASE ListenerStart \/ ListenerRead \/ ListenerDelete \/ ListenerCrash \/ IfaceChanges
  <2>1. UNCHANGED <<statusQ, seen>> /\ reply' \in {reply, <<>>}
    BY <1>4 DEF ListenerStart, ListenerRead, ListenerDelete, ListenerCrash, Dies, IfaceChanges,
                clientVars, listenerVars
  <2>2. QED
    BY <2>1
<1>5. CASE Refuse
  <2>1. PICK m : m = [for |-> {}, ok |-> FALSE]
    OBVIOUS
  <2>2. reply' = <<m>> /\ m.for = {} /\ UNCHANGED <<statusQ, seen>>
    BY <1>5, <2>1 DEF Refuse, clientVars
  <2>3. Elements(reply') = {m}
    BY <2>2, OfOne
  <2>4. QED
    BY <2>2, <2>3 DEF Single
<1>6. CASE ListenerReply
  <2>1. reply \in Seq(Status) /\ statusQ \in Seq(Status)
    BY TypeParts DEF ListTypes, ListenerTypes
  <2>2. Elements(statusQ') = Elements(reply) \cup Elements(statusQ)
    BY <1>6, <2>1, OfConcat DEF ListenerReply
  <2>3. reply' = <<>> /\ seen' = seen
    BY <1>6 DEF ListenerReply, clientVars
  <2>4. QED
    BY <2>2, <2>3 DEF Single
<1>7. CASE UNCHANGED vars
  BY <1>7 DEF vars, clientVars, listenerVars
<1>8. QED
  BY <1>1, <1>2, <1>3, <1>4, <1>5, <1>6, <1>7 DEF Next, Listener, Execute, CarriesOut

(* A call forgets the statuses it read when it ends.                       *)
LEMMA AskingStep == TypeOK /\ Asking /\ [Next]_vars => Asking'
<1> SUFFICES ASSUME TypeOK, Asking, [Next]_vars PROVE Asking'
  OBVIOUS
<1>0. ClientTypes
  BY TypeParts
<1> USE <1>0 DEF ClientTypes, Asking, Goto
<1>1. ASSUME NEW c \in Clients, DelCmd(c) PROVE Asking'
  BY <1>1 DEF DelCmd
<1>2. ASSUME NEW c \in Clients, DelStatus(c) PROVE Asking'
  BY <1>2 DEF DelStatus, history
<1>3. ASSUME NEW c \in Clients, Push(c) PROVE Asking'
  BY <1>3 DEF Push, history
<1>4. ASSUME NEW c \in Clients, Poll(c) PROVE Asking'
  BY <1>4 DEF Poll, Polling, history
<1>5. ASSUME NEW c \in Clients, Finish(c) PROVE Asking'
  BY <1>5 DEF Finish
<1>6. ASSUME NEW c \in Clients, Interrupt(c) \/ RedisRestart(c) PROVE Asking'
  BY <1>6 DEF Interrupt, RedisRestart, Aborted
<1>7. CASE Listener \/ ListenerCrash \/ IfaceChanges
  BY <1>7, ByListener DEF clientVars
<1>8. CASE UNCHANGED vars
  BY <1>8 DEF vars, clientVars, history
<1>9. QED
  BY <1>1, <1>2, <1>3, <1>4, <1>5, <1>6, <1>7, <1>8 DEF Next, Call

(* The statuses a client reads are owned when it reads them.               *)
LEMMA ExplainedByIds ==
  StatusExplained <=>
    \A c \in Clients : \A x \in Told(seen[c]) : x[1] = c => x = Own(c) \/ x \in abandoned
BY DEF StatusExplained, Told, Elements

LEMMA ExplainedStep ==
  TypeOK /\ Placement /\ Asking /\ StatusExplained /\ [Next]_vars => StatusExplained'
<1> SUFFICES ASSUME TypeOK, Placement, Asking, StatusExplained, [Next]_vars
             PROVE  StatusExplained'
  OBVIOUS
<1> DEFINE Explained(c) == \A x \in Told(seen[c]) : x[1] = c => x = Own(c) \/ x \in abandoned
<1>0. ClientTypes /\ \A c \in Clients : Explained(c)
  BY TypeParts, ExplainedByIds
<1>a. StatusExplained' <=> \A c \in Clients : Explained(c)'
  BY DEF StatusExplained, Told, Elements
<1>b. ASSUME NEW c \in Clients, seen'[c] \in {seen[c], <<>>}, issued'[c] = issued[c],
             abandoned \subseteq abandoned'
      PROVE  Explained(c)'
  BY <1>0, <1>b, Empty DEF Own
<1>1. ASSUME NEW c \in Clients, DelCmd(c) PROVE StatusExplained'
  <2>1. seen' = seen /\ abandoned' = abandoned /\ seen[c] = <<>>
        /\ \A d \in Clients \ {c} : issued'[d] = issued[d]
    BY <1>0, <1>1 DEF DelCmd, Asking, ClientTypes
  <2>2. Explained(c)'
    BY <2>1, Empty
  <2>3. QED
    BY <1>a, <1>b, <2>1, <2>2
<1>2. ASSUME NEW c \in Clients, Poll(c) PROVE StatusExplained'
  <2>1. seen'[c] = statusQ /\ UNCHANGED <<issued, abandoned>> /\ pc[c] = "poll"
        /\ \A d \in Clients \ {c} : seen'[d] = seen[d]
    BY <1>0, <1>2 DEF Poll, Polling, history, ClientTypes
  <2>2. \A x \in Told(statusQ) : x[1] = c => x = Own(c) \/ x \in abandoned
    BY DEF Placement, Answered, Owned
  <2>3. Explained(c)'
    BY <2>1, <2>2 DEF Own
  <2>4. QED
    BY <1>a, <1>b, <2>1, <2>3
<1>3. ASSUME NEW c \in Clients,
             DelStatus(c) \/ Push(c) \/ Finish(c) \/ Interrupt(c) \/ RedisRestart(c)
      PROVE  StatusExplained'
  <2>1. issued' = issued /\ abandoned \subseteq abandoned'
    BY <1>3 DEF DelStatus, Push, Finish, Interrupt, RedisRestart, Aborted, history
  <2>2. \A d \in Clients : seen'[d] \in {seen[d], <<>>}
    BY <1>0, <1>3 DEF DelStatus, Push, Finish, Interrupt, RedisRestart, Aborted, ClientTypes
  <2>3. QED
    BY <1>a, <1>b, <2>1, <2>2
<1>4. CASE Listener \/ ListenerCrash \/ IfaceChanges \/ UNCHANGED vars
  <2>1. UNCHANGED <<seen, issued, abandoned>>
    BY <1>4, ByListener DEF vars, clientVars, history
  <2>2. QED
    BY <1>a, <1>b, <2>1
<1>5. QED
  BY <1>1, <1>2, <1>3, <1>4 DEF Next, Call

(* An agent that loses its handle becomes a stray.                         *)
LEMMA AgentsKnownStep == TypeOK /\ AgentsKnown /\ [Next]_vars => AgentsKnown'
<1> SUFFICES ASSUME TypeOK, AgentsKnown, [Next]_vars PROVE AgentsKnown'
  OBVIOUS
<1> USE DEF AgentsKnown
<1>1. ASSUME NEW c \in Clients, Call(c) \/ Interrupt(c) PROVE AgentsKnown'
  BY <1>1, ByClient DEF listenerVars, serverVars
<1>2. ASSUME NEW c \in Clients, RedisRestart(c) PROVE AgentsKnown'
  BY <1>2 DEF RedisRestart, listenerVars, serverVars
<1>3. CASE ListenerStart \/ ListenerRead \/ ListenerDelete \/ ListenerReply \/ ExecIface \/ Refuse
  BY <1>3 DEF ListenerStart, ListenerRead, ListenerDelete, ListenerReply, ExecIface, Refuse,
              serverVars, history
<1>4. CASE ExecSetIface \/ ListenerCrash \/ IfaceChanges
  BY <1>4 DEF ExecSetIface, ListenerCrash, IfaceChanges, Dies, listenerVars, history
<1>5. CASE ExecStart \/ ExecStop
  BY <1>5 DEF ExecStart, ExecStop, Dies
<1>6. CASE UNCHANGED vars
  BY <1>6 DEF vars, listenerVars, serverVars, history
<1>7. QED
  BY <1>1, <1>2, <1>3, <1>4, <1>5, <1>6 DEF Next, Listener, Execute

-----------------------------------------------------------------------------
LEMMA InvInit == Init => IInv
<1> SUFFICES ASSUME Init PROVE IInv
  OBVIOUS
<1> USE Empty DEF Init
<1>1. TypeOK
  <2>1. ListTypes /\ ListenerTypes
    BY NoCommand DEF ListTypes, ListenerTypes
  <2>2. ClientTypes
    BY NoCommand DEF ClientTypes
  <2>3. ServerTypes /\ HistoryTypes
    BY DEF ServerTypes, HistoryTypes
  <2>4. QED
    BY <2>1, <2>2, <2>3, TypeParts
<1>2. Pushed = {} /\ Answered = {} /\ executed = {}
  BY DEF Pushed, InHand, Answered
<1>3. Numbered /\ Unpushed /\ Placement
  BY <1>2 DEF Numbered, Unpushed, Placement
<1>4. OnePlace
  BY <1>2 DEF OnePlace, Pushed
<1>5. SingleStatus
  BY DEF SingleStatus, Single
<1>6. Asking /\ StatusExplained /\ AgentsKnown
  BY DEF Asking, StatusExplained, AgentsKnown
<1>7. QED
  BY <1>1, <1>3, <1>4, <1>5, <1>6 DEF IInv

LEMMA InvStep == IInv /\ [Next]_vars => IInv'
BY TypeStep, NumberedStep, UnpushedStep, OnePlaceStep, PlacementStep, SingleStatusStep,
   AskingStep, ExplainedStep, AgentsKnownStep DEF IInv

LEMMA Invariance == Spec => []IInv
BY InvInit, InvStep, PTL DEF Spec

(* Every variable of the two halves of a remote command keeps its type,    *)
(* for every number of clients, polls, calls and faults.                   *)
THEOREM TypeCorrect == Spec => []TypeOK
BY Invariance, PTL DEF IInv

(* However many clients share the two lists and whatever crashes between   *)
(* two Redis commands: no command is carried out twice, a client reads the *)
(* status of an earlier call of its own only if that call was given up,    *)
(* and every running packet agent is known or was lost by a known step.    *)
THEOREM CommandsAreAccountedFor == Spec => []Accounted
<1>1. IInv => Accounted
  BY DEF IInv, Accounted, ExecutedOnce, OnePlace, Pushed, InHand
<1>2. QED
  BY <1>1, Invariance, PTL

(* The DEL of the listener drops a command nobody has read only if the     *)
(* command it has read is another client's or one its owner has given up.  *)
THEOREM LossesAreExplained == Spec => LossExplained
<1>1. ASSUME IInv, NEW c \in Clients, lpc = "delete", Own(c) \in IdsIn(cmdQ) \ IdsIn(batch)
      PROVE  \/ abandoned \cap OfClient(c) # {}
             \/ \E d \in Clients \ {c} : issued[d] > 0
  <2> DEFINE x == First.id
  <2>1. x \in Ids /\ x \in IdsIn(batch)
    BY <1>1, FirstInIds DEF IInv
  <2>2. x \in Pushed
    BY <1>1, <2>1 DEF Pushed, InHand
  <2>3. x[1] \in Clients /\ x[2] \in Nat /\ 1 <= x[2] /\ x[2] <= issued[x[1]]
    BY <1>1, <2>1, <2>2 DEF IInv, Numbered, Ids
  <2> HIDE DEF x
  <2>4. CASE x[1] = c
    <3>1. x \in abandoned
      BY <1>1, <2>1, <2>2, <2>4 DEF IInv, Placement, Owned
    <3>2. x \in OfClient(c)
      BY <2>1, <2>4 DEF Ids, OfClient
    <3>3. QED
      BY <3>1, <3>2
  <2>5. CASE x[1] # c
    <3>1. issued[x[1]] \in Nat
      BY <1>1, <2>3 DEF IInv, TypeOK
    <3>2. QED
      BY <2>3, <2>5, <3>1
  <2>6. QED
    BY <2>4, <2>5
<1>2. IInv =>
        [\A c \in Clients :
           /\ lpc = "delete" /\ lpc' = "execute"
           /\ Own(c) \in IdsIn(cmdQ) \ IdsIn(batch)
           => \/ abandoned \cap OfClient(c) # {}
              \/ \E d \in Clients \ {c} : issued[d] > 0]_vars
  BY <1>1
<1>3. QED
  BY <1>2, Invariance, PTL DEF LossExplained

-----------------------------------------------------------------------------
(* A remote command is a SAI call.                                         *)
Calling == [c \in Clients |-> pc[c] # "idle"]
Doubtful == {c \in Clients : abandoned \cap OfClient(c) # {}}
Unseen == UNCHANGED <<Calling, issued, executed, Doubtful, got>>

(* SaiRpc over this state.                                                 *)
LEMMA SameInit == Init => Rpc!Init
<1> SUFFICES ASSUME Init PROVE Rpc!Init
  OBVIOUS
<1>1. \A c \in Clients : (pc[c] # "idle") = FALSE
  BY DEF Init
<1>2. Calling = [c \in Clients |-> FALSE]
  BY <1>1, Zenon DEF Calling
<1>3. Doubtful = {}
  BY DEF Doubtful, Init
<1>4. QED
  BY <1>2, <1>3 DEF Rpc!Init, Calling, Doubtful, Init

LEMMA CallingAfter ==
  ASSUME NEW c \in Clients, NEW v \in BOOLEAN, (pc'[c] # "idle") = v,
         \A d \in Clients \ {c} : pc'[d] = pc[d]
  PROVE  Calling' = [Calling EXCEPT ![c] = v]
<1>1. [Calling EXCEPT ![c] = v] = [d \in Clients |-> IF d = c THEN v ELSE pc[d] # "idle"]
  BY DEF Calling
<1>2. \A d \in Clients : (pc'[d] # "idle") = IF d = c THEN v ELSE pc[d] # "idle"
  OBVIOUS
<1>3. QED
  BY <1>1, <1>2, Zenon DEF Calling

LEMMA CallingKept ==
  ASSUME \A c \in Clients : (pc'[c] # "idle") = (pc[c] # "idle") PROVE Calling' = Calling
BY DEF Calling

LEMMA DoubtfulAfter ==
  ASSUME TypeOK, NEW D \in SUBSET Clients, abandoned' = abandoned \cup {Own(c) : c \in D}
  PROVE  Doubtful' = Doubtful \cup D
<1>1. \A c, d \in Clients : Own(c) \in OfClient(d) <=> c = d
  BY DEF TypeOK, Own, OfClient
<1>2. QED
  BY <1>1 DEF Doubtful

(* Each step of SaiRpc, with what it reads of this state.                  *)
LEMMA RpcCall ==
  ASSUME NEW c \in Clients, pc[c] = "idle", Calling' = [Calling EXCEPT ![c] = TRUE],
         issued' = [issued EXCEPT ![c] = @ + 1], got' = [got EXCEPT ![c] = {}],
         UNCHANGED <<executed, Doubtful>>
  PROVE  Rpc!Next
<1>1. Rpc!Call(c)
  BY DEF Rpc!Call, Calling, Doubtful
<1>2. QED
  BY <1>1 DEF Rpc!Next

LEMMA RpcReturn ==
  ASSUME NEW c \in Clients, pc[c] # "idle", Calling' = [Calling EXCEPT ![c] = FALSE],
         NEW r \in executed, got' = [got EXCEPT ![c] = {r}], UNCHANGED <<issued, executed>>,
         \/ r = Own(c) /\ Doubtful' = Doubtful
         \/ r # Own(c) /\ Doubtful' = Doubtful \cup {c} /\ (r[1] = c => c \in Doubtful)
  PROVE  Rpc!Next
<1>1. Own(c) = Rpc!OwnRequest(c)
  BY DEF Own, Rpc!OwnRequest
<1>2. r = Rpc!OwnRequest(c) \/ Rpc!Foreign(c, r)
  BY <1>1 DEF Rpc!Foreign, Doubtful
<1>3. Doubtful' \in {Doubtful} \cup
        (IF r = Rpc!OwnRequest(c) THEN {} ELSE {Doubtful \cup {c}})
  BY <1>1
<1>4. Rpc!Return(c)
  BY <1>2, <1>3 DEF Rpc!Return, Calling, Doubtful
<1>5. QED
  BY <1>4 DEF Rpc!Next

LEMMA RpcFail ==
  ASSUME NEW C \in SUBSET Clients, C # {}, \A c \in C : pc[c] # "idle",
         Calling' = [c \in Clients |-> Calling[c] /\ c \notin C],
         NEW D \in SUBSET C, Doubtful' = Doubtful \cup D, UNCHANGED <<issued, executed, got>>
  PROVE  Rpc!Next
<1>1. Rpc!Fail(C)
  BY DEF Rpc!Fail, Calling, Doubtful
<1>2. QED
  BY <1>1 DEF Rpc!Next

LEMMA RpcExecute ==
  ASSUME TypeOK, Numbered, OnePlace, CarriesOut
  PROVE  Rpc!Next
<1> DEFINE x == First.id
<1>1. x \in Ids /\ x \in Pushed /\ x \notin executed /\ executed' = executed \cup {x}
  BY CarriedOut DEF Pushed, OnePlace
<1>2. UNCHANGED <<pc, issued, abandoned, got>>
  BY CarriedOut DEF clientVars
<1> HIDE DEF x
<1>3. PICK c \in Clients, n \in Nat : x = <<c, n>>
  BY <1>1 DEF Ids
<1>4. n \in 1..issued[c]
  BY <1>1, <1>3 DEF Numbered, TypeOK
<1>5. Rpc!Execute(<<c, n>>)
  BY <1>1, <1>2, <1>3 DEF Rpc!Execute, OfClient
<1>6. QED
  BY <1>4, <1>5 DEF Rpc!Next

(* The call ends: the answer is its own, that of an earlier call it had    *)
(* given up, another client's, or none.                                    *)
LEMMA FinishReturns ==
  ASSUME IInv, NEW c \in Clients, Finish(c) PROVE Rpc!Next
<1> USE DEF IInv
<1> DEFINE A == Answer(seen[c])
<1>0. ClientTypes
  BY TypeParts
<1>1. /\ pc[c] # "idle" /\ pc'[c] = "idle" /\ \A d \in Clients \ {c} : pc'[d] = pc[d]
      /\ got' = [got EXCEPT ![c] = A] /\ abandoned' = abandoned \cup ({Own(c)} \ A)
      /\ UNCHANGED <<issued, executed>>
  BY <1>0 DEF Finish, Goto, ClientTypes
<1>2. Calling' = [Calling EXCEPT ![c] = FALSE]
  BY <1>1, CallingAfter
<1>3. A \subseteq Told(seen[c]) /\ \A x, y \in A : x = y
  <2>1. CASE seen[c] = <<>>
    BY <2>1 DEF Answer
  <2>2. CASE seen[c] # <<>>
    <3>1. Head(seen[c]) \in Elements(seen[c])
      BY <1>0, <2>2, OfHead DEF ClientTypes
    <3>2. QED
      BY <2>2, <3>1 DEF Answer, Told, SingleStatus, Single
  <2>3. QED
    BY <2>1, <2>2
<1> HIDE DEF A
<1>4. CASE A = {}
  <2>1. got' = got
    BY <1>0, <1>1, <1>4 DEF Asking, ClientTypes
  <2>2. Doubtful' = Doubtful \cup {c}
    <3>1. abandoned' = abandoned \cup {Own(d) : d \in {c}}
      BY <1>1, <1>4
    <3>2. QED
      BY <3>1, DoubtfulAfter
  <2>3. Calling' = [d \in Clients |-> Calling[d] /\ d \notin {c}]
    <3>1. Calling' = [d \in Clients |-> IF d = c THEN FALSE ELSE Calling[d]]
      BY <1>2 DEF Calling
    <3>2. ASSUME NEW d \in Clients
          PROVE  (IF d = c THEN FALSE ELSE Calling[d]) = (Calling[d] /\ d \notin {c})
      <4>1. Calling[d] \in BOOLEAN
        BY DEF Calling
      <4>2. QED
        BY ONLY <4>1
    <3>3. QED
      BY <3>1, <3>2, Zenon
  <2>4. QED
    BY <1>1, <2>1, <2>2, <2>3, RpcFail
<1>5. CASE A # {}
  <2>1. PICK r : A = {r}
    <3>1. PICK s \in A : TRUE
      BY <1>5
    <3>2. A = {s}
      BY <1>3, <3>1
    <3>3. QED
      BY <3>2
  <2>2. r \in Told(seen[c]) /\ r \in executed /\ r \in Ids
    BY <1>3, <2>1 DEF OnePlace, TypeOK
  <2>3. CASE r = Own(c)
    <3>1. abandoned' = abandoned
      BY <1>1, <2>1, <2>3
    <3>2. Doubtful' = Doubtful
      BY <3>1 DEF Doubtful
    <3>3. QED
      BY <1>1, <1>2, <2>1, <2>2, <2>3, <3>2, RpcReturn
  <2>4. CASE r # Own(c)
    <3>1. Doubtful' = Doubtful \cup {c}
      <4>1. abandoned' = abandoned \cup {Own(d) : d \in {c}}
        BY <1>1, <2>1, <2>4
      <4>2. QED
        BY <4>1, DoubtfulAfter
    <3>2. r[1] = c => c \in Doubtful
      <4>1. r[1] = c => r \in abandoned
        BY <2>2, <2>4, ExplainedByIds
      <4>2. r[1] = c => r \in OfClient(c)
        BY <2>2 DEF Ids, OfClient
      <4>3. QED
        BY <4>1, <4>2 DEF Doubtful
    <3>3. QED
      BY <1>1, <1>2, <2>1, <2>2, <2>4, <3>1, <3>2, RpcReturn
  <2>5. QED
    BY <2>3, <2>4
<1>6. QED
  BY <1>4, <1>5

(* The calls that are cut short fail together.                             *)
LEMMA AbortedFails ==
  ASSUME TypeOK, NEW C \in SUBSET Clients, \A c \in C : pc[c] # "idle", Aborted(C)
  PROVE  Rpc!Next \/ Unseen
<1> DEFINE D == {d \in C : pc[d] = "poll"}
<1>1. Doubtful' = Doubtful \cup D
  BY DoubtfulAfter DEF Aborted
<1>2. Calling' = [c \in Clients |-> Calling[c] /\ c \notin C]
  <2>1. ASSUME NEW c \in Clients PROVE (pc'[c] # "idle") = (Calling[c] /\ c \notin C)
    BY DEF Aborted, Calling
  <2>2. QED
    BY <2>1, Zenon DEF Calling
<1>3. CASE C = {}
  <2>1. \A c \in Clients : pc'[c] = pc[c]
    BY <1>3 DEF Aborted
  <2>2. QED
    BY <1>1, <1>3, <2>1, CallingKept DEF Unseen, Aborted
<1>4. CASE C # {}
  <2>1. D \in SUBSET C /\ UNCHANGED <<issued, executed, got>>
    BY DEF Aborted
  <2> HIDE DEF D
  <2>2. QED
    BY <1>1, <1>2, <1>4, <2>1, RpcFail
<1>5. QED
  BY <1>3, <1>4

(* Each step of the client, the listener and the server is a step of       *)
(* SaiRpc or is not seen there.                                            *)
LEMMA RpcStep == IInv /\ [Next]_vars => [Rpc!Next]_(Rpc!vars)
<1> SUFFICES ASSUME IInv, [Next]_vars PROVE Rpc!Next \/ Unseen
  BY DEF Unseen, Rpc!vars, Calling, Doubtful
<1> USE DEF IInv
<1>0. ClientTypes
  BY TypeParts
<1>a. ASSUME \A c \in Clients : (pc'[c] # "idle") = (pc[c] # "idle"),
             UNCHANGED <<issued, executed, abandoned, got>>
      PROVE  Unseen
  BY <1>a, CallingKept DEF Unseen, Doubtful
<1>1. ASSUME NEW c \in Clients, DelCmd(c) PROVE Rpc!Next
  <2>1. Calling' = [Calling EXCEPT ![c] = TRUE]
    BY <1>0, <1>1, CallingAfter DEF DelCmd, Goto, ClientTypes
  <2>2. QED
    BY <1>1, <2>1, RpcCall DEF DelCmd, Doubtful
<1>2. ASSUME NEW c \in Clients, DelStatus(c) \/ Push(c) \/ Poll(c) PROVE Unseen
  BY <1>0, <1>2, <1>a DEF DelStatus, Push, Poll, Polling, Goto, ClientTypes, history, listenerVars
<1>3. ASSUME NEW c \in Clients, Finish(c) PROVE Rpc!Next
  BY <1>3, FinishReturns
<1>4. ASSUME NEW c \in Clients, Interrupt(c) \/ RedisRestart(c) PROVE Rpc!Next \/ Unseen
  <2>1. PICK C \in SUBSET Clients : Aborted(C) /\ \A d \in C : pc[d] # "idle"
    BY <1>4 DEF Interrupt, RedisRestart
  <2>2. QED
    BY <2>1, AbortedFails
<1>5. CASE CarriesOut
  BY <1>5, RpcExecute
<1>6. CASE \/ ListenerStart \/ ListenerRead \/ ListenerDelete \/ Refuse \/ ListenerReply
           \/ ListenerCrash \/ IfaceChanges
  <2>1. executed' = executed
    BY <1>6, ListenerMoves
  <2>2. UNCHANGED <<pc, issued, abandoned, got>>
    BY <1>6, ByListener DEF Listener, Execute, clientVars
  <2>3. QED
    BY <1>a, <2>1, <2>2
<1>7. CASE UNCHANGED vars
  BY <1>7, <1>a DEF vars, clientVars, history
<1>8. QED
  BY <1>1, <1>2, <1>3, <1>4, <1>5, <1>6, <1>7
     DEF Next, Call, Listener, Execute, CarriesOut

(* A remote command keeps the promise of a SAI call, for every number of   *)
(* clients: executed at most once, answered with a status the listener has *)
(* made, and with another command's status only where SaiRpc allows it.    *)
THEOREM RemoteCommandIsASaiCall == Spec => ImplementsSaiRpc
<1>1. Init => Rpc!Init
  BY SameInit
<1>2. QED
  BY <1>1, RpcStep, Invariance, PTL DEF Spec, ImplementsSaiRpc, Rpc!Spec
=============================================================================
