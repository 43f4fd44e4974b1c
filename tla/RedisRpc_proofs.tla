--------------------------- MODULE RedisRpc_proofs ---------------------------
(***************************************************************************)
(* Proofs about RedisRpc, for every set of clients, every poll budget and  *)
(* every bound on calls and faults.                                        *)
(***************************************************************************)
EXTENDS RedisRpc, FiniteSetTheorems, TLAPS

(* The steps of a call from its own DEL on, i.e. with no answer to an      *)
(* earlier, settled call of the same client left in the list.              *)
AfterDelete == {"check", "push", "publish", "poll", "alive", "finish"}

Distinct(s) == \A i, j \in 1..Len(s) : i # j => s[i] # s[j]

(* Ids are handed out in order; the one of a call not yet pushed is new.   *)
IdsIssued ==
  /\ \A x \in Queued \cup executed : x[2] <= issued[x[1]]
  /\ \A c \in Clients :
       pc[c] \in {"locate", "delete", "check", "push"} =>
         Own(c) \notin Queued \cup executed

(* A request is in one place only.                                         *)
OnePlace ==
  /\ Distinct(reqQ)
  /\ Queued \cap executed = {}
  /\ work \subseteq executed /\ rspQ \subseteq executed
  /\ rspQ \cap work = {}
  /\ \A c \in Clients : seen[c] \subseteq executed /\ seen[c] \cap work = {}

Owned(x) == x \in abandoned \/ (Sent(x[1]) /\ x = Own(x[1]))

(* Whatever syncd has not answered belongs to a call in progress or to an  *)
(* abandoned one; so do the answers a client may read after its DEL.       *)
Placement ==
  /\ \A x \in Queued \cup work : Owned(x)
  /\ \A x \in rspQ : Owned(x) \/ pc[x[1]] \notin AfterDelete

CleanupProgress ==
  \A c \in Clients :
    /\ pc[c] \in {"shutdown", "awaitRedis", "awaitSyncd"} => Queued \cap OfClient(c) = {}
    /\ pc[c] = "awaitSyncd" \/ (pc[c] = "awaitRedis" /\ redisUp) => work \cap OfClient(c) = {}

SeenOnlyAtFinish == \A c \in Clients : pc[c] # "finish" => seen[c] = {}

(* Calls are numbered from 1, and so are the requests they push.           *)
Numbered ==
  /\ \A c \in Clients : InCall(c) => issued[c] >= 1
  /\ \A x \in Queued : x[2] >= 1

(* The lists are finite, so that exactly one answer is a set of one.       *)
ListsFinite == IsFiniteSet(rspQ) /\ IsFiniteSet(work) /\ \A c \in Clients : IsFiniteSet(seen[c])

IInv ==
  /\ TypeOK /\ ListsFinite /\ Numbered /\ IdsIssued /\ OnePlace /\ Placement
  /\ CleanupProgress /\ SeenOnlyAtFinish /\ AnswersExplained
-----------------------------------------------------------------------------
(* The request list after LPUSH and after a pop.                           *)
LEMMA ElementsAppend ==
  ASSUME NEW S, NEW s \in Seq(S), NEW x \in S
  PROVE  /\ Elements(Append(s, x)) = Elements(s) \cup {x}
         /\ Distinct(s) /\ x \notin Elements(s) => Distinct(Append(s, x))
<1>1. Elements(Append(s, x)) = Elements(s) \cup {x}
  BY DEF Elements
<1>2. Distinct(s) /\ x \notin Elements(s) => Distinct(Append(s, x))
  BY DEF Elements, Distinct
<1>3. QED
  BY <1>1, <1>2

LEMMA ElementsTail ==
  ASSUME NEW S, NEW s \in Seq(S), s # <<>>, Distinct(s)
  PROVE  /\ Head(s) \in Elements(s)
         /\ Elements(Tail(s)) \subseteq Elements(s) \ {Head(s)}
         /\ Distinct(Tail(s))
BY DEF Elements, Distinct

LEMMA ElementsEmpty == Elements(<<>>) = {} /\ Distinct(<<>>)
BY DEF Elements, Distinct

LEMMA EmptySeq == <<>> \in Seq(Ids)
OBVIOUS

LEMMA OwnInIds == ASSUME TypeOK, NEW c \in Clients PROVE Own(c) \in Ids
BY DEF TypeOK, Own, Ids

-----------------------------------------------------------------------------
(* Every variable keeps its type: the lists hold requests, the program     *)
(* counters name steps of operate() or cleanup(), and an attempt is left   *)
(* whenever the body of the polling loop runs.                             *)
LEMMA TypeStep == TypeOK /\ [Next]_vars => TypeOK'
<1> SUFFICES ASSUME TypeOK, [Next]_vars PROVE TypeOK'
  OBVIOUS
<1> USE DEF TypeOK, Goto, CallSteps, CleanupSteps, redisVars, syncdVars, clientVars, history
<1>1. ASSUME NEW c \in Clients, Begin(c) PROVE TypeOK'
  BY <1>1 DEF Begin
<1>2. ASSUME NEW c \in Clients, Locate(c) PROVE TypeOK'
  <2>1. CASE syncdUp
    BY <1>2, <2>1 DEF Locate
  <2>2. CASE ~syncdUp
    BY <1>2, <2>2, OwnInIds DEF Locate, GiveUp
  <2>3. QED
    BY <2>1, <2>2
<1>3. ASSUME NEW c \in Clients, Delete(c) PROVE TypeOK'
  BY <1>3 DEF Delete
<1>4. ASSUME NEW c \in Clients, Check(c) PROVE TypeOK'
  <2>1. CASE rspQ = {}
    BY <1>4, <2>1 DEF Check
  <2>2. CASE rspQ # {}
    BY <1>4, <2>2, OwnInIds DEF Check, GiveUp
  <2>3. QED
    BY <2>1, <2>2
<1>5. ASSUME NEW c \in Clients, Push(c) PROVE TypeOK'
  BY <1>5, OwnInIds DEF Push
<1>6. ASSUME NEW c \in Clients, Publish(c) PROVE TypeOK'
  BY <1>6, BudgetsAssumption DEF Publish
<1>7. ASSUME NEW c \in Clients, Poll(c) PROVE TypeOK'
  BY <1>7 DEF Poll
<1>8. ASSUME NEW c \in Clients, Alive(c) PROVE TypeOK'
  <2>1. CASE syncdUp
    <3>1. polls[c] - 1 \in Nat
      BY <1>8 DEF Alive
    <3>2. QED
      BY <1>8, <2>1, <3>1 DEF Alive
  <2>2. CASE ~syncdUp
    <3>1. abandoned' \subseteq Ids
      BY <1>8, <2>2, OwnInIds DEF Alive, GiveUp
    <3>2. polls' \in [Clients -> Nat] /\ pc' = [pc EXCEPT ![c] = "idle"]
      BY <1>8, <2>2 DEF Alive, GiveUp
    <3>3. QED
      BY <1>8, <2>2, <3>1, <3>2 DEF Alive, GiveUp
  <2>3. QED
    BY <2>1, <2>2
<1>9. ASSUME NEW c \in Clients, Finish(c) PROVE TypeOK'
  <2>1. CASE Cardinality(seen[c]) = 1
    BY <1>9, <2>1, OwnInIds DEF Finish
  <2>2. CASE Cardinality(seen[c]) # 1
    BY <1>9, <2>2, OwnInIds DEF Finish, GiveUp
  <2>3. QED
    BY <2>1, <2>2
<1>10. ASSUME NEW c \in Clients, Flush(c) PROVE TypeOK'
  <2>1. reqQ' \in Seq(Ids)
    BY <1>10, EmptySeq DEF Flush
  <2>2. QED
    BY <1>10, <2>1 DEF Flush
<1>11. ASSUME NEW c \in Clients, Shutdown(c) \/ AwaitRedis(c) PROVE TypeOK'
  BY <1>11 DEF Shutdown, AwaitRedis
<1>12. ASSUME NEW c \in Clients, AwaitSyncd(c) PROVE TypeOK'
  <2>1. abandoned' \subseteq Ids
    BY <1>12 DEF AwaitSyncd
  <2>2. QED
    BY <1>12, <2>1 DEF AwaitSyncd
<1>13. ASSUME NEW c \in Clients, ConnectionLost(c) PROVE TypeOK'
  BY <1>13, OwnInIds DEF ConnectionLost, GiveUp
<1>14. ASSUME NEW c \in Clients, Interrupt(c) PROVE TypeOK'
  <2>1. faults' \in Nat
    BY <1>14 DEF Interrupt
  <2>2. abandoned' \subseteq Ids
    BY <1>14, OwnInIds DEF Interrupt, GiveUp
  <2>3. QED
    BY <1>14, <2>1, <2>2 DEF Interrupt, GiveUp
<1>15. CASE SyncdTake
  <2>1. CASE reqQ = <<>>
    BY <1>15, <2>1 DEF SyncdTake
  <2>2. CASE reqQ # <<>>
    <3>1. Head(reqQ) \in Ids /\ Tail(reqQ) \in Seq(Ids)
      BY <2>2
    <3>2. reqQ' \in Seq(Ids) /\ work' \subseteq Ids /\ executed' \subseteq Ids
      BY <1>15, <2>2, <3>1 DEF SyncdTake
    <3>3. QED
      BY <1>15, <2>2, <3>2 DEF SyncdTake
  <2>3. QED
    BY <2>1, <2>2
<1>16. CASE SyncdAnswer
  BY <1>16 DEF SyncdAnswer
<1>17. CASE SyncdCrash
  <2>1. faults' \in Nat
    BY <1>17 DEF SyncdCrash
  <2>2. QED
    BY <1>17, <2>1 DEF SyncdCrash
<1>18. CASE SyncdStart
  <2>1. reqQ' \in Seq(Ids)
    BY <1>18, EmptySeq DEF SyncdStart
  <2>2. QED
    BY <1>18, <2>1 DEF SyncdStart
<1>19. CASE RedisRestart
  BY <1>19 DEF RedisRestart
<1>20. CASE UNCHANGED vars
  BY <1>20 DEF vars
<1>21. QED
  BY <1>1, <1>2, <1>3, <1>4, <1>5, <1>6, <1>7, <1>8, <1>9, <1>10, <1>11, <1>12, <1>13,
     <1>14, <1>15, <1>16, <1>17, <1>18, <1>19, <1>20
     DEF Next, Operate, Cleanup, Environment

(* TypeOK is an invariant of the specification.                            *)
THEOREM TypeCorrect == Spec => []TypeOK
<1>1. Init => TypeOK
  <2> SUFFICES ASSUME Init PROVE TypeOK
    OBVIOUS
  <2> USE DEF Init
  <2>1. reqQ \in Seq(Ids)
    BY EmptySeq
  <2>2. QED
    BY <2>1 DEF TypeOK
<1>2. QED
  BY <1>1, TypeStep, PTL DEF Spec

-----------------------------------------------------------------------------
(* The steps of a client that touch neither the request list nor the       *)
(* counters: all but Begin, Push and Flush.                                *)
Quiet(c) ==
  \/ Locate(c) \/ Delete(c) \/ Check(c) \/ Publish(c) \/ Poll(c) \/ Alive(c) \/ Finish(c)
  \/ Shutdown(c) \/ AwaitRedis(c) \/ AwaitSyncd(c) \/ ConnectionLost(c) \/ Interrupt(c)

BeforePush == {"locate", "delete", "check", "push"}

LEMMA NextCases ==
  ASSUME Next
  PROVE  \/ \E c \in Clients : Begin(c) \/ Push(c) \/ Flush(c) \/ Quiet(c)
         \/ Environment
BY DEF Next, Operate, Cleanup, Quiet

LEMMA QuietFrame ==
  ASSUME TypeOK, NEW c \in Clients, Quiet(c)
  PROVE  /\ UNCHANGED <<reqQ, issued, executed, work>>
         /\ \A d \in Clients \ {c} : pc'[d] = pc[d] /\ seen'[d] = seen[d]
         /\ rspQ' \subseteq rspQ /\ seen'[c] \subseteq seen[c] \cup rspQ
         /\ pc'[c] \in BeforePush => pc[c] \in BeforePush
         /\ pc'[c] \in AfterDelete => pc[c] \in AfterDelete \/ rspQ' = {}
<1> USE DEF TypeOK, Goto, GiveUp, BeforePush, AfterDelete, redisVars, syncdVars, clientVars, history
<1>1. CASE Locate(c) \/ Check(c) \/ Delete(c)
  BY <1>1 DEF Locate, Check, Delete
<1>2. CASE Publish(c) \/ Poll(c) \/ Alive(c)
  BY <1>2 DEF Publish, Poll, Alive
<1>3. CASE Finish(c)
  BY <1>3 DEF Finish
<1>4. CASE Shutdown(c) \/ AwaitRedis(c) \/ AwaitSyncd(c)
  BY <1>4 DEF Shutdown, AwaitRedis, AwaitSyncd
<1>5. CASE ConnectionLost(c) \/ Interrupt(c)
  BY <1>5 DEF ConnectionLost, Interrupt
<1>6. QED
  BY <1>1, <1>2, <1>3, <1>4, <1>5 DEF Quiet

LEMMA QueuedInIds == ASSUME TypeOK PROVE Queued \subseteq Ids
BY DEF TypeOK, Queued, Elements

(* A cleared or kept list holds nothing new; so does a popped one.         *)
LEMMA Shrinks ==
  ASSUME TypeOK, Distinct(reqQ),
         \/ reqQ' \in {reqQ, <<>>}
         \/ reqQ # <<>> /\ reqQ' = Tail(reqQ)
  PROVE  Queued' \subseteq Queued /\ Distinct(reqQ)'
<1>1. CASE reqQ' = reqQ
  BY <1>1 DEF Queued
<1>2. CASE reqQ' = <<>>
  BY <1>2, ElementsEmpty DEF Queued
<1>3. CASE reqQ # <<>> /\ reqQ' = Tail(reqQ)
  BY <1>3, ElementsTail DEF Queued, TypeOK
<1>4. QED
  BY <1>1, <1>2, <1>3

LEMMA Grows ==
  ASSUME TypeOK, IdsIssued, OnePlace, NEW c \in Clients, Push(c)
  PROVE  /\ Queued' = Queued \cup {Own(c)} /\ Distinct(reqQ)'
         /\ Own(c) \notin Queued \cup executed
<1>1. Own(c) \notin Queued \cup executed /\ Distinct(reqQ)
  BY DEF IdsIssued, Push, OnePlace
<1>2. reqQ \in Seq(Ids) /\ Own(c) \in Ids /\ reqQ' = Append(reqQ, Own(c))
  BY OwnInIds DEF TypeOK, Push
<1>3. QED
  BY <1>1, <1>2, ElementsAppend DEF Queued

LEMMA Takes ==
  ASSUME TypeOK, OnePlace, SyncdTake, reqQ # <<>>
  PROVE  /\ Head(reqQ) \in Queued /\ Head(reqQ) \notin executed
         /\ Queued' \subseteq Queued \ {Head(reqQ)} /\ Distinct(reqQ)'
         /\ work = {} /\ work' = {Head(reqQ)} /\ executed' = executed \cup {Head(reqQ)}
         /\ UNCHANGED <<pc, issued, abandoned, rspQ, seen, redisUp>>
<1>1. reqQ \in Seq(Ids) /\ Distinct(reqQ) /\ reqQ' = Tail(reqQ)
  BY DEF TypeOK, OnePlace, SyncdTake
<1>2. Head(reqQ) \in Queued /\ Queued' \subseteq Queued \ {Head(reqQ)} /\ Distinct(reqQ)'
  BY <1>1, ElementsTail DEF Queued
<1>3. QED
  BY <1>2 DEF OnePlace, SyncdTake, clientVars

-----------------------------------------------------------------------------
(* Ids are fresh when they are first pushed.                               *)
LEMMA IdsIssuedStep == TypeOK /\ IdsIssued /\ OnePlace /\ [Next]_vars => IdsIssued'
<1> SUFFICES ASSUME TypeOK, IdsIssued, OnePlace, [Next]_vars PROVE IdsIssued'
  OBVIOUS
<1> DEFINE Known == Queued \cup executed
<1>0. Known \subseteq Ids
  BY QueuedInIds DEF TypeOK
<1>1. ASSUME NEW c \in Clients, Begin(c) PROVE IdsIssued'
  <2>1. /\ issued' = [issued EXCEPT ![c] = @ + 1] /\ UNCHANGED <<reqQ, executed>>
        /\ \A d \in Clients \ {c} : pc'[d] = pc[d]
    BY <1>1 DEF Begin, Goto, redisVars, TypeOK
  <2>2. Known' = Known
    BY <2>1 DEF Queued
  <2>3. \A x \in Known : x[2] <= issued'[x[1]]
    BY <1>0, <2>1 DEF IdsIssued, TypeOK, Ids
  <2>4. Own(c)' \notin Known
    BY <1>0, <2>1 DEF IdsIssued, TypeOK, Ids, Own
  <2>5. \A d \in Clients \ {c} : Own(d)' = Own(d)
    BY <2>1 DEF Own, TypeOK
  <2>6. QED
    BY <2>1, <2>2, <2>3, <2>4, <2>5 DEF IdsIssued
<1>2. ASSUME NEW c \in Clients, Push(c) PROVE IdsIssued'
  <2>1. Known' = Known \cup {Own(c)}
    BY <1>2, Grows DEF Push, history
  <2>2. /\ issued' = issued /\ pc'[c] = "publish"
        /\ \A d \in Clients \ {c} : pc'[d] = pc[d]
    BY <1>2 DEF Push, Goto, history, TypeOK
  <2>3. Own(c)[2] <= issued[Own(c)[1]]
    BY DEF Own, TypeOK
  <2>4. \A d \in Clients : Own(d)' = Own(d) /\ (d # c => Own(d) # Own(c))
    BY <2>2 DEF Own
  <2>5. QED
    BY <2>1, <2>2, <2>3, <2>4 DEF IdsIssued
<1>3. ASSUME Known' \subseteq Known, issued' = issued,
             \A d \in Clients : pc'[d] \in BeforePush => pc[d] \in BeforePush
      PROVE  IdsIssued'
  BY <1>3 DEF IdsIssued, Own, BeforePush
<1>4. ASSUME NEW c \in Clients, Flush(c) PROVE IdsIssued'
  <2>1. Known' \subseteq Known
    BY <1>4, Shrinks DEF Flush, history, OnePlace
  <2>2. \A d \in Clients : pc'[d] \in BeforePush => pc[d] \in BeforePush
    BY <1>4 DEF Flush, Goto, BeforePush, TypeOK
  <2>3. QED
    BY <1>3, <1>4, <2>1, <2>2 DEF Flush, history
<1>5. ASSUME NEW c \in Clients, Quiet(c) PROVE IdsIssued'
  <2>1. Known' = Known
    BY <1>5, QuietFrame DEF Queued
  <2>2. \A d \in Clients : pc'[d] \in BeforePush => pc[d] \in BeforePush
    BY <1>5, QuietFrame
  <2>3. QED
    BY <1>3, <1>5, <2>1, <2>2, QuietFrame
<1>6. CASE Environment
  <2>1. UNCHANGED <<pc, issued>>
    BY <1>6 DEF Environment, SyncdTake, SyncdAnswer, SyncdCrash, SyncdStart, RedisRestart,
                clientVars, history
  <2>2. Known' \subseteq Known
    <3>1. CASE SyncdTake
      <4>1. CASE reqQ = <<>>
        BY <3>1, <4>1 DEF SyncdTake, Queued
      <4>2. CASE reqQ # <<>>
        BY <3>1, <4>2, Takes
      <4>3. QED
        BY <4>1, <4>2
    <3>2. CASE SyncdStart
      BY <3>2, Shrinks DEF SyncdStart, history, OnePlace
    <3>3. CASE SyncdAnswer \/ SyncdCrash \/ RedisRestart
      BY <3>3 DEF SyncdAnswer, SyncdCrash, RedisRestart, redisVars, history, Queued
    <3>4. QED
      BY <1>6, <3>1, <3>2, <3>3 DEF Environment
  <2>3. QED
    BY <1>3, <2>1, <2>2
<1>7. CASE UNCHANGED vars
  BY <1>3, <1>7 DEF vars, redisVars, clientVars, history, Queued
<1>8. QED
  BY <1>1, <1>2, <1>4, <1>5, <1>6, <1>7, NextCases

-----------------------------------------------------------------------------
(* A request is never in two places, and what has been executed is never   *)
(* queued again.                                                           *)
LEMMA OnePlaceStep == TypeOK /\ IdsIssued /\ OnePlace /\ [Next]_vars => OnePlace'
<1> SUFFICES ASSUME TypeOK, IdsIssued, OnePlace, [Next]_vars PROVE OnePlace'
  OBVIOUS
<1>0. seen \in [Clients -> SUBSET Ids]
  BY DEF TypeOK
<1>1. ASSUME NEW c \in Clients, Begin(c) PROVE OnePlace'
  BY <1>1 DEF Begin, OnePlace, Queued, redisVars, syncdVars
<1>2. ASSUME NEW c \in Clients, Push(c) PROVE OnePlace'
  <2>1. UNCHANGED <<executed, work, rspQ, seen>>
    BY <1>2 DEF Push, syncdVars, history
  <2>2. QED
    BY <1>2, <2>1, Grows DEF OnePlace
<1>3. ASSUME NEW c \in Clients, Flush(c) PROVE OnePlace'
  <2>1. UNCHANGED <<executed, work, seen>> /\ rspQ' = {}
    BY <1>3 DEF Flush, syncdVars, history
  <2>2. Queued' \subseteq Queued /\ Distinct(reqQ)'
    BY <1>3, Shrinks DEF Flush, OnePlace
  <2>3. QED
    BY <2>1, <2>2 DEF OnePlace
<1>4. ASSUME NEW c \in Clients, Quiet(c) PROVE OnePlace'
  <2>1. Queued' = Queued /\ Distinct(reqQ)' = Distinct(reqQ)
    BY <1>4, QuietFrame DEF Queued
  <2>2. \A d \in Clients : seen'[d] \subseteq seen[d] \cup rspQ
    BY <1>4, QuietFrame
  <2>3. QED
    BY <1>4, <2>1, <2>2, QuietFrame DEF OnePlace
<1>5. CASE SyncdTake
  <2>1. CASE reqQ = <<>>
    BY <1>5, <2>1 DEF SyncdTake, OnePlace, Queued, clientVars
  <2>2. CASE reqQ # <<>>
    BY <1>5, <2>2, Takes DEF OnePlace
  <2>3. QED
    BY <2>1, <2>2
<1>6. CASE SyncdAnswer
  BY <1>6 DEF SyncdAnswer, OnePlace, Queued, clientVars, history
<1>7. CASE SyncdStart
  <2>1. Queued' \subseteq Queued /\ Distinct(reqQ)'
    BY <1>7, Shrinks DEF SyncdStart, OnePlace
  <2>2. QED
    BY <1>7, <2>1 DEF SyncdStart, OnePlace, clientVars, history
<1>8. CASE SyncdCrash \/ RedisRestart
  BY <1>8 DEF SyncdCrash, RedisRestart, OnePlace, Queued, redisVars, clientVars, history
<1>9. CASE UNCHANGED vars
  BY <1>9 DEF vars, redisVars, syncdVars, clientVars, history, OnePlace, Queued
<1>10. QED
  BY <1>1, <1>2, <1>3, <1>4, <1>5, <1>6, <1>7, <1>8, <1>9, NextCases DEF Environment

(* While a client cleans up, nothing of its own is left to be popped; once *)
(* Redis is back, nothing of its own is being executed.                    *)
LEMMA CleanupProgressStep ==
  TypeOK /\ IdsIssued /\ OnePlace /\ CleanupProgress /\ [Next]_vars => CleanupProgress'
<1> SUFFICES ASSUME TypeOK, IdsIssued, OnePlace, CleanupProgress, [Next]_vars PROVE CleanupProgress'
  OBVIOUS
<1>1. ASSUME NEW c \in Clients, Begin(c) PROVE CleanupProgress'
  <2>1. UNCHANGED <<reqQ, work, redisUp>> /\ pc'[c] \in {"delete", "locate"}
    BY <1>1 DEF Begin, Goto, redisVars, syncdVars, TypeOK
  <2>2. \A d \in Clients \ {c} : pc'[d] = pc[d]
    BY <1>1 DEF Begin, Goto, TypeOK
  <2>3. QED
    BY <2>1, <2>2 DEF CleanupProgress, Queued
<1>2. ASSUME NEW c \in Clients, Push(c) PROVE CleanupProgress'
  <2>1. UNCHANGED <<work, redisUp>> /\ pc'[c] = "publish"
    BY <1>2 DEF Push, Goto, syncdVars, TypeOK
  <2>2. \A d \in Clients \ {c} : pc'[d] = pc[d] /\ Own(c) \notin OfClient(d)
    BY <1>2 DEF Push, Goto, TypeOK, Own, OfClient
  <2>3. QED
    BY <1>2, <2>1, <2>2, Grows DEF CleanupProgress
<1>3. ASSUME NEW c \in Clients, Flush(c) PROVE CleanupProgress'
  <2>1. UNCHANGED <<work, redisUp>> /\ pc'[c] = "shutdown" /\ Queued' = {}
    BY <1>3, ElementsEmpty DEF Flush, Goto, syncdVars, TypeOK, Queued
  <2>2. \A d \in Clients \ {c} : pc'[d] = pc[d]
    BY <1>3 DEF Flush, Goto, TypeOK
  <2>3. QED
    BY <2>1, <2>2 DEF CleanupProgress
<1>4. ASSUME NEW c \in Clients, Quiet(c) PROVE CleanupProgress'
  <2>1. Queued' = Queued /\ work' = work /\ \A d \in Clients \ {c} : pc'[d] = pc[d]
    BY <1>4, QuietFrame DEF Queued
  <2>2. redisUp' => redisUp
    BY <1>4 DEF Quiet, Locate, Delete, Check, Publish, Poll, Alive, Finish, Shutdown,
                AwaitRedis, AwaitSyncd, ConnectionLost, Interrupt, redisVars
  <2>3. CASE Shutdown(c)
    <3>1. pc[c] = "shutdown" /\ pc'[c] = "awaitRedis" /\ ~redisUp'
      BY <2>3 DEF Shutdown, Goto, TypeOK
    <3>2. QED
      BY <2>1, <2>2, <3>1 DEF CleanupProgress
  <2>4. CASE AwaitRedis(c)
    <3>1. /\ pc[c] = "awaitRedis"
          /\ pc'[c] = "idle" \/ (pc'[c] = "awaitSyncd" /\ redisUp)
      BY <2>4 DEF AwaitRedis, Goto, TypeOK
    <3>2. QED
      BY <2>1, <2>2, <3>1 DEF CleanupProgress
  <2>5. CASE ~Shutdown(c) /\ ~AwaitRedis(c)
    <3>1. pc'[c] \in {"idle"} \cup CallSteps
      <4> USE DEF Goto, GiveUp, TypeOK, CallSteps
      <4>1. CASE Locate(c) \/ Delete(c) \/ Check(c) \/ Publish(c)
        BY <4>1 DEF Locate, Delete, Check, Publish
      <4>2. CASE Poll(c) \/ Alive(c) \/ Finish(c)
        BY <4>2 DEF Poll, Alive, Finish
      <4>3. CASE AwaitSyncd(c) \/ ConnectionLost(c) \/ Interrupt(c)
        BY <4>3 DEF AwaitSyncd, ConnectionLost, Interrupt
      <4>4. QED
        BY <1>4, <2>5, <4>1, <4>2, <4>3 DEF Quiet
    <3>2. QED
      BY <2>1, <2>2, <3>1 DEF CleanupProgress, CallSteps
  <2>6. QED
    BY <2>3, <2>4, <2>5
<1>5. CASE SyncdTake
  <2>1. CASE reqQ = <<>>
    BY <1>5, <2>1 DEF SyncdTake, CleanupProgress, Queued, clientVars
  <2>2. CASE reqQ # <<>>
    BY <1>5, <2>2, Takes DEF CleanupProgress
  <2>3. QED
    BY <2>1, <2>2
<1>6. CASE SyncdStart
  <2>1. Queued' \subseteq Queued
    BY <1>6, Shrinks DEF SyncdStart, OnePlace
  <2>2. QED
    BY <1>6, <2>1 DEF SyncdStart, CleanupProgress, clientVars
<1>7. CASE SyncdAnswer \/ SyncdCrash \/ RedisRestart
  BY <1>7 DEF SyncdAnswer, SyncdCrash, RedisRestart, CleanupProgress, Queued, redisVars, clientVars
<1>8. CASE UNCHANGED vars
  BY <1>8 DEF vars, redisVars, syncdVars, clientVars, CleanupProgress, Queued
<1>9. QED
  BY <1>1, <1>2, <1>3, <1>4, <1>5, <1>6, <1>7, <1>8, NextCases DEF Environment

(* The list read by LRANGE lives from the last poll to the DEL that ends   *)
(* the call.                                                               *)
LEMMA SeenOnlyAtFinishStep == TypeOK /\ SeenOnlyAtFinish /\ [Next]_vars => SeenOnlyAtFinish'
<1> SUFFICES ASSUME TypeOK, SeenOnlyAtFinish, [Next]_vars PROVE SeenOnlyAtFinish'
  OBVIOUS
<1> USE DEF SeenOnlyAtFinish, TypeOK, Goto, GiveUp
<1>1. ASSUME NEW c \in Clients, Begin(c) \/ Push(c) \/ Flush(c) PROVE SeenOnlyAtFinish'
  BY <1>1 DEF Begin, Push, Flush
<1>2. ASSUME NEW c \in Clients, Locate(c) \/ Delete(c) \/ Check(c) \/ Publish(c)
      PROVE  SeenOnlyAtFinish'
  BY <1>2 DEF Locate, Delete, Check, Publish
<1>3. ASSUME NEW c \in Clients, Poll(c) \/ Alive(c) \/ Finish(c) PROVE SeenOnlyAtFinish'
  BY <1>3 DEF Poll, Alive, Finish
<1>4. ASSUME NEW c \in Clients, Shutdown(c) \/ AwaitRedis(c) \/ AwaitSyncd(c)
      PROVE  SeenOnlyAtFinish'
  BY <1>4 DEF Shutdown, AwaitRedis, AwaitSyncd
<1>5. ASSUME NEW c \in Clients, ConnectionLost(c) \/ Interrupt(c) PROVE SeenOnlyAtFinish'
  BY <1>5 DEF ConnectionLost, Interrupt
<1>6. CASE Environment \/ UNCHANGED vars
  BY <1>6 DEF Environment, SyncdTake, SyncdAnswer, SyncdCrash, SyncdStart, RedisRestart,
              vars, clientVars
<1>7. QED
  BY <1>1, <1>2, <1>3, <1>4, <1>5, <1>6, NextCases DEF Quiet

-----------------------------------------------------------------------------
(* A request stays accounted for as long as its client does not forget it: *)
(* leaving the call puts it among the abandoned ones, except when its own  *)
(* answer has been read.                                                   *)
LEMMA QuietOwned ==
  ASSUME TypeOK, NEW c \in Clients, Quiet(c), NEW x \in Ids, Owned(x)
  PROVE  \/ Owned(x)'
         \/ pc[c] = "finish" /\ x = Own(c) /\ x \in seen[c] /\ rspQ' = {}
         \/ pc[c] = "awaitSyncd" /\ x[1] = c /\ pc'[c] = "idle"
<1> USE DEF TypeOK, Goto, GiveUp, Owned, Sent, history
<1>1. issued' = issued /\ \A d \in Clients : Own(d)' = Own(d)
  BY QuietFrame DEF Own
<1>2. x[1] \in Clients
  BY DEF Ids
<1>3. CASE Locate(c) \/ Delete(c) \/ Check(c) \/ Publish(c)
  BY <1>1, <1>2, <1>3 DEF Locate, Delete, Check, Publish
<1>4. CASE Poll(c) \/ Alive(c)
  BY <1>1, <1>2, <1>4 DEF Poll, Alive
<1>5. CASE Finish(c)
  <2>1. CASE Cardinality(seen[c]) = 1
    BY <1>1, <1>2, <1>5, <2>1 DEF Finish
  <2>2. CASE Cardinality(seen[c]) # 1
    BY <1>1, <1>2, <1>5, <2>2 DEF Finish
  <2>3. QED
    BY <2>1, <2>2
<1>6. CASE Shutdown(c) \/ AwaitRedis(c)
  BY <1>1, <1>2, <1>6 DEF Shutdown, AwaitRedis
<1>7. CASE AwaitSyncd(c)
  <2>1. x[1] # c \/ x \notin OfClient(c) => Owned(x)'
    BY <1>1, <1>2, <1>7 DEF AwaitSyncd, OfClient
  <2>2. QED
    BY <1>7, <2>1 DEF AwaitSyncd
<1>8. CASE ConnectionLost(c) \/ Interrupt(c)
  BY <1>1, <1>2, <1>8 DEF ConnectionLost, Interrupt
<1>9. QED
  BY <1>3, <1>4, <1>5, <1>6, <1>7, <1>8 DEF Quiet

(* Steps of others do not change whose a request is.                       *)
LEMMA OwnedFrame ==
  ASSUME TypeOK, NEW x \in Ids, Owned(x),
         UNCHANGED <<abandoned, issued>> , pc'[x[1]] = pc[x[1]]
  PROVE  Owned(x)'
BY DEF Owned, Sent, Own

LEMMA PlacementStep ==
  TypeOK /\ IdsIssued /\ OnePlace /\ CleanupProgress /\ Placement /\ [Next]_vars => Placement'
<1> SUFFICES ASSUME TypeOK, IdsIssued, OnePlace, CleanupProgress, Placement, [Next]_vars
             PROVE  Placement'
  OBVIOUS
<1>0. Queued \subseteq Ids /\ rspQ \subseteq Ids /\ work \subseteq Ids
  BY QueuedInIds DEF TypeOK
<1>00. \A x \in Ids : x[1] \in Clients
  BY DEF Ids
<1>1. ASSUME NEW c \in Clients, Begin(c) PROVE Placement'
  <2>1. /\ UNCHANGED <<reqQ, rspQ, work, abandoned>>
        /\ issued' = [issued EXCEPT ![c] = @ + 1]
        /\ pc[c] = "idle" /\ pc'[c] \notin AfterDelete
        /\ \A d \in Clients \ {c} : pc'[d] = pc[d]
    BY <1>1 DEF Begin, Goto, redisVars, syncdVars, TypeOK, AfterDelete
  <2>2. ASSUME NEW x \in Ids, Owned(x) PROVE Owned(x)'
    BY <2>1, <2>2, <1>00 DEF Owned, Sent, Own, TypeOK
  <2>3. QED
    BY <1>0, <1>00, <2>1, <2>2 DEF Placement, Queued
<1>2. ASSUME NEW c \in Clients, Push(c) PROVE Placement'
  <2>1. /\ UNCHANGED <<rspQ, work, abandoned, issued>>
        /\ pc[c] = "push" /\ pc'[c] = "publish"
        /\ \A d \in Clients \ {c} : pc'[d] = pc[d]
    BY <1>2 DEF Push, Goto, syncdVars, history, TypeOK
  <2>2. ASSUME NEW x \in Ids, Owned(x) PROVE Owned(x)'
    BY <2>1, <2>2, <1>00 DEF Owned, Sent, Own
  <2>3. Owned(Own(c))'
    BY <2>1 DEF Owned, Sent, Own
  <2>4. Queued' = Queued \cup {Own(c)}
    BY <1>2, Grows
  <2>5. ASSUME NEW x \in Queued' \cup work' PROVE Owned(x)'
    <3>1. CASE x = Own(c)
      BY <2>1, <2>3, <3>1 DEF Owned, Own, Sent
    <3>2. CASE x \in Queued \cup work
      BY <1>0, <2>2, <3>2 DEF Placement
    <3>3. QED
      BY <2>1, <2>4, <3>1, <3>2
  <2>6. ASSUME NEW x \in rspQ PROVE Owned(x)' \/ pc'[x[1]] \notin AfterDelete
    <3>1. x \in Ids /\ x[1] \in Clients
      BY <1>0, <1>00
    <3>2. CASE Owned(x)
      BY <2>2, <3>1, <3>2
    <3>3. CASE pc[x[1]] \notin AfterDelete
      BY <2>1, <3>1, <3>3 DEF AfterDelete
    <3>4. QED
      BY <3>2, <3>3 DEF Placement
  <2>7. QED
    BY <2>1, <2>5, <2>6 DEF Placement
<1>3. ASSUME NEW c \in Clients, Flush(c) PROVE Placement'
  <2>1. /\ UNCHANGED <<work, abandoned, issued>> /\ rspQ' = {} /\ Queued' = {}
        /\ pc[c] = "idle" /\ \A d \in Clients \ {c} : pc'[d] = pc[d]
    BY <1>3, ElementsEmpty DEF Flush, Goto, syncdVars, history, TypeOK, Queued
  <2>2. ASSUME NEW x \in Ids, Owned(x) PROVE Owned(x)'
    BY <2>1, <2>2, <1>00 DEF Owned, Sent, Own
  <2>3. QED
    BY <1>0, <2>1, <2>2 DEF Placement
<1>4. ASSUME NEW c \in Clients, Quiet(c) PROVE Placement'
  <2>1. /\ Queued' = Queued /\ work' = work /\ rspQ' \subseteq rspQ
        /\ \A d \in Clients \ {c} : pc'[d] = pc[d]
        /\ pc'[c] \in AfterDelete => pc[c] \in AfterDelete \/ rspQ' = {}
    BY <1>4, QuietFrame DEF Queued
  <2>2. ASSUME NEW x \in Queued \cup work PROVE Owned(x)'
    <3>1. x \in Ids /\ Owned(x)
      BY <1>0 DEF Placement
    <3>2. \A d \in Clients : x \notin seen[d]
      BY DEF OnePlace
    <3>3. ~(pc[c] = "awaitSyncd" /\ x[1] = c)
      <4>1. x[1] = c => x \in OfClient(c)
        BY <3>1 DEF Ids, OfClient
      <4>2. QED
        BY <4>1 DEF CleanupProgress
    <3>4. QED
      BY <1>4, <3>1, <3>2, <3>3, QuietOwned
  <2>3. ASSUME NEW x \in rspQ' PROVE Owned(x)' \/ pc'[x[1]] \notin AfterDelete
    <3>1. x \in rspQ /\ x \in Ids /\ x[1] \in Clients /\ rspQ' # {}
      BY <1>0, <1>00, <2>1
    <3>2. CASE Owned(x)
      <4>1. \/ Owned(x)'
            \/ x[1] = c /\ pc'[c] = "idle"
        BY <1>4, <3>1, <3>2, QuietOwned
      <4>2. QED
        BY <4>1 DEF AfterDelete
    <3>3. CASE pc[x[1]] \notin AfterDelete
      BY <2>1, <3>1, <3>3
    <3>4. QED
      BY <3>1, <3>2, <3>3 DEF Placement
  <2>4. QED
    BY <2>1, <2>2, <2>3 DEF Placement
<1>5. ASSUME UNCHANGED <<pc, abandoned, issued>>,
             Queued' \cup work' \subseteq Queued \cup work, rspQ' \subseteq rspQ \cup work
      PROVE  Placement'
  <2>1. ASSUME NEW x \in Ids, Owned(x) PROVE Owned(x)'
    BY <1>5, <2>1, OwnedFrame
  <2>2. QED
    BY <1>0, <1>5, <2>1 DEF Placement
<1>6. CASE Environment
  <2>1. UNCHANGED <<pc, abandoned, issued>>
    BY <1>6 DEF Environment, SyncdTake, SyncdAnswer, SyncdCrash, SyncdStart, RedisRestart,
                clientVars, history
  <2>2. CASE SyncdTake
    <3>1. CASE reqQ = <<>>
      BY <1>5, <2>1, <2>2, <3>1 DEF SyncdTake, Queued
    <3>2. CASE reqQ # <<>>
      BY <1>5, <2>1, <2>2, <3>2, Takes
    <3>3. QED
      BY <3>1, <3>2
  <2>3. CASE SyncdStart
    <3>1. Queued' \subseteq Queued
      BY <2>3, Shrinks DEF SyncdStart, OnePlace
    <3>2. QED
      BY <1>5, <2>1, <2>3, <3>1 DEF SyncdStart
  <2>4. CASE SyncdAnswer \/ SyncdCrash \/ RedisRestart
    BY <1>5, <2>1, <2>4 DEF SyncdAnswer, SyncdCrash, RedisRestart, Queued, redisVars
  <2>5. QED
    BY <1>6, <2>2, <2>3, <2>4 DEF Environment
<1>7. CASE UNCHANGED vars
  BY <1>5, <1>7 DEF vars, redisVars, syncdVars, clientVars, history, Queued
<1>8. QED
  BY <1>1, <1>2, <1>3, <1>4, <1>6, <1>7, NextCases

-----------------------------------------------------------------------------
LEMMA AnswersExplainedStep ==
  /\ TypeOK /\ OnePlace /\ Placement /\ SeenOnlyAtFinish /\ AnswersExplained
  /\ [Next]_vars
  => AnswersExplained'
<1> SUFFICES ASSUME TypeOK, OnePlace, Placement, SeenOnlyAtFinish, AnswersExplained,
                    [Next]_vars
             PROVE  AnswersExplained'
  OBVIOUS
<1>0. \A d \in Clients : seen[d] \subseteq Ids
  BY DEF TypeOK
<1>1. ASSUME NEW c \in Clients, Begin(c) PROVE AnswersExplained'
  <2>1. /\ UNCHANGED <<seen, abandoned>> /\ pc[c] = "idle"
        /\ issued' = [issued EXCEPT ![c] = @ + 1]
    BY <1>1 DEF Begin
  <2>2. seen[c] = {}
    BY <2>1 DEF SeenOnlyAtFinish
  <2>3. \A d \in Clients \ {c} : Own(d)' = Own(d)
    BY <2>1 DEF Own, TypeOK
  <2>4. QED
    BY <2>1, <2>2, <2>3 DEF AnswersExplained
<1>2. ASSUME \A d \in Clients : seen'[d] \subseteq seen[d],
             issued' = issued, abandoned \subseteq abandoned'
      PROVE  AnswersExplained'
  BY <1>2 DEF AnswersExplained, Own
<1>3. ASSUME NEW c \in Clients, Push(c) \/ Flush(c) PROVE AnswersExplained'
  BY <1>2, <1>3 DEF Push, Flush, history
<1>4. ASSUME NEW c \in Clients, Poll(c) PROVE AnswersExplained'
  <2>1. /\ UNCHANGED <<issued, abandoned>> /\ pc[c] = "poll"
        /\ seen' = [seen EXCEPT ![c] = rspQ]
    BY <1>4 DEF Poll, history
  <2>2. \A x \in rspQ : x[1] = c => x = Own(c) \/ x \in abandoned
    BY <2>1 DEF Placement, Owned, AfterDelete
  <2>3. QED
    BY <2>1, <2>2 DEF AnswersExplained, Own, TypeOK
<1>5. ASSUME NEW c \in Clients, AwaitSyncd(c) PROVE AnswersExplained'
  <2>1. /\ UNCHANGED <<issued, seen>> /\ pc[c] = "awaitSyncd"
        /\ \A x \in abandoned : x \in abandoned' \/ x \in OfClient(c)
    BY <1>5 DEF AwaitSyncd
  <2>2. seen[c] = {}
    BY <2>1 DEF SeenOnlyAtFinish
  <2>3. \A d \in Clients \ {c} : \A x \in seen[d] : x[1] = d => x \notin OfClient(c)
    BY <1>0 DEF Ids, OfClient
  <2>4. QED
    BY <2>1, <2>2, <2>3 DEF AnswersExplained, Own
<1>6. ASSUME NEW c \in Clients, Locate(c) \/ Delete(c) \/ Check(c) \/ Publish(c) \/ Alive(c)
      PROVE  AnswersExplained'
  BY <1>2, <1>6 DEF Locate, Delete, Check, Publish, Alive, GiveUp, history
<1>7. ASSUME NEW c \in Clients, Finish(c) \/ ConnectionLost(c) \/ Interrupt(c)
      PROVE  AnswersExplained'
  <2>1. /\ issued' = issued /\ abandoned \subseteq abandoned'
        /\ seen' = [seen EXCEPT ![c] = {}]
    BY <1>7 DEF Finish, ConnectionLost, Interrupt, GiveUp
  <2>2. QED
    BY <1>2, <2>1 DEF TypeOK
<1>8. ASSUME NEW c \in Clients, Shutdown(c) \/ AwaitRedis(c) PROVE AnswersExplained'
  BY <1>2, <1>8 DEF Shutdown, AwaitRedis, history
<1>9. CASE Environment
  BY <1>2, <1>9 DEF Environment, SyncdTake, SyncdAnswer, SyncdCrash, SyncdStart, RedisRestart,
                    clientVars, history
<1>10. CASE UNCHANGED vars
  BY <1>2, <1>10 DEF vars, clientVars, history
<1>11. QED
  BY <1>1, <1>3, <1>4, <1>5, <1>6, <1>7, <1>8, <1>9, <1>10, NextCases DEF Quiet

-----------------------------------------------------------------------------
LEMMA ListsFiniteStep == TypeOK /\ ListsFinite /\ [Next]_vars => ListsFinite'
<1> SUFFICES ASSUME TypeOK, ListsFinite, [Next]_vars PROVE ListsFinite'
  OBVIOUS
<1>1. ASSUME NEW c \in Clients, Begin(c) \/ Push(c) PROVE ListsFinite'
  BY <1>1 DEF Begin, Push, redisVars, syncdVars, ListsFinite
<1>2. ASSUME NEW c \in Clients, Flush(c) PROVE ListsFinite'
  BY <1>2, FS_EmptySet DEF Flush, syncdVars, ListsFinite
<1>3. ASSUME NEW c \in Clients, Quiet(c) PROVE ListsFinite'
  <2>1. work' = work /\ rspQ' \subseteq rspQ
    BY <1>3, QuietFrame
  <2>2. \A d \in Clients : seen'[d] \subseteq seen[d] \cup rspQ
    BY <1>3, QuietFrame
  <2>3. \A d \in Clients : IsFiniteSet(seen[d] \cup rspQ)
    BY FS_Union DEF ListsFinite
  <2>4. QED
    BY <2>1, <2>2, <2>3, FS_Subset DEF ListsFinite
<1>4. CASE SyncdTake
  <2>1. work' = work \/ work' = {Head(reqQ)}
    BY <1>4 DEF SyncdTake
  <2>2. IsFiniteSet({Head(reqQ)})
    BY FS_Singleton
  <2>3. QED
    BY <1>4, <2>1, <2>2 DEF SyncdTake, clientVars, ListsFinite
<1>5. CASE SyncdAnswer
  BY <1>5, FS_EmptySet, FS_Union DEF SyncdAnswer, clientVars, ListsFinite
<1>6. CASE SyncdCrash \/ SyncdStart \/ RedisRestart
  BY <1>6, FS_EmptySet DEF SyncdCrash, SyncdStart, RedisRestart, redisVars, clientVars, ListsFinite
<1>7. CASE UNCHANGED vars
  BY <1>7 DEF vars, redisVars, syncdVars, clientVars, ListsFinite
<1>8. QED
  BY <1>1, <1>2, <1>3, <1>4, <1>5, <1>6, <1>7, NextCases DEF Environment

(* Only Begin enters a call.                                               *)
LEMMA NumberedStep == TypeOK /\ OnePlace /\ Numbered /\ [Next]_vars => Numbered'
<1> SUFFICES ASSUME TypeOK, OnePlace, Numbered, [Next]_vars PROVE Numbered'
  OBVIOUS
<1>1. ASSUME NEW c \in Clients, Begin(c) PROVE Numbered'
  <2>1. /\ issued' = [issued EXCEPT ![c] = @ + 1] /\ reqQ' = reqQ
        /\ \A d \in Clients \ {c} : pc'[d] = pc[d]
    BY <1>1 DEF Begin, Goto, redisVars, TypeOK
  <2>2. issued'[c] >= 1 /\ \A d \in Clients \ {c} : issued'[d] = issued[d]
    BY <2>1 DEF TypeOK
  <2>3. QED
    BY <2>1, <2>2 DEF Numbered, InCall, Queued
<1>2. ASSUME NEW c \in Clients, Push(c) PROVE Numbered'
  <2>1. /\ issued' = issued /\ InCall(c)
        /\ \A d \in Clients \ {c} : pc'[d] = pc[d]
    BY <1>2 DEF Push, Goto, history, TypeOK, InCall, CallSteps
  <2>2. Own(c)[2] >= 1
    BY <2>1 DEF Numbered, Own
  <2>3. Queued' = Queued \cup {Own(c)}
    BY <1>2, ElementsAppend, OwnInIds DEF Queued, Push, TypeOK
  <2>4. QED
    BY <2>1, <2>2, <2>3 DEF Numbered, InCall
<1>3. ASSUME Queued' \subseteq Queued, issued' = issued,
             \A d \in Clients : InCall(d)' => InCall(d)
      PROVE  Numbered'
  BY <1>3 DEF Numbered
<1>4. ASSUME NEW c \in Clients, Flush(c) PROVE Numbered'
  <2>1. Queued' \subseteq Queued
    BY <1>4, Shrinks DEF Flush, OnePlace
  <2>2. \A d \in Clients : InCall(d)' => InCall(d)
    BY <1>4 DEF Flush, Goto, TypeOK, InCall, CallSteps
  <2>3. QED
    BY <1>3, <1>4, <2>1, <2>2 DEF Flush, history
<1>5. ASSUME NEW c \in Clients, Quiet(c) PROVE Numbered'
  <2>1. Queued' = Queued /\ issued' = issued
    BY <1>5, QuietFrame DEF Queued
  <2>2. InCall(c)' => InCall(c)
    <3> USE DEF Goto, GiveUp, TypeOK, InCall, CallSteps
    <3>1. CASE Locate(c) \/ Delete(c) \/ Check(c) \/ Publish(c)
      BY <3>1 DEF Locate, Delete, Check, Publish
    <3>2. CASE Poll(c) \/ Alive(c) \/ Finish(c)
      BY <3>2 DEF Poll, Alive, Finish
    <3>3. CASE Shutdown(c) \/ AwaitRedis(c) \/ AwaitSyncd(c)
      BY <3>3 DEF Shutdown, AwaitRedis, AwaitSyncd
    <3>4. CASE ConnectionLost(c) \/ Interrupt(c)
      BY <3>4 DEF ConnectionLost, Interrupt
    <3>5. QED
      BY <1>5, <3>1, <3>2, <3>3, <3>4 DEF Quiet
  <2>3. \A d \in Clients : InCall(d)' => InCall(d)
    BY <1>5, <2>2, QuietFrame DEF InCall
  <2>4. QED
    BY <1>3, <2>1, <2>3
<1>6. CASE Environment
  <2>1. UNCHANGED <<pc, issued>>
    BY <1>6 DEF Environment, SyncdTake, SyncdAnswer, SyncdCrash, SyncdStart, RedisRestart,
                clientVars, history
  <2>2. Queued' \subseteq Queued
    <3>1. CASE SyncdTake
      <4>1. CASE reqQ = <<>>
        BY <3>1, <4>1 DEF SyncdTake, Queued
      <4>2. CASE reqQ # <<>>
        BY <3>1, <4>2, Takes
      <4>3. QED
        BY <4>1, <4>2
    <3>2. CASE SyncdStart
      BY <3>2, Shrinks DEF SyncdStart, OnePlace
    <3>3. CASE SyncdAnswer \/ SyncdCrash \/ RedisRestart
      BY <3>3 DEF SyncdAnswer, SyncdCrash, RedisRestart, redisVars, Queued
    <3>4. QED
      BY <1>6, <3>1, <3>2, <3>3 DEF Environment
  <2>3. QED
    BY <1>3, <2>1, <2>2 DEF InCall
<1>7. CASE UNCHANGED vars
  BY <1>3, <1>7 DEF vars, redisVars, clientVars, history, Queued, InCall
<1>8. QED
  BY <1>1, <1>2, <1>4, <1>5, <1>6, <1>7, NextCases

LEMMA InvInit == Init => IInv
<1> SUFFICES ASSUME Init PROVE IInv
  OBVIOUS
<1> USE DEF Init
<1>1. Queued = {} /\ Distinct(reqQ)
  BY ElementsEmpty DEF Queued
<1>2. TypeOK
  BY EmptySeq DEF TypeOK
<1>3. QED
  BY <1>1, <1>2, FS_EmptySet DEF IInv, ListsFinite, Numbered, InCall, CallSteps, IdsIssued, OnePlace, Placement, CleanupProgress,
                    SeenOnlyAtFinish, AnswersExplained

LEMMA InvStep == IInv /\ [Next]_vars => IInv'
BY TypeStep, ListsFiniteStep, NumberedStep, IdsIssuedStep, OnePlaceStep, PlacementStep, CleanupProgressStep,
   SeenOnlyAtFinishStep, AnswersExplainedStep DEF IInv

LEMMA Invariance == Spec => []IInv
BY InvInit, InvStep, PTL DEF Spec

(* An answer to an earlier call of the same process is only ever read when *)
(* that call was abandoned and no cleanup() has succeeded since: operate() *)
(* called again and again without a failure returns its own answers.       *)
THEOREM AnswersAreExplained == Spec => []AnswersExplained
BY Invariance, PTL DEF IInv

(* No request is handed to the SAI library twice, whatever crashes,        *)
(* restarts or overlapping clients do to the two lists.                    *)
THEOREM AtMostOnce == Spec => ExecutedOnce
<1>1. IInv /\ [Next]_vars => [work' \subseteq work \/ work' \cap executed = {}]_vars
  <2> SUFFICES ASSUME IInv, Next PROVE work' \subseteq work \/ work' \cap executed = {}
    BY DEF vars
  <2> USE DEF IInv
  <2>1. ASSUME NEW c \in Clients, Begin(c) \/ Push(c) \/ Flush(c) \/ Quiet(c)
        PROVE  work' = work
    BY <2>1, QuietFrame DEF Begin, Push, Flush, syncdVars
  <2>2. CASE SyncdTake
    <3>1. CASE reqQ = <<>>
      BY <2>2, <3>1 DEF SyncdTake
    <3>2. CASE reqQ # <<>>
      BY <2>2, <3>2, Takes
    <3>3. QED
      BY <3>1, <3>2
  <2>3. CASE SyncdAnswer \/ SyncdCrash \/ SyncdStart \/ RedisRestart
    BY <2>3 DEF SyncdAnswer, SyncdCrash, SyncdStart, RedisRestart
  <2>4. QED
    BY <2>1, <2>2, <2>3, NextCases DEF Environment
<1>2. QED
  BY <1>1, Invariance, PTL DEF Spec, ExecutedOnce

(* When a cleanup() succeeds, syncd can no longer pop or execute anything  *)
(* its process had asked for.                                              *)
THEOREM CleanupIsComplete == Spec => CleanupForgets
<1> DEFINE Forgets ==
      \A c \in Clients :
        pc[c] = "awaitSyncd" /\ pc'[c] = "idle" /\ channel'[c] /\ syncdUp
          => (Queued \cup work) \cap OfClient(c) = {}
<1>1. IInv /\ [Next]_vars => [Forgets]_vars
  BY DEF IInv, CleanupProgress
<1>2. QED
  BY <1>1, Invariance, PTL DEF Spec, CleanupForgets

-----------------------------------------------------------------------------
(* The refinement: what the variables of SaiRpc are here.                  *)
Calling == [c \in Clients |-> InCall(c)]
Doubtful == {c \in Clients : abandoned \cap OfClient(c) # {}}

(* A step that SaiRpc does not see.                                        *)
Unseen == UNCHANGED <<Calling, issued, executed, Doubtful, got>>

Leaves(c) == InCall(c) /\ Calling' = [Calling EXCEPT ![c] = FALSE] /\ UNCHANGED issued

LEMMA StepsOfRpc ==
  ASSUME NEW c \in Clients
  PROVE  /\ Unseen <=> UNCHANGED Rpc!vars
         /\ /\ ~InCall(c) /\ Calling' = [Calling EXCEPT ![c] = TRUE]
            /\ issued' = [issued EXCEPT ![c] = @ + 1] /\ got' = [got EXCEPT ![c] = {}]
            /\ UNCHANGED <<executed, Doubtful>>
            => Rpc!Call(c)
         /\ /\ Leaves(c) /\ Doubtful' \in {Doubtful, Doubtful \cup {c}}
            /\ UNCHANGED <<executed, got>>
            => Rpc!Fail({c})
         /\ /\ ~InCall(c) /\ Doubtful' = Doubtful \ {c}
            /\ UNCHANGED <<Calling, issued, executed, got>>
            => Rpc!Reset(c)
<1> USE DEF Calling, Doubtful
<1>1. Unseen <=> UNCHANGED Rpc!vars
  BY DEF Unseen, Rpc!vars
<1>2. /\ ~InCall(c) /\ Calling' = [Calling EXCEPT ![c] = TRUE]
      /\ issued' = [issued EXCEPT ![c] = @ + 1] /\ got' = [got EXCEPT ![c] = {}]
      /\ UNCHANGED <<executed, Doubtful>>
      => Rpc!Call(c)
  BY DEF Rpc!Call
<1>3. /\ Leaves(c) /\ Doubtful' \in {Doubtful, Doubtful \cup {c}}
      /\ UNCHANGED <<executed, got>>
      => Rpc!Fail({c})
  <2> SUFFICES ASSUME Leaves(c), Doubtful' \in {Doubtful, Doubtful \cup {c}},
                      UNCHANGED <<executed, got>>
               PROVE  Rpc!Fail({c})
    OBVIOUS
  <2>1. Calling' = [d \in Clients |-> Calling[d] /\ d \notin {c}]
    <3>1. Calling' = [d \in Clients |-> IF d = c THEN FALSE ELSE Calling[d]]
      BY DEF Leaves
    <3>2. ASSUME NEW d \in Clients
          PROVE  (IF d = c THEN FALSE ELSE Calling[d]) = (Calling[d] /\ d \notin {c})
      <4>1. Calling[d] \in BOOLEAN
        BY DEF InCall
      <4>2. QED
        BY ONLY <4>1
    <3>3. QED
      BY <3>1, <3>2, Zenon
  <2>2. Doubtful' \in {Doubtful \cup D : D \in SUBSET {c}}
    OBVIOUS
  <2>3. QED
    BY <2>1, <2>2 DEF Rpc!Fail, Leaves
<1>4. /\ ~InCall(c) /\ Doubtful' = Doubtful \ {c}
      /\ UNCHANGED <<Calling, issued, executed, got>>
      => Rpc!Reset(c)
  BY DEF Rpc!Reset
<1>5. QED
  BY <1>1, <1>2, <1>3, <1>4

LEMMA CallingAfter ==
  ASSUME NEW c \in Clients, NEW v \in BOOLEAN, InCall(c)' = v,
         \A d \in Clients \ {c} : InCall(d)' = InCall(d)
  PROVE  Calling' = [Calling EXCEPT ![c] = v]
<1>1. [Calling EXCEPT ![c] = v] = [d \in Clients |-> IF d = c THEN v ELSE InCall(d)]
  BY DEF Calling
<1>2. \A d \in Clients : InCall(d)' = IF d = c THEN v ELSE InCall(d)
  OBVIOUS
<1>3. QED
  BY <1>1, <1>2, Zenon DEF Calling

LEMMA CallingKept ==
  ASSUME \A d \in Clients : InCall(d)' = InCall(d) PROVE Calling' = Calling
BY DEF Calling

(* One client takes a step, and is inside a call behind it or is not.      *)
LEMMA CallingGoes ==
  ASSUME TypeOK, NEW c \in Clients, NEW label, Goto(c, label)
  PROVE  /\ label \in CallSteps => Calling' = [Calling EXCEPT ![c] = TRUE]
         /\ label \notin CallSteps => Calling' = [Calling EXCEPT ![c] = FALSE]
         /\ (label \in CallSteps <=> InCall(c)) => Calling' = Calling
<1>1. pc'[c] = label /\ \A d \in Clients \ {c} : pc'[d] = pc[d]
  BY DEF Goto, TypeOK
<1>2. \A d \in Clients \ {c} : InCall(d)' = InCall(d)
  BY <1>1 DEF InCall
<1>3. InCall(c)' <=> label \in CallSteps
  BY <1>1 DEF InCall
<1>4. ASSUME label \in CallSteps PROVE Calling' = [Calling EXCEPT ![c] = TRUE]
  <2>1. InCall(c)' = TRUE
    BY <1>3, <1>4
  <2>2. QED
    BY <1>2, <2>1, CallingAfter
<1>5. ASSUME label \notin CallSteps PROVE Calling' = [Calling EXCEPT ![c] = FALSE]
  <2>1. InCall(c)' = FALSE
    BY <1>3, <1>5
  <2>2. QED
    BY <1>2, <2>1, CallingAfter
<1>6. ASSUME label \in CallSteps <=> InCall(c) PROVE Calling' = Calling
  <2>1. InCall(c)' = InCall(c)
    BY <1>3, <1>6 DEF InCall
  <2>2. QED
    BY <1>2, <2>1, CallingKept
<1>7. QED
  BY <1>4, <1>5, <1>6

LEMMA AbandonOwn ==
  ASSUME TypeOK, NEW c \in Clients, abandoned' = abandoned \cup {Own(c)}
  PROVE  Doubtful' = Doubtful \cup {c}
<1>1. Own(c) \in OfClient(c) /\ \A d \in Clients \ {c} : Own(c) \notin OfClient(d)
  BY DEF OfClient, Own, TypeOK
<1>2. QED
  BY <1>1 DEF Doubtful

LEMMA SettleAll ==
  ASSUME NEW c \in Clients, abandoned' = abandoned \ OfClient(c)
  PROVE  Doubtful' = Doubtful \ {c}
BY DEF Doubtful, OfClient

LEMMA KeepAbandoned == ASSUME abandoned' = abandoned PROVE Doubtful' = Doubtful
BY DEF Doubtful

(* Whoever gives up inside a call fails; in a cleanup that goes unseen.    *)
LEMMA GiveUpFails ==
  ASSUME TypeOK, NEW c \in Clients, GiveUp(c)
  PROVE  IF InCall(c) THEN Rpc!Fail({c}) ELSE Unseen
<1>1. UNCHANGED <<issued, executed, got>>
  BY DEF GiveUp
<1>2. Doubtful' = IF Sent(c) THEN Doubtful \cup {c} ELSE Doubtful
  BY AbandonOwn, KeepAbandoned DEF GiveUp
<1>3. CASE InCall(c)
  <2>1. Calling' = [Calling EXCEPT ![c] = FALSE]
    BY CallingGoes DEF GiveUp, CallSteps
  <2>2. QED
    BY <1>1, <1>2, <1>3, <2>1, StepsOfRpc DEF Leaves
<1>4. CASE ~InCall(c)
  <2>1. Calling' = Calling
    BY <1>4, CallingGoes DEF GiveUp, CallSteps
  <2>2. ~Sent(c)
    BY <1>4 DEF Sent, InCall, CallSteps
  <2>3. QED
    BY <1>1, <1>2, <1>4, <2>1, <2>2 DEF Unseen
<1>5. QED
  BY <1>3, <1>4

(* The one answer of a call that returns.                                  *)
LEMMA FinishReturns ==
  ASSUME IInv, NEW c \in Clients, Finish(c), Cardinality(seen[c]) = 1
  PROVE  Rpc!Return(c)
<1> USE DEF IInv
<1>1. PICK x : seen[c] = {x}
  BY FS_Singleton DEF ListsFinite
<1>2. x \in executed /\ x \in Ids
  BY <1>1 DEF OnePlace, TypeOK
<1>3. InCall(c) /\ Calling' = [Calling EXCEPT ![c] = FALSE] /\ got' = [got EXCEPT ![c] = {x}]
  BY <1>1, CallingGoes DEF Finish, InCall, CallSteps
<1>4. UNCHANGED <<issued, executed>>
  BY DEF Finish
<1>5. CASE x = Own(c)
  <2>1. abandoned' = abandoned
    BY <1>1, <1>5 DEF Finish
  <2>2. Doubtful' = Doubtful
    BY <2>1, KeepAbandoned
  <2>3. QED
    BY <1>2, <1>3, <1>4, <1>5, <2>2 DEF Rpc!Return, Rpc!OwnRequest, Own, Calling, Doubtful
<1>6. CASE x # Own(c)
  <2>1. abandoned' = abandoned \cup {Own(c)}
    BY <1>1, <1>6 DEF Finish
  <2>2. Doubtful' = Doubtful \cup {c}
    BY <2>1, AbandonOwn
  <2>3. x[1] = c => c \in Doubtful
    BY <1>1, <1>2, <1>6 DEF AnswersExplained, Doubtful, OfClient, Ids
  <2>4. Rpc!Foreign(c, x)
    BY <1>6, <2>3 DEF Rpc!Foreign, Rpc!OwnRequest, Own, Doubtful
  <2>5. QED
    BY <1>2, <1>3, <1>4, <1>6, <2>2, <2>4 DEF Rpc!Return, Rpc!OwnRequest, Own, Calling, Doubtful
<1>7. QED
  BY <1>5, <1>6

(* Each step of operate(), cleanup() and of the environment is a step of   *)
(* SaiRpc or is not seen there: the call begins with Begin and ends where  *)
(* an answer is returned or an exception raised, a request is executed     *)
(* when syncd pops it, and a client is as good as new after a cleanup that *)
(* succeeds.                                                               *)
LEMMA RpcStep == IInv /\ [Next]_vars => [Rpc!Next]_(Rpc!vars)
<1> SUFFICES ASSUME IInv, [Next]_vars PROVE Rpc!Next \/ Unseen
  BY DEF Unseen, Rpc!vars, Calling, Doubtful
<1> USE DEF IInv
<1>0. ASSUME NEW c \in Clients, Rpc!Call(c) \/ Rpc!Return(c) \/ Rpc!Fail({c}) \/ Rpc!Reset(c)
      PROVE  Rpc!Next
  BY <1>0 DEF Rpc!Next
<1>00. ASSUME NEW c \in Clients, GiveUp(c) PROVE Rpc!Next \/ Unseen
  BY <1>0, <1>00, GiveUpFails
<1>000. ASSUME NEW c \in Clients, NEW label, Goto(c, label), label \in CallSteps <=> InCall(c),
               UNCHANGED history
        PROVE  Unseen
  <2>1. Calling' = Calling
    BY <1>000, CallingGoes
  <2>2. QED
    BY <1>000, <2>1, KeepAbandoned DEF Unseen, history
<1>1. ASSUME NEW c \in Clients, Begin(c) PROVE Rpc!Next
  <2>1. ~InCall(c) /\ Calling' = [Calling EXCEPT ![c] = TRUE]
    BY <1>1, CallingGoes DEF Begin, InCall, CallSteps
  <2>2. QED
    BY <1>0, <1>1, <2>1, StepsOfRpc, KeepAbandoned DEF Begin
<1>2. ASSUME NEW c \in Clients, Locate(c) \/ Check(c) PROVE Rpc!Next \/ Unseen
  <2>1. CASE GiveUp(c)
    BY <1>00, <2>1
  <2>2. CASE ~GiveUp(c)
    BY <1>000, <1>2, <2>2 DEF Locate, Check, InCall, CallSteps
  <2>3. QED
    BY <2>1, <2>2
<1>3. ASSUME NEW c \in Clients, Delete(c) \/ Push(c) \/ Publish(c) PROVE Unseen
  BY <1>000, <1>3 DEF Delete, Push, Publish, InCall, CallSteps
<1>4. ASSUME NEW c \in Clients, Poll(c) PROVE Unseen
  BY <1>000, <1>4 DEF Poll, InCall, CallSteps
<1>5. ASSUME NEW c \in Clients, Alive(c) PROVE Rpc!Next \/ Unseen
  <2>1. CASE GiveUp(c)
    BY <1>00, <2>1
  <2>2. CASE ~GiveUp(c)
    BY <1>000, <1>5, <2>2 DEF Alive, InCall, CallSteps
  <2>3. QED
    BY <2>1, <2>2
<1>6. ASSUME NEW c \in Clients, Finish(c) PROVE Rpc!Next \/ Unseen
  <2>1. CASE Cardinality(seen[c]) = 1
    BY <1>0, <1>6, <2>1, FinishReturns
  <2>2. CASE Cardinality(seen[c]) # 1
    BY <1>00, <1>6, <2>2 DEF Finish
  <2>3. QED
    BY <2>1, <2>2
<1>7. ASSUME NEW c \in Clients, Flush(c) \/ Shutdown(c) \/ AwaitRedis(c) PROVE Unseen
  BY <1>000, <1>7 DEF Flush, Shutdown, AwaitRedis, InCall, CallSteps
<1>8. ASSUME NEW c \in Clients, AwaitSyncd(c) PROVE Rpc!Next \/ Unseen
  <2>1. ~InCall(c) /\ Calling' = Calling
    BY <1>8, CallingGoes DEF AwaitSyncd, InCall, CallSteps
  <2>2. CASE syncdUp
    BY <1>0, <1>8, <2>1, <2>2, StepsOfRpc, SettleAll DEF AwaitSyncd
  <2>3. CASE ~syncdUp
    BY <1>8, <2>1, <2>3, KeepAbandoned DEF AwaitSyncd, Unseen
  <2>4. QED
    BY <2>2, <2>3
<1>9. ASSUME NEW c \in Clients, ConnectionLost(c) \/ Interrupt(c) PROVE Rpc!Next \/ Unseen
  BY <1>00, <1>9 DEF ConnectionLost, Interrupt
<1>10. ASSUME UNCHANGED <<pc, issued, executed, abandoned, got>> PROVE Unseen
  BY <1>10, KeepAbandoned DEF Unseen, Calling, InCall
<1>11. CASE SyncdTake
  <2>1. CASE reqQ = <<>>
    BY <1>10, <1>11, <2>1 DEF SyncdTake, clientVars
  <2>2. CASE reqQ # <<>>
    <3>1. PICK x \in Queued : x = Head(reqQ)
      BY <1>11, <2>2, Takes
    <3>2. PICK c \in Clients, n \in Nat : x = <<c, n>>
      BY QueuedInIds DEF Ids
    <3>3. n \in 1..issued[c]
      BY <3>2 DEF Numbered, IdsIssued, TypeOK
    <3>4. UNCHANGED <<Calling, issued, Doubtful, got>>
      BY <1>11, KeepAbandoned DEF SyncdTake, clientVars, Calling, InCall
    <3>5. x \notin executed /\ executed' = executed \cup {x}
      BY <1>11, <2>2, <3>1, Takes
    <3>6. Rpc!Execute(x)
      BY <3>4, <3>5 DEF Rpc!Execute, Calling, Doubtful
    <3>7. QED
      BY <3>2, <3>3, <3>6 DEF Rpc!Next
  <2>3. QED
    BY <2>1, <2>2
<1>12. CASE SyncdAnswer \/ SyncdCrash \/ SyncdStart \/ RedisRestart
  BY <1>10, <1>12 DEF SyncdAnswer, SyncdCrash, SyncdStart, RedisRestart, clientVars, history
<1>13. CASE UNCHANGED vars
  BY <1>10, <1>13 DEF vars, clientVars, history
<1>14. QED
  BY <1>1, <1>2, <1>3, <1>4, <1>5, <1>6, <1>7, <1>8, <1>9, <1>11, <1>12, <1>13
     DEF Next, Operate, Cleanup, Environment

(* operate() and cleanup() over Redis keep the promise of a SAI call:      *)
(* whatever crashes, restarts or overlaps, a call that returns has the     *)
(* answer to an executed request, its own unless the caller is in doubt or *)
(* shares the lists, and each request is executed at most once.            *)
THEOREM OperateIsASaiCall == Spec => ImplementsSaiRpc
<1>1. Init => Rpc!Init
  <2> SUFFICES ASSUME Init PROVE Rpc!Init
    OBVIOUS
  <2>1. \A c \in Clients : InCall(c) = FALSE
    BY DEF Init, InCall, CallSteps
  <2>2. Calling = [c \in Clients |-> FALSE] /\ Doubtful = {}
    BY <2>1 DEF Init, Calling, Doubtful
  <2>3. QED
    BY <2>2 DEF Init, Rpc!Init, Calling, Doubtful
<1>2. QED
  BY <1>1, RpcStep, Invariance, PTL DEF Spec, ImplementsSaiRpc, Rpc!Spec
=============================================================================
