---------------------------- MODULE ZmqRpc_proofs ----------------------------
(***************************************************************************)
(* Proofs about ZmqRpc, for every set of clients and every bound on calls  *)
(* and faults.                                                             *)
(***************************************************************************)
EXTENDS ZmqRpc, FiniteSetTheorems, TLAPS

(* What syncd has of the socket that c uses now.                           *)
Current(c) == {m \in wire \cup work : m.id[1] = c /\ m.sock = sock[c]}

(* A socket is older than the call that uses it, and only an interruption  *)
(* separates a socket that waits from the call it waits for.               *)
Sockets ==
  \A c \in Clients :
    /\ sock[c] <= issued[c] /\ (InCall(c) => sock[c] < issued[c])
    /\ fsm[c] = "recv" /\ pc[c] # "recv" => c \in interrupted

(* A message is younger than its socket, so that no later socket has the   *)
(* same name; the request of a call not yet sent is new.                   *)
Numbered ==
  /\ \A c \in Clients : \A r \in outbox[c] : r[1] = c /\ sock[c] < r[2] /\ r[2] <= issued[c]
  /\ \A m \in wire \cup work : m.sock < m.id[2] /\ m.id[2] <= issued[m.id[1]]
  /\ \A x \in executed : x[2] <= issued[x[1]]

Unsent ==
  \A c \in Clients : pc[c] \in {"locate", "send"} =>
    /\ Own(c) \notin executed \cup outbox[c]
    /\ \A m \in wire \cup work : m.id # Own(c)

(* One message per socket: in the socket, with syncd, or answered.         *)
Lockstep ==
  \A c \in Clients :
    /\ outbox[c] # {} \/ inbox[c] # {} \/ fsm[c] = "send" => Current(c) = {}
    /\ outbox[c] # {} => inbox[c] = {}
    /\ \A m, n \in Current(c) : m = n
    /\ \A r, s \in outbox[c] : r = s
    /\ pc[c] = "recv" => /\ outbox[c] \cup inbox[c] \subseteq {Own(c)}
                         /\ \A m \in Current(c) : m.id = Own(c)

(* A request is executed once.                                             *)
OnePlace ==
  /\ wire \cap work = {} /\ \A m, n \in work : m = n
  /\ \A m, n \in wire : m.id = n.id => m = n
  /\ \A m \in wire : m.id \notin executed
  /\ \A c \in Clients : \A r \in outbox[c] : r \notin executed /\ \A m \in wire : m.id # r
  /\ \A m \in work : m.id \in executed
  /\ \A c \in Clients : inbox[c] \subseteq executed

(* Inside a cleanup syncd has nothing of the client, unless interrupted.   *)
Forgotten ==
  \A c \in Clients : pc[c] = "await" /\ c \notin interrupted =>
    \A m \in wire \cup work : m.id[1] # c

IInv ==
  /\ TypeOK /\ Sockets /\ Numbered /\ Unsent /\ Lockstep /\ OnePlace /\ Forgotten

-----------------------------------------------------------------------------
LEMMA NextCases ==
  ASSUME [Next]_vars
  PROVE  \/ \E c \in Clients :
              \/ Begin(c) \/ Locate(c) \/ Send(c) \/ Recv(c) \/ Timeout(c) \/ Recheck(c)
              \/ Restart(c) \/ Await(c) \/ Interrupt(c) \/ Die(c) \/ Deliver(c)
         \/ SyncdTake \/ SyncdAnswer \/ SyncdCrash \/ SyncdStart
         \/ UNCHANGED vars
BY DEF Next, Operate, Environment

(* Every socket is opened by a call that ends with it.                     *)
LEMMA SocketsStep == TypeOK /\ Sockets /\ [Next]_vars => Sockets'
<1> SUFFICES ASSUME TypeOK, Sockets, [Next]_vars PROVE Sockets'
  OBVIOUS
<1> USE DEF TypeOK, Goto, Reopen, KeepSocket, socketVars, syncdVars, CallSteps, Sockets,
            InCall
<1>1. ASSUME NEW c \in Clients, Begin(c) PROVE Sockets'
  BY <1>1 DEF Begin
<1>2. ASSUME NEW c \in Clients, Locate(c) PROVE Sockets'
  BY <1>2 DEF Locate
<1>3. ASSUME NEW c \in Clients, Send(c) PROVE Sockets'
  BY <1>3 DEF Send
<1>4. ASSUME NEW c \in Clients, Recv(c) PROVE Sockets'
  BY <1>4 DEF Recv
<1>5. ASSUME NEW c \in Clients, Timeout(c) PROVE Sockets'
  BY <1>5 DEF Timeout
<1>6. ASSUME NEW c \in Clients, Recheck(c) PROVE Sockets'
  BY <1>6 DEF Recheck
<1>7. ASSUME NEW c \in Clients, Restart(c) PROVE Sockets'
  BY <1>7 DEF Restart
<1>8. ASSUME NEW c \in Clients, Await(c) PROVE Sockets'
  BY <1>8 DEF Await
<1>9. ASSUME NEW c \in Clients, Interrupt(c) PROVE Sockets'
  BY <1>9 DEF Interrupt
<1>10. ASSUME NEW c \in Clients, Die(c) PROVE Sockets'
  BY <1>10 DEF Die
<1>11. ASSUME NEW c \in Clients, Deliver(c) PROVE Sockets'
  BY <1>11 DEF Deliver
<1>12. CASE SyncdTake
  BY <1>12 DEF SyncdTake
<1>13. CASE SyncdAnswer
  BY <1>13 DEF SyncdAnswer
<1>14. CASE SyncdCrash
  BY <1>14 DEF SyncdCrash
<1>15. CASE SyncdStart
  BY <1>15 DEF SyncdStart
<1>16. CASE UNCHANGED vars
  BY <1>16 DEF vars
<1>17. QED
  BY <1>1, <1>2, <1>3, <1>4, <1>5, <1>6, <1>7, <1>8, <1>9, <1>10, <1>11, <1>12, <1>13,
     <1>14, <1>15, <1>16, NextCases

(* A message keeps its socket and its number; both grow.                   *)
LEMMA NumberedStep == TypeOK /\ Sockets /\ Numbered /\ [Next]_vars => Numbered'
<1> SUFFICES ASSUME TypeOK, Sockets, Numbered, [Next]_vars PROVE Numbered'
  OBVIOUS
<1> USE DEF TypeOK, Goto, Reopen, KeepSocket, socketVars, syncdVars, CallSteps, Sockets,
            Numbered, InCall, Own
<1>1. ASSUME NEW c \in Clients, Begin(c) PROVE Numbered'
  <2>1. /\ UNCHANGED <<sock, outbox, wire, work, executed>>
        /\ issued' = [issued EXCEPT ![c] = @ + 1]
    BY <1>1 DEF Begin
  <2>2. \A d \in Clients, n \in Nat : n <= issued[d] => n <= issued'[d]
    BY <2>1
  <2>3. ASSUME NEW d \in Clients, NEW r \in outbox[d] PROVE r[2] <= issued'[d]
    <3>1. r[2] \in Nat /\ r[2] <= issued[d]
      BY DEF Ids
    <3>2. QED
      BY <2>2, <3>1
  <2>4. ASSUME NEW m \in wire \cup work PROVE m.id[2] <= issued'[m.id[1]]
    <3>1. m.id[1] \in Clients /\ m.id[2] \in Nat
      BY DEF Ids
    <3>2. m.id[2] <= issued[m.id[1]]
      OBVIOUS
    <3>3. QED
      BY <2>2, <3>1, <3>2
  <2>5. ASSUME NEW x \in executed PROVE x[2] <= issued'[x[1]]
    <3>1. x[1] \in Clients /\ x[2] \in Nat /\ x[2] <= issued[x[1]]
      BY DEF Ids
    <3>2. QED
      BY <2>2, <3>1
  <2>6. QED
    BY <2>1, <2>3, <2>4, <2>5
<1>2. ASSUME NEW c \in Clients, Locate(c) PROVE Numbered'
  BY <1>2 DEF Locate
<1>3. ASSUME NEW c \in Clients, Send(c) PROVE Numbered'
  BY <1>3 DEF Send
<1>4. ASSUME NEW c \in Clients, Recv(c) PROVE Numbered'
  BY <1>4 DEF Recv
<1>5. ASSUME NEW c \in Clients, Timeout(c) PROVE Numbered'
  BY <1>5 DEF Timeout
<1>6. ASSUME NEW c \in Clients, Recheck(c) PROVE Numbered'
  BY <1>6 DEF Recheck
<1>7. ASSUME NEW c \in Clients, Restart(c) PROVE Numbered'
  BY <1>7 DEF Restart
<1>8. ASSUME NEW c \in Clients, Await(c) PROVE Numbered'
  BY <1>8 DEF Await
<1>9. ASSUME NEW c \in Clients, Interrupt(c) PROVE Numbered'
  BY <1>9 DEF Interrupt
<1>10. ASSUME NEW c \in Clients, Die(c) PROVE Numbered'
  BY <1>10 DEF Die
<1>11. ASSUME NEW c \in Clients, Deliver(c) PROVE Numbered'
  BY <1>11 DEF Deliver
<1>12. CASE SyncdTake
  BY <1>12 DEF SyncdTake
<1>13. CASE SyncdAnswer
  BY <1>13 DEF SyncdAnswer
<1>14. CASE SyncdCrash
  BY <1>14 DEF SyncdCrash
<1>15. CASE SyncdStart
  BY <1>15 DEF SyncdStart
<1>16. CASE UNCHANGED vars
  BY <1>16 DEF vars
<1>17. QED
  BY <1>1, <1>2, <1>3, <1>4, <1>5, <1>6, <1>7, <1>8, <1>9, <1>10, <1>11, <1>12, <1>13,
     <1>14, <1>15, <1>16, NextCases

(* Begin takes a new number, Send leaves the state in which it is unused.  *)
LEMMA UnsentStep == TypeOK /\ Sockets /\ Numbered /\ Unsent /\ [Next]_vars => Unsent'
<1> SUFFICES ASSUME TypeOK, Sockets, Numbered, Unsent, [Next]_vars PROVE Unsent'
  OBVIOUS
<1> USE DEF TypeOK, Goto, Reopen, KeepSocket, socketVars, syncdVars, CallSteps, Numbered,
            Unsent, Own
<1>1. ASSUME NEW c \in Clients, Begin(c) PROVE Unsent'
  BY <1>1 DEF Begin
<1>2. ASSUME NEW c \in Clients, Locate(c) PROVE Unsent'
  BY <1>2 DEF Locate
<1>3. ASSUME NEW c \in Clients, Send(c) PROVE Unsent'
  BY <1>3 DEF Send
<1>4. ASSUME NEW c \in Clients, Recv(c) PROVE Unsent'
  BY <1>4 DEF Recv
<1>5. ASSUME NEW c \in Clients, Timeout(c) PROVE Unsent'
  BY <1>5 DEF Timeout
<1>6. ASSUME NEW c \in Clients, Recheck(c) PROVE Unsent'
  BY <1>6 DEF Recheck
<1>7. ASSUME NEW c \in Clients, Restart(c) PROVE Unsent'
  BY <1>7 DEF Restart
<1>8. ASSUME NEW c \in Clients, Await(c) PROVE Unsent'
  BY <1>8 DEF Await
<1>9. ASSUME NEW c \in Clients, Interrupt(c) PROVE Unsent'
  BY <1>9 DEF Interrupt
<1>10. ASSUME NEW c \in Clients, Die(c) PROVE Unsent'
  BY <1>10 DEF Die
<1>11. ASSUME NEW c \in Clients, Deliver(c) PROVE Unsent'
  BY <1>11 DEF Deliver
<1>12. CASE SyncdTake
  BY <1>12 DEF SyncdTake
<1>13. CASE SyncdAnswer
  BY <1>13 DEF SyncdAnswer
<1>14. CASE SyncdCrash
  BY <1>14 DEF SyncdCrash
<1>15. CASE SyncdStart
  BY <1>15 DEF SyncdStart
<1>16. CASE UNCHANGED vars
  BY <1>16 DEF vars
<1>17. QED
  BY <1>1, <1>2, <1>3, <1>4, <1>5, <1>6, <1>7, <1>8, <1>9, <1>10, <1>11, <1>12, <1>13,
     <1>14, <1>15, <1>16, NextCases

(* Nothing that syncd has is of a socket opened now.                       *)
LEMMA Reopened ==
  ASSUME TypeOK, Numbered, NEW c \in Clients, Reopen(c), UNCHANGED <<wire, work>>
  PROVE  Current(c)' = {} /\ \A d \in Clients \ {c} : Current(d)' = Current(d)
<1>1. sock'[c] = issued[c] /\ \A d \in Clients \ {c} : sock'[d] = sock[d]
  BY DEF Reopen, TypeOK
<1>2. ASSUME NEW m \in wire \cup work, m.id[1] = c PROVE m.sock # issued[c]
  BY <1>2 DEF Numbered, TypeOK, Ids
<1>3. QED
  BY <1>1, <1>2 DEF Current

(* A message moves from the socket to the wire, to syncd and back, one     *)
(* place at a time; a new socket has none.                                 *)
LEMMA LockstepStep == TypeOK /\ Sockets /\ Numbered /\ OnePlace /\ Lockstep /\ [Next]_vars => Lockstep'
<1> SUFFICES ASSUME TypeOK, Sockets, Numbered, OnePlace, Lockstep, [Next]_vars PROVE Lockstep'
  OBVIOUS
<1> USE DEF TypeOK, Goto, Reopen, KeepSocket, socketVars, syncdVars, CallSteps, Sockets,
            Numbered, Lockstep, Current, Own
<1>1. ASSUME NEW c \in Clients, Begin(c) PROVE Lockstep'
  BY <1>1 DEF Begin
<1>2. ASSUME NEW c \in Clients, Locate(c) PROVE Lockstep'
  BY <1>2 DEF Locate
<1>3. ASSUME NEW c \in Clients, Send(c) PROVE Lockstep'
  BY <1>3 DEF Send
<1>4. ASSUME NEW c \in Clients, Recv(c) PROVE Lockstep'
  BY <1>4 DEF Recv
<1>5. ASSUME NEW c \in Clients, Timeout(c) PROVE Lockstep'
  <2>1. Current(c)' = {} /\ \A d \in Clients \ {c} : Current(d)' = Current(d)
    BY ONLY <1>5, TypeOK, Numbered, Reopened DEF Timeout, syncdVars
  <2>2. /\ outbox'[c] = {} /\ inbox'[c] = {} /\ pc'[c] = "idle" /\ issued' = issued
        /\ \A d \in Clients \ {c} :
             /\ outbox'[d] = outbox[d] /\ inbox'[d] = inbox[d]
             /\ pc'[d] = pc[d] /\ fsm'[d] = fsm[d]
    BY <1>5 DEF Timeout
  <2>3. QED
    BY <2>1, <2>2
<1>6. ASSUME NEW c \in Clients, Recheck(c) PROVE Lockstep'
  <2>1. CASE PeerReachable
    BY <1>6, <2>1, Reopened DEF Recheck
  <2>2. CASE ~PeerReachable
    BY <1>6, <2>2 DEF Recheck
  <2>3. QED
    BY <2>1, <2>2
<1>7. ASSUME NEW c \in Clients, Restart(c) PROVE Lockstep'
  BY <1>7 DEF Restart
<1>8. ASSUME NEW c \in Clients, Await(c) PROVE Lockstep'
  <2>1. CASE syncdUp
    BY <1>8, <2>1, Reopened DEF Await
  <2>2. CASE ~syncdUp
    BY <1>8, <2>2 DEF Await
  <2>3. QED
    BY <2>1, <2>2
<1>9. ASSUME NEW c \in Clients, Interrupt(c) PROVE Lockstep'
  BY <1>9 DEF Interrupt
<1>10. ASSUME NEW c \in Clients, Die(c) PROVE Lockstep'
  <2>1. Current(c)' = {} /\ \A d \in Clients \ {c} : Current(d)' = Current(d)
    BY ONLY <1>10, TypeOK, Numbered, Reopened DEF Die, syncdVars
  <2>2. /\ outbox'[c] = {} /\ inbox'[c] = {} /\ pc'[c] = "idle" /\ issued' = issued
        /\ \A d \in Clients \ {c} :
             /\ outbox'[d] = outbox[d] /\ inbox'[d] = inbox[d]
             /\ pc'[d] = pc[d] /\ fsm'[d] = fsm[d]
    BY <1>10 DEF Die
  <2>3. QED
    BY <2>1, <2>2
<1>11. ASSUME NEW c \in Clients, Deliver(c) PROVE Lockstep'
  BY <1>11 DEF Deliver
<1>12. CASE SyncdTake
  BY <1>12 DEF SyncdTake
<1>13. CASE SyncdAnswer
  <2>1. CASE work = {}
    BY <1>13, <2>1 DEF SyncdAnswer
  <2>2. CASE work # {}
    <3>1. PICK m \in work : inbox' = IF m.sock = sock[m.id[1]]
                                       THEN [inbox EXCEPT ![m.id[1]] = {m.id}] ELSE inbox
      BY <1>13 DEF SyncdAnswer
    <3>2. m.id \in Ids /\ m.id[1] \in Clients
      BY DEF Ids
    <3>3. UNCHANGED <<pc, sock, fsm, outbox, wire, issued>> /\ work' = {}
      BY <1>13 DEF SyncdAnswer
    <3>4. ASSUME m.sock # sock[m.id[1]] PROVE Lockstep'
      BY <3>1, <3>3, <3>4
    <3>5. ASSUME m.sock = sock[m.id[1]] PROVE Lockstep'
      <4> DEFINE e == m.id[1]
      <4>1. m \in Current(e) /\ m \notin wire
        BY <3>5 DEF OnePlace
      <4>2. Current(e)' = {}
        <5>1. \A n \in Current(e) : n = m
          BY <3>2, <4>1
        <5>2. \A n \in wire : n \notin Current(e)
          BY <4>1, <5>1
        <5>3. QED
          BY <3>3, <5>2
      <4>3. inbox' = [inbox EXCEPT ![e] = {m.id}]
        BY <3>1, <3>5
      <4>4. \A d \in Clients \ {e} : inbox'[d] = inbox[d] /\ Current(d)' \subseteq Current(d)
        BY <3>2, <3>3, <4>3
      <4>5. inbox'[e] = {m.id} /\ outbox[e] = {} /\ fsm[e] = "recv"
        BY <3>2, <4>1, <4>3
      <4>6. pc[e] = "recv" => m.id = Own(e)
        BY <3>2, <4>1
      <4>7. \A d \in Clients : Own(d)' = Own(d)
        BY <3>3
      <4> HIDE DEF Current, Own, e
      <4>8. ASSUME NEW d \in Clients, d # e
            PROVE  /\ outbox'[d] # {} \/ inbox'[d] # {} \/ fsm'[d] = "send" => Current(d)' = {}
                   /\ outbox'[d] # {} => inbox'[d] = {}
                   /\ \A m1, m2 \in Current(d)' : m1 = m2
                   /\ \A r, s \in outbox'[d] : r = s
                   /\ pc'[d] = "recv" => /\ outbox'[d] \cup inbox'[d] \subseteq {Own(d)'}
                                         /\ \A m1 \in Current(d)' : m1.id = Own(d)'
        BY <3>3, <4>4, <4>7, <4>8
      <4>9. QED
        BY <3>2, <3>3, <4>2, <4>5, <4>6, <4>7, <4>8 DEF e
    <3>6. QED
      BY <3>4, <3>5
  <2>3. QED
    BY <2>1, <2>2
<1>14. CASE SyncdCrash
  BY <1>14 DEF SyncdCrash
<1>15. CASE SyncdStart
  BY <1>15 DEF SyncdStart
<1>16. CASE UNCHANGED vars
  BY <1>16 DEF vars
<1>17. QED
  BY <1>1, <1>2, <1>3, <1>4, <1>5, <1>6, <1>7, <1>8, <1>9, <1>10, <1>11, <1>12, <1>13,
     <1>14, <1>15, <1>16, NextCases

(* What is sent was not, and what is executed leaves the wire.             *)
LEMMA OnePlaceStep == TypeOK /\ Numbered /\ Unsent /\ Lockstep /\ OnePlace /\ [Next]_vars => OnePlace'
<1> SUFFICES ASSUME TypeOK, Numbered, Unsent, Lockstep, OnePlace, [Next]_vars PROVE OnePlace'
  OBVIOUS
<1> USE DEF TypeOK, Goto, Reopen, KeepSocket, socketVars, syncdVars, CallSteps, Numbered,
            Unsent, Lockstep, OnePlace, Own
<1>1. ASSUME NEW c \in Clients, Begin(c) PROVE OnePlace'
  BY <1>1 DEF Begin
<1>2. ASSUME NEW c \in Clients, Locate(c) PROVE OnePlace'
  BY <1>2 DEF Locate
<1>3. ASSUME NEW c \in Clients, Send(c) PROVE OnePlace'
  BY <1>3 DEF Send
<1>4. ASSUME NEW c \in Clients, Recv(c) PROVE OnePlace'
  BY <1>4 DEF Recv
<1>5. ASSUME NEW c \in Clients, Timeout(c) PROVE OnePlace'
  BY <1>5 DEF Timeout
<1>6. ASSUME NEW c \in Clients, Recheck(c) PROVE OnePlace'
  BY <1>6 DEF Recheck
<1>7. ASSUME NEW c \in Clients, Restart(c) PROVE OnePlace'
  BY <1>7 DEF Restart
<1>8. ASSUME NEW c \in Clients, Await(c) PROVE OnePlace'
  BY <1>8 DEF Await
<1>9. ASSUME NEW c \in Clients, Interrupt(c) PROVE OnePlace'
  BY <1>9 DEF Interrupt
<1>10. ASSUME NEW c \in Clients, Die(c) PROVE OnePlace'
  BY <1>10 DEF Die
<1>11. ASSUME NEW c \in Clients, Deliver(c) PROVE OnePlace'
  BY <1>11 DEF Deliver
<1>12. CASE SyncdTake
  BY <1>12 DEF SyncdTake
<1>13. CASE SyncdAnswer
  BY <1>13 DEF SyncdAnswer
<1>14. CASE SyncdCrash
  BY <1>14 DEF SyncdCrash
<1>15. CASE SyncdStart
  BY <1>15 DEF SyncdStart
<1>16. CASE UNCHANGED vars
  BY <1>16 DEF vars
<1>17. QED
  BY <1>1, <1>2, <1>3, <1>4, <1>5, <1>6, <1>7, <1>8, <1>9, <1>10, <1>11, <1>12, <1>13,
     <1>14, <1>15, <1>16, NextCases

(* The kill takes what syncd had, and a socket that may send holds nothing *)
(* that could follow.                                                      *)
LEMMA ForgottenStep == TypeOK /\ Sockets /\ Numbered /\ Forgotten /\ [Next]_vars => Forgotten'
<1> SUFFICES ASSUME TypeOK, Sockets, Numbered, Forgotten, [Next]_vars PROVE Forgotten'
  OBVIOUS
<1> USE DEF TypeOK, Goto, Reopen, KeepSocket, socketVars, syncdVars, CallSteps, Sockets,
            Numbered, Forgotten
<1>1. ASSUME NEW c \in Clients, Begin(c) PROVE Forgotten'
  BY <1>1 DEF Begin
<1>2. ASSUME NEW c \in Clients, Locate(c) PROVE Forgotten'
  BY <1>2 DEF Locate
<1>3. ASSUME NEW c \in Clients, Send(c) PROVE Forgotten'
  BY <1>3 DEF Send
<1>4. ASSUME NEW c \in Clients, Recv(c) PROVE Forgotten'
  BY <1>4 DEF Recv
<1>5. ASSUME NEW c \in Clients, Timeout(c) PROVE Forgotten'
  BY <1>5 DEF Timeout
<1>6. ASSUME NEW c \in Clients, Recheck(c) PROVE Forgotten'
  BY <1>6 DEF Recheck
<1>7. ASSUME NEW c \in Clients, Restart(c) PROVE Forgotten'
  BY <1>7 DEF Restart
<1>8. ASSUME NEW c \in Clients, Await(c) PROVE Forgotten'
  BY <1>8 DEF Await
<1>9. ASSUME NEW c \in Clients, Interrupt(c) PROVE Forgotten'
  BY <1>9 DEF Interrupt
<1>10. ASSUME NEW c \in Clients, Die(c) PROVE Forgotten'
  BY <1>10 DEF Die
<1>11. ASSUME NEW c \in Clients, Deliver(c) PROVE Forgotten'
  BY <1>11 DEF Deliver
<1>12. CASE SyncdTake
  BY <1>12 DEF SyncdTake
<1>13. CASE SyncdAnswer
  BY <1>13 DEF SyncdAnswer
<1>14. CASE SyncdCrash
  BY <1>14 DEF SyncdCrash
<1>15. CASE SyncdStart
  BY <1>15 DEF SyncdStart
<1>16. CASE UNCHANGED vars
  BY <1>16 DEF vars
<1>17. QED
  BY <1>1, <1>2, <1>3, <1>4, <1>5, <1>6, <1>7, <1>8, <1>9, <1>10, <1>11, <1>12, <1>13,
     <1>14, <1>15, <1>16, NextCases

-----------------------------------------------------------------------------
(* The reply of syncd finds a socket that waits.                           *)
LEMMA TypeStep ==
  TypeOK /\ Sockets /\ Lockstep /\ OnePlace /\ [Next]_vars => TypeOK'
<1> SUFFICES ASSUME TypeOK, Sockets, Lockstep, OnePlace, [Next]_vars PROVE TypeOK'
  OBVIOUS
<1> USE DEF TypeOK, Goto, Reopen, KeepSocket, socketVars, syncdVars, CallSteps
<1>0. \A c \in Clients : Own(c) \in Ids
  BY DEF Own, Ids
<1>00. Cardinality({}) <= 1
  BY FS_EmptySet
<1>01. ASSUME NEW m PROVE Cardinality({m}) <= 1
  <2>1. Cardinality({m}) = 1
    BY FS_Singleton
  <2>2. QED
    BY <2>1
<1>1. ASSUME NEW c \in Clients, Begin(c) PROVE TypeOK'
  BY <1>1 DEF Begin
<1>2. ASSUME NEW c \in Clients, Locate(c) PROVE TypeOK'
  BY <1>2 DEF Locate, PeerReachable, Sockets
<1>3. ASSUME NEW c \in Clients, Send(c) PROVE TypeOK'
  BY <1>0, <1>3 DEF Send
<1>4. ASSUME NEW c \in Clients, Recv(c) PROVE TypeOK'
  BY <1>4 DEF Recv, Lockstep
<1>5. ASSUME NEW c \in Clients, Timeout(c) PROVE TypeOK'
  BY <1>5 DEF Timeout
<1>6. ASSUME NEW c \in Clients, Recheck(c) PROVE TypeOK'
  BY <1>6 DEF Recheck, PeerReachable, Sockets
<1>7. ASSUME NEW c \in Clients, Restart(c) PROVE TypeOK'
  BY <1>00, <1>7 DEF Restart
<1>8. ASSUME NEW c \in Clients, Await(c) PROVE TypeOK'
  BY <1>8 DEF Await, Sockets
<1>9. ASSUME NEW c \in Clients, Interrupt(c) PROVE TypeOK'
  BY <1>9 DEF Interrupt
<1>10. ASSUME NEW c \in Clients, Die(c) PROVE TypeOK'
  BY <1>10 DEF Die
<1>11. ASSUME NEW c \in Clients, Deliver(c) PROVE TypeOK'
  BY <1>11 DEF Deliver
<1>12. CASE SyncdTake
  <2>1. PICK m \in wire :
          /\ wire' = wire \ {m}
          /\ \/ work' = {m} /\ executed' = executed \cup {m.id}
             \/ UNCHANGED <<work, executed>>
    BY <1>12 DEF SyncdTake
  <2>2. Cardinality(work') <= 1
    BY <1>01, <2>1
  <2>3. QED
    BY <1>12, <2>1, <2>2 DEF SyncdTake
<1>13. CASE SyncdAnswer
  <2>1. PICK m \in work : inbox' = IF m.sock = sock[m.id[1]]
                                     THEN [inbox EXCEPT ![m.id[1]] = {m.id}] ELSE inbox
    BY <1>13 DEF SyncdAnswer
  <2>2. m.id \in Ids /\ m.id[1] \in Clients
    BY DEF Ids
  <2>3. m.sock = sock[m.id[1]] => fsm[m.id[1]] = "recv"
    BY <2>2 DEF Lockstep, Current
  <2>4. QED
    BY <1>00, <1>13, <2>1, <2>2, <2>3 DEF SyncdAnswer
<1>14. CASE SyncdCrash
  <2>1. faults' \in Nat /\ work' = {} /\ Cardinality(work') <= 1
    BY <1>00, <1>14 DEF SyncdCrash
  <2>2. QED
    BY <1>14, <2>1 DEF SyncdCrash
<1>15. CASE SyncdStart
  BY <1>15 DEF SyncdStart
<1>16. CASE UNCHANGED vars
  BY <1>16 DEF vars
<1>17. QED
  BY <1>1, <1>2, <1>3, <1>4, <1>5, <1>6, <1>7, <1>8, <1>9, <1>10, <1>11, <1>12, <1>13,
     <1>14, <1>15, <1>16, NextCases

LEMMA InvInit == Init => IInv
<1> SUFFICES ASSUME Init PROVE IInv
  OBVIOUS
<1>1. TypeOK
  BY FS_EmptySet DEF Init, TypeOK
<1>2. QED
  BY <1>1 DEF Init, IInv, Sockets, Numbered, Unsent, Lockstep, OnePlace, Forgotten,
              InCall, CallSteps, Current

LEMMA InvStep == IInv /\ [Next]_vars => IInv'
BY TypeStep, SocketsStep, NumberedStep, UnsentStep, LockstepStep, OnePlaceStep,
   ForgottenStep
   DEF IInv

LEMMA Invariance == Spec => []IInv
BY InvInit, InvStep, PTL DEF Spec

(* A REQ socket sends and receives in turn, whatever times out, dies or is *)
(* restarted, and an idle client whose calls were not interrupted has a    *)
(* socket that can send.                                                   *)
THEOREM TypeCorrect == Spec => []TypeOK
BY Invariance, PTL DEF IInv

(* Nothing sent before a cleanup() that succeeds can reach the new syncd,  *)
(* unless a call was interrupted: what the killed syncd had is gone, and   *)
(* the socket holds nothing while the new one comes up.                    *)
THEOREM CleanupIsComplete == Spec => CleanupForgets
<1> DEFINE Forgets ==
      \A c \in Clients : CleanupSucceeds(c) /\ c \notin interrupted => Pending(c)' = {}
<1>1. IInv /\ [Next]_vars => [Forgets]_vars
  <2> SUFFICES ASSUME IInv, Next, NEW c \in Clients, CleanupSucceeds(c), c \notin interrupted
               PROVE  Pending(c)' = {}
    OBVIOUS
  <2>1. pc[c] = "await" /\ pc'[c] = "idle" /\ faults' = faults /\ channel'[c]
    BY DEF CleanupSucceeds
  <2>2. TypeOK /\ faults \in Nat
    BY DEF IInv, TypeOK
  <2>3. Await(c)
    <3> USE DEF TypeOK, Goto
    <3>1. \A d \in Clients :
            ~(Begin(d) \/ Locate(d) \/ Send(d) \/ Recv(d) \/ Timeout(d) \/ Recheck(d))
      BY <2>1, <2>2 DEF Begin, Locate, Send, Recv, Timeout, Recheck
    <3>2. \A d \in Clients : ~(Restart(d) \/ Deliver(d)) /\ (d # c => ~Await(d))
      BY <2>1, <2>2 DEF Restart, Deliver, Await
    <3>3. \A d \in Clients : ~(Interrupt(d) \/ Die(d))
      BY <2>1, <2>2 DEF Interrupt, Die
    <3>4. ~(SyncdTake \/ SyncdAnswer \/ SyncdCrash \/ SyncdStart)
      BY <2>1, <2>2 DEF SyncdTake, SyncdAnswer, SyncdCrash, SyncdStart
    <3>5. QED
      BY <3>1, <3>2, <3>3, <3>4 DEF Next, Operate, Environment
  <2>4. outbox'[c] = {} /\ UNCHANGED <<wire, work>>
    BY <2>1, <2>2, <2>3 DEF Await, Reopen, TypeOK, syncdVars
  <2>5. \A m \in wire \cup work : m.id[1] # c
    BY <2>1 DEF IInv, Forgotten
  <2>6. QED
    BY <2>4, <2>5 DEF Pending
<1>2. QED
  BY <1>1, Invariance, PTL DEF Spec, CleanupForgets

-----------------------------------------------------------------------------
(* The refinement: what the variables of SaiRpc are here.                  *)
Calling == [c \in Clients |-> InCall(c)]

Unseen == UNCHANGED <<Calling, issued, executed, got>>

LEMMA CallingAfter ==
  ASSUME NEW c \in Clients, NEW v \in BOOLEAN, InCall(c)' = v,
         \A d \in Clients \ {c} : InCall(d)' = InCall(d)
  PROVE  Calling' = [Calling EXCEPT ![c] = v]
<1>1. [Calling EXCEPT ![c] = v] = [d \in Clients |-> IF d = c THEN v ELSE InCall(d)]
  BY DEF Calling
<1>2. \A d \in Clients : InCall(d)' = IF d = c THEN v ELSE InCall(d)
  OBVIOUS
<1>3. QED
  BY <1>1, <1>2, Zenon DEF Calling

LEMMA CallingKept ==
  ASSUME \A d \in Clients : InCall(d)' = InCall(d) PROVE Calling' = Calling
BY DEF Calling

(* One client takes a step, and is inside a call behind it or is not.      *)
LEMMA CallingGoes ==
  ASSUME TypeOK, NEW c \in Clients, NEW label, Goto(c, label)
  PROVE  /\ label \in CallSteps => Calling' = [Calling EXCEPT ![c] = TRUE]
         /\ label \notin CallSteps => Calling' = [Calling EXCEPT ![c] = FALSE]
         /\ (label \in CallSteps <=> InCall(c)) => Calling' = Calling
<1>1. pc'[c] = label /\ \A d \in Clients \ {c} : pc'[d] = pc[d]
  BY DEF Goto, TypeOK
<1>2. \A d \in Clients \ {c} : InCall(d)' = InCall(d)
  BY <1>1 DEF InCall
<1>3. InCall(c)' <=> label \in CallSteps
  BY <1>1 DEF InCall
<1>4. ASSUME label \in CallSteps PROVE Calling' = [Calling EXCEPT ![c] = TRUE]
  <2>1. InCall(c)' = TRUE
    BY <1>3, <1>4
  <2>2. QED
    BY <1>2, <2>1, CallingAfter
<1>5. ASSUME label \notin CallSteps PROVE Calling' = [Calling EXCEPT ![c] = FALSE]
  <2>1. InCall(c)' = FALSE
    BY <1>3, <1>5
  <2>2. QED
    BY <1>2, <2>1, CallingAfter
<1>6. ASSUME label \in CallSteps <=> InCall(c) PROVE Calling' = Calling
  <2>1. InCall(c)' = InCall(c)
    BY <1>3, <1>6 DEF InCall
  <2>2. QED
    BY <1>2, <2>1, CallingKept
<1>7. QED
  BY <1>4, <1>5, <1>6

(* Each step of the client, the sockets and syncd is a step of SaiRpc or   *)
(* is not seen there.                                                      *)
LEMMA RpcStep == IInv /\ [Next]_vars => [Rpc!Next]_(Rpc!vars)
<1> SUFFICES ASSUME IInv, [Next]_vars PROVE Rpc!Next \/ Unseen
  BY DEF Unseen, Rpc!vars, Calling
<1> USE DEF IInv
<1>0. ASSUME NEW c \in Clients, Rpc!Call(c) \/ Rpc!Return(c) \/ Rpc!Fail({c}) \/ Rpc!Reset(c)
      PROVE  Rpc!Next
  BY <1>0 DEF Rpc!Next
<1>a. ASSUME NEW c \in Clients, NEW label, Goto(c, label), label \in CallSteps <=> InCall(c),
             UNCHANGED <<issued, executed, got>>
      PROVE  Unseen
  BY <1>a, CallingGoes DEF Unseen
<1>b. ASSUME NEW c \in Clients, Goto(c, "idle"), UNCHANGED <<issued, executed, got>>
      PROVE  Rpc!Next \/ Unseen
  <2>1. CASE InCall(c)
    <3>1. Calling' = [Calling EXCEPT ![c] = FALSE]
      BY <1>b, CallingGoes DEF CallSteps
    <3>2. Calling' = [d \in Clients |-> Calling[d] /\ d \notin {c}]
      <4>1. Calling' = [d \in Clients |-> IF d = c THEN FALSE ELSE Calling[d]]
        BY <3>1 DEF Calling
      <4>2. ASSUME NEW d \in Clients
            PROVE  (IF d = c THEN FALSE ELSE Calling[d]) = (Calling[d] /\ d \notin {c})
        <5>1. Calling[d] \in BOOLEAN
          BY DEF Calling, InCall
        <5>2. QED
          BY ONLY <5>1
      <4>3. QED
        BY <4>1, <4>2, Zenon
    <3>3. {} \in {{} \cup D : D \in SUBSET {c}}
      <4>1. {} \in SUBSET {c} /\ {} = {} \cup {}
        OBVIOUS
      <4>2. QED
        BY ONLY <4>1
    <3>4. Rpc!Fail({c})
      BY <1>b, <2>1, <3>2, <3>3 DEF Rpc!Fail, Calling
    <3>5. QED
      BY <1>0, <3>4
  <2>2. CASE ~InCall(c)
    BY <1>a, <1>b, <2>2 DEF CallSteps
  <2>3. QED
    BY <2>1, <2>2
<1>1. ASSUME NEW c \in Clients, Begin(c) PROVE Rpc!Next
  <2>1. ~InCall(c) /\ Calling' = [Calling EXCEPT ![c] = TRUE]
    BY <1>1, CallingGoes DEF Begin, InCall, CallSteps
  <2>2. Rpc!Call(c)
    BY <1>1, <2>1 DEF Begin, Rpc!Call, Calling
  <2>3. QED
    BY <1>0, <2>2
<1>2. ASSUME NEW c \in Clients, Locate(c) PROVE Rpc!Next \/ Unseen
  BY <1>a, <1>b, <1>2 DEF Locate, InCall, CallSteps
<1>3. ASSUME NEW c \in Clients, Send(c) PROVE Unseen
  BY <1>a, <1>3 DEF Send, InCall, CallSteps
<1>4. ASSUME NEW c \in Clients, Recv(c) PROVE Rpc!Next
  <2>1. InCall(c) /\ Calling' = [Calling EXCEPT ![c] = FALSE]
    BY <1>4, CallingGoes DEF Recv, InCall, CallSteps
  <2>2. inbox[c] = {Own(c)} /\ Own(c) \in executed
    BY <1>4 DEF Recv, Lockstep, OnePlace
  <2>3. got' = [got EXCEPT ![c] = {Own(c)}] /\ UNCHANGED <<issued, executed>>
    BY <1>4, <2>2 DEF Recv
  <2>4. Rpc!Return(c)
    BY <2>1, <2>2, <2>3 DEF Rpc!Return, Rpc!OwnRequest, Own, Calling
  <2>5. QED
    BY <1>0, <2>4
<1>5. ASSUME NEW c \in Clients, Timeout(c) \/ Recheck(c) PROVE Rpc!Next \/ Unseen
  BY <1>b, <1>5 DEF Timeout, Recheck
<1>6. ASSUME NEW c \in Clients, Restart(c) PROVE Unseen
  BY <1>a, <1>6 DEF Restart, InCall, CallSteps
<1>7. ASSUME NEW c \in Clients, Await(c) \/ Interrupt(c) \/ Die(c) PROVE Rpc!Next \/ Unseen
  BY <1>b, <1>7 DEF Await, Interrupt, Die
<1>8. ASSUME UNCHANGED <<pc, issued, executed, got>> PROVE Unseen
  BY <1>8 DEF Unseen, Calling, InCall
<1>9. ASSUME NEW c \in Clients, Deliver(c) PROVE Unseen
  BY <1>8, <1>9 DEF Deliver
<1>10. CASE SyncdTake
  <2>1. PICK m \in wire : \/ executed' = executed \cup {m.id} \/ executed' = executed
    BY <1>10 DEF SyncdTake
  <2>2. PICK c \in Clients, n \in Nat : m.id = <<c, n>>
    BY DEF TypeOK, Ids
  <2>3. n \in 1..issued[c]
    <3>1. m.sock \in Nat /\ m.sock < n /\ n <= issued[c]
      BY <2>2 DEF Numbered, TypeOK
    <3>2. QED
      BY <3>1 DEF TypeOK
  <2>4. UNCHANGED <<Calling, issued, got, pc>>
    BY <1>10 DEF SyncdTake, Calling, InCall
  <2>5. CASE executed' = executed
    BY <1>8, <2>4, <2>5
  <2>6. CASE executed' = executed \cup {m.id}
    <3>1. m.id \notin executed
      BY DEF OnePlace
    <3>2. Rpc!Execute(m.id)
      BY <2>4, <2>6, <3>1 DEF Rpc!Execute, Calling
    <3>3. QED
      BY <2>2, <2>3, <3>2 DEF Rpc!Next
  <2>7. QED
    BY <2>1, <2>5, <2>6
<1>11. CASE SyncdAnswer \/ SyncdCrash \/ SyncdStart
  BY <1>8, <1>11 DEF SyncdAnswer, SyncdCrash, SyncdStart
<1>12. CASE UNCHANGED vars
  BY <1>8, <1>12 DEF vars
<1>13. QED
  BY <1>1, <1>2, <1>3, <1>4, <1>5, <1>6, <1>7, <1>9, <1>10, <1>11, <1>12, NextCases

(* Over ZeroMQ, operate() keeps the stronger promise of a SAI call: a call *)
(* that returns has the answer to its own request, whatever was late, lost *)
(* or interrupted before, and each request is executed at most once.       *)
THEOREM OperateIsACorrelatedSaiCall == Spec => ImplementsSaiRpc
<1>1. Init => Rpc!Init
  <2> SUFFICES ASSUME Init PROVE Rpc!Init
    OBVIOUS
  <2>1. \A c \in Clients : InCall(c) = FALSE
    BY DEF Init, InCall, CallSteps
  <2>2. QED
    BY <2>1 DEF Init, Rpc!Init
<1>2. QED
  BY <1>1, RpcStep, Invariance, PTL DEF Spec, ImplementsSaiRpc, Rpc!Spec
=============================================================================
