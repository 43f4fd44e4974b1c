------------------------------- MODULE SaiRpc -------------------------------
(***************************************************************************)
(* What a SAI client promises its callers, whatever carries the request.   *)
(*                                                                         *)
(* A caller (the pytest process, the sai CLI) makes one blocking call at a *)
(* time: SaiClient.create/remove/set/get/... all end in one operate(),     *)
(* which returns an answer or raises.  The server behind the client hands  *)
(* each request to the SAI library at most once.  An answer that is        *)
(* returned is an answer the server has produced; it is the answer to the  *)
(* caller's own request unless the transport cannot tell answers apart     *)
(* (Correlated = FALSE) and either the caller has given up on an earlier   *)
(* call since it last cleaned up, or another caller shares the transport.  *)
(***************************************************************************)
EXTENDS Naturals

CONSTANTS
  Clients,      \* the processes that call the SAI client
  Correlated    \* TRUE when a late answer can never be taken for another's

VARIABLES
  inCall,       \* inCall[c]: c is inside operate()
  issued,       \* issued[c]: number of calls c has made; the call in progress is the last
  executed,     \* requests handed to the SAI library
  doubtful,     \* clients that gave up on a call since their last cleanup
  got           \* got[c]: {} or {answer returned by c's last finished call}

vars == <<inCall, issued, executed, doubtful, got>>

OwnRequest(c) == <<c, issued[c]>>

Init ==
  /\ inCall = [c \in Clients |-> FALSE]
  /\ issued = [c \in Clients |-> 0]
  /\ executed = {}
  /\ doubtful = {}
  /\ got = [c \in Clients |-> {}]

Call(c) ==
  /\ ~inCall[c]
  /\ inCall' = [inCall EXCEPT ![c] = TRUE]
  /\ issued' = [issued EXCEPT ![c] = @ + 1]
  /\ got' = [got EXCEPT ![c] = {}]
  /\ UNCHANGED <<executed, doubtful>>

(* The server hands a request to the SAI library: once, and only a request *)
(* that some client has made.                                              *)
Execute(r) ==
  /\ r \notin executed
  /\ executed' = executed \cup {r}
  /\ UNCHANGED <<inCall, issued, doubtful, got>>

Foreign(c, r) ==
  /\ ~Correlated
  /\ r # OwnRequest(c)
  /\ r[1] = c => c \in doubtful

Return(c) ==
  /\ inCall[c]
  /\ \E r \in executed :
       /\ r = OwnRequest(c) \/ Foreign(c, r)
       /\ got' = [got EXCEPT ![c] = {r}]
       /\ doubtful' \in {doubtful} \cup (IF r = OwnRequest(c) THEN {} ELSE {doubtful \cup {c}})
  /\ inCall' = [inCall EXCEPT ![c] = FALSE]
  /\ UNCHANGED <<issued, executed>>

(* Calls end in an exception: a single one, or several at once when what   *)
(* they share goes away.                                                   *)
Fail(C) ==
  /\ C # {} /\ \A c \in C : inCall[c]
  /\ inCall' = [c \in Clients |-> inCall[c] /\ c \notin C]
  /\ doubtful' \in {doubtful \cup D : D \in SUBSET C}
  /\ UNCHANGED <<issued, executed, got>>

Reset(c) ==
  /\ ~inCall[c]
  /\ doubtful' = doubtful \ {c}
  /\ UNCHANGED <<inCall, issued, executed, got>>

Next ==
  \/ \E c \in Clients : Call(c) \/ Return(c) \/ Reset(c)
  \/ \E C \in SUBSET Clients : Fail(C)
  \/ \E c \in Clients : \E n \in 1..issued[c] : Execute(<<c, n>>)

Spec == Init /\ [][Next]_vars
=============================================================================
