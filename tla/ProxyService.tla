---------------------------- MODULE ProxyService ----------------------------
(***************************************************************************)
(* What a proxy worker promises to its clients, without the backends: it   *)
(* serves no more clients than its limits allow, in total and from one     *)
(* source, answers each of them once, and keeps a client's place until all *)
(* that was started for it has ended.  ProxySession implements it.         *)
(***************************************************************************)
EXTENDS Naturals, FiniteSets

CONSTANTS
  Sessions,  \* places
  Sources,   \* client addresses
  Nobody     \* no address

VARIABLES
  limit,   \* how many clients are served at a time
  share,   \* how many of them may come from one source
  client,  \* what the client at a place waits for
  from     \* its source

svars == <<limit, share, client, from>>

Taken == {s \in Sessions : client[s] # "none"}

TakenBy(a) == {s \in Taken : from[s] = a}

Init ==
  /\ limit \in Nat /\ share \in Nat
  /\ client = [s \in Sessions |-> "none"]
  /\ from = [s \in Sessions |-> Nobody]

Admit(s, a) ==
  /\ client[s] = "none"
  /\ Cardinality(Taken) < limit
  /\ Cardinality(TakenBy(a)) < share
  /\ client' = [client EXCEPT ![s] = "asking"]
  /\ from' = [from EXCEPT ![s] = a]
  /\ UNCHANGED <<limit, share>>

Answer(s) ==
  /\ client[s] = "asking"
  /\ client' = [client EXCEPT ![s] = "answered"]
  /\ UNCHANGED <<limit, share, from>>

(* The client has its answer, what was started for it goes on.             *)
Leave(s) ==
  /\ client[s] = "answered"
  /\ client' = [client EXCEPT ![s] = "gone"]
  /\ UNCHANGED <<limit, share, from>>

(* The place is given back: the client broke off, or all is done.          *)
End(s) ==
  /\ client[s] # "none"
  /\ client' = [client EXCEPT ![s] = "none"]
  /\ from' = [from EXCEPT ![s] = Nobody]
  /\ UNCHANGED <<limit, share>>

Next ==
  \E s \in Sessions :
    \/ \E a \in Sources : Admit(s, a)
    \/ Answer(s) \/ Leave(s) \/ End(s)

Spec == Init /\ [][Next]_svars
=============================================================================
