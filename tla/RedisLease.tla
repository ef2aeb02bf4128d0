----------------------------- MODULE RedisLease -----------------------------
(***************************************************************************)
(* What the pool promises its clients: a connection is lent to one client  *)
(* at a time, only that client sends commands on it and only it gets their *)
(* answers, and a connection waits for the next client only when it has    *)
(* not failed and nothing is left to be answered on it.  RedisRequests     *)
(* implements it.                                                          *)
(***************************************************************************)
EXTENDS Naturals

CONSTANTS Ctxs, Clients, Nobody

VARIABLES
  lent,    \* the client that a connection is lent to
  idle,    \* the connections that wait for a client
  asked,   \* the commands on a connection that have no answer
  failed   \* the connections that failed and are not gone yet

lvars == <<lent, idle, asked, failed>>

Init ==
  /\ lent = [c \in Ctxs |-> Nobody]
  /\ idle = {}
  /\ asked = [c \in Ctxs |-> 0]
  /\ failed = {}

(* A new or an idle connection is lent.  Idle ones that prove useless on   *)
(* the way are closed.                                                     *)
Lend(c, k) ==
  /\ lent[c] = Nobody /\ c \notin failed
  /\ lent' = [lent EXCEPT ![c] = k]
  /\ idle' \in SUBSET (idle \ {c})
  /\ UNCHANGED <<asked, failed>>

Ask(c) ==
  /\ lent[c] \in Clients /\ c \notin failed
  /\ asked' = [asked EXCEPT ![c] = @ + 1]
  /\ UNCHANGED <<lent, idle, failed>>

Answer(c) ==
  /\ lent[c] \in Clients /\ asked[c] > 0
  /\ asked' = [asked EXCEPT ![c] = @ - 1]
  /\ UNCHANGED <<lent, idle, failed>>

(* The client is through; n is 1 when that takes the last answer as well.  *)
Return(c, n) ==
  /\ lent[c] \in Clients /\ asked[c] = n /\ c \notin failed
  /\ lent' = [lent EXCEPT ![c] = Nobody]
  /\ idle' = idle \cup {c}
  /\ asked' = [asked EXCEPT ![c] = 0]
  /\ UNCHANGED failed

(* The connection of a client is closed, with what it has not answered.    *)
Close(c) ==
  /\ lent[c] \in Clients
  /\ lent' = [lent EXCEPT ![c] = Nobody]
  /\ asked' = [asked EXCEPT ![c] = 0]
  /\ failed' \in {failed, failed \cup {c}}
  /\ UNCHANGED idle

Fail(c) ==
  /\ failed' = failed \cup {c}
  /\ UNCHANGED <<lent, idle, asked>>

(* A failed connection is gone.                                            *)
Forget(c) ==
  /\ lent[c] = Nobody
  /\ idle' = idle \ {c}
  /\ failed' = failed \ {c}
  /\ UNCHANGED <<lent, asked>>

CloseIdle ==
  /\ idle' \in SUBSET idle
  /\ UNCHANGED <<lent, asked, failed>>

Next ==
  \/ \E c \in Ctxs :
       \/ \E k \in Clients : Lend(c, k)
       \/ \E n \in {0, 1} : Return(c, n)
       \/ Ask(c) \/ Answer(c) \/ Close(c) \/ Fail(c) \/ Forget(c)
  \/ CloseIdle

Spec == Init /\ [][Next]_lvars
=============================================================================
