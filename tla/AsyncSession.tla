---------------------------- MODULE AsyncSession ----------------------------
(***************************************************************************)
(* The asynchronous session of a scan task (libserver/async_session.c) and *)
(* the call stack on which its callbacks run.                              *)
(*                                                                         *)
(* A worker is one thread around a libev loop.  A callback of the loop     *)
(* runs to its end, through any number of nested calls, before the next    *)
(* one is delivered, so the model keeps the calls still to be made as a    *)
(* stack of frames: the loop delivers an event only when the stack is      *)
(* empty, and every step in between executes the frame on top.             *)
(*                                                                         *)
(* A session event is identified, as in the code, by its finalizer and its *)
(* user data: here the subsystem that registered it and the symbol it was  *)
(* registered for.                                                         *)
(***************************************************************************)
EXTENDS Naturals, Sequences, FiniteSets

CONSTANTS
  Items,   \* the symbols of the cache that have a dynamic item
  NoItem   \* the null item

ASSUME ItemsAssumption == IsFiniteSet(Items) /\ NoItem \notin Items

VARIABLES
  events,  \* session->events
  flags,   \* session->flags: a subset of {"DESTROYING", "CLEANUP"}
  stack,   \* the frames of the running loop callback, the innermost first
  ret      \* the value the last frame returned to its caller

sessionVars == <<events, flags>>
loopVars == <<stack, ret>>

(* How the registrants of the events behave.  dns: the finalizer runs the  *)
(* user's callback and drops the symbol's counter (dns.c).  redis: the     *)
(* reply drops the counter first and then removes the event; the finalizer *)
(* only releases the request (lua_redis.c, lua_tcp.c, lua_udp.c, timers).  *)
(* slow: the idle timer of the symbol cache.  A request made while no      *)
(* symbol runs has no item.  No code registers an event without finalizer. *)
Kinds == {"dns", "redis", "slow"}

Event == [kind : Kinds \ {"slow"}, item : Items \cup {NoItem}]
           \cup [kind : {"slow"}, item : Items]

-----------------------------------------------------------------------------
(* Frames.  The fields a frame does not use keep the values of F0.         *)

F0 == [op |-> "none", item |-> NoItem, kind |-> "none", todo |-> {},
       b |-> 0, k |-> 0, ok |-> TRUE, saved |-> NoItem]

Call(op) == [F0 EXCEPT !.op = op]

CallOn(op, i) == [F0 EXCEPT !.op = op, !.item = i]

CallEv(op, e) == [F0 EXCEPT !.op = op, !.item = e.item, !.kind = e.kind]

Top == Head(stack)

TopIs(op) == stack # <<>> /\ Top.op = op

TopEvent == [kind |-> Top.kind, item |-> Top.item]

Return(v) == stack' = Tail(stack) /\ ret' = v

Finish == stack' = Tail(stack) /\ UNCHANGED ret

Become(frames) == stack' = frames \o Tail(stack) /\ UNCHANGED ret

Run(frames) == stack' = frames \o stack /\ UNCHANGED ret

(* A failed g_assert or g_abort: the process is gone, nothing follows.     *)
Abort == stack' = <<Call("abort")>> /\ UNCHANGED ret

-----------------------------------------------------------------------------
(* RSPAMD_SESSION_CAN_ADD_EVENT, negated.                                  *)
Blocked == flags # {}

HasEvents == events # {}

(* rspamd_session_remove_event, once the event has left the table.         *)
AfterRemoveNoPending(e) == <<CallEv("fin", e)>>

AfterRemove(e) == <<CallEv("fin", e), Call("pending")>>

(* rspamd_session_remove_event: ignored while the session is blocked;      *)
(* an event that is not there is a fatal error; otherwise the event leaves *)
(* the table, its finalizer runs and the session is checked for work.      *)
RemoveEvent ==
  /\ TopIs("remove")
  /\ \/ Blocked /\ Finish
     \/ /\ ~Blocked
        /\ IF TopEvent \in events THEN Become(AfterRemove(TopEvent)) ELSE Abort
  /\ events' = IF Blocked THEN events ELSE events \ {TopEvent}
  /\ UNCHANGED flags

(* rspamd_session_pending: the session's fin handler runs when no event is *)
(* left.  Its result is not used: tasks have no restore handler.           *)
Pending ==
  /\ TopIs("pending")
  /\ IF HasEvents THEN Finish ELSE Become(<<Call("task_fin")>>)
  /\ UNCHANGED sessionVars

(* rspamd_session_cleanup, the loop over the events.  The table is walked  *)
(* in hash order, so any order is possible; the events stay in it until    *)
(* the walk is over (and would after it, had one no finalizer).            *)
Cleanup ==
  /\ TopIs("cleanup")
  /\ \/ /\ Top.todo = {}
        /\ events' = {}
        /\ flags' = flags \ {"CLEANUP"}
        /\ Finish
     \/ \E e \in Top.todo :
          /\ Become(<<CallEv("fin", e), [Top EXCEPT !.todo = @ \ {e}]>>)
          /\ UNCHANGED sessionVars

(* Calling rspamd_session_cleanup and, with "DESTROYING" in fl,            *)
(* rspamd_session_destroy: the flags go up before the walk starts.         *)
StartCleanup(fl, after) ==
  /\ flags' = flags \cup {"CLEANUP"} \cup fl
  /\ stack' = <<[Call("cleanup") EXCEPT !.todo = events]>> \o after
  /\ UNCHANGED <<events, ret>>

SessionInit ==
  /\ events = {}
  /\ flags = {}
  /\ stack = <<>>
  /\ ret = TRUE
=============================================================================
