------------------------------ MODULE RedisPool ------------------------------
(***************************************************************************)
(* The connections of one element of the Redis pool                        *)
(* (libserver/redis_pool.cxx): a redis_pool_connection together with the   *)
(* hiredis context it owns.  The lists of different elements never mix, so *)
(* one element is modelled.                                                *)
(*                                                                         *)
(* Of a context of hiredis (async.c) the model keeps whether it is         *)
(* allocated, connected, in error or about to be freed, and the callbacks  *)
(* it still has to run: those of the AUTH and SELECT commands, which are   *)
(* sent first, those of the clients, and that of QUIT, which is sent last. *)
(***************************************************************************)
EXTENDS Integers, FiniteSets

CONSTANTS
  Ctxs,     \* addresses of hiredis contexts
  NoCtx,    \* the null context
  Clients,  \* lua_redis_ctx objects
  Nobody    \* no client

ASSUME PoolAssumption == NoCtx \notin Ctxs /\ Nobody \notin Clients

States == {"none", "active", "inactive", "finalising"}

Lists == {"none", "active", "inactive", "terminating"}

(* state is none when no connection is registered for the context.  list   *)
(* is the list that owns the connection, timer its running timeout.  mem   *)
(* is dropped when hiredis has freed a context that the pool still has.    *)
Conn ==
  [state : States, list : Lists, timer : BOOLEAN,
   mem : {"free", "live", "dropped"}, connected : BOOLEAN, err : BOOLEAN,
   freeing : BOOLEAN, setup : Nat, asked : [Clients -> Nat], quit : BOOLEAN]

NoConn ==
  [state |-> "none", list |-> "none", timer |-> FALSE, mem |-> "free",
   connected |-> FALSE, err |-> FALSE, freeing |-> FALSE, setup |-> 0,
   asked |-> [k \in Clients |-> 0], quit |-> FALSE]

ListOf(state) == IF state = "finalising" THEN "terminating" ELSE state

(* ctx->replies.head == nullptr                                            *)
NoCallbacks(x) == x.setup = 0 /\ (\A k \in Clients : x.asked[k] = 0) /\ ~x.quit

(* redisAsyncFree.  Inside a callback of the context it only leaves a      *)
(* mark; outside, the callbacks that are left run and the context goes.    *)
RedisAsyncFree(x, inside) ==
  IF inside
  THEN [x EXCEPT !.freeing = TRUE]
  ELSE [NoConn EXCEPT !.state = x.state, !.list = x.list, !.timer = x.timer]

(* ~redis_pool_connection                                                  *)
Destruct(x, inside) ==
  LET y == [x EXCEPT !.state = "none", !.timer = FALSE]
  IN  IF x.freeing THEN y ELSE RedisAsyncFree(y, inside)

(* redis_pool_elt::release_connection                                      *)
Erase(x, inside) == Destruct([x EXCEPT !.list = "none"], inside)

(* redis_pool_connection's constructor; n commands authenticate and select *)
NewConn(n) ==
  [NoConn EXCEPT !.state = "active", !.list = "active", !.mem = "live",
                 !.setup = n]

(* An inactive connection is taken by a client.                            *)
Reuse(x) ==
  [x EXCEPT !.state = "active", !.list = "active", !.timer = FALSE]

(* It is parked until a client or its timeout takes it.                    *)
Park(x) ==
  [x EXCEPT !.state = "inactive", !.list = "inactive", !.timer = TRUE]

Hows == {"default", "fatal", "enforce"}

(* redis_pool::release_connection                                          *)
ReleaseIgnoringError(x, how, inside) ==
  IF how = "default" /\ NoCallbacks(x) /\ x.connected
  THEN Park(x)
  ELSE Erase(x, inside)

ReleaseIgnoringCallbacks(x, how, inside) ==
  IF ~x.err /\ how = "default" /\ x.connected
  THEN Park(x)
  ELSE Erase(x, inside)

ReleaseConnection(x, how, inside) ==
  IF ~x.err /\ how = "default" /\ NoCallbacks(x) /\ x.connected
  THEN Park(x)
  ELSE Erase(x, inside)

(* redis_conn_timeout_cb                                                   *)
TimeoutQuitsAgain(x) ==
  [x EXCEPT !.state = "finalising", !.list = "terminating", !.quit = TRUE]

TimeoutCb(x) ==
  IF x.state = "inactive"
  THEN [x EXCEPT !.state = "finalising", !.list = "terminating", !.quit = TRUE]
  ELSE Erase(x, FALSE)

(* redis_on_disconnect at the end of __redisAsyncFree, when no callback is *)
(* left: a connection that no client has is erased.  hiredis frees the     *)
(* context in any case.                                                    *)
OnDisconnect(x) ==
  IF x.state \in {"inactive", "finalising"} /\ x.connected
  THEN Erase(x, FALSE)
  ELSE IF x.state = "none"
  THEN NoConn
  ELSE [NoConn EXCEPT !.state = x.state, !.list = x.list, !.timer = x.timer,
                      !.err = x.err, !.mem = "dropped"]
=============================================================================
