---------------------------- MODULE RedisRequests ----------------------------
(***************************************************************************)
(* The Redis requests of Lua scripts (lua/lua_redis.c) on top of the pool: *)
(* connect, add_cmd and exec, the callbacks of hiredis, the timeouts of    *)
(* the commands and of the pool, the end of a session, and the reference   *)
(* counts that free a request.                                             *)
(*                                                                         *)
(* A worker is one event loop.  A handler that calls into Lua, or that     *)
(* frees a context with callbacks left, is taken in several steps: loop    *)
(* says where it is, and no other event is served meanwhile.  While Lua    *)
(* runs, the script may use any request.                                   *)
(*                                                                         *)
(* A context that hiredis freed while the pool and a client still have it  *)
(* is dropped.  Nothing keeps the code from using it, or from getting its  *)
(* address for a new connection: that is undefined behaviour, after which  *)
(* the model says nothing more.  A script is assumed to send no command on *)
(* a request whose connection it gave back, and a session that was cleaned *)
(* up to start no more commands.  Left out: subscriptions, requests        *)
(* without a session, and the destruction of the pool.                     *)
(***************************************************************************)
EXTENDS RedisPool, FiniteSetsExt

CONSTANTS
  Sync,      \* the clients that were made by connect_sync
  Pooling,   \* how a client may give its connection back (no_pool: enforce)
  Setups,    \* how many AUTH and SELECT commands a new connection may send
  MaxCmds,   \* bound on the commands of one request
  MaxSent    \* bound on the commands of the requests of one time

ASSUME RequestAssumption ==
  /\ Sync \subseteq Clients
  /\ Pooling \in [Clients -> SUBSET {"default", "enforce"}]
  /\ Setups \subseteq Nat

VARIABLES
  conn,      \* the connections, by context
  req,       \* the requests
  loop,      \* what the event loop is in the middle of
  undefined  \* a freed context was used

vars == <<conn, req, loop, undefined>>

(* struct lua_redis_ctx: live while it is allocated, held while Lua has a  *)
(* reference.  open: the commands whose lua_redis_fin has not run; each    *)
(* has a reference.  pending: cmds_pending.  sent: all commands so far.    *)
(* bad: a command was refused.  ended: the session is over.  Of a sync     *)
(* request: waits when ctx->thread is parked in exec; ans and clean are    *)
(* the lengths of replies and events_cleanup.                              *)
Request ==
  [live : BOOLEAN, ctx : Ctxs \cup {NoCtx}, how : {"default", "enforce"},
   held : BOOLEAN, open : Nat, pending : Nat, sent : Nat, bad : BOOLEAN,
   ended : BOOLEAN, waits : BOOLEAN, ans : Nat, clean : Nat]

NoRequest ==
  [live |-> FALSE, ctx |-> NoCtx, how |-> "default", held |-> FALSE,
   open |-> 0, pending |-> 0, sent |-> 0, bad |-> FALSE, ended |-> FALSE,
   waits |-> FALSE, ans |-> 0, clean |-> 0]

(* lua: the callback of who, on ctx, runs Lua.  expire: the timeout        *)
(* handler of who runs Lua.  drain: __redisAsyncFree runs the callbacks    *)
(* left on ctx.  back: where lua returns to.  kept: the request retained   *)
(* by its timeout handler.                                                 *)
Loop ==
  [at : {"idle", "lua", "expire", "drain"}, ctx : Ctxs \cup {NoCtx},
   who : Clients \cup {Nobody}, back : {"idle", "drain"},
   kept : Clients \cup {Nobody}]

Idle ==
  [at |-> "idle", ctx |-> NoCtx, who |-> Nobody, back |-> "idle",
   kept |-> Nobody]

Draining(c, k) == [Idle EXCEPT !.at = "drain", !.ctx = c, !.kept = k]

InLua(c, k) ==
  [at |-> "lua", ctx |-> c, who |-> k, back |-> loop.at, kept |-> loop.kept]

(* Where hiredis goes on after a callback on c, which is now x.            *)
After(c, x) ==
  IF "drain" \in {loop.at, loop.back}
  THEN Draining(c, loop.kept)
  ELSE IF x.freeing THEN Draining(c, Nobody) ELSE Idle

Init ==
  /\ conn = [c \in Ctxs |-> NoConn]
  /\ req = [k \in Clients |-> NoRequest]
  /\ loop = Idle
  /\ undefined = FALSE

ScriptRuns == loop.at \in {"idle", "lua", "expire"}

(* hiredis freed the context that the request r still has.                 *)
Stale(r) == r.ctx # NoCtx /\ conn[r.ctx].mem = "dropped"

InactiveOrQuitting == {c \in Ctxs : conn[c].state \in {"inactive", "finalising"}}

Inactive == {c \in Ctxs : conn[c].state = "inactive"}

(* rspamd_lua_redis_prepare_connection with redis_pool_elt::new_connection *)
(* Inactive connections with an error on the socket are destroyed, after   *)
(* the connection that replaces them exists.                               *)
Opened(how, c) ==
  [NoRequest EXCEPT !.live = TRUE, !.ctx = c, !.how = how, !.held = TRUE]

Without(broken) ==
  [c \in Ctxs |-> IF c \in broken THEN Erase(conn[c], FALSE) ELSE conn[c]]

ConnectReuse(k, how, broken, c) ==
  /\ ScriptRuns /\ ~req[k].live
  /\ c \in Inactive \ broken
  /\ conn' = [Without(broken) EXCEPT ![c] = Reuse(conn[c])]
  /\ req' = [req EXCEPT ![k] = Opened(how, c)]
  /\ UNCHANGED loop

ConnectNew(k, how, c, n) ==
  /\ ScriptRuns /\ ~req[k].live
  /\ conn[c].mem = "free"
  /\ conn' = [Without(Inactive) EXCEPT ![c] = NewConn(n)]
  /\ req' = [req EXCEPT ![k] = Opened(how, c)]
  /\ UNCHANGED loop

ConnectFails(k) ==
  /\ ScriptRuns /\ ~req[k].live /\ Inactive # {}
  /\ conn' = Without(Inactive)
  /\ UNCHANGED <<req, loop>>

(* lua_redis_add_cmd.  hiredis takes no command on a context that is being *)
(* disconnected or freed.  It refuses one on a context that it has freed   *)
(* when it still finds the flags of the disconnect there (see UseFreed).   *)
Sent(n) == MapThenSumSet(LAMBDA k : req[k].sent, Clients) < n

Refused(r) == r.ended \/ conn[r.ctx].err \/ conn[r.ctx].freeing \/ Stale(r)

AddCmd(k) ==
  LET r == req[k]
      c == r.ctx
  IN  /\ ScriptRuns /\ r.held /\ ~r.waits
      /\ c # NoCtx
      /\ \/ /\ Refused(r)
            /\ req' = [req EXCEPT ![k].bad = TRUE]
            /\ UNCHANGED conn
         \/ /\ ~Refused(r) /\ r.sent < MaxCmds /\ Sent(MaxSent)
            /\ conn' = [conn EXCEPT ![c].asked[k] = @ + 1]
            /\ req' = [req EXCEPT ![k].open = @ + 1, ![k].pending = @ + 1,
                                  ![k].sent = @ + 1]
      /\ UNCHANGED loop

(* lua_redis_exec                                                          *)
Exec(k) ==
  LET r == req[k]
  IN  /\ ScriptRuns /\ k \in Sync /\ r.held /\ ~r.waits
      /\ \/ /\ r.pending = 0 /\ r.ans > 0
            /\ req' = [req EXCEPT ![k].ans = 0, ![k].clean = @ + r.ans]
         \/ /\ r.pending > 0
            /\ req' = [req EXCEPT ![k].waits = TRUE]
      /\ UNCHANGED <<conn, loop>>

(* lua_redis_dtor: how the connection is given back.  The callbacks that   *)
(* are left find ud->terminated and return.                                *)
Bad(r) == r.pending > 0 \/ r.bad

HowDone(r) == IF Bad(r) THEN "fatal" ELSE r.how

UnusedNotKept(k, r) == ~r.held /\ r.open = 0

Unused(k, r) == ~r.held /\ r.open = 0 /\ loop.kept # k

(* REDIS_RELEASE: r is the request k after a reference of it was dropped;  *)
(* inside: in a callback of its context.  The last reference gives a       *)
(* context back that is still there (see UseFreed).                        *)
Dropped(k, r, inside) ==
  IF Unused(k, r)
  THEN /\ ~Stale(r)
       /\ req' = [req EXCEPT ![k] = NoRequest]
       /\ conn' = IF r.ctx = NoCtx THEN conn
                  ELSE [conn EXCEPT ![r.ctx] =
                          ReleaseConnection(@, HowDone(r), inside)]
  ELSE /\ req' = [req EXCEPT ![k] = r]
       /\ UNCHANGED conn

(* lua_redis_gc                                                            *)
Gc(k) ==
  LET r == req[k]
  IN  /\ ScriptRuns /\ r.held /\ ~r.waits
      /\ Dropped(k, [r EXCEPT !.held = FALSE], FALSE)
      /\ UNCHANGED loop

(* rspamd_session_cleanup: lua_redis_fin for every command left            *)
SessionEnd(k) ==
  LET r == req[k]
  IN  /\ loop.at = "idle" /\ r.live /\ ~r.ended
      /\ Dropped(k, [r EXCEPT !.ended = TRUE, !.open = 0, !.ans = 0,
                              !.clean = 0], FALSE)
      /\ UNCHANGED loop

(***************************************************************************)
(* hiredis: answers, disconnects and the freeing of a context.             *)
(***************************************************************************)

(* hiredis serves the next callback of c: an answer came, or c is freed    *)
(* and the callback gets none.                                             *)
Serves(c) ==
  \/ loop.at = "idle" /\ conn[c].mem = "live" /\ conn[c].connected
  \/ loop.at = "drain" /\ loop.ctx = c

ServesClient(c, k) == Serves(c) /\ conn[c].setup = 0 /\ conn[c].asked[k] > 0

Shifted(c, k) == [conn[c] EXCEPT !.asked[k] = @ - 1]

(* The callbacks of AUTH and SELECT are null, redis_quit_cb does nothing.  *)
SetupAnswer(c) ==
  /\ Serves(c) /\ conn[c].setup > 0
  /\ conn' = [conn EXCEPT ![c].setup = @ - 1]
  /\ UNCHANGED <<req, loop>>

QuitAnswer(c) ==
  /\ Serves(c) /\ conn[c].quit /\ NoCallbacks([conn[c] EXCEPT !.quit = FALSE])
  /\ conn' = [conn EXCEPT ![c].quit = FALSE]
  /\ UNCHANGED <<req, loop>>

(* lua_redis_callback: the script gets the answer or the error             *)
CallbackLua(c, k) ==
  /\ k \notin Sync /\ ServesClient(c, k) /\ req[k].open > 0
  /\ conn' = [conn EXCEPT ![c] = Shifted(c, k)]
  /\ loop' = InLua(c, k)
  /\ UNCHANGED req

(* The rest of lua_redis_callback on c, which is x: the request r of k     *)
(* gives its connection back when that was its last command.               *)
Settle(c, k, x, r) ==
  LET last == r.pending = 1
      s == [r EXCEPT !.pending = @ - 1, !.ctx = IF last THEN NoCtx ELSE @]
      y == IF last /\ r.ctx # NoCtx THEN ReleaseConnection(x, r.how, TRUE) ELSE x
  IN  /\ req' = [req EXCEPT ![k] = IF Unused(k, s) THEN NoRequest ELSE s]
      /\ conn' = [conn EXCEPT ![c] = y]
      /\ loop' = After(c, y)

CallbackEnd(k) ==
  /\ loop.at = "lua" /\ loop.who = k /\ k \notin Sync
  /\ Settle(loop.ctx, k, conn[loop.ctx], [req[k] EXCEPT !.open = @ - 1])

(* The command is finished already: no Lua.                                *)
CallbackFinished(c, k) ==
  /\ k \notin Sync /\ ServesClient(c, k) /\ req[k].pending > req[k].open
  /\ Settle(c, k, Shifted(c, k), req[k])

(* lua_redis_callback_sync.  An error ends the connection; the last answer *)
(* resumes the thread.                                                     *)
CallbackSync(c, k, failed) ==
  LET r == req[k]
      lost == failed /\ r.ctx # NoCtx
      x == IF lost THEN ReleaseConnection(Shifted(c, k), "fatal", TRUE)
                   ELSE Shifted(c, k)
      s == [r EXCEPT !.pending = @ - 1, !.ans = @ + 1,
                     !.ctx = IF lost THEN NoCtx ELSE @]
  IN  /\ k \in Sync /\ ServesClient(c, k) /\ ~r.ended
      /\ loop.at = "drain" => failed
      /\ conn' = [conn EXCEPT ![c] = x]
      /\ IF s.pending = 0 /\ s.waits
         THEN /\ req' = [req EXCEPT ![k] =
                           [s EXCEPT !.waits = FALSE, !.ans = 0,
                                     !.clean = @ + s.ans]]
              /\ loop' = InLua(c, k)
         ELSE /\ req' = [req EXCEPT ![k] = s]
              /\ loop' = After(c, x)

CallbackSyncFinished(c, k) ==
  LET r == req[k]
  IN  /\ k \in Sync /\ ServesClient(c, k) /\ r.ended
      /\ conn' = [conn EXCEPT ![c] = Shifted(c, k)]
      /\ req' = [req EXCEPT ![k].pending = @ - 1,
                            ![k].waits = @ /\ r.pending > 1]
      /\ loop' = After(c, conn[c])

(* lua_redis_cleanup_events, when the thread has yielded again or ended    *)
ResumeEnd(k) ==
  LET c == loop.ctx
      s == [req[k] EXCEPT !.open = @ - req[k].clean, !.clean = 0]
  IN  /\ loop.at = "lua" /\ loop.who = k /\ k \in Sync
      /\ Dropped(k, s, TRUE)
      /\ loop' = After(c, conn'[c])

(* The socket is connected.  A context is watched once it has a command.   *)
Watched(x) == x.mem = "live" /\ (x.connected \/ ~NoCallbacks(x))

Connected(c) ==
  /\ loop.at = "idle" /\ Watched(conn[c]) /\ ~conn[c].connected
  /\ conn' = [conn EXCEPT ![c].connected = TRUE]
  /\ UNCHANGED <<req, loop>>

(* __redisAsyncDisconnect: the connection failed or the server closed it.  *)
Disconnect(c) ==
  /\ loop.at = "idle" /\ Watched(conn[c])
  /\ conn' = [conn EXCEPT ![c].err = TRUE]
  /\ loop' = Draining(c, Nobody)
  /\ UNCHANGED req

(* The end of __redisAsyncFree, and of the timeout handler that called it. *)
DrainEnd ==
  LET c == loop.ctx
      k == loop.kept
  IN  /\ loop.at = "drain" /\ NoCallbacks(conn[c])
      /\ conn' = [conn EXCEPT ![c] = OnDisconnect(@)]
      /\ req' = IF k # Nobody /\ ~req[k].held /\ req[k].open = 0
                THEN [req EXCEPT ![k] = NoRequest]
                ELSE req
      /\ loop' = Idle

(***************************************************************************)
(* Timers.                                                                 *)
(***************************************************************************)

Unanswered(k) == req[k].pending > 0 /\ ~req[k].ended

(* The connection of k is closed by a timeout; its callbacks run next.     *)
Abandon(k, r, kept) ==
  /\ conn' = [conn EXCEPT ![r.ctx] =
                ReleaseConnection([@ EXCEPT !.err = TRUE], "fatal", TRUE)]
  /\ req' = [req EXCEPT ![k] = [r EXCEPT !.ctx = NoCtx]]
  /\ loop' = Draining(r.ctx, kept)

(* lua_redis_timeout                                                       *)
Expire(k) ==
  /\ loop.at = "idle" /\ k \notin Sync /\ Unanswered(k)
  /\ loop' = [Idle EXCEPT !.at = "expire", !.who = k]
  /\ UNCHANGED <<conn, req>>

ExpireEnd(k) ==
  /\ loop.at = "expire" /\ loop.who = k
  /\ Abandon(k, [req[k] EXCEPT !.open = @ - 1], k)

(* lua_redis_timeout_sync                                                  *)
ExpireSyncParked(k) ==
  /\ loop.at = "idle" /\ k \in Sync /\ Unanswered(k) /\ req[k].waits
  /\ Abandon(k, req[k], Nobody)

ExpireSync(k) ==
  /\ loop.at = "idle" /\ k \in Sync /\ Unanswered(k)
  /\ Abandon(k, req[k], Nobody)

(* The timeout of a connection in the pool                                 *)
PoolTimeout(c) ==
  /\ loop.at = "idle" /\ conn[c].timer
  /\ conn' = [conn EXCEPT ![c] = TimeoutCb(@)]
  /\ UNCHANGED <<req, loop>>

(***************************************************************************)
(* A dropped context is used.                                              *)
(***************************************************************************)

(* lua_redis_add_cmd or lua_redis_gc passes it to hiredis or to the pool,  *)
(* or the end of the session drops the last reference of its request.      *)
UseFreed(k) ==
  LET r == req[k]
  IN  /\ Stale(r)
      /\ \/ ScriptRuns /\ r.held /\ ~r.waits
         \/ loop.at = "idle" /\ ~r.ended /\ Unused(k, [r EXCEPT !.open = 0])

(* The address is that of a new context.  register_context keeps the entry *)
(* of the old connection: two clients have what the pool takes for one.    *)
ReissueFreed(k, c) == ScriptRuns /\ ~req[k].live /\ conn[c].mem = "dropped"

Undefined ==
  /\ \E k \in Clients : UseFreed(k) \/ \E c \in Ctxs : ReissueFreed(k, c)
  /\ undefined' = TRUE
  /\ UNCHANGED <<conn, req, loop>>

Script(k) ==
  \/ \E how \in Pooling[k] :
       \/ \E c \in Ctxs, broken \in SUBSET Inactive : ConnectReuse(k, how, broken, c)
       \/ \E c \in Ctxs, n \in Setups : ConnectNew(k, how, c, n)
  \/ ConnectFails(k)
  \/ AddCmd(k) \/ Exec(k) \/ Gc(k)

Callback(c) ==
  \/ SetupAnswer(c) \/ QuitAnswer(c)
  \/ \E k \in Clients :
       \/ CallbackLua(c, k) \/ CallbackFinished(c, k)
       \/ \E failed \in BOOLEAN : CallbackSync(c, k, failed)
       \/ CallbackSyncFinished(c, k)

LuaEnd(k) == CallbackEnd(k) \/ ResumeEnd(k) \/ ExpireEnd(k)

Timeout(k) == Expire(k) \/ ExpireSync(k)

Defined ==
  \/ \E k \in Clients : Script(k) \/ SessionEnd(k) \/ LuaEnd(k) \/ Timeout(k)
  \/ \E c \in Ctxs : Callback(c) \/ Connected(c) \/ Disconnect(c) \/ PoolTimeout(c)
  \/ DrainEnd

Next ==
  \/ ~undefined /\ Defined /\ UNCHANGED undefined
  \/ ~undefined /\ Undefined
  \/ undefined /\ UNCHANGED vars

Spec == Init /\ [][Next]_vars

(* A handler goes on: Lua code returns, and hiredis takes the next         *)
(* callback of the context it frees.                                       *)
Proceed ==
  \/ \E k \in Clients : LuaEnd(k)
  \/ loop.at = "drain" /\ \E c \in Ctxs : Callback(c)
  \/ DrainEnd

(* The loop serves a timer that has expired.                               *)
Fairness ==
  /\ WF_vars(~undefined /\ Proceed /\ UNCHANGED undefined)
  /\ \A k \in Clients : SF_vars(~undefined /\ Timeout(k) /\ UNCHANGED undefined)
  /\ \A c \in Ctxs : SF_vars(~undefined /\ PoolTimeout(c) /\ UNCHANGED undefined)

FairSpec == Spec /\ Fairness

(***************************************************************************)
(* Properties.  They hold until a dropped context is used (FreedUnused).   *)
(***************************************************************************)

TypeOK ==
  /\ conn \in [Ctxs -> Conn]
  /\ req \in [Clients -> Request]
  /\ loop \in Loop
  /\ undefined \in BOOLEAN

(* What redis_on_disconnect relies on when it does "nothing for active     *)
(* connections as it is already handled somewhere": the client of a        *)
(* connection that hiredis frees has given it back, so that no context is  *)
(* used after it was freed.  It does not hold for a client with no command *)
(* on the connection, which no callback tells of the disconnect.           *)
FreedUnused == ~undefined

(* release_connection finds the connection of every context that a client  *)
(* may give back, and its assertion that the connection is active holds:   *)
(* a context is with one client, registered, and not about to be freed.    *)
HeldByOne ==
  \A k \in Clients :
    req[k].ctx # NoCtx =>
      /\ req[k].live
      /\ conn[req[k].ctx].state = "active"
      /\ conn[req[k].ctx].mem # "free" /\ ~conn[req[k].ctx].freeing
      /\ \A l \in Clients : req[l].ctx = req[k].ctx => l = k

(* A connection that new_connection may reuse is connected and has no      *)
(* callback of an earlier client left, and no client still has it.         *)
IdleQuiet ==
  \A c \in Ctxs :
    conn[c].state = "inactive" =>
      /\ conn[c].mem = "live" /\ conn[c].connected /\ ~conn[c].freeing
      /\ NoCallbacks(conn[c])
      /\ \A k \in Clients : req[k].ctx # c

(* A context is with one client, or idle with none, or of no use, as long  *)
(* as malloc gives no dropped context away (ReissueFreed): the pool then   *)
(* takes the contexts of two clients for one.                              *)
OneOwner == HeldByOne /\ IdleQuiet

(* The timeout of the pool never meets an active or a destroyed            *)
(* connection (the assertion of redis_conn_timeout_cb), one that waits or  *)
(* quits always has it, and the list that release_connection erases from   *)
(* is the one that owns the connection.                                    *)
TimerAndList ==
  \A c \in Ctxs :
    /\ conn[c].timer <=> conn[c].state \in {"inactive", "finalising"}
    /\ conn[c].list = ListOf(conn[c].state)

(* hiredis never runs a callback of a request that has been freed: the     *)
(* callbacks left on any context are those of a request that counts them   *)
(* in cmds_pending, and no other request has callbacks there.              *)
NoOrphanCallback ==
  \A c \in Ctxs, k \in Clients :
    conn[c].asked[k] > 0 =>
      /\ req[k].live
      /\ req[k].ctx = c \/ (loop.ctx = c /\ req[k].ctx = NoCtx)
      /\ req[k].pending =
           conn[c].asked[k]
             + IF k \notin Sync /\ loop.at = "lua" /\ loop.who = k THEN 1 ELSE 0
      /\ \A l \in Clients \ {k} : conn[c].asked[l] = 0

(* redis_quit_cb never gets a connection that has been destroyed.          *)
QuitOwned == \A c \in Ctxs : conn[c].quit => conn[c].state = "finalising"

(* Whatever order the timeout, the reuse, the reply to QUIT and the        *)
(* disconnect come in, each finds the connection in the state it expects.  *)
PoolTimers == TimerAndList /\ QuitOwned

(* A context that hiredis freed under a client is one on which nobody      *)
(* waits: an asynchronous request that has sent no command yet, or a       *)
(* synchronous one without a command left and without a parked thread.     *)
DroppedUnused ==
  \A c \in Ctxs :
    conn[c].mem = "dropped" =>
      \E k \in Clients :
        /\ req[k].ctx = c /\ req[k].pending = 0 /\ ~req[k].waits
        /\ k \notin Sync => req[k].sent = 0

(* Every command that holds its session and its request is accounted for:  *)
(* it has a callback to come, or its result is queued for the thread, or   *)
(* was handed to it.  One that exec handed over without waiting is not     *)
(* finished by that: the next resumption or the end of the session does    *)
(* it.  A parked thread waits for a callback to come.                      *)
CommandsCovered ==
  \A k \in Clients :
    /\ k \notin Sync => req[k].open <= req[k].pending
    /\ k \in Sync /\ ~req[k].ended =>
         req[k].open = req[k].pending + req[k].ans + req[k].clean
    /\ req[k].waits => req[k].pending > 0

(* Commands and callbacks stand for each other: no callback without its    *)
(* request, no open command without a callback or a result, and no context *)
(* dropped under a command.                                                *)
CommandsOwned == NoOrphanCallback /\ DroppedUnused /\ CommandsCovered

(* Every command is answered, fails or times out unless its session ends   *)
(* first or a dropped context is used.                                     *)
RequestsEnd ==
  \A k \in Clients : []<>(~Unanswered(k) \/ undefined)

(* No connection stays in the pool unused forever, and none is left half   *)
(* closed by a server that does not answer QUIT, unless a dropped context  *)
(* is used.                                                                *)
PoolDrains ==
  \A c \in Ctxs : []<>(conn[c].state \in {"active", "none"} \/ undefined)

Holder(c) ==
  IF \E k \in Clients : req[k].ctx = c
  THEN CHOOSE k \in Clients : req[k].ctx = c
  ELSE Nobody

Lease == INSTANCE RedisLease WITH
  lent <- [c \in Ctxs |-> Holder(c)],
  idle <- Inactive,
  asked <- [c \in Ctxs |->
              IF Holder(c) = Nobody THEN 0 ELSE conn[c].asked[Holder(c)]],
  failed <- {c \in Ctxs : conn[c].err}

(* The pool lends a connection to one client at a time, what is asked on   *)
(* it is answered to the client that asked, and one that failed or has     *)
(* answers to come is never kept for another client (RedisLease).          *)
LeaseSpec == Lease!Spec
=============================================================================
