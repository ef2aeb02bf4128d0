---------------------------- MODULE ProxySession ----------------------------
(***************************************************************************)
(* The sessions of an rspamd_proxy worker in HTTP mode (rspamd_proxy.c),   *)
(* composed with the list of upstreams of their backend: accepting within  *)
(* the connection limits, mirrors, the master request with its retries,    *)
(* the reply, and the reference counts that end a session.                 *)
(*                                                                         *)
(* A worker is one event loop, so a handler runs to its end.  The two      *)
(* handlers with a loop inside are taken one iteration at a time, with     *)
(* nothing else running meanwhile: running names the session whose handler *)
(* is in proxy_send_master_message, srv the SRV reply being applied.       *)
(*                                                                         *)
(* Left out: milter sessions, self-scan, backends with keepalive, the      *)
(* selection of the mirrors' upstreams (of lists of their own), mirrors    *)
(* over TLS, and what the messages say.                                    *)
(***************************************************************************)
EXTENDS UpstreamList

CONSTANTS
  Sessions,      \* session objects
  NoSession,     \* the null session
  Sources,       \* client addresses
  RetryBound,    \* bound on the retries counter when there is no limit
  TokenCost,     \* what a message costs in a token bucket
  Configs        \* configurations

(* The configuration of a worker: the rotation, the upstreams that resolve *)
(* at the start and those that do not, max_connections,                    *)
(* max_connections_per_source, max_retries (0: no limit), the kinds of its *)
(* mirrors, the numbers of DNS requests that a resolution may send (0      *)
(* alone: there is no resolver), and the tokens that a refill may add.     *)
MirrorKinds == {"none", "plain", "follow"}

Config ==
  [rot : Rotations, alive : Seq(Ups), rest : SUBSET Ups, conns : Nat \ {0},
   per_source : Nat \ {0}, retries : Nat, mirrors : SUBSET MirrorKinds,
   dns : SUBSET (0..2), refills : SUBSET Nat]

ASSUME SessionAssumption ==
  /\ IsFiniteSet(Sessions) /\ NoSession \notin Sessions
  /\ RetryBound \in Nat
  /\ TokenCost \in Nat \ {0}
  /\ \A c \in Configs :
       /\ c \in Config
       /\ \A i, j \in 1..Len(c.alive) : c.alive[i] = c.alive[j] => i = j
       /\ \A i \in 1..Len(c.alive) :
            Kind[c.alive[i]] \in {"numeric", "named"} /\ c.alive[i] \notin c.rest
       /\ \A u \in c.rest : Kind[u] \in {"named", "srv"}

VARIABLES
  conf,     \* the configuration
  list,     \* the upstreams of the backend
  sess,     \* the sessions
  nconns,   \* worker->nconns
  bySrc,    \* ctx->conns_per_source
  running,  \* the session inside proxy_send_master_message
  srv       \* the SRV reply inside rspamd_upstream_srv_apply

vars == <<conf, list, sess, nconns, bySrc, running, srv>>

(* reading: the request is awaited.  select: a backend is being chosen.    *)
(* waiting: the master request is out.  reply: the answer is being         *)
(* written.  lingering: the client is gone, a mirror holds the session.    *)
Stages == {"free", "reading", "select", "waiting", "reply", "lingering"}

(* struct rspamd_proxy_session with its master connection; mirror is its   *)
(* open mirror, and whether that has follow_master.                        *)
Session ==
  [stage : Stages, ref : Nat, src : Sources \cup {NoSession}, retries : Nat,
   up : Ups \cup {NoUp}, tokens : Nat, closed : BOOLEAN, mirror : MirrorKinds]

NewSession ==
  [stage |-> "free", ref |-> 0, src |-> NoSession, retries |-> 0, up |-> NoUp,
   tokens |-> 0, closed |-> FALSE, mirror |-> "none"]

Idle == running = NoSession /\ ~srv.on

Open == {s \in Sessions : sess[s].stage # "free"}

Quiet == [on |-> FALSE, parent |-> NoUp, todo |-> {}, seen |-> {}]

(* The sessions that have asked upstream u and wait for its answer.        *)
Asking(u) == {s \in Sessions : sess[s].stage = "waiting" /\ sess[s].up = u}

Init ==
  /\ conf \in Configs
  /\ list = Configured(conf.rot, conf.alive, conf.rest)
  /\ sess = [s \in Sessions |-> NewSession]
  /\ nconns = 0
  /\ bySrc = [a \in Sources |-> 0]
  /\ running = NoSession
  /\ srv = Quiet

-----------------------------------------------------------------------------
(* The end of a session: proxy_session_dtor gives the slots back.          *)
ReleaseSlotsNoSource(s) ==
  /\ nconns' = nconns - 1
  /\ UNCHANGED bySrc

ReleaseSlots(s) ==
  /\ nconns' = nconns - 1
  /\ bySrc' = [bySrc EXCEPT ![sess[s].src] = @ - 1]

(* REF_RELEASE(session) in a handler that leaves it as r; the last one     *)
(* runs the destructor.                                                    *)
UnrefSession(s, r) ==
  IF r.ref = 1
    THEN sess' = [sess EXCEPT ![s] = NewSession] /\ ReleaseSlots(s)
    ELSE /\ sess' = [sess EXCEPT ![s] = [r EXCEPT !.ref = @ - 1]]
         /\ UNCHANGED <<nconns, bySrc>>

(* proxy_backend_close_connection on the master: tokens that are still     *)
(* reserved go back as for a failure.                                      *)
CloseMaster(r) == [r EXCEPT !.up = NoUp, !.tokens = 0, !.closed = TRUE]

CloseList(L, r, add) ==
  IF r.closed \/ r.up = NoUp THEN L ELSE ReturnTokens(L, r.up, r.tokens, FALSE, add)

(* An answer is being written.  The rest of the session reads the upstream *)
(* only to give back tokens, and nothing of the retries.                   *)
Answered(r) ==
  LET owes == r.tokens > 0 /\ ~r.closed
  IN  [r EXCEPT !.stage = "reply", !.retries = 0,
                !.up = IF owes THEN @ ELSE NoUp,
                !.tokens = IF owes THEN @ ELSE 0]

(* proxy_close_follow_master_mirrors.                                      *)
CloseFollowers(r) ==
  IF r.mirror = "follow" THEN [r EXCEPT !.mirror = "none", !.ref = @ - 1] ELSE r

-----------------------------------------------------------------------------
(* proxy_accept_socket, when neither limit refuses the connection.         *)
AcceptOneMore(s, a) ==
  /\ Idle
  /\ sess[s].stage = "free"
  /\ nconns <= conf.conns
  /\ bySrc[a] < conf.per_source
  /\ nconns' = nconns + 1
  /\ bySrc' = [bySrc EXCEPT ![a] = @ + 1]
  /\ sess' = [sess EXCEPT ![s] =
                [NewSession EXCEPT !.stage = "reading", !.ref = 1, !.src = a]]
  /\ UNCHANGED <<conf, list, running, srv>>

Accept(s, a) ==
  /\ Idle
  /\ sess[s].stage = "free"
  /\ nconns < conf.conns
  /\ bySrc[a] < conf.per_source
  /\ nconns' = nconns + 1
  /\ bySrc' = [bySrc EXCEPT ![a] = @ + 1]
  /\ sess' = [sess EXCEPT ![s] =
                [NewSession EXCEPT !.stage = "reading", !.ref = 1, !.src = a]]
  /\ UNCHANGED <<conf, list, running, srv>>

(* proxy_client_error_handler before there is a request.                   *)
ClientError(s) ==
  /\ Idle
  /\ sess[s].stage = "reading"
  /\ UnrefSession(s, sess[s])
  /\ UNCHANGED <<conf, list, running, srv>>

(* proxy_client_finish_handler: a request that cannot be forwarded.        *)
BadRequest(s) ==
  /\ Idle
  /\ sess[s].stage = "reading"
  /\ sess' = [sess EXCEPT ![s].stage = "reply"]
  /\ UNCHANGED <<conf, list, nconns, bySrc, running, srv>>

(* proxy_open_mirror_connections: the request to the mirror is written,    *)
(* then it takes a reference on the session.  The error handler can not    *)
(* run in between: a plain connection only arms its event when a message   *)
(* is written (over TLS the handshake may fail there and then).            *)
OpenMirrors(r, mirror) ==
  [r EXCEPT !.mirror = mirror, !.ref = IF mirror = "none" THEN @ ELSE @ + 1]

(* proxy_client_finish_handler: the mirrors are opened (no mirror, when    *)
(* luck or an error is against it), and the master request is made.        *)
Request(s, mirror) ==
  /\ Idle
  /\ sess[s].stage = "reading"
  /\ mirror \in conf.mirrors
  /\ sess' = [sess EXCEPT ![s] =
                [OpenMirrors(sess[s], mirror) EXCEPT !.stage = "select"]]
  /\ running' = s
  /\ UNCHANGED <<conf, list, nconns, bySrc, srv>>

-----------------------------------------------------------------------------
(* One iteration of the loop of proxy_send_master_message.                 *)

RetriesLeft(r) == conf.retries = 0 \/ r.retries <= conf.retries

(* The upstream that the next attempt avoids.                              *)
Except(r) ==
  IF \/ list.rot = "token_bucket" /\ r.retries > 0
     \/ list.rot # "token_bucket" /\ conf.retries > 1 /\ r.retries = conf.retries
    THEN r.up ELSE NoUp

Selection(r) ==
  IF list.rot = "token_bucket"
    THEN {GetTokens(list, Except(r), TokenCost, add) :
            add \in [Alive(list) -> conf.refills]}
    ELSE Get(list, Except(r))

Reserved == IF list.rot = "token_bucket" THEN TokenCost ELSE 0

(* The label err: an error reply is written, the handler returns.  After a *)
(* failed master request its caller then writes an error once more, over a *)
(* message of which nothing has been sent yet: one answer.                 *)
GiveUp(s, r) ==
  /\ sess' = [sess EXCEPT ![s] = Answered(r)]
  /\ running' = NoSession

TooManyRetries(s) ==
  /\ running = s
  /\ ~RetriesLeft(sess[s])
  /\ GiveUp(s, sess[s])
  /\ UNCHANGED <<conf, list, nconns, bySrc, srv>>

NoUpstream(s) ==
  /\ running = s
  /\ RetriesLeft(sess[s])
  /\ \E c \in Selection(sess[s]) :
       /\ c.up = NoUp
       /\ list' = c.list
  /\ GiveUp(s, [sess[s] EXCEPT !.up = NoUp, !.tokens = 0])
  /\ UNCHANGED <<conf, nconns, bySrc, srv>>

(* The message cannot be sent (too large, or no copy of it): the upstream  *)
(* is released.                                                            *)
CannotSend(s) ==
  /\ running = s
  /\ RetriesLeft(sess[s])
  /\ \E c \in Selection(sess[s]) :
       /\ c.up # NoUp
       /\ sess[s].closed => c.list.up[c.up].taken <= TokenBound
       /\ list' = Release(c.list, c.up)
       /\ GiveUp(s, [sess[s] EXCEPT !.up = c.up, !.tokens = Reserved])
  /\ UNCHANGED <<conf, nconns, bySrc, srv>>

(* connect fails at once: the loop goes on, and the next selection forgets *)
(* the tokens that were reserved.                                          *)
CannotConnect(s) ==
  /\ running = s
  /\ RetriesLeft(sess[s])
  /\ sess[s].retries < RetryBound \/ conf.retries # 0
  /\ \E c \in Selection(sess[s]), v \in Verdicts, n \in conf.dns :
       /\ c.up # NoUp
       /\ c.list.up[c.up].ref + n < RefBound
       /\ c.list.up[c.up].taken <= TokenBound
       /\ list' = Fail(c.list, c.up, v, n)
       /\ sess' = [sess EXCEPT ![s].up = c.up,
                               ![s].tokens = Reserved,
                               ![s].retries = @ + 1]
  /\ UNCHANGED <<conf, nconns, bySrc, running, srv>>

Sent(s) ==
  /\ running = s
  /\ RetriesLeft(sess[s])
  /\ \E c \in Selection(sess[s]) :
       /\ c.up # NoUp
       /\ list' = c.list
       /\ sess' = [sess EXCEPT ![s].stage = "waiting", ![s].up = c.up,
                               ![s].tokens = Reserved, ![s].closed = FALSE]
  /\ running' = NoSession
  /\ UNCHANGED <<conf, nconns, bySrc, srv>>

-----------------------------------------------------------------------------
(* proxy_backend_master_error_handler: an error or a timeout of the master *)
(* request.  The retry runs in the same handler.                           *)
BackendErrorUncounted(s, verdict, n, add) ==
  LET r == [sess[s] EXCEPT !.tokens = 0, !.closed = TRUE]
  IN  /\ Idle
      /\ sess[s].stage = "waiting"
      /\ sess[s].retries < RetryBound \/ conf.retries # 0
      /\ list.up[r.up].ref + n < RefBound
      /\ list' = Fail(ReturnTokens(list, r.up, sess[s].tokens, FALSE, add),
                      r.up, verdict, n)
      /\ IF conf.retries > 0 /\ r.retries >= conf.retries
           THEN /\ sess' = [sess EXCEPT ![s] = Answered(CloseFollowers(r))]
                /\ UNCHANGED running
           ELSE /\ sess' = [sess EXCEPT ![s] = [r EXCEPT !.stage = "select"]]
                /\ running' = s
      /\ UNCHANGED <<conf, nconns, bySrc, srv>>

BackendError(s, verdict, n, add) ==
  LET r == [sess[s] EXCEPT !.retries = @ + 1, !.tokens = 0, !.closed = TRUE]
  IN  /\ Idle
      /\ sess[s].stage = "waiting"
      /\ sess[s].retries < RetryBound \/ conf.retries # 0
      /\ list.up[r.up].ref + n < RefBound
      /\ list' = Fail(ReturnTokens(list, r.up, sess[s].tokens, FALSE, add),
                      r.up, verdict, n)
      /\ IF conf.retries > 0 /\ r.retries >= conf.retries
           THEN /\ sess' = [sess EXCEPT ![s] = Answered(CloseFollowers(r))]
                /\ UNCHANGED running
           ELSE /\ sess' = [sess EXCEPT ![s] = [r EXCEPT !.stage = "select"]]
                /\ running' = s
      /\ UNCHANGED <<conf, nconns, bySrc, srv>>

(* proxy_backend_master_finish_handler.                                    *)
BackendReply(s, add) ==
  LET r == sess[s]
  IN  /\ Idle
      /\ r.stage = "waiting"
      /\ list' = Ok(ReturnTokens(list, r.up, r.tokens, TRUE, add), r.up)
      /\ sess' = [sess EXCEPT ![s] =
                    Answered(CloseFollowers([r EXCEPT !.tokens = 0]))]
      /\ UNCHANGED <<conf, nconns, bySrc, running, srv>>

(* proxy_client_finish_handler once the reply is written, and              *)
(* proxy_client_error_handler when it cannot be.                           *)
ReplyDone(s, add) ==
  /\ Idle
  /\ sess[s].stage = "reply"
  /\ list' = CloseList(list, sess[s], add)
  /\ UnrefSession(s, [CloseMaster(sess[s]) EXCEPT !.stage = "lingering"])
  /\ UNCHANGED <<conf, running, srv>>

(* proxy_backend_mirror_finish_handler and _error_handler.                 *)
MirrorDone(s) ==
  /\ Idle
  /\ sess[s].mirror # "none"
  /\ UnrefSession(s, [sess[s] EXCEPT !.mirror = "none"])
  /\ UNCHANGED <<conf, list, running, srv>>

-----------------------------------------------------------------------------
(* The event loop runs the callbacks of the upstreams.                     *)

(* A selection takes no reference, so the end of the grace period of a     *)
(* drained member frees it also under a request that is still waiting.     *)
(* Such a request reports on what the freed object says, which is no place *)
(* in any list, or on the member that has got the object since.            *)
Revive(u) ==
  /\ Idle
  /\ list.up[u].timer = "revive"
  /\ list' = ReviveCb(list, u)
  /\ UNCHANGED <<conf, sess, nconns, bySrc, running, srv>>

LazyResolve(u, n) ==
  /\ Idle
  /\ list.up[u].timer = "lazy"
  /\ n = 0 \/ list.up[u].ref + n <= RefBound
  /\ list' = LazyResolveCb(list, u, IF Kind[u] = "srv" THEN AtMost(n, 1) ELSE n)
  /\ UNCHANGED <<conf, sess, nconns, bySrc, running, srv>>

DnsReply(u, found) ==
  /\ Idle
  /\ Kind[u] # "srv"
  /\ list.up[u].dns > 0
  /\ list' = DnsCb(list, u, found)
  /\ UNCHANGED <<conf, sess, nconns, bySrc, running, srv>>

(* next_probe_at of a dead upstream is reached.                            *)
ProbeDue(u) ==
  /\ Idle
  /\ u \in Probeable(list, NoUp)
  /\ list.up[u].probe = "later"
  /\ list' = [list EXCEPT !.up[u].probe = "due"]
  /\ UNCHANGED <<conf, sess, nconns, bySrc, running, srv>>

(* rspamd_upstream_dns_srv_cb: an error keeps the members, records are     *)
(* applied one by one, then the members without a record are drained.      *)
FreeMembers == {u \in Ups : Kind[u] = "member" /\ list.up[u].place = "absent"}

Members == {u \in Listed(list) : Kind[u] = "member"}

SrvError(p) ==
  /\ Idle
  /\ Kind[p] = "srv"
  /\ list.up[p].dns > 0
  /\ list' = Unref([list EXCEPT !.up[p].dns = @ - 1], p)
  /\ UNCHANGED <<conf, sess, nconns, bySrc, running, srv>>

SrvReply(p, T) ==
  /\ Idle
  /\ Kind[p] = "srv"
  /\ list.up[p].dns > 0
  /\ Cardinality(T \ {list.up[u].target : u \in Members}) <= Cardinality(FreeMembers)
  /\ srv' = [on |-> TRUE, parent |-> p, todo |-> T, seen |-> T]
  /\ UNCHANGED <<conf, list, sess, nconns, bySrc, running>>

(* rspamd_upstream_srv_apply, for a target that has a member and for one   *)
(* that gets it (in whichever free object).                                *)
SrvKnown(t, u, n) ==
  /\ srv.on
  /\ t \in srv.todo
  /\ u \in Members /\ list.up[u].target = t
  /\ n = 0 \/ list.up[u].ref + n <= RefBound
  /\ list' = Resolve(list, u, n)
  /\ srv' = [srv EXCEPT !.todo = @ \ {t}]
  /\ UNCHANGED <<conf, sess, nconns, bySrc, running>>

SrvNew(t, n) ==
  /\ srv.on
  /\ t \in srv.todo
  /\ \A w \in Members : list.up[w].target # t
  /\ FreeMembers # {}
  /\ list' = CreateMember(list, CHOOSE u \in FreeMembers : TRUE, t, n)
  /\ srv' = [srv EXCEPT !.todo = @ \ {t}]
  /\ UNCHANGED <<conf, sess, nconns, bySrc, running>>

SrvDrain(u) ==
  /\ srv.on
  /\ srv.todo = {}
  /\ u \in Members
  /\ list.up[u].target \notin srv.seen
  /\ list' = DrainMember(list, u)
  /\ UNCHANGED <<conf, sess, nconns, bySrc, running, srv>>

SrvDone ==
  /\ srv.on
  /\ srv.todo = {}
  /\ \A u \in Members : list.up[u].target \in srv.seen
  /\ list' = Unref([list EXCEPT !.up[srv.parent].dns = @ - 1], srv.parent)
  /\ srv' = Quiet
  /\ UNCHANGED <<conf, sess, nconns, bySrc, running>>

-----------------------------------------------------------------------------
Step(s) ==
  \/ TooManyRetries(s) \/ NoUpstream(s) \/ CannotSend(s)
  \/ CannotConnect(s) \/ Sent(s)

SessionEvent(s) ==
  \/ ClientError(s) \/ BadRequest(s)
  \/ \E mirror \in MirrorKinds : Request(s, mirror)
  \/ \E verdict \in Verdicts, n \in conf.dns, add \in conf.refills :
       BackendError(s, verdict, n, add)
  \/ \E add \in conf.refills : BackendReply(s, add)
  \/ \E add \in conf.refills : ReplyDone(s, add)
  \/ MirrorDone(s)

UpstreamEvent ==
  \E u \in Ups :
    \/ Revive(u)
    \/ \E n \in conf.dns : LazyResolve(u, n)
    \/ \E found \in BOOLEAN : DnsReply(u, found)
    \/ ProbeDue(u)
    \/ SrvError(u)
    \/ \E T \in SUBSET Targets : SrvReply(u, T)

SrvStep ==
  \/ \E t \in Targets, n \in conf.dns :
       SrvNew(t, n) \/ \E u \in Ups : SrvKnown(t, u, n)
  \/ \E u \in Ups : SrvDrain(u)
  \/ SrvDone

(* The handler that is running goes on.                                    *)
Continue == SrvStep \/ \E s \in Sessions : Step(s)

Next ==
  \/ \E s \in Sessions, a \in Sources : Accept(s, a)
  \/ \E s \in Sessions : SessionEvent(s)
  \/ UpstreamEvent
  \/ Continue

(* A handler runs to its end, and the loop serves every session (reads,    *)
(* writes and backends have timeouts), however often others are served in  *)
(* between.                                                                *)
Fairness ==
  /\ WF_vars(Continue)
  /\ \A s \in Sessions : SF_vars(SessionEvent(s))

Spec == Init /\ [][Next]_vars

FairSpec == Spec /\ Fairness

-----------------------------------------------------------------------------
(* The values the variables take.                                          *)
TypeOK ==
  /\ conf \in Configs
  /\ list \in List
  /\ sess \in [Sessions -> Session]
  /\ nconns \in Nat
  /\ bySrc \in [Sources -> Nat]
  /\ running \in Sessions \cup {NoSession}
  /\ srv \in [on : BOOLEAN, parent : Ups \cup {NoUp},
              todo : SUBSET Targets, seen : SUBSET Targets]

(* active_idx names a position of the upstream in ls->alive exactly when   *)
(* it has one, through every append, removal and renumbering: what         *)
(* g_ptr_array_remove_index(ls->alive, active_idx) relies on.              *)
AliveIndexed ==
  /\ \A u \in Ups : list.up[u].idx # 0 =>
       /\ list.up[u].idx \in 1..Len(list.alive)
       /\ list.alive[list.up[u].idx] = u
  /\ \A i \in 1..Len(list.alive) : list.up[list.alive[i]].idx # 0

(* An upstream that is resolved by name is at most once in ls->alive, as   *)
(* its only timer is either the revive timer or the lazy one (numeric      *)
(* upstreams may be there twice: a probe revives them under the timer).    *)
NamedOnce ==
  \A i, j \in 1..Len(list.alive) :
    list.alive[i] = list.alive[j] /\ Kind[list.alive[i]] # "numeric" => i = j

(* Only upstreams of the list that have addresses are selectable: no SRV   *)
(* parent, no pending host name, no drained member, nothing freed.         *)
Selectable ==
  \A u \in Alive(list) :
    list.up[u].place = "listed" /\ Kind[u] # "srv" /\ ~list.up[u].pending

(* A dead upstream comes back: its revive timer runs and its probe has a   *)
(* time.                                                                   *)
ReviveArmed ==
  \A u \in Probeable(list, NoUp) :
    list.up[u].timer = "revive" /\ list.up[u].probe # "unset"

(* The reference count covers the list, the revive timer and every DNS     *)
(* callback in flight, so that no callback meets a freed upstream and the  *)
(* assertion of rspamd_upstream_revive_cb (a count above 1) holds.         *)
RefCovers ==
  \A u \in Ups :
    list.up[u].ref >= (IF list.up[u].place = "listed" THEN 1 ELSE 0)
                      + (IF list.up[u].timer = "revive" THEN 1 ELSE 0)
                      + list.up[u].dns

(* A ring that is not marked stale is the ring of the alive upstreams.     *)
RingFresh == ~list.dirty => list.ring = Alive(list)

(* The alive list is what the selection and the removals take it for.      *)
AliveList == AliveIndexed /\ NamedOnce /\ Selectable /\ RingFresh

(* What the library has to come for an upstream (a timer, a DNS callback)  *)
(* meets it in memory, and a dead one always has something to come.        *)
UpstreamsKept == ReviveArmed /\ RefCovers

(* Sessions that will still pass upstream u to the library.                *)
Holders(u) ==
  {s \in Sessions : /\ sess[s].up = u
                    /\ \/ sess[s].stage = "waiting"
                       \/ sess[s].tokens > 0 /\ ~sess[s].closed}

(* What rspamd_upstream_srv_drain_member says of its grace period: by the  *)
(* time that its timer fires, "any in-flight selectors will have called    *)
(* fail/ok/release".  It does not hold: the period is revive_time, a       *)
(* minute, and the proxy waits two minutes for its backend by default.     *)
HeldUpstream ==
  \A u \in Ups : Holders(u) # {} => list.up[u].place # "absent"

(* Requests in flight are never over-counted: an upstream that nobody asks *)
(* has no load in the eyes of the rotations, whatever retries, failures,   *)
(* drains and revivals happened.                                           *)
InflightRetired ==
  Idle => \A u \in Ups : list.up[u].inflight <= Cardinality(Asking(u))

(* The limits count the sessions that exist, in total and by source.       *)
SlotsAccounted ==
  /\ nconns = Cardinality(Open)
  /\ \A a \in Sources :
       bySrc[a] = Cardinality({s \in Open : sess[s].src = a})

(* The references of a session are its client and its open mirror, and a   *)
(* session lingers only for its mirror.                                    *)
SessionRefs ==
  \A s \in Open :
    sess[s].ref = (IF sess[s].stage = "lingering" THEN 0 ELSE 1)
                  + (IF sess[s].mirror = "none" THEN 0 ELSE 1)

(* Slots and references stand for the sessions that exist: a session gives *)
(* its slot back when it is freed, and it is freed by its last user.       *)
SessionsCounted == SlotsAccounted /\ SessionRefs

(* Every session that is accepted ends.                                    *)
SessionEnds ==
  \A s \in Sessions : []<>(sess[s].stage = "free")

(* The sessions implement the service: an answer being written is the      *)
(* client's, a mirror that goes on keeps the place taken, and the counters *)
(* of the worker stand for the places that are taken.                      *)
ClientOf(s) ==
  IF sess[s].stage = "free" THEN "none"
  ELSE IF sess[s].stage = "reply" THEN "answered"
  ELSE IF sess[s].stage = "lingering" THEN "gone"
  ELSE "asking"

Service ==
  INSTANCE ProxyService WITH
    Nobody <- NoSession, limit <- conf.conns, share <- conf.per_source,
    client <- [s \in Sessions |-> ClientOf(s)],
    from <- [s \in Sessions |-> sess[s].src]

ServiceSpec == Service!Spec
=============================================================================
