---------------------------- MODULE UpstreamList ----------------------------
(***************************************************************************)
(* A list of upstreams (libutil/upstream.c): the backends of a service,    *)
(* which of them are alive, and when the others come back.                 *)
(*                                                                         *)
(* The functions of the library run to their end inside callbacks of the   *)
(* event loop, so each is an operator from the state of a list to its next *)
(* state; the modules that use a list (ProxySession) put them together to  *)
(* the handlers.  What the code decides by clocks and random numbers (the  *)
(* error rate, the DNS cooldown, the rotation by weight or load) is a      *)
(* parameter or a set of outcomes.                                         *)
(*                                                                         *)
(* Watchers, the addresses of an upstream, weights, latencies, slow start, *)
(* the order of ls->ups and the nameserver lists (resolved synchronously)  *)
(* are left out.                                                           *)
(***************************************************************************)
EXTENDS Integers, Sequences, FiniteSets

CONSTANTS
  Ups,        \* the upstream objects, SRV members not yet created included
  NoUp,       \* the null upstream
  Kind,       \* [Ups -> Kinds]
  Targets,    \* the host:port pairs of SRV records
  NoTarget,   \* no such pair
  MaxTokens,  \* token_bucket_max
  RefBound,   \* bound on the reference counts, which the code may leak
  TokenBound  \* bound on the tokens in flight, which the code may leak

(* numeric: an IP address, never resolved.  named: a host name.  srv: the  *)
(* placeholder of a service name.  member: a target of a service.          *)
Kinds == {"numeric", "named", "srv", "member"}

ASSUME UpsAssumption ==
  /\ IsFiniteSet(Ups) /\ NoUp \notin Ups
  /\ Kind \in [Ups -> Kinds]
  /\ NoTarget \notin Targets
  /\ MaxTokens \in Nat \ {0}
  /\ RefBound \in Nat /\ TokenBound \in Nat

Rotations == {"round_robin", "p2c", "hashed", "token_bucket"}

(* struct upstream.  place: unlinked objects are absent, those of ls->ups  *)
(* listed, drained members drained.  idx is active_idx + 1.  probe is      *)
(* next_probe_at: 0, in the future, or reached.  errs is errors > 0, fresh *)
(* new_addrs # NULL, half half_open_inflight # 0.                          *)
Upstream ==
  [place : {"absent", "listed", "drained"}, target : Targets \cup {NoTarget},
   pending : BOOLEAN, idx : Nat, timer : {"off", "lazy", "revive"}, ref : Nat,
   half : BOOLEAN, probe : {"unset", "later", "due"}, errs : BOOLEAN,
   inflight : Nat, dns : Nat, fresh : BOOLEAN,
   avail : 0..MaxTokens, taken : Nat]

(* struct upstream_list, the ring as the set of upstreams that own points. *)
List ==
  [rot : Rotations, alive : Seq(Ups), up : [Ups -> Upstream],
   ring : SUBSET Ups, dirty : BOOLEAN]

Absent ==
  [place |-> "absent", target |-> NoTarget, pending |-> FALSE, idx |-> 0,
   timer |-> "off", ref |-> 0, half |-> FALSE, probe |-> "unset",
   errs |-> FALSE, inflight |-> 0, dns |-> 0, fresh |-> FALSE,
   avail |-> 0, taken |-> 0]

Listed(L) == {u \in Ups : L.up[u].place = "listed"}

Drained(L, u) == L.up[u].place = "drained"

Alive(L) == {u \in Ups : \E i \in 1..Len(L.alive) : L.alive[i] = u}

AtMost(n, m) == IF n > m THEN m ELSE n

Less(n, m) == IF n >= m THEN n - m ELSE 0

-----------------------------------------------------------------------------
(* REF_RELEASE and rspamd_upstream_dtor, which stops the timer.            *)
Unref(L, u) ==
  IF L.up[u].ref = 1 THEN [L EXCEPT !.up[u] = Absent]
                     ELSE [L EXCEPT !.up[u].ref = @ - 1]

(* The upstream is added to ls->alive, with a full bucket.  When an alive  *)
(* upstream would be probed is forgotten: it is set again before it is     *)
(* read.                                                                   *)
FullBucket(L, r) ==
  IF L.rot = "token_bucket" THEN [r EXCEPT !.avail = MaxTokens, !.taken = 0] ELSE r

Enlist(L, u) ==
  [L EXCEPT !.alive = Append(@, u),
            !.dirty = TRUE,
            !.up[u] = [FullBucket(L, @) EXCEPT !.idx = Len(L.alive) + 1,
                                               !.probe = "unset"]]

(* The end of rspamd_upstream_set_active: lazy resolving takes the timer   *)
(* of all but the numeric upstreams, whatever it was for.                  *)
ScheduleResolve(L, u) ==
  IF Kind[u] = "numeric" THEN L ELSE [L EXCEPT !.up[u].timer = "lazy"]

(* rspamd_upstream_set_active.                                             *)
SetActive(L, u) ==
  ScheduleResolve(IF Kind[u] = "srv" \/ L.up[u].pending
                    THEN [L EXCEPT !.up[u].idx = 0]
                    ELSE Enlist(L, u),
                  u)

(* rspamd_upstream_resolve_addrs, when it sends n requests: none during    *)
(* the cooldown or when the resolver refuses them, up to two for A and     *)
(* AAAA, one for SRV.                                                      *)
Resolve(L, u, n) ==
  IF Drained(L, u) \/ Kind[u] = "numeric" \/ L.up[u].dns # 0
    THEN L
    ELSE [L EXCEPT !.up[u].dns = n, !.up[u].ref = @ + n]

(* g_ptr_array_remove_index.                                               *)
Without(q, i) == SubSeq(q, 1, i - 1) \o SubSeq(q, i + 1, Len(q))

(* The indices once an element is gone; an upstream that is twice in the   *)
(* list gets the last of its positions.                                    *)
LastAt(q, w) ==
  CHOOSE i \in 1..Len(q) : q[i] = w /\ \A j \in 1..Len(q) : q[j] = w => j <= i

Reindexed(q, w, idx) ==
  IF \E i \in 1..Len(q) : q[i] = w THEN LastAt(q, w) ELSE idx

(* The upstream leaves ls->alive, the tokens in flight go back.            *)
Refunded(L, r) ==
  IF L.rot = "token_bucket"
    THEN [r EXCEPT !.avail = AtMost(@ + r.taken, MaxTokens), !.taken = 0] ELSE r

DelistNoReindex(L, u) ==
  LET out == [L.up EXCEPT ![u] = [Refunded(L, @) EXCEPT !.idx = 0]]
  IN  [L EXCEPT !.alive = Without(@, L.up[u].idx), !.dirty = TRUE, !.up = out]

Delist(L, u) ==
  LET q == Without(L.alive, L.up[u].idx)
      out == [L.up EXCEPT ![u] = [Refunded(L, @) EXCEPT !.idx = 0]]
  IN  [L EXCEPT
         !.alive = q,
         !.dirty = TRUE,
         !.up = [w \in Ups |-> [out[w] EXCEPT !.idx = Reindexed(q, w, @)]]]

(* rspamd_upstream_set_inactive: the revive timer holds a reference.       *)
SetInactiveNoRef(L, u, n) ==
  [Resolve(Delist(L, u), u, n) EXCEPT
     !.up[u].timer = "revive", !.up[u].probe = "later"]

SetInactive(L, u, n) ==
  [Resolve(Delist(L, u), u, n) EXCEPT
     !.up[u].ref = @ + 1, !.up[u].timer = "revive", !.up[u].probe = "later"]

-----------------------------------------------------------------------------
(* rspamd_upstream_promote_pending: the first addresses of an upstream.    *)
Promote(L, u) ==
  IF L.up[u].place = "listed" /\ L.up[u].pending
    THEN Enlist([L EXCEPT !.up[u].pending = FALSE], u)
    ELSE L

(* rspamd_upstream_update_addrs.                                           *)
UpdateAddrs(L, u) ==
  LET done == [L EXCEPT !.up[u].fresh = FALSE]
  IN  IF L.up[u].fresh /\ ~Drained(L, u) THEN Promote(done, u) ELSE done

(* rspamd_upstream_dns_cb; found says that the reply has addresses.        *)
DnsCb(L, u, found) ==
  LET got == [L EXCEPT !.up[u].dns = @ - 1, !.up[u].fresh = @ \/ found]
  IN  Unref(IF Drained(L, u) THEN [L EXCEPT !.up[u].dns = @ - 1]
            ELSE IF got.up[u].dns = 0 THEN UpdateAddrs(got, u) ELSE got, u)

(* rspamd_upstream_revive_cb: of a drained member the end of its grace.    *)
ReviveCb(L, u) ==
  LET off == [L EXCEPT !.up[u].timer = "off"]
  IN  Unref(IF Drained(L, u) THEN off ELSE SetActive(off, u), u)

(* rspamd_upstream_lazy_resolve_cb, which arms the timer again.            *)
LazyResolveCb(L, u, n) == Resolve(L, u, n)

-----------------------------------------------------------------------------
(* rspamd_upstream_srv_create_member: the member waits for its addresses.  *)
CreateMember(L, u, t, n) ==
  Resolve(SetActive([L EXCEPT
            !.up[u] = [Absent EXCEPT !.place = "listed", !.target = t,
                                     !.pending = TRUE, !.ref = 1]],
                    u), u, n)

(* rspamd_upstream_srv_drain_member: out of every list, and kept for the   *)
(* grace period by a timer that takes over the creation reference.         *)
DrainMember(L, u) ==
  LET out == IF L.up[u].idx # 0 THEN Delist(L, u) ELSE L
  IN  [out EXCEPT
         !.up[u] = [@ EXCEPT !.place = "drained", !.target = NoTarget,
                             !.half = FALSE, !.probe = "unset",
                             !.timer = "revive"]]

-----------------------------------------------------------------------------
(* rspamd_upstream_ring_build, when the ring is stale or missing.          *)
Ring(L) ==
  IF L.dirty \/ L.ring = {}
    THEN [L EXCEPT !.ring = Alive(L), !.dirty = FALSE]
    ELSE L

(* The selection of rspamd_upstream_get_common counts the request.         *)
Take(L, u) == [up |-> u, list |-> [L EXCEPT !.up[u].inflight = @ + 1]]

NoneOf(L) == [up |-> NoUp, list |-> L]

(* Nothing is alive: one probe of an upstream whose time has come.  The    *)
(* probe is not counted in inflight.  That a dead upstream without a probe *)
(* time gets one here is left out: every one has it (ReviveArmed).         *)
Probeable(L, except) ==
  {u \in Listed(L) : /\ L.up[u].idx = 0 /\ u # except
                     /\ Kind[u] # "srv" /\ ~L.up[u].pending}

Probe(L, except) ==
  LET ready == {u \in Probeable(L, except) : L.up[u].probe = "due" /\ ~L.up[u].half}
  IN  IF ready = {} THEN {NoneOf(L)}
      ELSE {[up |-> u, list |-> [L EXCEPT !.up[u].half = TRUE]] : u \in ready}

(* The rotations.  Round robin finds nothing when the excluded upstream is *)
(* the only one that has a weight.  Two choices compare two positions, and *)
(* return the second of them when the first is excluded.                   *)
Rotate(L, except) ==
  LET pairs == {u \in Ups :
                  \E i, j \in 1..Len(L.alive) :
                    /\ i # j /\ L.alive[i] = u
                    /\ u # except \/ L.alive[j] = except}
      R == Ring(L)
  IN  IF L.rot = "hashed"
        THEN IF R.ring \subseteq {except} THEN {NoneOf(R)}
             ELSE {Take(R, u) : u \in R.ring \ {except}}
      ELSE IF L.rot = "round_robin"
        THEN {Take(L, u) : u \in Alive(L) \ {except}}
               \cup IF except # NoUp THEN {NoneOf(L)} ELSE {}
      ELSE {Take(L, u) : u \in pairs}

(* rspamd_upstream_get_common.  A single alive upstream is taken even when *)
(* it is the excluded one.                                                 *)
Get(L, except) ==
  IF Len(L.alive) = 0 THEN Probe(L, except)
  ELSE IF Len(L.alive) = 1 THEN {Take(L, L.alive[1])}
  ELSE Rotate(L, except)

(* rspamd_upstream_refill_tokens: n tokens and what time has added.  The   *)
(* buckets are full from the start, as rspamd_upstream_ensure_tokens fills *)
(* them before their first use.                                            *)
RefilledNoCap(n, add) == n + add

Refilled(n, add) == AtMost(n + add, MaxTokens)

(* rspamd_upstream_get_token_bucket: the alive upstream with the fewest    *)
(* tokens in flight, those that can pay first.  Nothing is probed, and a   *)
(* single upstream that is excluded is not taken.                          *)
GetTokens(L, except, cost, add) ==
  LET some == {i \in 1..Len(L.alive) : L.alive[i] # except}
      load(i) == L.up[L.alive[i]].taken
      rich == {i \in some :
                 Refilled(L.up[L.alive[i]].avail, add[L.alive[i]]) >= cost}
      best == IF rich = {} THEN some ELSE rich
      pick == L.alive[CHOOSE i \in best : \A j \in best :
                        load(i) < load(j) \/ (load(i) = load(j) /\ i <= j)]
      filled == [u \in Alive(L) \ {except} |-> Refilled(L.up[u].avail, add[u])]
  IN  IF some = {} THEN NoneOf(L)
      ELSE [up |-> pick,
            list |-> [L EXCEPT !.up = [u \in Ups |->
              IF u = pick
                THEN [L.up[u] EXCEPT !.avail = Less(filled[u], cost),
                                     !.taken = @ + cost, !.inflight = @ + 1]
              ELSE IF u \in DOMAIN filled
                THEN [L.up[u] EXCEPT !.avail = filled[u]]
              ELSE L.up[u]]]]

(* rspamd_upstream_return_tokens.                                          *)
ReturnTokens(L, u, tokens, success, add) ==
  LET more == IF L.up[u].place = "listed" THEN add ELSE 0
      back == IF success THEN AtMost(L.up[u].avail + tokens, MaxTokens)
                         ELSE L.up[u].avail
  IN  IF tokens = 0 THEN L
      ELSE [L EXCEPT !.up[u].taken = Less(@, tokens),
                     !.up[u].avail = Refilled(back, more)]

-----------------------------------------------------------------------------
(* rspamd_upstream_release, and the first lines of ok and fail.            *)
Release(L, u) == [L EXCEPT !.up[u].inflight = Less(@, 1)]

(* What the clock and the error count make of a failure that is not the    *)
(* first: it is counted, or the error rate is exceeded (and, for the last  *)
(* upstream of a list, for longer than the revive time or not).            *)
Verdicts == {"counted", "exceeded", "long_exceeded"}

(* The error accounting of rspamd_upstream_fail.                           *)
CountFailure(L, u, verdict, n) ==
  IF ~L.up[u].errs
    THEN Resolve([L EXCEPT !.up[u].errs = TRUE], u, n)
    ELSE IF verdict = "counted" THEN L
    ELSE IF Cardinality(Listed(L)) > 1
      THEN [SetInactive(L, u, n) EXCEPT !.up[u].errs = FALSE]
    ELSE IF verdict = "long_exceeded"
      THEN Resolve([L EXCEPT !.up[u].errs = FALSE], u, n)
    ELSE L

(* rspamd_upstream_fail.                                                   *)
FailAliveOnly(L, u, verdict, n) ==
  LET C == CountFailure(Release(L, u), u, verdict, n)
  IN  IF L.up[u].idx = 0 \/ L.up[u].place # "listed" THEN L
      ELSE [C EXCEPT !.up[u].half = FALSE]

Fail(L, u, verdict, n) ==
  LET R == Release(L, u)
      C == CountFailure(R, u, verdict, n)
  IN  IF L.up[u].idx = 0 \/ L.up[u].place # "listed" THEN R
      ELSE [C EXCEPT !.up[u].half = FALSE]

(* rspamd_upstream_ok: a probe that succeeds revives its upstream.         *)
Ok(L, u) ==
  LET R == Release(L, u)
      probed == [R EXCEPT !.up[u].half = FALSE]
      P == IF ~R.up[u].half \/ Drained(R, u) THEN R
           ELSE IF R.up[u].idx = 0 THEN SetActive(probed, u)
           ELSE probed
  IN  IF P.up[u].idx # 0 THEN [P EXCEPT !.up[u].errs = FALSE] ELSE P

-----------------------------------------------------------------------------
(* A list as the configuration leaves it, once the worker has started its  *)
(* resolver: the upstreams q are alive, the unresolved host names and the  *)
(* SRV parents of rest are not, and lazy resolving is scheduled for all    *)
(* but the numeric ones.                                                   *)
Configured(rot, q, rest) ==
  LET at(u) == {i \in 1..Len(q) : q[i] = u}
  IN  [rot |-> rot, alive |-> q, ring |-> {}, dirty |-> TRUE,
       up |-> [u \in Ups |->
         IF u \in rest \/ at(u) # {}
           THEN [Absent EXCEPT
                   !.place = "listed", !.ref = 1,
                   !.pending = u \in rest /\ Kind[u] # "srv",
                   !.idx = IF at(u) = {} THEN 0 ELSE CHOOSE i \in at(u) : TRUE,
                   !.timer = IF Kind[u] = "numeric" THEN "off" ELSE "lazy",
                   !.avail = IF rot = "token_bucket" THEN MaxTokens ELSE 0]
           ELSE Absent]]
=============================================================================
