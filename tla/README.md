# A TLA+ verification of rspamd's event-driven core

This directory holds TLA+ modules for the parts of rspamd whose correctness
depends on the order in which callbacks, timers, replies, crashes and signals
arrive: the scan of a message, the plan of the symbol cache, the proxy over its
upstreams, the Redis requests of Lua over the connection pool, and the main
process with its workers. TLC checks them on small instances, and TLAPS proves
most of the safety properties, and two refinements, for every instance.
`PROJECT.json` maps each definition to the lines it models.

Paths below are relative to the `src/` directory of the sources.

## 1. The system

A worker is one process with one thread around a libev loop. A request becomes a
*task*; `rspamd_task_process` takes it through its stages (connection filters,
parsing, prefilters, filters, classifiers, composites, postfilters, learning,
idempotent symbols). The stages that run symbols call the *symbol cache*, whose
runtime starts the rules (*items*) stage by stage and level by level. A rule may
make requests (DNS, Redis, HTTP, TCP); each is an *event* of the task's *session*
and holds the counter of its item. When the last event is removed the session's
fin handler resumes the task, and at the end writes the reply.

A proxy worker passes requests on to backends, its *upstreams*, with retries and
mirrors; it selects them from a list that failures, probes, revive timers and DNS
replies change. Redis requests of Lua share connections through a *pool*. The
*main process* forks the workers, checks their heartbeats, replaces them on a
reload and ends after all of them.

Within a process everything is a callback on one thread, and what makes it hard
is not parallelism but nesting and lateness. Removing an event runs its finalizer,
which runs a rule's callback, which finishes an item, which starts its dependents,
whose rules make requests that may fail on the spot and remove events again. A
timer or a DNS reply arrives for an upstream that was drained since; freeing a
Redis context runs callbacks of requests that are being freed themselves; a
respawn timer fires after a reload. Between the main process and its workers
there is parallelism too.

| Part | Sources | Model |
| --- | --- | --- |
| Async session | `libserver/async_session.c` | `AsyncSession` |
| Symbol cache runtime | `libserver/symcache/symcache_runtime.*`, `symcache_c.cxx` | `Symcache` |
| Symbol cache plan | `libserver/symcache/symcache_impl.cxx`, `symcache_item.cxx` | `SymcachePlan` |
| Task stages, timeout, guard | `libserver/task.c` | `TaskScan` |
| Normal worker handlers | `worker.c` | `TaskScan`, `MainProcess` |
| DNS, Lua requests, pre-results | `libserver/dns.c`, `lua/lua_*.c`, `libmime/scan_result.c` | what they do to the scheduler, in `Symcache` and `TaskScan` |
| Upstreams | `libutil/upstream.c` | `UpstreamList` |
| Proxy | `rspamd_proxy.c` | `ProxySession`, promise: `ProxyService` |
| Redis pool | `libserver/redis_pool.cxx` | `RedisPool`, promise: `RedisLease` |
| Redis requests of Lua | `lua/lua_redis.c` | `RedisRequests` |
| Main process, workers, helpers | `rspamd.c`, `libserver/worker_util.c`, `libserver/rspamd_control.c`, `lua/lua_worker.c` | `MainProcess` |
| Statistics, parser | `libstat`, `libmime` | their effect on the stages, in `TaskScan` |
| Maps, fuzzy storage, controller, milter, configuration, parsers, ... | | not modelled, see section 8 |

## 2. The modules

    AsyncSession <- Symcache <- TaskScan <- MCTaskScan               (EXTENDS)
                                   ^------- SchedulerProofs <- TaskScanProofs
    SymcachePlan <- MCSymcachePlan
          ^-------- PlanProofs
    UpstreamList <- ProxySession <- MCProxySession     ProxySession => ProxyService
          ^------ UpstreamProofs
                      ^-- ProxyProofs (with ProxySession)
    RedisPool <- RedisRequests <- MCRedisRequests      RedisRequests => RedisLease
                      ^---------- RedisFacts <- RedisProofs
    MainProcess <- MCMainProcess
          ^------- MainProofs

### The scan: `AsyncSession`, `Symcache`, `TaskScan`

* **The call stack** (`stack`). A loop callback runs to its end, so a step of the
  model executes the frame on top, and frames replace themselves by the calls they
  make. The loop delivers an event only when the stack is empty. So every nesting
  the code can produce is a reachable stack, and the code's *order* of calls is
  kept. `ret` is the value the last frame returned.
* **The session**: `events` is the table of events, `flags` its DESTROYING and
  CLEANUP flags. `RemoveEvent`, `Pending`, `Cleanup` are
  `rspamd_session_remove_event`, `rspamd_session_pending` and
  `rspamd_session_cleanup`. An event is identified by its kind and item, as the
  code identifies it by finalizer and user data.
* **The runtime**: `status`, `async`, `sync`, `bucketPending`, `inflight`, `slow`,
  `curStage`, `curItem`, `force` are the fields of `symcache_runtime` and
  `cache_dynamic_item`. Actions carry the names of the functions:
  `StageBucket`/`StageItem`/`StageBucketEnd` (the loops of `process_stage`),
  `CheckItemDeps...`, `ProcessSymbol...`, `AsyncDecCheck`, `FinalizeItem`,
  `ProcessItemRdeps...`. A function that calls another one in the middle is split
  there, and only there. `Rule...` actions are what the code of a rule may do: make
  a request, make one that fails at once, leak its counter, change the score, set a
  pre-result, enable or disable symbols, apply settings.
* **The task**: `processed` is the bit mask of stages, `processing` the flag against
  reentry, `timer`, `guard` and `conn` the timer, the guard and the life of the
  request. `TaskProcess...` is `rspamd_task_process`, `TaskFin` the fin handler,
  `TaskTimeout`, `GuardClosed`, `BodyHandler`, `ReplyWritten`, `EventCompleted` what
  the loop delivers.

`running`, `ncalls` and `replies` are history variables that no guard reads.
`Symcache` takes the plan as constants (`BItems`, `Bucket`, `Deps`, `Rdeps`, ...):
a running task holds a reference to its order, which never changes. That the
constants are what `symcache::resort` produces is the business of `SymcachePlan`.

Abstracted: an item has at most one outstanding request of each kind; the number of
operations of all rules in a scan is bounded by `MaxOps`, the only bound on the
behaviour of rules. A settings call lists one symbol. Pre-results of the kinds
"least" and "process_all" do not concern the scheduler and are left out. Time is not
counted: a rule of `SlowItems` may or may not take more than 300 ms, a timer may fire
at any moment it is active. The score is only compared with the limit. Virtual
symbols stand for their parents. The handler of a request that could not be read,
and the fin handlers of the proxy and the controller, are left out.

### The plan: `SymcachePlan`

Three depth-first walks (`break_dependency_cycles`, `propagate` of
`compute_exec_plan`, `tsort_visit`), each with its path as state. They follow hash
tables, so the model takes every order. `Validate`, `AddSymbol`, `MaybeResort`,
`CreateRuntime` are what happens afterwards. The soft sort keys of filters (weight,
frequency, time) give any order between equals. The second call of
`compute_exec_plan` in `init` moves nothing and is left out.

### Upstreams and proxy: `UpstreamList`, `ProxySession`, `ProxyService`

A list of upstreams is a value (`list`): the alive sequence with `active_idx`, the
ring of hashed selection, and for each upstream its place (listed, drained, freed),
timer, reference count, pending DNS requests, probe marks, load and tokens. The
functions of `upstream.c` are operators from list to list (`Get`, `GetTokens`, `Ok`,
`Fail`, `ReviveCb`, `DnsCb`, `CreateMember`, `DrainMember`, ...), which the actions
of `ProxySession` apply. What the code decides by clocks and random numbers (error
rates, cooldowns, the rotation by weight or load) is a choice.

`sess` are the sessions of a proxy worker in HTTP mode with their stage, references,
retries, chosen upstream, reserved tokens and mirror; `nconns` and `bySrc` count the
connections. `Accept`, `Request`, `BackendReply`, `BackendError`, `ReplyDone`,
`MirrorDone`, ... are the handlers. Two handlers contain loops and are taken one
iteration at a time with nothing else running meanwhile: `running` names the session
inside `proxy_send_master_message`, `srv` is the SRV reply being applied.

`ProxyService` is what a client may rely on: places within the limits, each request
answered at most once, each place kept until all that was started for it has ended.

Abstracted: one backend; watchers, weights, latencies, slow start and the addresses
of an upstream; milter sessions, self-scan, keepalive backends, the upstreams of
mirrors and mirrors over TLS. `RefBound`, `TokenBound` and `RetryBound` cap the
counters that the code may leak or leave without a limit. A request takes no
reference on its upstream, so a drained member may be freed while a request waits for
it. What such a request does to the freed object is modelled on what the object holds
then: no place in any list, or the member that has got the memory since (section 6).

### Redis: `RedisPool`, `RedisRequests`, `RedisLease`

`conn` are the connections of one element of the pool, each with the hiredis context
it owns: the list it is in, its timer, whether the context is allocated, connected,
failed or marked to be freed, and the callbacks it still has to run. `req` are the
`lua_redis_ctx` objects with their references, pending commands and, for
`connect_sync`, the parked thread. Of the hiredis in `contrib/hiredis/async.c` the
model has what happens to a context: connecting, answers in the order of the commands,
`__redisAsyncDisconnect`, and `redisAsyncFree`, which runs the callbacks that are left
and is deferred when it is called from one. `loop` says which handler is in the middle
of a call to Lua or of freeing a context; Lua code may meanwhile use any request.

hiredis may free a context that the pool and a client still have (`mem = "dropped"`).
Nothing in the code prevents that it is used then (`UseFreed`) or that malloc returns
its address for a new context (`ReissueFreed`): `undefined` becomes true, and the model
says nothing of what follows. All properties of the run `redis` and all theorems are
about the behaviour up to that point; the run `dropped` shows that it is reached.

`RedisLease` is the promise of the pool: a connection is lent to one client at a
time, only that client gets its answers, and a connection with answers to come or an
error is never kept for another client.

Abstracted: one element (elements share nothing), TLS, subscriptions, requests
without a session, the conversion of replies. A script is assumed to send no command
on a request whose connection it gave back. A session that has ended stays ended: the
flag that refuses events is in fact cleared at the end of a cleanup
(`async_session.c:323`), after which only its destruction follows.

### Main process: `MainProcess`

`main`, `wait` and `table` are the main process, its respawn timers and its table of
workers; `proc` are the processes with the signals, connections and notices that are
on their way. Handlers of the main process are atomic (`CldHandler`,
`HeartbeatCheck`, `SrvRead`, `Reload`, `ReloadFails`, `Term`, `FinalTimer`,
`ForkDelayed`); workers interleave freely with them (`Start`, `Hang`, `Resume`,
`Crash`, `Accept`, `ConnDone`, `Signal`, `ShutdownCheck`, `ScriptsDone`, `Exit`,
`SpawnHelper`, ...). A slot stands for one process that a configuration asks for,
`gen` for the configuration a worker was forked from. `MaxGen` and `MaxEvents` bound
the reloads and the crashes, hangs, connections and helpers. Failures of fork, log
reopening and the control socket are left out.

## 3. Properties

Each is stated in words beside its definition. *(p)* marks those that section 5
proves for every instance.

`TaskScan`:
* `TypeOK` *(p)*: types, and that no call on the stack refers outside of the plan.
* `BucketAccounting` *(p)*: `bucket_pending` is exactly the number of items of the
  level that are not done. A wrong count closes a level for ever or fails an assertion.
* `LevelBarrier` *(p)*: on every path an item starts only when the earlier levels of
  its stage are done, or when the session has no events left to finish them.
* `NoSpin` *(p)*, `NoStall` *(p)*: a stage is not repeated without an event;
  something always wakes the task up.
* `OneReply` *(p)*: one reply, of a task that is done.
* `InflightAccounting`: `items_inflight` counts the items that run, and these are the
  started and pending ones, and those whose status a suspended check of dependencies
  has overwritten (`Overtaken`, section 6).
* `DepsBeforeStart`: no item starts before its dependencies, nor when a hard one was
  disabled or skipped, nor while one of them runs, unless that one is overtaken.
* `StoppedNotStarted`: no item starts after the result that stops it, but for an item
  that is started as a dependency, and for one that was chosen before a slow rule
  changed the result (section 6).
* `CurItemAttribution`: requests are accounted to the item that makes them.
* `NoAbort`: no assertion of the scheduler or the session fails.
* `AllRun`: without timeouts and settings every item of the plan is called once.
* `NothingToFinish`: the scheduler's reading of an empty session is right.
* `TimeoutEndsFilters`, `ScanEnds`: the timeout alone takes the task to its last
  stage; every scan ends.

`SymcachePlan`: `DepsFirst` *(p)*, the order puts dependencies first; `RdepsMatch`
*(p)*, the reverse dependencies are those of the dependencies that are left;
`PlanKept` *(p)*, a second sort does not move what a running task holds;
`HoistedByNeed`, an item is hoisted just as far as its dependents need;
`OnlyCyclesBroken`, only edges of cycles are dropped.

`ProxySession`: `TypeOK` *(p)*; `AliveList` *(p)*, `active_idx` names a position of
its upstream, which may be selected, and the ring is fresh; `UpstreamsKept` *(p)*,
timers and DNS callbacks meet an upstream that is in memory, and a dead upstream has a
revival to come; `InflightRetired` *(p)*, no load without a request; `SessionsCounted` *(p)*,
limits and references count the sessions; `ServiceSpec` *(p)*, the refinement;
`SessionEnds`, every session ends.

`RedisRequests`, until a freed context is used: `OneOwner` *(p)*, `PoolTimers` *(p)*, `CommandsOwned` *(p)*: a context
is with one client, or idle and quiet, or of no use; timers and QUIT replies find the
connection they expect; callbacks and commands stand for each other, and hiredis frees
a context only under a client that waits for nothing on it;
`LeaseSpec` *(p)*, the refinement; `RequestsEnd`, `PoolDrains`: every command ends, and
idle connections are closed.

`MainProcess`: `Supervised` *(p)*, main knows of every worker and listens to those it
relies on; `SlotsKept` *(p)*, a slot has one worker or one respawn timer and is lost in
one race only; `ScriptsOnce` *(p)*; `ShutdownEnds`; `HungKilled`; `OldLeaves`, a worker
that is in the table when a reload replaces its configuration leaves.

## 4. Runs

| Run | Instance and bounds | Shows |
| --- | --- | --- |
| `requests` | three prefilters on two levels, three filters, an idempotent symbol, with weak and hard dependencies; DNS and Redis requests, disabling, two slow rules; 4 operations; timeout and disconnect | accounting, barrier, order of dependencies, no abort |
| `shared` | five filters with shared dependencies; Redis and failing requests; two slow rules; no timeout; autolearning | every rule runs once and after its dependencies; every scan ends |
| `settings` | a symbol of every kind and flag, two filters that share dependencies, one of them slow; Redis requests, score, pre-results, whitelisting, enabling, settings; 3 operations | no assertion fails, no rule runs after its stop |
| `leaks` | the plan of `requests`; leaked counters, requests that may never complete; 3 operations; soft reject on timeout, shutdown workaround | no spin, no stall, one reply, the timeout suffices |
| `plan` | five symbols, one of which may be disabled statically, every graph of up to 3 dependencies, every walk order, one late symbol | the plan is right and stays right |
| `proxy` | a numeric and a named upstream, a service with two member objects, two sessions; eight configurations: every rotation, with and without DNS, mirrors, refills and limits | lists, references, tokens, load, limits, refinement, every session ends |
| `redis` | two contexts, an asynchronous and a synchronous request, two commands each and in total | ownership, timers, callbacks, refinement, every command ends, the pool drains |
| `main` | one slot, two pids, one helper, one reload, two events (crash, hang, busy, connection, helper) | supervision, slots, scripts, shutdown, hung and replaced workers leave |
| `toggle` | enabling and disabling | violation of `NoAbort` |
| `nested` | a request that fails inside a DNS callback | violation of `NothingToFinish` |
| `grace` | the instance of `proxy` | violation of `HeldUpstream` |
| `dropped` | the instance of `redis` | violation of `FreedUnused` |

The bounds are chosen for the cases, not the sizes.

* Scan: two items on one level and one on the next are what a barrier needs; a
  dependency across levels, one inside a level and one across stages are the three
  ways an item is started; a dependent whose other dependency is started by the check
  of its own dependencies is what overtakes a check; two requests of one item and two
  items in flight make
  every race between a reply, a return and a finalisation. Four operations allow a
  request, a request of its callback, a disabling and one more.
* Plan: three dependencies give every cycle of length up to three, every chain of
  hoisted items and every dependency with two dependents.
* Proxy: two sessions make one report on an upstream that the other has just failed,
  probed or been given; two member objects for one target let an SRV reply create a
  member while the previous one is still drained.
* Redis: two contexts are what it takes to reuse one while the other is freed; two
  commands let a timeout find another command of the same request.
* Main: two pids let a replaced worker and its successor live together; two events
  make a worker crash or hang while it has a connection or a helper.

`proxy` does not check deadlock: when the bounds on leaked counters are reached and
no request is open, the worker just waits.

### Fairness

* `TimerSpec` (scan): weak fairness of the running code (a callback returns), of the
  request being read, of the task timer and of the reply being written or failing
  (the HTTP connection has its own timeout). A request of a rule need not complete.
  `FairSpec` adds that each request completes, which its own timeout guarantees. The
  peer is never assumed to leave.
* Proxy: a handler goes on; the loop serves each session, however often others are
  served in between (strong, because handlers of other sessions interrupt it: reads,
  writes and backends have timeouts). Nothing is assumed of upstreams and DNS.
* Redis: a handler goes on, and the loop serves expired timers of commands and of the
  pool (strong, as running handlers keep disabling them). The server need not answer.
* Main: the timers and watchers of the main process are served, a worker that does
  not hang serves its signals and its shutdown timer. Nothing is assumed of
  connections, helpers, crashes and reloads.

## 5. Proofs

All theorems hold for every value of the constants that satisfies the named
assumptions of the modules, which ask for no more than the code gives (finite sets,
null values outside of them, a plan whose buckets and positions agree, configured
upstreams that are listed once). Each inductive invariant was model-checked on the
instances above before it was proved.

**The scan** (`SchedulerProofs`, `TaskScanProofs`). `TypeCorrect`, `BucketsCounted`
and `LevelsAreBarriers` rest on `IInv`: the frames on the stack are well-formed, every
bucket is counted, the other variables have their types. `BucketAccounting` alone is
not inductive: that a step changes the counter of the right bucket needs the frame on
top to refer to an item of the plan, which is a fact about every frame below it. The
heart is the lemma on `set_status`: the number of items not done changes by exactly
the number of items whose "done" changes. There is one lemma per action.
`LevelBarrier` then follows from counting: only `ProcessSymbolStart` starts an item,
and a bucket whose counter is zero has no item left to do.

`OneReplySent`, `NeverSpins` and `NeverStalls` rest on `FlowInv`, an invariant of the
flow of control: which call may run on top of which (`StackInv`, with at most one walk
over the events), what a result that is about to be looked at stands for (`Landed`),
that `processing` is set by a call that will clear it, that a scan which has not been
replied to has an event or a call on the stack that will wake it up or reply
(`WakeInv`), that an enabled slow timer has its event and a cleanup will get to it
(`SlowInv`), and that the reply is counted by its stage. `NoStall` is not inductive by
itself: whether the loop may go idle is decided by calls further down the stack.

**The plan** (`PlanProofs`). `DependenciesFirst`, `ReverseDepsMatch` and
`PositionsKept` rest on `PlanIInv`. That `break_dependency_cycles` leaves no cycle is
stated without paths or induction: a set of items is *grounded* when every nonempty
subset of it has an item that depends on no other of the subset. The items the walk
has finished are grounded and closed under what is kept of the dependencies, since a
frame is finished after all that it depends on, except for back edges. While
`propagate` runs, finished items are in place and frames have looked at
dependencies in place; a second run moves nothing because everything is (`Fixed`).
While `tsort_visit` runs, dependencies are deeper than their dependents; the
groundedness excludes that a walk meets its own path. Stages, levels and depths then
give the positions in the order.

**Upstreams and proxy** (`UpstreamProofs`, `ProxyProofs`). `UpstreamProofs` shows for
each function of `upstream.c` that it keeps `ListInv`: positions and indices agree, the
ring is fresh, and for each upstream its references cover the list, the revive timer
and the DNS callbacks, what is dead has a revival, what is probed or alive has
addresses, what is freed has no timer. `ProxyProofs` shows for each handler that it
changes its session in one of two ways (`Kept`, `Closed`) and holds only what the list
has (`Moved`). The invariant `ProxyInv` adds to `ListInv` what the sessions look like
at each stage, that loads are at most the requests that ask, and the SRV reply being
applied. It does not say that an upstream a session reports on is in memory, which is
not so: the functions are shown to keep `ListInv` also for one that is not. `ProxyTypes`, `AliveListConsistent`,
`UpstreamsStay`, `SessionsAccounted` and `InflightAccounted` follow, and
`ProxyImplementsService` maps each step to a step or a stutter of `ProxyService`.

**Redis** (`RedisFacts`, `RedisProofs`). `RedisInv` says which fields of a
connection and of a request go together (`ConnOK`, `ReqOK`), that a context is
registered as active just while one client has it (`Held`), that callbacks are on the
context of their client or on the one it has just given up, as many as the request
counts (`Askers`), and what a handler is in the middle of (`LoopAt`, `Marks`). Its parts
take the state as parameters: a step changes one context and one request, and one lemma
(`StepInv`) says what of them has to be shown. `ConnectionsOwned`,
`TimersFindConnections` and `CommandsAccounted` follow. `LeaseImplemented` shows that
every step is a step of `RedisLease` or a stutter, context by context. No assumption
keeps the system from the use of a freed context; once that has happened the model has
no further steps, so the theorems are statements about everything before.

**Main process** (`MainProofs`). `MainInv` relates the entry and the process of every
worker pid: what is alive is in the table, what is to come of signals and finish
scripts, and that for a worker of the current configuration the entry is enough to
tell, when it is dead, that its slot has to be filled again. `WorkersSupervised`,
`SlotsServedOnce` and `FinishScriptsOnce` follow.

Only model-checked:
* liveness (`ScanEnds`, `TimeoutEndsFilters`, `SessionEnds`, `RequestsEnd`,
  `PoolDrains`, `ShutdownEnds`, `HungKilled`, `OldLeaves`): fairness is out of the
  prover's reach;
* `HoistedByNeed` and `OnlyCyclesBroken`: they speak of the transitive closure of the
  dependencies, a recursive function, about which nothing can be proved without
  induction over data;
* `InflightAccounting`, `DepsBeforeStart`, `StoppedNotStarted`, `CurItemAttribution`,
  `NoAbort`, `AllRun`, `NothingToFinish`: they hold of the plans and rules of their
  runs and not of all, see section 7.

## 6. Disagreements between the code and its comments

Four have a run that shows them:

* **`toggle`**: "item %s has no async events pending, but it is not finalised"
  (`symcache_runtime.cxx:754`), an assertion; "never run an item twice" (line 318). A
  finished item that is disabled and then enabled is run again, and when a rule inside
  of the item's own call does it, the assertion fails.
* **`nested`**: "when the session has no events nothing is going to finish them"
  (`symcache_runtime.cxx:520`); inside the callback of the last DNS event this is
  not so, as the event has left the table before its finalizer runs.
* **`grace`**: "by that point any in-flight selectors will have called
  fail/ok/release" (`upstream.c:965`). The point is the revive time of 60 s, the
  proxy waits for its backend for 120 s (`rspamd_proxy.c:1050`), and a selection takes
  no reference: the request reports on a freed upstream.
* **`dropped`**: "Do nothing for active connections as it is already handled
  somewhere" (`redis_pool.cxx:443`). It is handled by the callbacks of commands; a
  request without one on its connection (just made, or synchronous and between two
  commands) is not told that hiredis frees the context, and uses it. When the
  connection was never established the disconnect callback is not even called.

The others were met while modelling. The models have the behaviour of the code, and
the properties are stated so that they hold with it.

Scan and plan:
* A check of dependencies that was suspended by a call it made goes on with what it
  saw before: it may disable or skip an item that a nested call has started meanwhile
  (`symcache_runtime.cxx:283`, `:892`). The item then runs with the status of a
  disabled one, passes for done, and its dependents start. `Overtaken` is this case.
* `should_skip` is asked when a stage is swept. A dependency is started by
  `check_item_deps` without it (`symcache_runtime.cxx:892`), also after the result that
  stops it; and while a slow rule holds the sweep back, the item the sweep was at has
  passed it. These are the exceptions of `StoppedNotStarted`.
* "Do not run further checks if a pre-filter sets the result" (`lua_task.c:2642`): the
  symbols are suppressed also when the result was refused, because its action is
  disabled (`scan_result.c:204`).
* "Remove empty deps" (`symcache_item.cxx:189`): a dependency on a statically disabled
  symbol is not empty, as `add_dependency` has set its item, and points to the item
  that `init` frees.

Upstreams and proxy:
* A numeric upstream that a probe brings back while its revive timer is pending is
  added to the alive list a second time by the timer. `AliveList` therefore asks of
  numeric upstreams only that `active_idx` is one of their positions.
* `ok` and the draining of a member replace a pending revive timer without releasing
  its reference, which leaks: `UpstreamsKept` bounds references from below only, and
  `RefBound` caps them.
* A failed probe of an inactive upstream leaves `half_open` and the backoff as they
  were: the branch that does it ("If this was a half-open probe, schedule next probe
  with backoff", `upstream.c:1771`) is only reached for an alive one.
* `upstream.h` says that all upstreams are marked alive when all are dead; instead the
  selection probes one that is due.
* The selection for a probe is not counted in `inflight`, but its result is
  subtracted: `InflightRetired` is an inequality.
* The test that keeps the last upstream alive counts SRV placeholders, so the last
  alive upstream may be deactivated.
* `rspamd_upstream_return_tokens` "must be called exactly once for each successful"
  reservation (`upstream.h:468`); a retry after a failed connect drops the reserved
  tokens instead, and so `taken` may leak up to `TokenBound`.
* Deactivation restores tokens that requests in flight return again later; the
  bucket stays within its capacity (`ProxyTypes`).
* With a token bucket a retry excludes the only alive upstream and gets none, while the
  other rotations return it; and an empty alive list is not probed, unlike "Handle empty
  alive list same as other algorithms".
* `proxy_conn_release` is called idempotent; its decrement of `nconns` is not, and
  `SessionsCounted` holds because it is called once.

* A request that has used up its retries is answered with an error by
  `proxy_send_master_message`, and once more by the error handler that called it. The
  second message replaces the first, of which nothing has been sent; the model has one
  answer.
* `proxy_open_mirror_connections` writes to a mirror before it retains the session for
  it (`rspamd_proxy.c:2702`). A plain connection reports errors from the loop, so the
  order does no harm; over TLS the handshake may fail inside the write, and the error
  handler then releases a reference that was not taken. Mirrors over TLS are not
  modelled.

Redis:
* The commands whose answers `exec` returns at once, without waiting, are not finished
  by it (`lua_redis.c:1715`): they hold their session until the thread is resumed the
  next time or the session ends. `CommandsCovered` counts them (`clean`).
* `LUA_REDIS_TERMINATED` is not set by a timeout or by the last callback, so
  that `add_cmd` on an asynchronous request without a connection is not refused.
* `redis_quit_cb` says that its connection may be freed already; it is not
  (`QuitOwned`).
* A synchronous request that is parked when its session ends has no timer any more.

Main process:
* `wanna_die` is documented as "no respawn of processes" (`rspamd.h:323`); a respawn
  timer that is armed already forks also then (`rspamd.c:382`), and a worker with lost
  heartbeats that exits normally is respawned during a shutdown.
* A respawn timer armed before a reload forks a worker of the old configuration
  afterwards, which nobody replaces.
* A worker asked to terminate for lost heartbeats that is heard again before it exits
  counts as having ended normally: its slot stays empty. This is the race that
  `SlotCovered` excepts.
* "Without this, child_dead notifications get lost and the main process hangs"
  (`rspamd.c:1085`): it still happens for helpers of a worker that crashed or was
  replaced, the exception (`Stuck`) of `ShutdownEnds`.
* A reload that fails while a helper is in the table starts a heartbeat timer of the
  helper that was never initialised (`ReloadCrashes`).
* A worker that hangs before its first heartbeat or while it is busy is not detected,
  nor is one that is being replaced: the exceptions of `HungKilled` and `OldLeaves`.

## 7. Limits of the properties that pass

These hold in the runs above and not beyond them; the code does not give more:

* `InflightAccounting` needs that no rule enables an item that was overtaken: it is
  started again and counted twice. It and `NoAbort` need that no rule that is called
  directly (not through Lua) makes a request that fails at once: such an item is
  finalised twice. `NoAbort` also needs rules that do not both disable and enable a
  finished item, the scenario of `toggle`.
* `DepsBeforeStart` needs chains of dependencies of at most `max_recursion` (20)
  items; a longer one is taken for a cycle (`symcache_runtime.cxx:815`).
* `CurItemAttribution` and `NothingToFinish` need that no DNS callback makes a request
  that fails at once, the scenario of `nested`.
* `AllRun` needs rules that neither disable symbols nor set results, and no timeout.

`LevelBarrier` has its exception, no events in the session, built in, as the code
has; that makes it weaker than "a level starts when the previous ones are done".

## 8. Not modelled

Candidates for a next module are the shared cache of a map (one worker publishes, the
others read) and the queue of updates of the fuzzy storage. The rolling history takes
no lock on a row, so two writers of one row are allowed once its counter wraps, and
nothing beyond the bound on the counter is promised. Parsers (MIME, HTML, URL, CSS,
HTTP, milter) and formatters are sequential functions of long strings. The
configuration, the logger and the regexp compiler do files and text. The controller
makes tasks that use the modelled stage machine with another fin handler. Memory pools
and containers have no concurrency. The statistics classifiers are arithmetic on
floating point numbers. Rspamd's plugins are the rules of the model: any sequence of
the modelled operations.
