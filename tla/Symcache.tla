------------------------------ MODULE Symcache ------------------------------
(***************************************************************************)
(* The scheduler of the symbol cache (libserver/symcache/                  *)
(* symcache_runtime.{cxx,hxx} and its C interface): stages, levels         *)
(* ("buckets"), dependencies and the asynchronous accounting of the rules. *)
(*                                                                         *)
(* The plan is constant while a task runs, as the runtime holds a          *)
(* reference to its order_generation.  It is the result of                 *)
(* symcache::resort, modelled in SymcachePlan.                             *)
(***************************************************************************)
EXTENDS AsyncSession, FiniteSetsExt

CONSTANTS
  NBuckets,     \* number of (stage, level) buckets of the order
  BStage,       \* [1..NBuckets -> Stages]: exec_bucket::stage
  BItems,       \* [1..NBuckets -> Seq(Items)]: the items in execution order
  Bucket,       \* [Items -> 0..NBuckets]: item_bucket, 0 for no_bucket
  Type,         \* [Items -> Types]: the declared type
  Flags,        \* [Items -> SUBSET FlagSet]
  Deps,         \* [Items -> Seq([item : Items, hard : BOOLEAN])]
  Rdeps,        \* [Items -> Seq(Items)]
  RuleKind,     \* [Items -> {"lua", "direct"}]: see process_symbol
  Conditional,  \* items whose is_allowed or conditions may refuse the task
  SlowItems,    \* items that may run for more than 300 ms
  RuleOps,      \* what the rules' code may do
  MaxOps,       \* bound on the operations of all rules in one scan
  MaxRecursion  \* max_recursion of check_item_deps

(* exec_stage; NoStage is exec_stage::none.                                *)
Stages == 0..4
NoStage == 5

Types == {"CONNFILTER", "PREFILTER", "FILTER", "POSTFILTER", "IDEMPOTENT",
          "COMPOSITE", "CLASSIFIER"}

FlagSet == {"FINE", "IGNORE_PASSTHROUGH", "EXPLICIT_DISABLE",
            "EXPLICIT_ENABLE"}

Operations == {"dns", "redis", "sync", "leak", "score", "pass",
               "skip", "enable", "disable", "only"}

Dependency == [item : Items, hard : BOOLEAN]

ASSUME PlanAssumption ==
  /\ NBuckets \in Nat
  /\ BStage \in [1..NBuckets -> Stages]
  /\ \A b, c \in 1..NBuckets : b < c => BStage[b] <= BStage[c]
  /\ Bucket \in [Items -> 0..NBuckets]
  /\ BItems \in [1..NBuckets -> Seq(Items)]
  /\ \A b \in 1..NBuckets, i \in Items :
       Bucket[i] = b <=> \E k \in 1..Len(BItems[b]) : BItems[b][k] = i
  /\ Type \in [Items -> Types]
  /\ Flags \in [Items -> SUBSET FlagSet]
  /\ Deps \in [Items -> Seq(Dependency)]
  /\ Rdeps \in [Items -> Seq(Items)]
  /\ RuleKind \in [Items -> {"lua", "direct"}]

ASSUME BoundsAssumption ==
  /\ Conditional \subseteq Items
  /\ SlowItems \subseteq Items
  /\ RuleOps \subseteq Operations
  /\ MaxOps \in Nat
  /\ MaxRecursion \in Nat

VARIABLES
  status,         \* dynamic_items[i].status
  async,          \* dynamic_items[i].async_events
  sync,           \* the items with cache_item::bit_sync
  bucketPending,  \* bucket_pending
  inflight,       \* items_inflight
  slow,           \* slow_status
  curStage,       \* cur_stage
  curItem,        \* cur_item
  force,          \* force_enabled_ids
  verdict,        \* what check_process_status reports
  skip,           \* RSPAMD_TASK_FLAG_SKIP
  budget,         \* operations left to the rules, from MaxOps
  running,        \* history: items called and not finalised yet
  ncalls          \* history: how often each item has been called

statusVars == <<status, bucketPending>>
asyncVars == <<async, sync>>
callVars == <<inflight, running, ncalls>>
taskVars == <<force, verdict, skip, budget>>
runtimeVars == <<statusVars, asyncVars, callVars, slow, curStage, curItem>>

-----------------------------------------------------------------------------
(* Statuses.                                                               *)

Statuses == {"not_started", "started", "pending", "finished", "disabled",
             "suppressed", "skipped"}

DoneStatuses == {"finished", "disabled", "suppressed", "skipped"}

Done(i) == status[i] \in DoneStatuses

NotStarted(i) == status[i] = "not_started"

(* set_status for every item of S: the counter of a bucket follows the     *)
(* items that become done or stop being done.                              *)
ChangedAlways(S, s, b) == {i \in S : Bucket[i] = b}

Changed(S, s, b) ==
  {i \in S : Bucket[i] = b /\ Done(i) # (s \in DoneStatuses)}

SetStatus(S, s) ==
  /\ status' = [i \in Items |-> IF i \in S THEN s ELSE status[i]]
  /\ bucketPending' =
       [b \in 1..NBuckets |->
          IF s \in DoneStatuses
            THEN bucketPending[b] - Cardinality(Changed(S, s, b))
            ELSE bucketPending[b] + Cardinality(Changed(S, s, b))]

(* cache_item::get_stage.                                                  *)
StageOf(i) == IF Bucket[i] = 0 THEN NoStage ELSE BStage[Bucket[i]]

StageBuckets(st) == {b \in 1..NBuckets : BStage[b] = st}

FirstBucket(st) == Min(StageBuckets(st))

(* should_skip.                                                            *)
ShouldSkipAll(i) == verdict = "passthrough" /\ Type[i] = "PREFILTER"

ShouldSkip(i) ==
  /\ verdict # "allow"
  /\ Type[i] # "IDEMPOTENT"
  /\ "IGNORE_PASSTHROUGH" \notin Flags[i]
  /\ IF Type[i] = "FILTER" THEN "FINE" \notin Flags[i]
                           ELSE verdict = "passthrough"

(* is_bucket_open: the earlier levels of the stage are drained, or nothing *)
(* is going to drain them.                                                 *)
IsBucketOpenAnyTime(b) == TRUE

IsBucketOpen(b) ==
  \/ \A c \in StageBuckets(BStage[b]) : c < b => bucketPending[c] = 0
  \/ ~HasEvents

MayStart(i) == StageOf(i) = curStage /\ Bucket[i] # 0 /\ IsBucketOpen(Bucket[i])

-----------------------------------------------------------------------------
(* sweep_earlier_stages: what did not start in the stages before st.       *)
SweptOwn(st) ==
  {i \in Items : NotStarted(i) /\ StageOf(i) <= st /\ bucketPending[Bucket[i]] > 0}

Swept(st) ==
  {i \in Items : NotStarted(i) /\ StageOf(i) < st /\ bucketPending[Bucket[i]] > 0}

(* process_symbols; Top.k is the execution stage of the task stage.        *)
ProcessSymbols ==
  /\ TopIs("process_symbols")
  /\ \/ /\ skip
        /\ Return(TRUE)
        /\ UNCHANGED <<statusVars, curStage>>
     \/ /\ ~skip
        /\ IF Top.k # curStage
             THEN SetStatus(Swept(Top.k), "skipped")
             ELSE UNCHANGED statusVars
        /\ curStage' = Top.k
        /\ IF StageBuckets(Top.k) = {}
             THEN Return(TRUE)
             ELSE Become(<<[Call("bucket") EXCEPT !.b = FirstBucket(Top.k)]>>)
  /\ UNCHANGED <<sessionVars, asyncVars, callVars, slow, curItem, taskVars>>

(* process_stage, its end: the items left wait for dependencies that       *)
(* nothing is going to finish.                                             *)
NothingComesNever(all_done) == FALSE

NothingComes(all_done) == ~all_done /\ ~HasEvents

(* process_stage, the loop over the buckets; Top.ok is all_done.           *)
StageBucket ==
  /\ TopIs("bucket")
  /\ \/ /\ Top.b \in StageBuckets(curStage)
        /\ IF Top.b > FirstBucket(curStage) /\ ~IsBucketOpen(Top.b)
             THEN Return(FALSE)
             ELSE Become(<<[Top EXCEPT !.op = "stage", !.k = 1]>>)
        /\ UNCHANGED statusVars
     \/ /\ Top.b \notin StageBuckets(curStage)
        /\ IF NothingComes(Top.ok)
             THEN /\ SetStatus({i \in Items : NotStarted(i) /\ StageOf(i) = curStage},
                               "skipped")
                  /\ Return(TRUE)
             ELSE Return(Top.ok) /\ UNCHANGED statusVars
  /\ UNCHANGED <<sessionVars, asyncVars, callVars, slow, curStage, curItem, taskVars>>

(* process_stage, one item of a bucket.                                    *)
StageItem ==
  /\ TopIs("stage")
  /\ Top.k <= Len(BItems[Top.b])
  /\ LET i == BItems[Top.b][Top.k]
         next == [Top EXCEPT !.k = @ + 1]
     IN  \/ skip /\ Return(TRUE) /\ UNCHANGED statusVars
         \/ ~skip /\ ~NotStarted(i) /\ Become(<<next>>) /\ UNCHANGED statusVars
         \/ /\ ~skip /\ NotStarted(i) /\ ShouldSkip(i)
            /\ SetStatus({i}, "skipped")
            /\ Become(<<next>>)
         \/ /\ ~skip /\ NotStarted(i) /\ ~ShouldSkip(i)
            /\ IF slow = "enabled"
                 THEN Return(FALSE)
                 ELSE Become(<<[CallOn("deps", i) EXCEPT !.k = 1],
                               [Top EXCEPT !.op = "stage_deps", !.item = i]>>)
            /\ UNCHANGED statusVars
  /\ UNCHANGED <<sessionVars, asyncVars, callVars, slow, curStage, curItem, taskVars>>

(* process_stage, what follows check_item_deps for the item.               *)
StageItemDeps ==
  /\ TopIs("stage_deps")
  /\ LET next == [Top EXCEPT !.op = "stage", !.k = @ + 1, !.item = NoItem]
     IN  IF ret THEN Become(<<CallOn("symbol", Top.item), next>>)
                ELSE Become(<<[next EXCEPT !.ok = FALSE]>>)
  /\ UNCHANGED <<sessionVars, runtimeVars, taskVars>>

(* process_stage, the end of a bucket.                                     *)
StageBucketEnd ==
  /\ TopIs("stage")
  /\ Top.k > Len(BItems[Top.b])
  /\ IF bucketPending[Top.b] > 0 /\ HasEvents
       THEN Return(FALSE)
       ELSE Become(<<[Top EXCEPT !.op = "bucket", !.b = @ + 1]>>)
  /\ UNCHANGED <<sessionVars, runtimeVars, taskVars>>

-----------------------------------------------------------------------------
(* check_item_deps.  Top.item is the item, Top.k the dependency under      *)
(* check, Top.b the recursion level and Top.ok the value of ret so far,    *)
(* TRUE for a frame that is too deep to check anything.                    *)

Cascades(d) == d.hard /\ status[d.item] \in {"disabled", "skipped"}

TopDep == Deps[Top.item][Top.k]

NextDepAlways(v) == [Top EXCEPT !.op = "deps", !.k = @ + 1]

NextDep(v) == [Top EXCEPT !.op = "deps", !.k = @ + 1, !.ok = @ /\ v]

CheckItemDeps ==
  /\ TopIs("deps")
  /\ \/ /\ Top.b > MaxRecursion \/ Top.k > Len(Deps[Top.item])
        /\ Return(Top.ok)
        /\ UNCHANGED statusVars
     \/ /\ Top.b <= MaxRecursion /\ Top.k <= Len(Deps[Top.item])
        /\ LET d == TopDep.item
               passed == NotStarted(d) /\ StageOf(d) < curStage
           IN  \/ passed /\ SetStatus({d}, "skipped") /\ UNCHANGED loopVars
               \/ /\ ~passed /\ Cascades(TopDep)
                  /\ SetStatus({Top.item}, status[d])
                  /\ Return(TRUE)
               \/ /\ ~passed /\ ~Cascades(TopDep)
                  /\ \/ Done(d) /\ Become(<<NextDep(TRUE)>>)
                     \/ /\ NotStarted(d)
                        /\ Become(<<[CallOn("deps", d) EXCEPT !.k = 1, !.b = Top.b + 1],
                                    [Top EXCEPT !.op = "deps_rec"]>>)
                     \/ /\ status[d] \in {"started", "pending"}
                        /\ IF async[d] = 0 THEN Abort
                                           ELSE Become(<<NextDep(FALSE)>>)
                  /\ UNCHANGED statusVars
  /\ UNCHANGED <<sessionVars, asyncVars, callVars, slow, curStage, curItem, taskVars>>

(* What follows the recursive check of a dependency that is not started.   *)
CheckItemDepsRec ==
  /\ TopIs("deps_rec")
  /\ LET d == TopDep.item
     IN  \/ ~ret /\ Become(<<NextDep(FALSE)>>) /\ UNCHANGED statusVars
         \/ /\ ret /\ Cascades(TopDep)
            /\ SetStatus({Top.item}, status[d])
            /\ Return(TRUE)
         \/ /\ ret /\ ~Cascades(TopDep)
            /\ IF Done(d)
                 THEN Become(<<NextDep(TRUE)>>)
                 ELSE Become(<<CallOn("symbol", d), [Top EXCEPT !.op = "deps_symbol"]>>)
            /\ UNCHANGED statusVars
  /\ UNCHANGED <<sessionVars, asyncVars, callVars, slow, curStage, curItem, taskVars>>

CheckItemDepsSymbol ==
  /\ TopIs("deps_symbol")
  /\ Become(<<NextDep(ret)>>)
  /\ UNCHANGED <<sessionVars, runtimeVars, taskVars>>

-----------------------------------------------------------------------------
(* process_symbol.  A Lua rule is called through a wrapper that holds the  *)
(* item's counter while the rule's code runs; a C rule without             *)
(* asynchronous work finalises its item itself.                            *)

(* is_allowed: a symbol to be enabled explicitly needs force_enabled_ids.  *)
(* What else refuses a symbol (the other settings of the task, conditions) *)
(* is data the properties do not tell apart: see Conditional.              *)
Unlocked(i) == "EXPLICIT_ENABLE" \in Flags[i] => i \in force

(* An item in flight or done is not started again.                         *)
Startable(i) == NotStarted(i)

(* The wrapper of a Lua rule takes the counter before the rule runs.       *)
WrapperHoldNone(i) == 0

WrapperHold(i) == IF RuleKind[i] = "lua" THEN 1 ELSE 0

ProcessSymbolRefused ==
  /\ TopIs("symbol")
  /\ LET i == Top.item
     IN  \/ Bucket[i] = 0 /\ Return(TRUE)
         \/ Bucket[i] # 0 /\ Blocked /\ Return(TRUE)
         \/ Bucket[i] # 0 /\ ~Blocked /\ ~Startable(i) /\ Return(Done(i))
         \/ /\ Bucket[i] # 0 /\ ~Blocked /\ Startable(i) /\ ~MayStart(i)
            /\ Return(FALSE)
  /\ UNCHANGED <<sessionVars, runtimeVars, taskVars>>

ProcessSymbolNotAllowed ==
  /\ TopIs("symbol")
  /\ LET i == Top.item
     IN  /\ Bucket[i] # 0 /\ ~Blocked /\ Startable(i) /\ MayStart(i)
         /\ Unlocked(i) => i \in Conditional
         /\ SetStatus({i}, "finished")
  /\ Return(TRUE)
  /\ UNCHANGED <<sessionVars, asyncVars, callVars, slow, curStage, curItem, taskVars>>

StartItem(i) ==
  /\ Bucket[i] # 0 /\ ~Blocked /\ Startable(i) /\ MayStart(i)
  /\ Unlocked(i)
  /\ SetStatus({i}, "started")
  /\ curItem' = i
  /\ inflight' = inflight + 1
  /\ running' = running \cup {i}
  /\ ncalls' = [ncalls EXCEPT ![i] = @ + 1]
  /\ async' = [async EXCEPT ![i] = WrapperHold(i)]
  /\ Become(<<CallOn("rule", i),
              CallOn(IF RuleKind[i] = "lua" THEN "dec_check" ELSE "finalize", i),
              [CallOn("symbol_ret", i) EXCEPT !.saved = curItem]>>)

ProcessSymbolStart ==
  /\ TopIs("symbol")
  /\ StartItem(Top.item)
  /\ UNCHANGED <<sessionVars, sync, slow, curStage, taskVars>>

ProcessSymbolReturn ==
  /\ TopIs("symbol_ret")
  /\ curItem' = Top.saved
  /\ IF ~Done(Top.item) /\ async[Top.item] = 0 THEN Abort ELSE Return(Done(Top.item))
  /\ UNCHANGED <<sessionVars, statusVars, asyncVars, callVars, slow, curStage, taskVars>>

-----------------------------------------------------------------------------
(* The end of a rule.                                                      *)

(* rspamd_symcache_item_async_dec_check.  An event registered outside of   *)
(* any symbol has no item to account for.                                  *)
AsyncDecCheck ==
  /\ TopIs("dec_check")
  /\ LET i == Top.item
     IN  \/ i = NoItem /\ Finish /\ UNCHANGED async
         \/ /\ i # NoItem
            /\ IF async[i] = 0
                 THEN Abort /\ UNCHANGED async
                 ELSE /\ async' = [async EXCEPT ![i] = @ - 1]
                      /\ IF async[i] = 1 THEN Become(<<CallOn("finalize", i)>>) ELSE Finish
  /\ UNCHANGED <<sessionVars, statusVars, sync, callVars, slow, curStage, curItem, taskVars>>

(* finalize_item.  The idle timer of a slow synchronous rule is a session  *)
(* event; the reverse dependencies then wait for it.                       *)
NeedSlow(i) ==
  /\ i \in SlowItems \cap sync
  /\ \E j \in Items \ {i} : status[j] = "pending"
  /\ slow # "enabled"

FinalizeItem ==
  /\ TopIs("finalize")
  /\ LET i == Top.item
         rdeps == <<[CallOn("rdeps", i) EXCEPT !.k = 1]>>
     IN  \/ /\ inflight = 0 \/ async[i] > 0
            /\ IF inflight = 0 THEN Abort ELSE Finish
            /\ UNCHANGED <<events, statusVars, inflight, running, slow, curItem>>
         \/ /\ inflight > 0 /\ async[i] = 0
            /\ SetStatus({i}, "finished")
            /\ inflight' = inflight - 1
            /\ running' = running \ {i}
            /\ curItem' = NoItem
            /\ \/ Become(rdeps) /\ UNCHANGED <<events, slow>>
               \/ /\ NeedSlow(i) /\ Blocked
                  /\ slow' = "none"
                  /\ Become(rdeps)
                  /\ UNCHANGED events
               \/ /\ NeedSlow(i) /\ ~Blocked
                  /\ slow' = "enabled"
                  /\ events' = events \cup {[kind |-> "slow", item |-> i]}
                  /\ Finish
  /\ UNCHANGED <<flags, asyncVars, ncalls, curStage, taskVars>>

(* process_item_rdeps, one reverse dependency at a time.                   *)
ProcessItemRdeps ==
  /\ TopIs("rdeps")
  /\ \/ Top.k > Len(Rdeps[Top.item]) /\ Finish /\ UNCHANGED statusVars
     \/ /\ Top.k <= Len(Rdeps[Top.item])
        /\ LET j == Rdeps[Top.item][Top.k]
               next == [Top EXCEPT !.k = @ + 1]
               mine == StageOf(j) = curStage /\ NotStarted(j)
           IN  \/ ~mine /\ Become(<<next>>) /\ UNCHANGED statusVars
               \/ /\ mine /\ ShouldSkip(j)
                  /\ SetStatus({j}, "skipped")
                  /\ Become(<<next>>)
               \/ /\ mine /\ ~ShouldSkip(j)
                  /\ Become(<<[CallOn("deps", j) EXCEPT !.k = 1],
                              [Top EXCEPT !.op = "rdeps_deps"]>>)
                  /\ UNCHANGED statusVars
  /\ UNCHANGED <<sessionVars, asyncVars, callVars, slow, curStage, curItem, taskVars>>

ProcessItemRdepsDeps ==
  /\ TopIs("rdeps_deps")
  /\ LET next == [Top EXCEPT !.op = "rdeps", !.k = @ + 1]
     IN  IF ret THEN Become(<<CallOn("symbol", Rdeps[Top.item][Top.k]), next>>)
                ELSE Become(<<next>>)
  /\ UNCHANGED <<sessionVars, runtimeVars, taskVars>>

-----------------------------------------------------------------------------
(* The code of the rules and of the callbacks of their requests, bounded   *)
(* by MaxOps.  Requests are accounted to cur_item, whoever runs.           *)

Rule(op) ==
  /\ TopIs("rule")
  /\ op \in RuleOps
  /\ budget > 0
  /\ budget' = budget - 1

RuleReturn ==
  /\ TopIs("rule")
  /\ Finish
  /\ UNCHANGED <<sessionVars, runtimeVars, taskVars>>

(* rspamd_symcache_item_async_inc on cur_item: the second event makes the  *)
(* item an asynchronous one.                                               *)
AsyncInc ==
  IF curItem = NoItem
    THEN UNCHANGED <<statusVars, asyncVars>>
    ELSE /\ async' = [async EXCEPT ![curItem] = @ + 1]
         /\ IF async[curItem] > 0
              THEN sync' = sync \ {curItem} /\ SetStatus({curItem}, "pending")
              ELSE UNCHANGED <<sync, statusVars>>

(* A request of kind: refused while the session is blocked, otherwise a    *)
(* session event and the counter of the current item.                      *)
RuleRequest ==
  \E kind \in {"dns", "redis"} :
    /\ Rule(kind)
    /\ ~Blocked
    /\ LET e == [kind |-> kind, item |-> curItem]
       IN  e \notin events /\ events' = events \cup {e}
    /\ AsyncInc
    /\ UNCHANGED <<flags, loopVars, callVars, slow, curStage, curItem, force, verdict, skip>>

(* A request that fails at once: lua_http has registered the event and     *)
(* taken the counter when rspamd_http_connection_write_message fails, so   *)
(* the error callback, the counter and the removal of the event come       *)
(* before the call returns to the rule.                                    *)
RuleSyncRequest ==
  /\ Rule("sync")
  /\ ~Blocked
  /\ LET e == [kind |-> "redis", item |-> curItem]
     IN  /\ e \notin events
         /\ events' = events \cup {e}
         /\ Run(<<CallOn("rule", curItem), CallOn("dec_check", curItem), CallEv("remove", e)>>)
  /\ AsyncInc
  /\ UNCHANGED <<flags, callVars, slow, curStage, curItem, force, verdict, skip>>

(* A rule that takes its item's counter and never gives it back.           *)
RuleLeak ==
  /\ Rule("leak")
  /\ curItem # NoItem
  /\ AsyncInc
  /\ UNCHANGED <<sessionVars, loopVars, callVars, slow, curStage, curItem, force, verdict, skip>>

(* A symbol inserted with a weight takes the score over or under the limit.*)
RuleScore ==
  /\ Rule("score")
  /\ verdict' \in {"allow", "limit"} \ {verdict}
  /\ verdict # "passthrough"
  /\ UNCHANGED <<sessionVars, loopVars, runtimeVars, force, skip>>

(* disable_all_symbols.                                                    *)
DisableAll(spared) ==
  SetStatus({i \in Items \ spared : NotStarted(i)}, "suppressed")

(* task:set_pre_result: a passthrough result, and nothing but the symbols  *)
(* that ignore it and the idempotent ones is left to run.  When the action *)
(* is disabled for the task rspamd_add_passthrough_result sets no result;  *)
(* nobody looks at what it returns.  (The "least" and "process_all"        *)
(* results do not concern the scheduler.)                                  *)
RulePreResult ==
  /\ Rule("pass")
  /\ ~skip
  /\ verdict' \in {verdict, "passthrough"}
  /\ DisableAll({i \in Items : \/ Type[i] = "IDEMPOTENT"
                               \/ "IGNORE_PASSTHROUGH" \in Flags[i]})
  /\ UNCHANGED <<sessionVars, loopVars, asyncVars, callVars, slow, curStage, curItem, force, skip>>

(* process_settings, whitelist.                                            *)
RuleWhitelist ==
  /\ Rule("skip")
  /\ skip' = TRUE
  /\ UNCHANGED <<sessionVars, loopVars, runtimeVars, force, verdict>>

(* disable_symbol: refused for an item that is running.                    *)
MayDisableRunning(j) == TRUE

MayDisable(j) == status[j] \notin {"started", "pending"}

DisableSymbol ==
  /\ Rule("disable")
  /\ \E j \in Items :
       /\ MayDisable(j)
       /\ SetStatus({j}, "disabled")
  /\ UNCHANGED <<sessionVars, loopVars, asyncVars, callVars, slow, curStage, curItem, force, verdict, skip>>

(* enable_symbol.                                                          *)
MayEnableRunning(j) == curStage # NoStage => StageOf(j) >= curStage

MayEnable(j) ==
  /\ status[j] \notin {"started", "pending", "finished"}
  /\ curStage # NoStage => StageOf(j) >= curStage

EnableSymbol ==
  /\ Rule("enable")
  /\ \E j \in Items :
       /\ MayEnable(j)
       /\ SetStatus({j}, "not_started")
       /\ force' = IF "EXPLICIT_ENABLE" \in Flags[j] THEN force \cup {j} ELSE force
  /\ UNCHANGED <<sessionVars, loopVars, asyncVars, callVars, slow, curStage, curItem, verdict, skip>>

(* process_settings, symbols_enabled: with the default policy everything   *)
(* is suppressed first, with implicit_allow nothing is; the listed symbol  *)
(* is enabled and unlocked.                                                *)
RuleEnableOnly ==
  /\ Rule("only")
  /\ \/ DisableAll({i \in Items : "EXPLICIT_DISABLE" \in Flags[i]})
     \/ UNCHANGED statusVars
  /\ \E j \in Items : Run(<<CallOn("force_enable", j)>>)
  /\ UNCHANGED <<sessionVars, asyncVars, callVars, slow, curStage, curItem, force, verdict, skip>>

ForceEnable ==
  /\ TopIs("force_enable")
  /\ IF MayEnable(Top.item) THEN SetStatus({Top.item}, "not_started")
                            ELSE UNCHANGED statusVars
  /\ force' = force \cup {Top.item}
  /\ Finish
  /\ UNCHANGED <<sessionVars, asyncVars, callVars, slow, curStage, curItem, verdict, skip, budget>>

-----------------------------------------------------------------------------
(* rspamd_symcache_set_cur_item, which the callbacks of the requests call  *)
(* when the request has an item.                                           *)
SetCurItemNever(i) == curItem

SetCurItem(i) == IF i = NoItem THEN curItem ELSE i

(* unset_slow.                                                             *)
UnsetSlow == IF slow = "enabled" THEN "disabled" ELSE slow

(* The finalizer of an event, called by rspamd_session_remove_event or by  *)
(* rspamd_session_cleanup.  dns: the rule's callback runs for the item of  *)
(* the request, then the item's counter drops.  slow: unset_slow.          *)
EventFin ==
  /\ TopIs("fin")
  /\ \/ /\ Top.kind = "dns"
        /\ curItem' = SetCurItem(Top.item)
        /\ Become(<<CallOn("rule", Top.item), CallOn("dec_check", Top.item)>>)
        /\ UNCHANGED slow
     \/ /\ Top.kind = "slow"
        /\ slow' = UnsetSlow
        /\ Finish
        /\ UNCHANGED curItem
     \/ /\ Top.kind = "redis"
        /\ Finish
        /\ UNCHANGED <<slow, curItem>>
  /\ UNCHANGED <<sessionVars, statusVars, asyncVars, callVars, curStage, taskVars>>

(* composites_foreach: the composites still to be checked are checked now. *)
Composites ==
  /\ TopIs("composites")
  /\ SetStatus({i \in Items : Type[i] = "COMPOSITE" /\ NotStarted(i)}, "finished")
  /\ curItem' = NoItem
  /\ Return(TRUE)
  /\ UNCHANGED <<sessionVars, asyncVars, callVars, slow, curStage, taskVars>>

-----------------------------------------------------------------------------
(* The session's steps leave the runtime alone.                            *)
SessionStep ==
  /\ RemoveEvent \/ Cleanup \/ Pending
  /\ UNCHANGED <<runtimeVars, taskVars>>

RuntimeStep ==
  \/ ProcessSymbols \/ StageBucket \/ StageItem \/ StageItemDeps \/ StageBucketEnd
  \/ CheckItemDeps \/ CheckItemDepsRec \/ CheckItemDepsSymbol
  \/ ProcessSymbolRefused \/ ProcessSymbolNotAllowed \/ ProcessSymbolStart
  \/ ProcessSymbolReturn
  \/ AsyncDecCheck \/ FinalizeItem \/ ProcessItemRdeps \/ ProcessItemRdepsDeps
  \/ RuleReturn \/ RuleRequest \/ RuleSyncRequest \/ RuleLeak \/ RuleScore
  \/ RulePreResult \/ RuleWhitelist \/ DisableSymbol \/ EnableSymbol
  \/ RuleEnableOnly \/ ForceEnable
  \/ EventFin \/ Composites

(* symcache_runtime::create.                                               *)
InitialPending(b) == Cardinality({i \in Items : Bucket[i] = b})

RuntimeInit ==
  /\ status = [i \in Items |-> "not_started"]
  /\ async = [i \in Items |-> 0]
  /\ sync = Items
  /\ bucketPending = [b \in 1..NBuckets |-> InitialPending(b)]
  /\ inflight = 0
  /\ slow = "none"
  /\ curStage = NoStage
  /\ curItem = NoItem
  /\ force = {}
  /\ verdict = "allow"
  /\ budget = MaxOps
  /\ running = {}
  /\ ncalls = [i \in Items |-> 0]
=============================================================================
