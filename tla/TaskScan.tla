------------------------------ MODULE TaskScan ------------------------------
(***************************************************************************)
(* One scan of the normal worker, from the request to the release of the   *)
(* task: the stage machine of libserver/task.c, the task timeout, the      *)
(* socket guard and the HTTP handlers of worker.c, composed with the       *)
(* scheduler (Symcache) and the session (AsyncSession).                    *)
(***************************************************************************)
EXTENDS Symcache

CONSTANTS
  Requested,           \* the stages asked for: RSPAMD_TASK_PROCESS_ALL is 0..16
  HasTimeout,          \* the worker's task_timeout is set
  AutoLearn,           \* RSPAMD_TASK_FLAG_LEARN_AUTO, and the task is to be learned
  SoftRejectOnTimeout, \* cfg->soft_reject_on_timeout
  ShutdownWorkaround   \* cfg->enable_shutdown_workaround

ASSUME TaskAssumption ==
  /\ Requested \subseteq 0..16
  /\ HasTimeout \in BOOLEAN
  /\ AutoLearn \in BOOLEAN
  /\ SoftRejectOnTimeout \in BOOLEAN
  /\ ShutdownWorkaround \in BOOLEAN

VARIABLES
  processed,   \* processed_stages, as a set of bit numbers
  processing,  \* RSPAMD_TASK_FLAG_PROCESSING
  timer,       \* timeout_ev is active
  guard,       \* guard_ev is active
  conn,        \* "reading", "scanning" or "freed": the life of the request
  replies      \* history: replies handed to the HTTP connection

procVars == <<processed, processing, timer, guard, conn, replies>>

vars == <<sessionVars, loopVars, runtimeVars, taskVars, procVars>>

(* rspamd_task_stage, by bit number.                                       *)
READ_MESSAGE == 2
FILTERS == 5
IDEMPOTENT == 15
DONE == 16
REPLIED == 17

(* exec_stage_from_task_stage, for the stages that run symbols.            *)
ExecStage == [st \in {1, 4, 5, 10, 15} |->
                CASE st = 1 -> 0 [] st = 4 -> 1 [] st = 5 -> 2
                  [] st = 10 -> 3 [] st = 15 -> 4]

Classifiers == 6..8
CompositeStages == {9, 14}
Learn == 11..13

IsProcessed == DONE \in processed

-----------------------------------------------------------------------------
(* rspamd_task_select_processing_stage: the stage after the highest one    *)
(* that is marked, and the stages nobody asked for are marked on the way.  *)
Later(st) == \A p \in processed : p < st

SelectStage ==
  LET left == {st \in Requested : Later(st)}
  IN  IF left = {} THEN DONE ELSE Min(left)

SkippedStages(st) == processed \cup {s \in 0..(st - 1) : Later(s)}

(* rspamd_task_process, up to the work of the stage.  The frame "process2" *)
(* is the rest of the function: k is the stage, ok is its ret; b tells     *)
(* whether all_done is what rspamd_symcache_process_symbols returned.      *)
ContinueNext(st, ok, b) == [Call("process2") EXCEPT !.k = st + 1, !.ok = ok, !.b = b]

Continue(st, ok, b) == [Call("process2") EXCEPT !.k = st, !.ok = ok, !.b = b]

MayProcessNested == ~IsProcessed

MayProcess == ~processing /\ ~IsProcessed

TaskProcessNested ==
  /\ TopIs("process")
  /\ ~MayProcess
  /\ Return(TRUE)
  /\ UNCHANGED <<sessionVars, runtimeVars, taskVars, procVars>>

StartStage ==
  /\ TopIs("process")
  /\ MayProcess
  /\ processing' = TRUE
  /\ UNCHANGED <<sessionVars, runtimeVars, taskVars, guard, conn, replies>>

(* The stages that call into the symbol cache.  The last of them stops the *)
(* task timeout first.                                                     *)
TaskProcessSymbols ==
  /\ StartStage
  /\ \E st \in {SelectStage} \cap DOMAIN ExecStage :
    /\ processed' = SkippedStages(st)
    /\ timer' = (timer /\ st # IDEMPOTENT)
    /\ Become(<<[Call("process_symbols") EXCEPT !.k = ExecStage[st]],
                Continue(st, TRUE, 1)>>)

(* Classification, unless there is a passthrough result, and learning run  *)
(* the Lua code of the statistics backends, which may leave requests       *)
(* behind; libstat marks the stage itself, so it is not run again when the *)
(* requests complete.  An autolearning error ends the learning stages.     *)
TaskProcessStat ==
  /\ StartStage
  /\ \E st \in {SelectStage} \cap (Classifiers \cup Learn), failed \in BOOLEAN :
    /\ LET active == IF st \in Learn THEN AutoLearn ELSE verdict # "passthrough"
       IN  /\ failed => active /\ st \in Learn
           /\ processed' = SkippedStages(st) \cup (IF active THEN {st} ELSE {})
                                             \cup (IF failed THEN Learn ELSE {})
           /\ Become(IF active THEN <<CallOn("rule", curItem), Continue(st, TRUE, 0)>>
                               ELSE <<Continue(st, TRUE, 0)>>)
    /\ UNCHANGED timer

(* The other stages: the parser may fail, the composites are checked.      *)
TaskProcessOther ==
  /\ StartStage
  /\ \E st \in {SelectStage} \ (DOMAIN ExecStage \cup Classifiers \cup Learn), ok \in BOOLEAN :
    /\ ~ok => st = READ_MESSAGE
    /\ processed' = SkippedStages(st) \cup (IF st = DONE THEN {DONE} ELSE {})
    /\ Become(IF st \in CompositeStages THEN <<Call("composites"), Continue(st, ok, 0)>>
                                        ELSE <<Continue(st, ok, 0)>>)
    /\ UNCHANGED timer

(* rspamd_task_process, after the work of the stage.                       *)
TaskProcessEnd ==
  /\ TopIs("process2")
  /\ processing' = FALSE
  /\ LET marked == IF skip THEN processed \cup 0..14 ELSE processed
         all_done == Top.b = 1 => ret
     IN  \/ /\ ~Top.ok
            /\ processed' = marked \cup {DONE}
            /\ Return(FALSE)
         \/ /\ Top.ok /\ (DONE \in marked \/ HasEvents)
            /\ processed' = marked
            /\ Return(TRUE)
         \/ /\ Top.ok /\ DONE \notin marked /\ ~HasEvents
            /\ processed' = marked \cup (IF all_done THEN {Top.k} ELSE {})
            /\ Become(<<Call("process")>>)
  /\ UNCHANGED <<sessionVars, runtimeVars, taskVars, timer, guard, conn, replies>>

-----------------------------------------------------------------------------
(* rspamd_task_reply: the reply is written once.                           *)
TaskReplyAgain ==
  /\ processed' = processed \cup {REPLIED}
  /\ replies' = replies + 1

TaskReply ==
  IF REPLIED \in processed
    THEN UNCHANGED <<processed, replies>>
    ELSE /\ processed' = processed \cup {REPLIED}
         /\ replies' = replies + 1

(* rspamd_task_fin, the fin handler of the session: "task_fin2" follows    *)
(* rspamd_task_process.                                                    *)
TaskFin ==
  /\ TopIs("task_fin")
  /\ IF IsProcessed
       THEN TaskReply /\ Finish
       ELSE /\ Become(<<Call("process"), Call("task_fin2")>>)
            /\ UNCHANGED <<processed, replies>>
  /\ UNCHANGED <<sessionVars, runtimeVars, taskVars, processing, timer, guard, conn>>

TaskFinEnd ==
  /\ TopIs("task_fin2")
  /\ IF ~ret \/ IsProcessed THEN TaskReply ELSE UNCHANGED <<processed, replies>>
  /\ Finish
  /\ UNCHANGED <<sessionVars, runtimeVars, taskVars, processing, timer, guard, conn>>

(* rspamd_task_free: the session's cleanup handler.                        *)
TaskFree ==
  /\ TopIs("free")
  /\ conn' = "freed"
  /\ timer' = FALSE
  /\ guard' = FALSE
  /\ Finish
  /\ UNCHANGED <<sessionVars, runtimeVars, taskVars, processed, processing, replies>>

(* rspamd_worker_finish_handler, when the request has been read.           *)
FinishRead ==
  /\ TopIs("finish")
  /\ IF IsProcessed THEN Become(<<Call("pending")>>) ELSE Finish
  /\ UNCHANGED <<sessionVars, runtimeVars, taskVars, procVars>>

-----------------------------------------------------------------------------
(* What the event loop delivers, one callback at a time.                   *)

Idle == stack = <<>> /\ conn = "scanning"

(* rspamd_worker_body_handler and the finish handler that follows it.  A   *)
(* request that cannot be handled, or a ping, is a task to skip.           *)
BodyHandler ==
  /\ stack = <<>> /\ conn = "reading"
  /\ skip' \in BOOLEAN
  /\ conn' = "scanning"
  /\ timer' = HasTimeout
  /\ guard' = TRUE
  /\ Run(<<Call("process"), Call("finish")>>)
  /\ UNCHANGED <<sessionVars, runtimeVars, force, verdict, budget, processed, processing, replies>>

(* A reply, a failure or the own timeout of a request.                     *)
EventCompleted(e) ==
  /\ Idle
  /\ e \in events
  /\ \/ /\ e.kind = "dns"
        /\ Run(<<CallEv("remove", e)>>)
        /\ UNCHANGED curItem
     \/ /\ e.kind = "redis"
        /\ curItem' = SetCurItem(e.item)
        /\ Run(<<CallOn("rule", e.item), CallOn("dec_check", e.item), CallEv("remove", e)>>)
     \/ /\ e.kind = "slow"
        /\ Run(<<CallEv("remove", e), [CallOn("rdeps", e.item) EXCEPT !.k = 1]>>)
        /\ UNCHANGED curItem
  /\ UNCHANGED <<sessionVars, statusVars, asyncVars, callVars, slow, curStage, taskVars, procVars>>

(* rspamd_task_timeout: the first one gives up on the filters and restarts *)
(* itself, the second one ends the task; the session is cleaned up, and    *)
(* then the task goes on.                                                  *)
TimerRestartsNever == FALSE

TimerRestarts == FILTERS \notin processed

AfterTimeoutNoPending == <<Call("process")>>

AfterTimeout == <<Call("process"), Call("pending")>>

TaskTimeout ==
  /\ Idle
  /\ timer
  /\ verdict' \in IF SoftRejectOnTimeout THEN {verdict, "passthrough"} ELSE {verdict}
  /\ processed' = processed \cup (IF FILTERS \notin processed THEN {FILTERS} ELSE {DONE})
  /\ timer' = TimerRestarts
  /\ StartCleanup({}, AfterTimeout)
  /\ UNCHANGED <<runtimeVars, force, skip, budget, processing, guard, conn, replies>>

(* rspamd_session_destroy, then the session's cleanup handler.             *)
SessionDestroy == StartCleanup({"DESTROYING"}, <<Call("free")>>)

(* rspamd_worker_guard_handler: the peer has gone.                         *)
GuardClosed ==
  /\ Idle
  /\ guard
  /\ \/ /\ ShutdownWorkaround
        /\ guard' = FALSE
        /\ UNCHANGED <<sessionVars, loopVars>>
     \/ SessionDestroy /\ UNCHANGED guard
  /\ UNCHANGED <<runtimeVars, taskVars, processed, processing, timer, conn, replies>>

(* The reply is written or cannot be written: rspamd_worker_finish_handler *)
(* or rspamd_worker_error_handler of a replied task.                       *)
ReplyWritten ==
  /\ Idle
  /\ REPLIED \in processed
  /\ SessionDestroy
  /\ UNCHANGED <<runtimeVars, taskVars, procVars>>

Released == conn = "freed" /\ stack = <<>> /\ UNCHANGED vars

-----------------------------------------------------------------------------
TaskStep ==
  \/ TaskProcessNested \/ TaskProcessSymbols \/ TaskProcessStat \/ TaskProcessOther \/ TaskProcessEnd
  \/ TaskFin \/ TaskFinEnd \/ TaskFree \/ FinishRead

(* The code that runs inside of a loop callback.                           *)
Step == TaskStep \/ ((SessionStep \/ RuntimeStep) /\ UNCHANGED procVars)

Init ==
  /\ SessionInit
  /\ RuntimeInit
  /\ skip = FALSE
  /\ processed = {}
  /\ processing = FALSE
  /\ timer = FALSE
  /\ guard = FALSE
  /\ conn = "reading"
  /\ replies = 0

Next ==
  \/ Step
  \/ BodyHandler
  \/ \E e \in Event : EventCompleted(e)
  \/ TaskTimeout
  \/ GuardClosed
  \/ ReplyWritten
  \/ Released

Spec == Init /\ [][Next]_vars

(* The thread runs, timers expire and replies are written or fail; the     *)
(* peer may stay forever and no request of a rule has to complete.         *)
TimerFairness ==
  /\ WF_vars(Step)
  /\ WF_vars(BodyHandler)
  /\ WF_vars(TaskTimeout)
  /\ WF_vars(ReplyWritten)

TimerSpec == Spec /\ TimerFairness

(* Each request also completes: dns, redis, tcp and http requests and the  *)
(* idle timer have timeouts of their own.                                  *)
FairSpec == TimerSpec /\ \A e \in Event : WF_vars(EventCompleted(e))

-----------------------------------------------------------------------------
(* Types.                                                                  *)

Ops == {"process_symbols", "bucket", "stage", "stage_deps", "deps", "deps_rec",
        "deps_symbol", "symbol", "symbol_ret", "dec_check", "finalize", "rdeps",
        "rdeps_deps", "rule", "force_enable", "fin", "composites", "remove",
        "pending", "cleanup", "process", "process2", "task_fin", "task_fin2",
        "free", "finish", "abort"}

ItemOps == {"deps", "deps_rec", "deps_symbol", "symbol", "symbol_ret", "finalize",
            "rdeps", "rdeps_deps", "force_enable", "stage_deps"}

FrameRecord == [op : Ops, item : Items \cup {NoItem}, kind : Kinds \cup {"none"},
                todo : SUBSET Event, b : Nat, k : Nat, ok : BOOLEAN,
                saved : Items \cup {NoItem}]

(* What a frame refers to is there: the item it works on, and the position *)
(* in the bucket, the dependencies or the reverse dependencies.            *)
WellFormed(f) ==
  /\ f.op \in ItemOps => f.item \in Items
  /\ f.op \in {"deps", "rdeps", "stage"} => f.k # 0
  /\ f.op \in {"deps_rec", "deps_symbol"} => f.k \in 1..Len(Deps[f.item])
  /\ f.op = "rdeps_deps" => f.k \in 1..Len(Rdeps[f.item])
  /\ f.op \in {"stage", "stage_deps"} => f.b \in 1..NBuckets
  /\ f.op = "process_symbols" => f.k \in Stages
  /\ f.op = "process2" => f.k \in 0..DONE
  /\ f.op \in {"remove", "fin"} => [kind |-> f.kind, item |-> f.item] \in Event

Frame == {f \in FrameRecord : WellFormed(f)}

(* Every variable has its type, and no call that is still to be made is    *)
(* out of the bounds of the plan.                                          *)
TypeOK ==
  /\ events \subseteq Event
  /\ flags \subseteq {"DESTROYING", "CLEANUP"}
  /\ stack \in Seq(Frame)
  /\ ret \in BOOLEAN
  /\ status \in [Items -> Statuses]
  /\ async \in [Items -> Nat]
  /\ sync \subseteq Items
  /\ bucketPending \in [1..NBuckets -> Nat]
  /\ inflight \in Nat
  /\ slow \in {"none", "enabled", "disabled"}
  /\ curStage \in Stages \cup {NoStage}
  /\ curItem \in Items \cup {NoItem}
  /\ force \subseteq Items
  /\ verdict \in {"allow", "limit", "passthrough"}
  /\ skip \in BOOLEAN
  /\ budget \in 0..MaxOps
  /\ running \subseteq Items
  /\ ncalls \in [Items -> Nat]
  /\ processed \subseteq 0..REPLIED
  /\ processing \in BOOLEAN
  /\ timer \in BOOLEAN
  /\ guard \in BOOLEAN
  /\ conn \in {"reading", "scanning", "freed"}
  /\ replies \in Nat

-----------------------------------------------------------------------------
(* Safety.                                                                 *)

(* bucket_pending counts exactly the items of the bucket that are not      *)
(* done, whatever set_status, the sweeps, the cascades and the rules that  *)
(* enable and disable symbols do (set_status: "keeps the buckets           *)
(* accounting consistent"; its g_assert never fails).                      *)
BucketAccounting ==
  \A b \in 1..NBuckets :
    bucketPending[b] = Cardinality({i \in Items : Bucket[i] = b /\ ~Done(i)})

(* An item in flight whose status a check of its dependencies has          *)
(* overwritten: the check was suspended when a nested call started the     *)
(* item, and found then that a hard dependency is disabled or skipped.     *)
Overtaken(i) ==
  /\ i \in running
  /\ status[i] \in {"disabled", "skipped"}
  /\ \E k \in 1..Len(Deps[i]) : Cascades(Deps[i][k])

(* items_inflight counts the items that were called and not finalised.     *)
(* Whatever requests, timeouts and rules that disable symbols do, an item  *)
(* in flight is marked as started or pending, and no other item is         *)
(* (disable_symbol: "The item is running: it is finalised as usual"); only *)
(* check_item_deps writes over that, where a hard dependency was disabled  *)
(* or skipped under it.  (An item in that state that a rule then enables   *)
(* is started again and counted twice.)                                    *)
InflightAccounting ==
  /\ inflight = Cardinality(running)
  /\ \A i \in Items : status[i] \in {"started", "pending"} => i \in running
  /\ \A i \in running : status[i] \in {"started", "pending"} \/ Overtaken(i)

(* No assertion of the scheduler or of the session fails: no counter drops *)
(* below zero, no event is removed twice, no item waits with no counter    *)
(* (process_symbol: "item %s has no async events pending, but it is not    *)
(* finalised").  It takes rules that do not both disable and enable a      *)
(* finished item: those of MCToggle.cfg break it.                          *)
NoAbort == ~TopIs("abort")

(* The item starts in this step.                                           *)
Starts(i) == ncalls'[i] > ncalls[i]

(* A level is a barrier: on whatever path an item starts, the items of the *)
(* earlier levels of its stage are done, unless the session has no event   *)
(* that could finish them (is_bucket_open).                                *)
LevelBarrier ==
  [][\A i, j \in Items :
       /\ Starts(i)
       /\ Bucket[j] \in 1..(Bucket[i] - 1)
       /\ StageOf(j) = StageOf(i)
       => ~HasEvents \/ Done(j)]_vars

(* No item starts before its dependencies, nor when a hard one was         *)
(* disabled or skipped (register_dependency: "then the dependent symbol is *)
(* not executed"), nor while one of them is in flight, unless that one     *)
(* passes for done, overtaken itself by a check of its dependencies.       *)
DepsBeforeStart ==
  [][\A i \in Items : Starts(i) =>
       \A k \in 1..Len(Deps[i]) :
         LET d == Deps[i][k].item
         IN  /\ d \in running => Overtaken(d)
             /\ Bucket[d] # 0 => Done(d)
             /\ Deps[i][k].hard => status[d] \notin {"disabled", "skipped"}]_vars

(* A result stops the item: a passthrough all but the idempotent items,    *)
(* the ones that ignore it and the fine filters, the score limit the       *)
(* filters that are not fine.                                              *)
Stopped(i) ==
  /\ verdict = "passthrough" \/ (verdict = "limit" /\ Type[i] = "FILTER")
  /\ Type[i] # "IDEMPOTENT" /\ "IGNORE_PASSTHROUGH" \notin Flags[i]
  /\ ~(Type[i] = "FILTER" /\ "FINE" \in Flags[i])

(* No stopped item starts (should_skip: "Filters (hoisted ones included)   *)
(* are also stopped by the score limit"), except for an item that          *)
(* check_item_deps starts for another one, and for an item that passed     *)
(* should_skip before a slow dependency changed the result.                *)
StoppedNotStarted ==
  [][\A i \in Items : Starts(i) /\ Stopped(i) =>
       \/ stack[2].op = "deps_symbol"
       \/ slow = "enabled" /\ Deps[i] # <<>>]_vars

(* is_bucket_open and process_stage take a session without events for a    *)
(* leaked counter: "when the session has no events nothing is going to     *)
(* finish them".  So when a stage is processed with no events, no callback *)
(* further down the stack is about to finalise an item in flight.          *)
NothingToFinish ==
  TopIs("bucket") /\ ~HasEvents =>
    \A n \in 2..Len(stack) : stack[n].op = "dec_check" => stack[n].item \notin running

(* Without timeouts, leaks and settings no rule is lost: when the last     *)
(* stage of a scan that is not skipped is over, every item of the plan was *)
(* called, in whatever order the requests of the rules completed.          *)
AllRun ==
  IDEMPOTENT \in processed /\ ~skip =>
    \A i \in Items : Bucket[i] # 0 => ncalls[i] = 1

(* Whoever runs the code of a rule, cur_item is its item, so the requests  *)
(* it makes are accounted to it; between the callbacks of the loop cur_item*)
(* never is an item that is finalised already.                             *)
CurItemAttribution ==
  /\ TopIs("rule") /\ Top.item # NoItem => curItem = Top.item
  /\ stack = <<>> /\ curItem # NoItem => curItem \in running

(* While the loop waits, something is going to wake the task up: an event  *)
(* of its session, or the reply being written.                             *)
NoStall == Idle => HasEvents \/ REPLIED \in processed

(* rspamd_task_process repeats a stage that is not done only after an      *)
(* event: it does not spin.                                                *)
NoSpin ==
  TopIs("process2") /\ Top.b = 1 /\ ~ret => HasEvents

(* One reply at most, and only for a task that is done.                    *)
OneReply == replies <= 1 /\ (replies = 1 => IsProcessed)

-----------------------------------------------------------------------------
(* Liveness.                                                               *)

(* With the timer alone, whatever the requests of the rules do, the task   *)
(* gets to its idempotent stage or is done.                                *)
TimeoutEndsFilters ==
  <>(curStage = ExecStage[IDEMPOTENT] \/ IsProcessed \/ conn = "freed")

(* Every scan ends: the reply is written and the task is released.         *)
ScanEnds == <>(conn = "freed")
=============================================================================
