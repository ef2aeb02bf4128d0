--------------------------- MODULE TaskScanProofs ---------------------------
(***************************************************************************)
(* The steps of the session, of the task and of the event loop keep the    *)
(* inductive invariant, so it holds, and what follows from it for every    *)
(* plan of the symbol cache, every set of items and every behaviour of the *)
(* rules.                                                                  *)
(***************************************************************************)
EXTENDS SchedulerProofs

(* The session.                                                            *)

(* rspamd_session_remove_event.                                            *)
LEMMA RemoveEventType ==
  ASSUME IInv, RemoveEvent, UNCHANGED <<runtimeVars, taskVars, procVars>>
  PROVE  IInv'
<1> USE DEF IInv
<1>1. stack # <<>> /\ TopEvent \in Event
  BY TopFrame DEF RemoveEvent, WellFormed, TopEvent
<1>2. CallEv("fin", TopEvent) \in Frame /\ Call("pending") \in Frame
  BY <1>1, EventFrame, PlainFrame
<1>3. StatusOK'
  BY StatusStutter DEF runtimeVars
<1>4. StackOK'
  BY <1>1, <1>2, FinishOK, AbortOK, BecomeTwo DEF RemoveEvent, AfterRemove
<1>5. ret' = ret /\ events' \subseteq Event /\ flags' = flags
  BY DEF RemoveEvent, Finish, Become, Abort, RestOK
<1>6. RestOK'
  BY <1>5 DEF RestOK, runtimeVars, asyncVars, callVars, taskVars, procVars
<1>7. QED
  BY <1>3, <1>4, <1>6

(* rspamd_session_pending.                                                 *)
LEMMA PendingType ==
  ASSUME IInv, Pending, UNCHANGED <<runtimeVars, taskVars, procVars>>
  PROVE  IInv'
<1> USE DEF IInv
<1>1. stack # <<>> /\ Call("task_fin") \in Frame
  BY TopFrame, PlainFrame DEF Pending
<1>2. StatusOK'
  BY StatusStutter DEF runtimeVars
<1>3. StackOK'
  BY <1>1, FinishOK, BecomeOne DEF Pending
<1>4. ret' = ret
  BY DEF Pending, Finish, Become
<1>5. RestOK'
  BY <1>4 DEF RestOK, Pending, sessionVars, runtimeVars, asyncVars, callVars, taskVars, procVars
<1>6. QED
  BY <1>2, <1>3, <1>5

(* rspamd_session_cleanup, one event.                                      *)
LEMMA CleanupType ==
  ASSUME IInv, Cleanup, UNCHANGED <<runtimeVars, taskVars, procVars>>
  PROVE  IInv'
<1> USE DEF IInv
<1>1. stack # <<>> /\ Top \in FrameRecord /\ Top.op = "cleanup" /\ Top.todo \subseteq Event
  BY TopFrame DEF Cleanup, FrameRecord
<1>2. ASSUME NEW e \in Top.todo
      PROVE  CallEv("fin", e) \in Frame /\ [Top EXCEPT !.todo = @ \ {e}] \in Frame
  <2>1. CallEv("fin", e) \in Frame
    BY <1>1, EventFrame
  <2>2. [Top EXCEPT !.todo = @ \ {e}] \in FrameRecord
    BY <1>1 DEF FrameRecord
  <2>3. WellFormed([Top EXCEPT !.todo = @ \ {e}])
    BY <1>1 DEF FrameRecord, WellFormed, ItemOps
  <2>4. QED
    BY <2>1, <2>2, <2>3 DEF Frame
<1>3. StatusOK'
  BY StatusStutter DEF runtimeVars
<1>4. StackOK'
  BY <1>1, <1>2, FinishOK, BecomeTwo, Zenon DEF Cleanup
<1>5. ret' = ret /\ events' \subseteq Event /\ flags' \subseteq {"DESTROYING", "CLEANUP"}
  BY Zenon DEF Cleanup, Finish, Become, RestOK, sessionVars
<1>6. RestOK'
  BY <1>5 DEF RestOK, runtimeVars, asyncVars, callVars, taskVars, procVars
<1>7. QED
  BY <1>3, <1>4, <1>6

(* rspamd_session_cleanup, its start.                                      *)
LEMMA StartCleanupType ==
  ASSUME StackOK, RestOK, NEW fl \in SUBSET {"DESTROYING"}, NEW after \in Seq(Frame),
         StartCleanup(fl, after)
  PROVE  /\ StackOK' /\ flags' \subseteq {"DESTROYING", "CLEANUP"}
         /\ UNCHANGED <<events, ret>>
<1> DEFINE walk == [Call("cleanup") EXCEPT !.todo = events]
<1>1. walk \in FrameRecord
  BY Zenon DEF RestOK, Call, F0, FrameRecord, Ops
<1>2. WellFormed(walk)
  BY DEF Call, F0, WellFormed, ItemOps
<1>3. walk \in Frame
  BY <1>1, <1>2 DEF Frame
<1>4. stack' = <<walk>> \o after
  BY DEF StartCleanup
<1> HIDE DEF walk
<1>5. StackOK'
  BY <1>3, <1>4, PushOne DEF StackOK
<1>6. QED
  BY <1>5 DEF StartCleanup, RestOK

-----------------------------------------------------------------------------
(* The task.                                                               *)

(* The selected stage is one of the stages of the task.                    *)
LEMMA SelectStageType == SelectStage \in 0..DONE
<1> DEFINE left == {st \in Requested : Later(st)}
<1>1. left \subseteq 0..16
  BY TaskAssumption, Zenon
<1>2. SelectStage = IF left = {} THEN DONE ELSE Min(left)
  BY DEF SelectStage
<1> HIDE DEF left
<1>3. ASSUME left # {}
      PROVE  Min(left) \in left
  BY <1>1, <1>3, MinIsMember
<1>4. CASE left = {}
  BY <1>2, <1>4 DEF DONE
<1>5. CASE left # {}
  BY <1>1, <1>2, <1>3, <1>5 DEF DONE
<1>6. QED
  BY <1>4, <1>5

(* The rest of rspamd_task_process is a frame.                             *)
LEMMA ContinueFrame ==
  ASSUME NEW st \in 0..DONE, NEW ok \in BOOLEAN, NEW b \in {0, 1}
  PROVE  Continue(st, ok, b) \in Frame
<1>1. Continue(st, ok, b) \in FrameRecord
  <2>1. st \in Nat /\ b \in Nat
    BY DEF DONE
  <2>2. Call("process2") \in FrameRecord
    BY Zenon DEF Call, F0, FrameRecord, Ops
  <2>3. QED
    BY <2>1, <2>2, Zenon DEF Continue, FrameRecord
<1>2. WellFormed(Continue(st, ok, b))
  BY DEF Continue, Call, F0, WellFormed, ItemOps
<1>3. QED
  BY <1>1, <1>2 DEF Frame

(* The call into the symbol cache is a frame.                              *)
LEMMA SymbolsFrame ==
  ASSUME NEW st \in DOMAIN ExecStage
  PROVE  [Call("process_symbols") EXCEPT !.k = ExecStage[st]] \in Frame
<1>1. ExecStage[st] \in Stages
  BY DEF ExecStage, Stages
<1> DEFINE n == ExecStage[st]
<1>2. n \in Nat /\ n \in Stages
  BY <1>1 DEF Stages
<1> HIDE DEF n
<1>3. [Call("process_symbols") EXCEPT !.k = n] \in FrameRecord
  BY <1>2, Zenon DEF Call, F0, FrameRecord, Ops
<1>4. WellFormed([Call("process_symbols") EXCEPT !.k = n])
  BY <1>2 DEF Call, F0, WellFormed, ItemOps
<1>5. QED
  BY <1>3, <1>4 DEF Frame, n

(* rspamd_task_process, refused.                                           *)
LEMMA TaskProcessNestedType ==
  ASSUME IInv, TaskProcessNested
  PROVE  IInv'
<1> USE DEF IInv
<1>1. stack # <<>>
  BY TopFrame DEF TaskProcessNested
<1>2. StatusOK' /\ StackOK' /\ ret' \in BOOLEAN
  BY <1>1, StatusStutter, ReturnOK, Zenon DEF TaskProcessNested, runtimeVars
<1>3. RestOK'
  BY <1>2 DEF RestOK, TaskProcessNested, sessionVars, runtimeVars, asyncVars, callVars, taskVars, procVars
<1>4. QED
  BY <1>2, <1>3

(* What the stages of rspamd_task_process have in common.                  *)
LEMMA StartStageType ==
  ASSUME IInv, StartStage, StackOK', ret' = ret, timer' \in BOOLEAN, processed' \subseteq 0..REPLIED
  PROVE  IInv'
<1> USE DEF IInv
<1>1. StatusOK'
  BY StatusStutter DEF StartStage, runtimeVars
<1>2. RestOK'
  BY DEF RestOK, StartStage, sessionVars, runtimeVars, asyncVars, callVars, taskVars
<1>3. QED
  BY <1>1, <1>2

(* The stages marked on the way are stages.                                *)
LEMMA SkippedStagesType ==
  ASSUME RestOK, NEW st \in 0..DONE
  PROVE  SkippedStages(st) \subseteq 0..REPLIED
<1>1. processed \subseteq 0..17
  BY DEF RestOK, REPLIED
<1>2. 0..(st - 1) \subseteq 0..17
  BY DEF DONE
<1>3. QED
  BY <1>1, <1>2, Zenon DEF SkippedStages, REPLIED

(* The stages that call into the symbol cache.                             *)
LEMMA TaskProcessSymbolsType ==
  ASSUME IInv, TaskProcessSymbols
  PROVE  IInv'
<1> USE DEF IInv
<1>1. PICK st \in {SelectStage} \cap DOMAIN ExecStage :
        /\ processed' = SkippedStages(st)
        /\ timer' = (timer /\ st # IDEMPOTENT)
        /\ Become(<<[Call("process_symbols") EXCEPT !.k = ExecStage[st]],
                    Continue(st, TRUE, 1)>>)
  BY Zenon DEF TaskProcessSymbols
<1>2. stack # <<>> /\ StartStage
  BY TopFrame DEF TaskProcessSymbols, StartStage
<1>3. st \in 0..DONE
  BY SelectStageType
<1>4. StackOK' /\ ret' = ret
  BY <1>1, <1>2, <1>3, SymbolsFrame, ContinueFrame, BecomeTwo, Zenon DEF Become
<1>5. processed' \subseteq 0..REPLIED /\ timer' \in BOOLEAN
  BY <1>1, <1>3, SkippedStagesType, SMTT(30) DEF RestOK
<1>6. QED
  BY <1>2, <1>4, <1>5, StartStageType

(* The stages of the statistics.                                           *)
LEMMA TaskProcessStatType ==
  ASSUME IInv, TaskProcessStat
  PROVE  IInv'
<1> USE DEF IInv
<1> DEFINE active(st) == IF st \in Learn THEN AutoLearn ELSE verdict # "passthrough"
<1>1. PICK st \in {SelectStage} \cap (Classifiers \cup Learn), failed \in BOOLEAN :
        /\ processed' = SkippedStages(st) \cup (IF active(st) THEN {st} ELSE {})
                                          \cup (IF failed THEN Learn ELSE {})
        /\ Become(IF active(st) THEN <<CallOn("rule", curItem), Continue(st, TRUE, 0)>>
                                ELSE <<Continue(st, TRUE, 0)>>)
  BY Zenon DEF TaskProcessStat
<1>2. stack # <<>> /\ StartStage /\ timer' = timer
  BY TopFrame DEF TaskProcessStat, StartStage
<1>3. st \in 0..DONE
  BY SelectStageType
<1>4. CallOn("rule", curItem) \in Frame /\ Continue(st, TRUE, 0) \in Frame
  BY <1>3, AnyItemFrame, ContinueFrame, Zenon DEF RestOK
<1>5. processed' \subseteq 0..REPLIED
  BY <1>1, <1>3, SkippedStagesType DEF DONE, REPLIED, Learn
<1>6. \/ Become(<<CallOn("rule", curItem), Continue(st, TRUE, 0)>>)
      \/ Become(<<Continue(st, TRUE, 0)>>)
  BY <1>1
<1>7. StackOK' /\ ret' = ret
  BY <1>2, <1>4, <1>6, BecomeOne, BecomeTwo, ZenonT(60) DEF Become
<1>8. QED
  BY <1>2, <1>5, <1>7, StartStageType, SMTT(30) DEF RestOK

(* The other stages.                                                       *)
LEMMA TaskProcessOtherType ==
  ASSUME IInv, TaskProcessOther
  PROVE  IInv'
<1> USE DEF IInv
<1>1. PICK st \in {SelectStage}, ok \in BOOLEAN :
        /\ processed' = SkippedStages(st) \cup (IF st = DONE THEN {DONE} ELSE {})
        /\ Become(IF st \in CompositeStages THEN <<Call("composites"), Continue(st, ok, 0)>>
                                            ELSE <<Continue(st, ok, 0)>>)
  BY DEF TaskProcessOther
<1>2. stack # <<>> /\ StartStage /\ timer' = timer
  BY TopFrame DEF TaskProcessOther, StartStage
<1>3. st \in 0..DONE
  BY SelectStageType
<1>4. Call("composites") \in Frame /\ Continue(st, ok, 0) \in Frame
  BY <1>3, PlainFrame, ContinueFrame
<1>5. processed' \subseteq 0..REPLIED
  BY <1>1, <1>3, SkippedStagesType DEF DONE, REPLIED
<1>6. \/ Become(<<Call("composites"), Continue(st, ok, 0)>>)
      \/ Become(<<Continue(st, ok, 0)>>)
  BY <1>1
<1>7. StackOK' /\ ret' = ret
  BY <1>2, <1>4, <1>6, BecomeOne, BecomeTwo, SMTT(30) DEF Become
<1>8. QED
  BY <1>2, <1>5, <1>7, StartStageType, SMTT(30) DEF RestOK

(* rspamd_task_process, after the stage.                                   *)
LEMMA TaskProcessEndType ==
  ASSUME IInv, TaskProcessEnd
  PROVE  IInv'
<1> USE DEF IInv
<1>1. /\ stack # <<>> /\ Top.k \in 0..DONE /\ Call("process") \in Frame
  BY TopFrame, PlainFrame DEF TaskProcessEnd, WellFormed
<1>2. StatusOK'
  BY StatusStutter DEF TaskProcessEnd, runtimeVars
<1>3. StackOK' /\ ret' \in BOOLEAN
  BY <1>1, ReturnOK, BecomeOne, Zenon DEF TaskProcessEnd, Become, RestOK
<1>4. processed' \subseteq 0..REPLIED
  <2> DEFINE marked == IF skip THEN processed \cup 0..14 ELSE processed
  <2>1. marked \subseteq 0..17
    BY DEF RestOK, REPLIED
  <2>2. Top.k \in 0..17 /\ DONE \in 0..17
    BY <1>1 DEF DONE
  <2>3. processed' \subseteq marked \cup {DONE, Top.k}
    BY Zenon DEF TaskProcessEnd
  <2> HIDE DEF marked
  <2>4. QED
    BY <2>1, <2>2, <2>3 DEF REPLIED
<1>5. RestOK'
  BY <1>3, <1>4, ZenonT(60) DEF RestOK, TaskProcessEnd, sessionVars,
     runtimeVars, asyncVars, callVars, taskVars
<1>6. QED
  BY <1>2, <1>3, <1>5, SMTT(30)

(* rspamd_task_reply.                                                      *)
LEMMA TaskReplyType ==
  ASSUME RestOK, TaskReply \/ UNCHANGED <<processed, replies>>
  PROVE  processed' \subseteq 0..REPLIED /\ replies' \in Nat
<1>1. processed \subseteq 0..17 /\ replies \in Nat
  BY DEF RestOK, REPLIED
<1>2. 17 \in 0..17
  OBVIOUS
<1>3. CASE UNCHANGED <<processed, replies>>
  BY <1>1, <1>3 DEF REPLIED
<1>4. CASE processed' = processed \cup {17} /\ replies' = replies + 1
  BY <1>1, <1>2, <1>4 DEF REPLIED
<1>5. QED
  BY <1>3, <1>4 DEF TaskReply, REPLIED

(* rspamd_task_fin.                                                        *)
LEMMA TaskFinType ==
  ASSUME IInv, TaskFin
  PROVE  IInv'
<1> USE DEF IInv
<1>1. stack # <<>> /\ Call("process") \in Frame /\ Call("task_fin2") \in Frame
  BY TopFrame, PlainFrame DEF TaskFin
<1>2. StatusOK'
  BY StatusStutter DEF TaskFin, runtimeVars
<1>3. StackOK' /\ ret' = ret
  BY <1>1, FinishOK, BecomeTwo DEF TaskFin, Finish, Become
<1>4. processed' \subseteq 0..REPLIED /\ replies' \in Nat
  BY TaskReplyType DEF TaskFin
<1>5. RestOK'
  BY <1>3, <1>4, SMTT(30) DEF RestOK, TaskFin, sessionVars, runtimeVars, asyncVars, callVars, taskVars
<1>6. QED
  BY <1>2, <1>3, <1>5

(* rspamd_task_fin, after rspamd_task_process.                             *)
LEMMA TaskFinEndType ==
  ASSUME IInv, TaskFinEnd
  PROVE  IInv'
<1> USE DEF IInv
<1>1. stack # <<>>
  BY TopFrame DEF TaskFinEnd
<1>2. StatusOK'
  BY StatusStutter DEF TaskFinEnd, runtimeVars
<1>3. StackOK' /\ ret' = ret
  BY <1>1, FinishOK DEF TaskFinEnd, Finish
<1>4. processed' \subseteq 0..REPLIED /\ replies' \in Nat
  BY TaskReplyType, SMTT(30) DEF TaskFinEnd
<1>5. RestOK'
  BY <1>3, <1>4 DEF RestOK, TaskFinEnd, sessionVars, runtimeVars, asyncVars, callVars, taskVars
<1>6. QED
  BY <1>2, <1>3, <1>5

(* rspamd_task_free.                                                       *)
LEMMA TaskFreeType ==
  ASSUME IInv, TaskFree
  PROVE  IInv'
<1> USE DEF IInv
<1>1. stack # <<>>
  BY TopFrame DEF TaskFree
<1>2. StatusOK' /\ StackOK' /\ ret' = ret
  BY <1>1, StatusStutter, FinishOK DEF TaskFree, runtimeVars, Finish
<1>3. RestOK'
  BY <1>2, Zenon DEF RestOK, TaskFree, sessionVars, runtimeVars, asyncVars, callVars, taskVars
<1>4. QED
  BY <1>2, <1>3

(* rspamd_worker_finish_handler of a request that was read.                *)
LEMMA FinishReadType ==
  ASSUME IInv, FinishRead
  PROVE  IInv'
<1> USE DEF IInv
<1>1. stack # <<>> /\ Call("pending") \in Frame
  BY TopFrame, PlainFrame DEF FinishRead
<1>2. StatusOK' /\ StackOK' /\ ret' = ret
  BY <1>1, StatusStutter, FinishOK, BecomeOne, SMTT(30) DEF FinishRead, runtimeVars, Finish, Become
<1>3. RestOK'
  BY <1>2 DEF RestOK, FinishRead, sessionVars, runtimeVars, asyncVars, callVars, taskVars, procVars
<1>4. QED
  BY <1>2, <1>3

-----------------------------------------------------------------------------
(* The event loop.                                                         *)

(* rspamd_worker_body_handler.                                             *)
LEMMA BodyHandlerType ==
  ASSUME IInv, BodyHandler
  PROVE  IInv'
<1> USE DEF IInv
<1>1. Call("process") \in Frame /\ Call("finish") \in Frame
  BY PlainFrame
<1>2. StatusOK' /\ StackOK' /\ ret' = ret
  BY <1>1, StatusStutter, RunTwo, SMTT(30) DEF BodyHandler, runtimeVars, Run
<1>3. RestOK'
  BY <1>2, TaskAssumption DEF RestOK, BodyHandler, sessionVars, runtimeVars, asyncVars, callVars
<1>4. QED
  BY <1>2, <1>3

(* The completion of an event.                                             *)
LEMMA EventCompletedType ==
  ASSUME IInv, NEW e \in Event, EventCompleted(e)
  PROVE  IInv'
<1> USE DEF IInv
<1>1. /\ e.item \in Items \cup {NoItem}
      /\ e.kind = "slow" => e.item \in Items
  BY DEF Event, Kinds
<1>2. /\ CallEv("remove", e) \in Frame
      /\ CallOn("rule", e.item) \in Frame /\ CallOn("dec_check", e.item) \in Frame
      /\ e.kind = "slow" => [CallOn("rdeps", e.item) EXCEPT !.k = 1] \in Frame
  BY <1>1, EventFrame, AnyItemFrame, WalkFrame, SMTT(30)
<1>3. StatusOK'
  BY StatusStutter DEF EventCompleted
<1>4. StackOK' /\ ret' = ret
  BY <1>2, RunOne, RunTwo, RunThree, Zenon DEF EventCompleted, Run
<1>5. curItem' \in Items \cup {NoItem}
  BY <1>1 DEF EventCompleted, SetCurItem, RestOK
<1>6. RestOK'
  BY <1>4, <1>5 DEF RestOK, EventCompleted, sessionVars, asyncVars, callVars, taskVars, procVars
<1>7. QED
  BY <1>3, <1>4, <1>6

(* rspamd_task_timeout.                                                    *)
LEMMA TaskTimeoutType ==
  ASSUME IInv, TaskTimeout
  PROVE  IInv'
<1> USE DEF IInv
<1>1. AfterTimeout \in Seq(Frame)
  <2>1. Call("process") \in Frame /\ Call("pending") \in Frame
    BY PlainFrame
  <2>2. QED
    BY <2>1 DEF AfterTimeout
<1>2. /\ StackOK' /\ flags' \subseteq {"DESTROYING", "CLEANUP"}
      /\ UNCHANGED <<events, ret>>
  BY <1>1, StartCleanupType DEF TaskTimeout
<1>3. StatusOK'
  BY StatusStutter DEF TaskTimeout, runtimeVars
<1>4. processed' \subseteq 0..REPLIED
  BY DEF TaskTimeout, RestOK, FILTERS, DONE, REPLIED
<1>5. timer' \in BOOLEAN /\ verdict' \in {"allow", "limit", "passthrough"}
  BY SMTT(30) DEF TaskTimeout, TimerRestarts, RestOK
<1>6. RestOK'
  BY <1>2, <1>4, <1>5, SMTT(30) DEF RestOK, TaskTimeout, runtimeVars, asyncVars, callVars
<1>7. QED
  BY <1>2, <1>3, <1>6

(* rspamd_session_destroy.                                                 *)
LEMMA SessionDestroyType ==
  ASSUME IInv, SessionDestroy
  PROVE  /\ StackOK' /\ flags' \subseteq {"DESTROYING", "CLEANUP"}
         /\ UNCHANGED <<events, ret>>
<1> USE DEF IInv
<1>1. <<Call("free")>> \in Seq(Frame)
  BY PlainFrame
<1>2. QED
  BY <1>1, StartCleanupType, Zenon DEF SessionDestroy

(* rspamd_worker_guard_handler.                                            *)
LEMMA GuardClosedType ==
  ASSUME IInv, GuardClosed
  PROVE  IInv'
<1> USE DEF IInv
<1>1. StackOK' /\ flags' \subseteq {"DESTROYING", "CLEANUP"} /\ UNCHANGED <<events, ret>>
  BY SessionDestroyType, Zenon DEF GuardClosed, sessionVars, loopVars, RestOK, StackOK
<1>2. StatusOK' /\ guard' \in BOOLEAN
  BY StatusStutter, Zenon DEF GuardClosed, runtimeVars, RestOK
<1>3. RestOK'
  BY <1>1, <1>2 DEF RestOK, GuardClosed, runtimeVars, asyncVars, callVars, taskVars
<1>4. QED
  BY <1>1, <1>2, <1>3

(* The end of a replied task.                                              *)
LEMMA ReplyWrittenType ==
  ASSUME IInv, ReplyWritten
  PROVE  IInv'
<1> USE DEF IInv
<1>1. StackOK' /\ flags' \subseteq {"DESTROYING", "CLEANUP"} /\ UNCHANGED <<events, ret>>
  BY SessionDestroyType DEF ReplyWritten
<1>2. StatusOK'
  BY StatusStutter, SMTT(30) DEF ReplyWritten, runtimeVars
<1>3. RestOK'
  BY <1>1 DEF RestOK, ReplyWritten, runtimeVars, asyncVars, callVars, taskVars, procVars
<1>4. QED
  BY <1>1, <1>2, <1>3

(* The invariant is inductive.                                             *)

(* A fresh task satisfies the invariant: symcache_runtime::create counts   *)
(* the items of each bucket.                                               *)
LEMMA InitIInv == Init => IInv
<1> SUFFICES ASSUME Init
             PROVE  IInv
  OBVIOUS
<1> USE DEF Init, SessionInit, RuntimeInit
<1>1. StackOK
  BY DEF StackOK
<1>2. ASSUME NEW b \in 1..NBuckets
      PROVE  /\ InitialPending(b) \in Nat
             /\ InitialPending(b) = Cardinality({i \in Items : Bucket[i] = b /\ ~Done(i)})
  <2>1. {i \in Items : Bucket[i] = b /\ ~Done(i)} = {i \in Items : Bucket[i] = b}
    BY DEF Done, DoneStatuses
  <2>2. Cardinality({i \in Items : Bucket[i] = b}) \in Nat
    BY ItemsAssumption, FS_Subset, FS_CardinalityType, Zenon
  <2>3. QED
    BY <2>1, <2>2 DEF InitialPending
<1>3. StatusOK
  BY <1>2, Zenon DEF StatusOK, BucketAccounting, Statuses
<1>4. budget \in 0..MaxOps /\ curStage \in Stages \cup {NoStage}
  BY BoundsAssumption
<1>5. async \in [Items -> Nat] /\ ncalls \in [Items -> Nat] /\ inflight \in Nat /\ replies \in Nat
  OBVIOUS
<1>6. /\ events \subseteq Event /\ force \subseteq Items /\ running \subseteq Items
      /\ flags \subseteq {"DESTROYING", "CLEANUP"} /\ processed \subseteq 0..REPLIED
  OBVIOUS
<1>7. RestOK
  BY <1>4, <1>5, <1>6, Zenon DEF RestOK
<1>8. QED
  BY <1>1, <1>3, <1>7 DEF IInv

(* Every step keeps it.                                                    *)
LEMMA NextIInv == IInv /\ [Next]_vars => IInv'
<1> SUFFICES ASSUME IInv, [Next]_vars
             PROVE  IInv'
  OBVIOUS
<1>1. CASE UNCHANGED vars
  <2>1. UNCHANGED <<sessionVars, loopVars, runtimeVars, taskVars, procVars>>
    BY <1>1 DEF vars
  <2>2. StatusOK'
    BY <2>1, StatusStutter, SMTT(30) DEF IInv, runtimeVars
  <2>3. StackOK' /\ RestOK'
    BY <2>1 DEF IInv, StackOK, RestOK, sessionVars, loopVars, runtimeVars, asyncVars,
                callVars, taskVars, procVars
  <2>4. QED
    BY <2>2, <2>3 DEF IInv
<1>2. CASE TaskStep
  BY SMTT(30), <1>2, TaskProcessNestedType, TaskProcessSymbolsType,
     TaskProcessStatType, TaskProcessOtherType, TaskProcessEndType,
     TaskFinType, TaskFinEndType, TaskFreeType, FinishReadType DEF TaskStep
<1>3. CASE SessionStep /\ UNCHANGED procVars
  BY <1>3, RemoveEventType, PendingType, CleanupType, SMTT(30) DEF SessionStep
<1>4. CASE RuntimeStep /\ UNCHANGED procVars
  <2>1. ASSUME \/ ProcessSymbols \/ StageBucket \/ StageItem \/ StageItemDeps \/ StageBucketEnd
               \/ CheckItemDeps \/ CheckItemDepsRec \/ CheckItemDepsSymbol
               \/ ProcessSymbolRefused \/ ProcessSymbolNotAllowed \/ ProcessSymbolStart
               \/ ProcessSymbolReturn
        PROVE  IInv'
    BY SMTT(30), <1>4, <2>1, ProcessSymbolsType, StageBucketType,
       StageItemType, StageItemDepsType, StageBucketEndType, CheckItemDepsType,
       CheckItemDepsRecType, CheckItemDepsSymbolType, ProcessSymbolRefusedType,
       ProcessSymbolNotAllowedType, ProcessSymbolStartType,
       ProcessSymbolReturnType
  <2>2. ASSUME \/ AsyncDecCheck \/ FinalizeItem \/ ProcessItemRdeps \/ ProcessItemRdepsDeps
               \/ RuleReturn \/ RuleRequest \/ RuleSyncRequest \/ RuleLeak \/ RuleScore
               \/ RulePreResult \/ RuleWhitelist \/ DisableSymbol \/ EnableSymbol
               \/ RuleEnableOnly \/ ForceEnable
               \/ EventFin \/ Composites
        PROVE  IInv'
    BY SMTT(30), <1>4, <2>2, AsyncDecCheckType, FinalizeItemType,
       ProcessItemRdepsType, ProcessItemRdepsDepsType, RuleReturnType,
       RuleRequestType, RuleSyncRequestType, RuleLeakType, RuleScoreType,
       RulePreResultType, RuleWhitelistType, DisableSymbolType,
       EnableSymbolType, RuleEnableOnlyType, ForceEnableType, EventFinType,
       CompositesType
  <2>3. QED
    BY <1>4, <2>1, <2>2, SMTT(30) DEF RuntimeStep
<1>5. CASE BodyHandler \/ TaskTimeout \/ GuardClosed \/ ReplyWritten
  BY <1>5, BodyHandlerType, TaskTimeoutType, GuardClosedType, ReplyWrittenType, SMTT(30)
<1>6. CASE \E e \in Event : EventCompleted(e)
  BY <1>6, EventCompletedType
<1>7. CASE Released
  BY <1>1, <1>7 DEF Released
<1>8. QED
  BY SMTT(30), <1>1, <1>2, <1>3, <1>4, <1>5, <1>6, <1>7 DEF Next, Step

(* The inductive invariant holds of every scan.                            *)
THEOREM Invariance == Spec => []IInv
<1>1. QED
  BY InitIInv, NextIInv, PTL DEF Spec

(* Every variable keeps its type and no call on the stack refers to an     *)
(* item, a bucket or a dependency the plan does not have: process_stage,   *)
(* check_item_deps and process_item_rdeps stay in bounds, for every plan.  *)
THEOREM TypeCorrect == Spec => []TypeOK
<1>1. IInv => TypeOK
  BY SMTT(30) DEF IInv, StackOK, StatusOK, RestOK, TypeOK
<1>2. QED
  BY <1>1, Invariance, PTL

(* The counters of the buckets are exact, for every plan and whatever the  *)
(* rules do.                                                               *)
THEOREM BucketsCounted == Spec => []BucketAccounting
<1>1. IInv => BucketAccounting
  BY DEF IInv, StatusOK
<1>2. QED
  BY <1>1, Invariance, PTL

-----------------------------------------------------------------------------
(* Levels.                                                                 *)

(* An item starts in process_symbol and nowhere else.                      *)
LEMMA OnlyProcessSymbolStarts ==
  ASSUME [Next]_vars
  PROVE  ProcessSymbolStart \/ UNCHANGED ncalls
<1> USE DEF callVars, runtimeVars
<1>1. TaskStep => UNCHANGED ncalls
  BY Zenon DEF TaskStep, TaskProcessNested, TaskProcessSymbols, TaskProcessStat, TaskProcessOther,
         StartStage, TaskProcessEnd, TaskFin, TaskFinEnd, TaskFree, FinishRead
<1>2. SessionStep => UNCHANGED ncalls
  BY DEF SessionStep
<1>3. \/ ProcessSymbols \/ StageBucket \/ StageItem \/ StageItemDeps \/ StageBucketEnd
      \/ CheckItemDeps \/ CheckItemDepsRec \/ CheckItemDepsSymbol
      \/ ProcessSymbolRefused \/ ProcessSymbolNotAllowed \/ ProcessSymbolReturn
      => UNCHANGED ncalls
  BY Zenon DEF ProcessSymbols, StageBucket, StageItem, StageItemDeps, StageBucketEnd,
         CheckItemDeps, CheckItemDepsRec, CheckItemDepsSymbol,
         ProcessSymbolRefused, ProcessSymbolNotAllowed, ProcessSymbolReturn
<1>4. \/ AsyncDecCheck \/ FinalizeItem \/ ProcessItemRdeps \/ ProcessItemRdepsDeps
      \/ RuleReturn \/ RuleRequest \/ RuleSyncRequest \/ RuleLeak \/ RuleScore
      \/ RulePreResult \/ RuleWhitelist \/ DisableSymbol \/ EnableSymbol
      \/ RuleEnableOnly \/ ForceEnable \/ EventFin \/ Composites
      => UNCHANGED ncalls
  BY Zenon DEF AsyncDecCheck, FinalizeItem, ProcessItemRdeps, ProcessItemRdepsDeps,
         RuleReturn, RuleRequest, RuleSyncRequest, RuleLeak, RuleScore,
         RulePreResult, RuleWhitelist, DisableSymbol, EnableSymbol,
         RuleEnableOnly, ForceEnable, EventFin, Composites
<1>5. RuntimeStep => ProcessSymbolStart \/ UNCHANGED ncalls
  BY <1>3, <1>4 DEF RuntimeStep
<1>6. \/ BodyHandler \/ TaskTimeout \/ GuardClosed \/ ReplyWritten \/ Released
      \/ \E e \in Event : EventCompleted(e)
      => UNCHANGED ncalls
  BY Zenon DEF BodyHandler, TaskTimeout, GuardClosed, ReplyWritten, Released, EventCompleted, vars
<1>7. QED
  BY <1>1, <1>2, <1>5, <1>6, SMTT(30) DEF Next, Step, vars

(* A bucket with no pending items has only items that are done.            *)
LEMMA DrainedBucket ==
  ASSUME StatusOK, NEW j \in Items, Bucket[j] \in 1..NBuckets, bucketPending[Bucket[j]] = 0
  PROVE  Done(j)
<1> DEFINE L == {i \in Items : Bucket[i] = Bucket[j] /\ ~Done(i)}
<1>1. Cardinality(L) = 0
  BY DEF StatusOK, BucketAccounting
<1>2. IsFiniteSet(L)
  BY ItemsAssumption, FS_Subset, SMTT(30)
<1>3. L = {}
  <2> HIDE DEF L
  <2> QED BY <1>1, <1>2, FS_EmptySet, SMTT(30)
<1>4. QED
  BY <1>3, SMTT(30)

(* The barrier between the levels of a stage holds for every plan and every*)
(* behaviour of the rules: on all the paths that start an item (the stage  *)
(* loop, check_item_deps, process_item_rdeps) the items of the earlier     *)
(* levels are done, or the session has no event that could finish them.    *)
THEOREM LevelsAreBarriers == Spec => LevelBarrier
<1> DEFINE Barrier == \A i, j \in Items :
                        /\ Starts(i)
                        /\ Bucket[j] \in 1..(Bucket[i] - 1)
                        /\ StageOf(j) = StageOf(i)
                        => ~HasEvents \/ Done(j)
<1>1. ASSUME IInv, [Next]_vars
      PROVE  Barrier
  <2>1. SUFFICES ASSUME NEW i \in Items, NEW j \in Items, Starts(i),
                        Bucket[j] \in 1..(Bucket[i] - 1), StageOf(j) = StageOf(i), HasEvents
                 PROVE  Done(j)
    BY SMTT(30)
  <2>2. ncalls \in [Items -> Nat] /\ StatusOK
    BY <1>1, SMTT(30) DEF IInv, RestOK
  <2>3. ProcessSymbolStart
    BY <1>1, <2>1, <2>2, OnlyProcessSymbolStarts, SMTT(30) DEF Starts
  <2>4. ncalls' = [ncalls EXCEPT ![Top.item] = @ + 1] /\ MayStart(Top.item)
    BY <2>3, SMTT(30) DEF ProcessSymbolStart, StartItem
  <2>5. i = Top.item
    BY <2>1, <2>2, <2>4, SMTT(30) DEF Starts
  <2>6. Bucket[i] \in 1..NBuckets /\ Bucket[j] \in 1..NBuckets /\ Bucket[j] < Bucket[i]
    <3>1. Bucket[i] \in 0..NBuckets /\ Bucket[j] \in 0..NBuckets /\ NBuckets \in Nat
      BY PlanAssumption
    <3>2. QED
      BY <2>1, <3>1, SMTT(30)
  <2>7. Bucket[j] \in StageBuckets(BStage[Bucket[i]])
    BY <2>1, <2>6, SMTT(30) DEF StageOf, StageBuckets
  <2>8. bucketPending[Bucket[j]] = 0
    BY <2>1, <2>4, <2>5, <2>6, <2>7, SMTT(30) DEF MayStart, IsBucketOpen
  <2>9. QED
    BY <2>2, <2>6, <2>8, DrainedBucket, SMTT(30)
<1>2. QED
  BY <1>1, Invariance, PTL DEF Spec, LevelBarrier

-----------------------------------------------------------------------------
(* The flow of control: which call runs on top of which, and what wakes a  *)
(* scan up.                                                                *)

(* The calls of process_symbols.                                           *)
StageOps == {"process_symbols", "bucket", "stage", "stage_deps"}

(* The calls of rspamd_task_process.                                       *)
ProcessOps == {"process", "process2"}

(* The calls of the scheduler and of the rules that no caller above waits  *)
(* for to decide on the task.                                              *)
PlainOps == {"deps", "deps_rec", "deps_symbol", "symbol", "symbol_ret", "dec_check",
             "finalize", "rdeps", "rdeps_deps", "rule", "force_enable", "fin",
             "composites", "remove"}

(* The frame f may run on top of g, or with nothing below.                 *)
Over(f, g) ==
  /\ g.op = "task_fin2" => f.op \in ProcessOps
  /\ g.op = "process2" /\ g.b = 1 => f.op \in StageOps
  /\ f.op \in ProcessOps => g.op \in {"task_fin2", "finish", "pending"}
  /\ f.op = "cleanup" => g.op \in {"process", "free"}

(* The frame f may be the first call of a callback.                        *)
Alone(f) == f.op \notin ProcessOps \cup {"cleanup"}

(* The frame f may be called on the stack s.                               *)
Fits(f, s) == (s = <<>> => Alone(f)) /\ (s # <<>> => Over(f, Head(s)))

(* Every frame of the stack may be called by the one below it.             *)
Flow(s) ==
  \A n \in 1..Len(s) : IF n = Len(s) THEN Alone(s[n]) ELSE Over(s[n], s[n + 1])

(* There is one walk over the events at most.                              *)
OneCleanup(s) ==
  \A m, n \in 1..Len(s) : s[m].op = "cleanup" /\ s[n].op = "cleanup" => m = n

(* The frames of a stack.                                                  *)
Frames(s) == {s[n] : n \in 1..Len(s)}

(* Executing the frame leads to a reply or leaves an event behind.         *)
Wakes(f, done) ==
  \/ f.op \in {"process", "process2", "pending", "task_fin", "free", "abort"}
  \/ done /\ f.op \in {"task_fin2", "finish"}

(* The calls nest as the code nests them.                                  *)
StackInv ==
  /\ Flow(stack) /\ OneCleanup(stack)
  /\ \A f \in Frames(stack) : f.op = "cleanup" => "CLEANUP" \in flags

(* A result that is looked at was returned with what it stands for.        *)
Landed ==
  /\ TopIs("task_fin2") => ret \/ IsProcessed
  /\ TopIs("process2") /\ Top.b = 1 => ret \/ HasEvents

(* The flag is set by a call that is going to clear it.                    *)
ProcessingInv ==
  processing => \E f \in Frames(stack) : f.op \in {"process2", "abort"}

(* A scan that has not been replied to has an event or a call to make.     *)
WakeInv ==
  conn = "scanning" =>
    HasEvents \/ REPLIED \in processed \/ \E f \in Frames(stack) : Wakes(f, IsProcessed)

(* An enabled slow timer has its event, and a cleanup will get to it.      *)
SlowInv ==
  slow = "enabled" =>
    \/ TopIs("abort")
    \/ TopIs("fin") /\ Top.kind = "slow"
    \/ \E e \in events :
         e.kind = "slow" /\ \A f \in Frames(stack) : f.op = "cleanup" => e \in f.todo

(* The replies, and the stage that marks one.                              *)
ReplyInv ==
  /\ replies = (IF REPLIED \in processed THEN 1 ELSE 0)
  /\ REPLIED \in processed => IsProcessed

(* The inductive invariant of the flow of control.                         *)
FlowInv == StackInv /\ Landed /\ ProcessingInv /\ WakeInv /\ SlowInv /\ ReplyInv

(* A stack with no frames.                                                 *)
LEMMA EmptyStack ==
  ASSUME NEW S, NEW s \in Seq(S)
  PROVE  (s = <<>> <=> Len(s) = 0) /\ (s # <<>> => Head(s) = s[1]) /\ Len(s) \in Nat
OBVIOUS

(* The frame on top returns.                                               *)
LEMMA PopFlow ==
  ASSUME NEW S, NEW s \in Seq(S), s # <<>>
  PROVE  /\ Frames(s) = {Head(s)} \cup Frames(Tail(s))
         /\ Flow(s) => Flow(Tail(s)) /\ Fits(Head(s), Tail(s))
         /\ OneCleanup(s) =>
              /\ OneCleanup(Tail(s))
              /\ Head(s).op = "cleanup" => \A f \in Frames(Tail(s)) : f.op # "cleanup"
<1> DEFINE t == Tail(s)
<1>1. /\ t \in Seq(S) /\ Len(s) \in Nat /\ Len(t) = Len(s) - 1 /\ Len(s) >= 1
      /\ Head(s) = s[1] /\ \A n \in 1..Len(t) : t[n] = s[n + 1]
  OBVIOUS
<1> HIDE DEF t
<1>2. (t = <<>> <=> Len(t) = 0) /\ Len(t) \in Nat
  BY <1>1, EmptyStack, Zenon
<1>3. t # <<>> => Head(t) = t[1]
  BY <1>1, EmptyStack, Zenon
<1>4. Frames(s) = {Head(s)} \cup Frames(t)
  <2>1. ASSUME NEW n \in 1..Len(s) PROVE s[n] = Head(s) \/ s[n] \in Frames(t)
    <3>1. n = 1 \/ (n - 1 \in 1..Len(t) /\ n = (n - 1) + 1)
      BY <1>1
    <3> QED
      BY <1>1, <3>1, ZenonT(60) DEF Frames
  <2>2. ASSUME NEW n \in 1..Len(t) PROVE t[n] \in Frames(s)
    <3>1. n + 1 \in 1..Len(s)
      BY <1>1
    <3> QED
      BY <1>1, <3>1, Zenon DEF Frames
  <2>3. s[1] \in Frames(s)
    <3>1. 1 \in 1..Len(s)
      BY <1>1
    <3> QED
      BY <3>1, Zenon DEF Frames
  <2> QED
    BY <1>1, <2>1, <2>2, <2>3, Zenon DEF Frames
<1>5. ASSUME Flow(s) PROVE Flow(t) /\ Fits(Head(s), t)
  <2>1. Flow(t)
    BY <1>1, <1>5, SMTT(30) DEF Flow
  <2>2. CASE Len(t) = 0
    <3>1. 1 \in 1..Len(s) /\ 1 = Len(s)
      BY <1>1, <2>2
    <3>2. Alone(s[1])
      BY <1>5, <3>1, Zenon DEF Flow
    <3>3. t = <<>>
      BY <1>2, <2>2, Zenon
    <3>4. Alone(Head(s))
      BY <1>1, <3>2, Zenon
    <3> QED
      BY <2>1, <3>3, <3>4, Zenon DEF Fits
  <2>3. CASE Len(t) # 0
    <3>1. 1 \in 1..Len(s) /\ 1 # Len(s) /\ t[1] = s[1 + 1]
      BY <1>1, <2>3
    <3>2. Over(s[1], s[1 + 1])
      BY <1>5, <3>1, Zenon DEF Flow
    <3>3. t # <<>> /\ Head(t) = s[1 + 1]
      BY <1>2, <1>3, <2>3, <3>1, Zenon
    <3>4. Over(Head(s), Head(t))
      BY <1>1, <3>2, <3>3, Zenon
    <3> QED
      BY <2>1, <3>3, <3>4, Zenon DEF Fits
  <2> QED
    BY <2>1, <2>2, <2>3, SMTT(30)
<1>6. ASSUME OneCleanup(s)
      PROVE  /\ OneCleanup(t)
             /\ Head(s).op = "cleanup" => \A f \in Frames(t) : f.op # "cleanup"
  <2>1. \A n \in 1..Len(t) : n + 1 \in 1..Len(s) /\ n + 1 # 1
    BY <1>1
  <2>2. \A m, n \in 1..Len(t) : m + 1 = n + 1 => m = n
    BY <1>1
  <2>3. 1 \in 1..Len(s)
    BY <1>1
  <2>4. ASSUME NEW m \in 1..Len(t), NEW n \in 1..Len(t),
               t[m].op = "cleanup", t[n].op = "cleanup"
        PROVE  m = n
    <3>1. s[m + 1].op = "cleanup" /\ s[n + 1].op = "cleanup"
      BY <1>1, <2>4, Zenon
    <3> QED
      BY <1>6, <2>1, <2>2, <3>1, Zenon DEF OneCleanup
  <2>5. ASSUME Head(s).op = "cleanup", NEW n \in 1..Len(t) PROVE t[n].op # "cleanup"
    BY <1>1, <1>6, <2>1, <2>3, <2>5, Zenon DEF OneCleanup
  <2> QED
    BY <2>4, <2>5, Zenon DEF Frames, OneCleanup
<1> QED
  BY <1>4, <1>5, <1>6 DEF t

(* One call is made.                                                       *)
LEMMA PushFlow ==
  ASSUME NEW S, NEW s \in Seq(S), NEW f
  PROVE  /\ <<f>> \o s # <<>> /\ Head(<<f>> \o s) = f
         /\ Frames(<<f>> \o s) = {f} \cup Frames(s)
         /\ Flow(s) /\ Fits(f, s) => Flow(<<f>> \o s)
         /\ /\ OneCleanup(s)
            /\ f.op = "cleanup" => \A g \in Frames(s) : g.op # "cleanup"
            => OneCleanup(<<f>> \o s)
<1> DEFINE t == <<f>> \o s
<1>1. /\ Len(s) \in Nat /\ Len(t) = Len(s) + 1 /\ t[1] = f
      /\ \A n \in 1..Len(s) : t[n + 1] = s[n]
  OBVIOUS
<1>2. t # <<>> /\ Head(t) = f
  OBVIOUS
<1>3. s = <<>> <=> Len(s) = 0
  OBVIOUS
<1>4. s # <<>> => Head(s) = s[1]
  OBVIOUS
<1> HIDE DEF t
<1>5. Frames(t) = {f} \cup Frames(s)
  <2>1. ASSUME NEW n \in 1..Len(t) PROVE t[n] = f \/ t[n] \in Frames(s)
    <3>1. n = 1 \/ (n - 1 \in 1..Len(s) /\ n = (n - 1) + 1)
      BY <1>1
    <3> QED
      BY <1>1, <3>1, ZenonT(60) DEF Frames
  <2>2. ASSUME NEW n \in 1..Len(s) PROVE s[n] \in Frames(t)
    <3>1. n + 1 \in 1..Len(t)
      BY <1>1
    <3> QED
      BY <1>1, <3>1, Zenon DEF Frames
  <2>3. f \in Frames(t)
    <3>1. 1 \in 1..Len(t)
      BY <1>1
    <3> QED
      BY <1>1, <3>1, Zenon DEF Frames
  <2> QED
    BY <2>1, <2>2, <2>3, Zenon DEF Frames
<1>6. ASSUME Flow(s), Fits(f, s) PROVE Flow(t)
  <2> SUFFICES ASSUME NEW n \in 1..Len(t)
               PROVE  IF n = Len(t) THEN Alone(t[n]) ELSE Over(t[n], t[n + 1])
    BY DEF Flow
  <2>1. CASE n = 1 /\ Len(s) = 0
    BY <1>1, <1>3, <1>6, <2>1 DEF Fits
  <2>2. CASE n = 1 /\ Len(s) # 0
    <3>1. t[n + 1] = s[1] /\ n # Len(t)
      BY <1>1, <2>2
    <3>2. Over(f, s[1])
      BY <1>3, <1>4, <1>6, <2>2, Zenon DEF Fits
    <3> QED
      BY <1>1, <2>2, <3>1, <3>2, Zenon
  <2>3. CASE n # 1
    <3>1. /\ n - 1 \in 1..Len(s) /\ t[n] = s[n - 1] /\ (n = Len(t) <=> n - 1 = Len(s))
          /\ n # Len(t) => t[n + 1] = s[(n - 1) + 1]
      <4>1. n - 1 \in 1..Len(s) /\ n = (n - 1) + 1
        BY <1>1, <2>3, SMTT(30)
      <4>2. n # Len(t) => n \in 1..Len(s) /\ n = (n - 1) + 1
        BY <1>1
      <4>3. t[(n - 1) + 1] = s[n - 1]
        BY <1>1, <4>1, Zenon
      <4>4. n = Len(t) <=> n - 1 = Len(s)
        BY <1>1
      <4> QED
        BY <1>1, <4>1, <4>2, <4>3, <4>4, SMTT(30)
    <3> QED
      BY <1>6, <3>1, SMTT(30) DEF Flow
  <2> QED
    BY <2>1, <2>2, <2>3, Zenon
<1>7. ASSUME OneCleanup(s), f.op = "cleanup" => \A g \in Frames(s) : g.op # "cleanup"
      PROVE  OneCleanup(t)
  <2>1. \A n \in 1..Len(t) : n = 1 \/ (n - 1 \in 1..Len(s) /\ t[n] = s[n - 1])
    BY <1>1
  <2>2. \A m, n \in 1..Len(t) : m - 1 = n - 1 => m = n
    BY <1>1
  <2>3. \A n \in 1..Len(s) : f.op = "cleanup" => s[n].op # "cleanup"
    BY <1>7, Zenon DEF Frames
  <2> SUFFICES ASSUME NEW m \in 1..Len(t), NEW n \in 1..Len(t),
                      t[m].op = "cleanup", t[n].op = "cleanup"
               PROVE  m = n
    BY Zenon DEF OneCleanup
  <2>4. CASE m = 1 \/ n = 1
    BY <1>1, <2>1, <2>3, <2>4, Zenon
  <2>5. CASE m # 1 /\ n # 1
    BY <1>7, <2>1, <2>2, <2>5, Zenon DEF OneCleanup
  <2> QED
    BY <2>4, <2>5, Zenon
<1> QED
  BY <1>2, <1>5, <1>6, <1>7, Zenon DEF t

(* Two stacks with the same frames.                                        *)
LEMMA SameStack ==
  ASSUME NEW S, NEW s \in Seq(S), NEW t \in Seq(S), Len(s) = Len(t),
         \A n \in 1..Len(s) : s[n] = t[n]
  PROVE  s = t
OBVIOUS

(* Two calls are made.                                                     *)
LEMMA PushTwoFlow ==
  ASSUME NEW S, NEW s \in Seq(S), NEW f, NEW g
  PROVE  /\ <<f, g>> \o s # <<>> /\ Head(<<f, g>> \o s) = f
         /\ Frames(<<f, g>> \o s) = {f, g} \cup Frames(s)
         /\ Flow(s) /\ Fits(g, s) /\ Over(f, g) => Flow(<<f, g>> \o s)
         /\ /\ OneCleanup(s) /\ f.op # "cleanup"
            /\ g.op = "cleanup" => \A h \in Frames(s) : h.op # "cleanup"
            => OneCleanup(<<f, g>> \o s)
<1> DEFINE t == <<g>> \o s
           T == S \cup {f, g}
<1>1. t \in Seq(T) /\ <<f, g>> \o s = <<f>> \o t
  <2>1. s \in Seq(T) /\ f \in T /\ g \in T
    OBVIOUS
  <2> HIDE DEF T
  <2>2. <<f>> \in Seq(T) /\ <<g>> \in Seq(T) /\ <<f, g>> \in Seq(T)
    BY <2>1
  <2>3. t \in Seq(T)
    BY <2>1, <2>2
  <2>4. <<f, g>> \o s \in Seq(T) /\ <<f>> \o t \in Seq(T)
    BY <2>1, <2>2, <2>3, SMTT(30)
  <2>5. Len(<<f, g>> \o s) = Len(s) + 2 /\ Len(<<f>> \o t) = Len(s) + 2
    BY <2>1, <2>2, <2>3, SMTT(30)
  <2>6. \A n \in 1..(Len(s) + 2) : (<<f, g>> \o s)[n] = (<<f>> \o t)[n]
    BY <2>1, <2>2, <2>3
  <2> QED
    BY <2>3, <2>4, <2>5, <2>6, SameStack, Zenon
<1>2. /\ t # <<>> /\ Head(t) = g
      /\ Frames(t) = {g} \cup Frames(s)
      /\ Flow(s) /\ Fits(g, s) => Flow(t)
      /\ OneCleanup(s) /\ (g.op = "cleanup" => \A h \in Frames(s) : h.op # "cleanup")
           => OneCleanup(t)
  BY PushFlow, Zenon
<1> HIDE DEF t, T
<1>3. /\ <<f>> \o t # <<>> /\ Head(<<f>> \o t) = f
      /\ Frames(<<f>> \o t) = {f} \cup Frames(t)
      /\ Flow(t) /\ Fits(f, t) => Flow(<<f>> \o t)
      /\ OneCleanup(t) /\ (f.op = "cleanup" => \A h \in Frames(t) : h.op # "cleanup")
           => OneCleanup(<<f>> \o t)
  BY <1>1, PushFlow, Zenon
<1>4. Over(f, g) => Fits(f, t)
  BY <1>2, Zenon DEF Fits
<1>5. Frames(<<f>> \o t) = {f, g} \cup Frames(s)
  BY <1>2, <1>3, Zenon
<1> QED
  BY <1>1, <1>2, <1>3, <1>4, <1>5, Zenon

(* Three calls are made.                                                   *)
LEMMA PushThreeFlow ==
  ASSUME NEW S, NEW s \in Seq(S), NEW f, NEW g, NEW h
  PROVE  /\ <<f, g, h>> \o s # <<>> /\ Head(<<f, g, h>> \o s) = f
         /\ Frames(<<f, g, h>> \o s) = {f, g, h} \cup Frames(s)
         /\ Flow(s) /\ Fits(h, s) /\ Over(f, g) /\ Over(g, h) => Flow(<<f, g, h>> \o s)
         /\ OneCleanup(s) /\ f.op # "cleanup" /\ g.op # "cleanup" /\ h.op # "cleanup"
              => OneCleanup(<<f, g, h>> \o s)
<1> DEFINE t == <<g, h>> \o s
           T == S \cup {f, g, h}
<1>1. t \in Seq(T) /\ <<f, g, h>> \o s = <<f>> \o t
  <2>1. s \in Seq(T) /\ f \in T /\ g \in T /\ h \in T
    OBVIOUS
  <2> HIDE DEF T
  <2>2. <<f>> \in Seq(T) /\ <<g, h>> \in Seq(T) /\ <<f, g, h>> \in Seq(T)
    BY <2>1
  <2>3. t \in Seq(T)
    BY <2>1, <2>2, SMTT(30)
  <2>4. <<f, g, h>> \o s \in Seq(T) /\ <<f>> \o t \in Seq(T)
    BY <2>1, <2>2, <2>3, SMTT(30)
  <2>5. Len(<<f, g, h>> \o s) = Len(s) + 3 /\ Len(<<f>> \o t) = Len(s) + 3
    BY <2>1, <2>2, <2>3, SMTT(30)
  <2>6. \A n \in 1..(Len(s) + 3) : (<<f, g, h>> \o s)[n] = (<<f>> \o t)[n]
    BY <2>1, <2>2, <2>3, SMTT(30)
  <2> QED
    BY <2>3, <2>4, <2>5, <2>6, SameStack, ZenonT(60)
<1>2. /\ t # <<>> /\ Head(t) = g
      /\ Frames(t) = {g, h} \cup Frames(s)
      /\ Flow(s) /\ Fits(h, s) /\ Over(g, h) => Flow(t)
      /\ OneCleanup(s) /\ g.op # "cleanup" /\ h.op # "cleanup" => OneCleanup(t)
  BY PushTwoFlow, Zenon
<1> HIDE DEF t, T
<1>3. /\ <<f>> \o t # <<>> /\ Head(<<f>> \o t) = f
      /\ Frames(<<f>> \o t) = {f} \cup Frames(t)
      /\ Flow(t) /\ Fits(f, t) => Flow(<<f>> \o t)
      /\ OneCleanup(t) /\ f.op # "cleanup" => OneCleanup(<<f>> \o t)
  BY <1>1, PushFlow, Zenon
<1>4. Over(f, g) => Fits(f, t)
  BY <1>2, Zenon DEF Fits
<1>5. Frames(<<f>> \o t) = {f, g, h} \cup Frames(s)
  BY <1>2, <1>3, Zenon
<1> QED
  BY <1>1, <1>2, <1>3, <1>4, <1>5, Zenon

(* A plain frame on top is replaced by plain frames.                       *)
PlainMoved ==
  /\ Flow(stack') /\ OneCleanup(stack')
  /\ Frames(Tail(stack)) \subseteq Frames(stack')
  /\ \A f \in Frames(stack') : f \in Frames(Tail(stack)) \/ f.op \in PlainOps
  /\ stack' # <<>> => Head(stack').op \in PlainOps \/ Fits(Top, stack')

(* The stack without the frame on top.                                     *)
LEMMA PlainPop ==
  ASSUME StackOK, StackInv, stack # <<>>
  PROVE  /\ Tail(stack) \in Seq(Frame) /\ stack \in Seq(Frame)
         /\ Flow(Tail(stack)) /\ OneCleanup(Tail(stack)) /\ Fits(Top, Tail(stack))
         /\ Frames(stack) = {Top} \cup Frames(Tail(stack))
         /\ Top.op = "cleanup" => \A f \in Frames(Tail(stack)) : f.op # "cleanup"
<1>1. stack \in Seq(Frame) /\ Flow(stack) /\ OneCleanup(stack)
  BY DEF StackOK, StackInv
<1>2. Tail(stack) \in Seq(Frame)
  BY <1>1
<1> QED
  BY <1>1, <1>2, PopFlow, Zenon DEF Top

(* Where a plain frame may be called.                                      *)
LEMMA PlainOver ==
  ASSUME NEW f, f.op \in PlainOps
  PROVE  /\ Alone(f) /\ f.op # "cleanup"
         /\ \A g : g.op \in PlainOps => Over(f, g)
         /\ \A g, s : g.op \in PlainOps /\ Fits(g, s) => Fits(f, s)
<1>1. Alone(f) /\ f.op \notin ProcessOps \cup StageOps \cup {"cleanup"}
  BY DEF PlainOps, Alone, ProcessOps, StageOps
<1>2. ASSUME NEW g, g.op \in PlainOps
      PROVE  g.op \notin ProcessOps \cup StageOps \cup {"cleanup", "task_fin2", "process2"}
  BY <1>2 DEF PlainOps, ProcessOps, StageOps
<1>3. \A g : g.op \in PlainOps => Over(f, g)
  BY <1>1, <1>2, Zenon DEF Over
<1>4. ASSUME NEW g, NEW s, g.op \in PlainOps, Fits(g, s) PROVE Fits(f, s)
  BY <1>1, <1>2, <1>4, Zenon DEF Fits, Over
<1> QED
  BY <1>1, <1>3, <1>4, Zenon

(* A plain frame returns.                                                  *)
LEMMA PlainReturn ==
  ASSUME StackOK, StackInv, stack # <<>>, Top.op \in PlainOps, stack' = Tail(stack)
  PROVE  PlainMoved
BY PlainPop, Zenon DEF PlainMoved

(* A plain frame is replaced by one.                                       *)
LEMMA PlainBecome ==
  ASSUME StackOK, StackInv, stack # <<>>, Top.op \in PlainOps,
         NEW f, f.op \in PlainOps, stack' = <<f>> \o Tail(stack)
  PROVE  PlainMoved
<1> DEFINE s == Tail(stack)
<1>1. s \in Seq(Frame) /\ Flow(s) /\ OneCleanup(s) /\ Fits(Top, s)
  BY PlainPop, Zenon
<1> HIDE DEF s
<1>2. Fits(f, s) /\ f.op # "cleanup"
  BY <1>1, PlainOver, Zenon
<1>3. stack' = <<f>> \o s
  BY DEF s
<1>4. Head(stack') = f /\ Frames(stack') = {f} \cup Frames(s) /\ Flow(stack') /\ OneCleanup(stack')
  BY <1>1, <1>2, <1>3, PushFlow, Zenon
<1> QED
  BY <1>4, Zenon DEF PlainMoved, s

(* A plain frame is replaced by two.                                       *)
LEMMA PlainBecomeTwo ==
  ASSUME StackOK, StackInv, stack # <<>>, Top.op \in PlainOps,
         NEW f, NEW g, f.op \in PlainOps, g.op \in PlainOps,
         stack' = <<f, g>> \o Tail(stack)
  PROVE  PlainMoved
<1> DEFINE s == Tail(stack)
<1>1. s \in Seq(Frame) /\ Flow(s) /\ OneCleanup(s) /\ Fits(Top, s)
  BY PlainPop, Zenon
<1> HIDE DEF s
<1>2. Fits(g, s) /\ Over(f, g) /\ f.op # "cleanup" /\ g.op # "cleanup"
  BY <1>1, PlainOver, Zenon
<1>3. stack' = <<f, g>> \o s
  BY DEF s
<1>4. /\ Head(stack') = f /\ Frames(stack') = {f, g} \cup Frames(s)
      /\ Flow(stack') /\ OneCleanup(stack')
  BY <1>1, <1>2, <1>3, PushTwoFlow, Zenon
<1> QED
  BY <1>4, Zenon DEF PlainMoved, s

(* A plain frame is replaced by three.                                     *)
LEMMA PlainBecomeThree ==
  ASSUME StackOK, StackInv, stack # <<>>, Top.op \in PlainOps,
         NEW f, NEW g, NEW h, f.op \in PlainOps, g.op \in PlainOps, h.op \in PlainOps,
         stack' = <<f, g, h>> \o Tail(stack)
  PROVE  PlainMoved
<1> DEFINE s == Tail(stack)
<1>1. s \in Seq(Frame) /\ Flow(s) /\ OneCleanup(s) /\ Fits(Top, s)
  BY PlainPop, Zenon
<1> HIDE DEF s
<1>2. /\ Fits(h, s) /\ Over(f, g) /\ Over(g, h)
      /\ f.op # "cleanup" /\ g.op # "cleanup" /\ h.op # "cleanup"
  BY <1>1, PlainOver, Zenon
<1>3. /\ Head(<<f, g, h>> \o s) = f /\ Frames(<<f, g, h>> \o s) = {f, g, h} \cup Frames(s)
      /\ Flow(<<f, g, h>> \o s) /\ OneCleanup(<<f, g, h>> \o s)
  BY <1>1, <1>2, PushThreeFlow, ZenonT(60)
<1>4. /\ Head(stack') = f /\ Frames(stack') = {f, g, h} \cup Frames(s)
      /\ Flow(stack') /\ OneCleanup(stack')
  BY <1>3, Zenon DEF s
<1> QED
  BY <1>4, Zenon DEF PlainMoved, s

(* The frame on top stays, plain frames may come before it.                *)
LEMMA PlainStay ==
  ASSUME StackOK, StackInv, stack # <<>>, Top.op \in PlainOps, stack' = stack
  PROVE  PlainMoved
BY PlainPop, Zenon DEF PlainMoved, StackInv, Top

(* A plain frame calls one.                                                *)
LEMMA PlainRun ==
  ASSUME StackOK, StackInv, stack # <<>>, Top.op \in PlainOps,
         NEW f, f.op \in PlainOps, stack' = <<f>> \o stack
  PROVE  PlainMoved
<1>1. stack \in Seq(Frame) /\ Flow(stack) /\ OneCleanup(stack)
  BY PlainPop, Zenon DEF StackInv
<1>2. Frames(stack) = {Top} \cup Frames(Tail(stack))
  BY PlainPop, Zenon
<1>3. Fits(f, stack) /\ f.op # "cleanup"
  BY PlainOver, Zenon DEF Fits, Top
<1>4. /\ Head(stack') = f /\ Frames(stack') = {f} \cup Frames(stack)
      /\ Flow(stack') /\ OneCleanup(stack')
  BY <1>1, <1>3, PushFlow, Zenon
<1> QED
  BY <1>2, <1>4, Zenon DEF PlainMoved

(* A plain frame calls three.                                              *)
LEMMA PlainRunThree ==
  ASSUME StackOK, StackInv, stack # <<>>, Top.op \in PlainOps,
         NEW f, NEW g, NEW h, f.op \in PlainOps, g.op \in PlainOps, h.op \in PlainOps,
         stack' = <<f, g, h>> \o stack
  PROVE  PlainMoved
<1> DEFINE s == stack
<1>1. s \in Seq(Frame) /\ Flow(s) /\ OneCleanup(s)
  BY PlainPop, Zenon DEF StackInv
<1>2. Frames(s) = {Top} \cup Frames(Tail(stack))
  BY PlainPop, Zenon
<1>3. Fits(h, s)
  BY PlainOver, Zenon DEF Fits, Top
<1>4. stack' = <<f, g, h>> \o s
  OBVIOUS
<1> HIDE DEF s
<1>5. Over(f, g) /\ Over(g, h) /\ f.op # "cleanup" /\ g.op # "cleanup" /\ h.op # "cleanup"
  BY PlainOver, Zenon
<1>6. /\ Head(<<f, g, h>> \o s) = f /\ Frames(<<f, g, h>> \o s) = {f, g, h} \cup Frames(s)
      /\ Flow(<<f, g, h>> \o s) /\ OneCleanup(<<f, g, h>> \o s)
  BY <1>1, <1>3, <1>5, PushThreeFlow, ZenonT(60)
<1>7. /\ Head(stack') = f /\ Frames(stack') = {f, g, h} \cup Frames(s)
      /\ Flow(stack') /\ OneCleanup(stack')
  BY <1>4, <1>6, Zenon
<1> QED
  BY <1>2, <1>7, Zenon DEF PlainMoved

(* The calls that decide nothing about the task.                           *)
QuietOps == PlainOps \cup StageOps

(* A frame that decides nothing is replaced by such frames.                *)
QuietMoved ==
  /\ Flow(stack') /\ OneCleanup(stack')
  /\ Frames(Tail(stack)) \subseteq Frames(stack')
  /\ \A f \in Frames(stack') : f \in Frames(Tail(stack)) \/ f.op \in QuietOps
  /\ stack' # <<>> =>
       \/ Head(stack').op \in QuietOps
       \/ Fits(Top, stack') /\ (Top.op \in PlainOps \/ ret' \/ HasEvents')

(* A step of such a call keeps the invariant.                              *)
LEMMA QuietKeeps ==
  ASSUME FlowInv, StackOK, stack # <<>>, Top.op \in QuietOps, QuietMoved,
         UNCHANGED procVars, flags' = flags, events \subseteq events',
         \/ slow' # "enabled"
         \/ slow = "enabled" /\ ~(Top.op = "fin" /\ Top.kind = "slow")
         \/ flags = {} /\ \E e \in events' : e.kind = "slow"
  PROVE  FlowInv'
<1>1. StackInv /\ Frames(stack) = {Top} \cup Frames(Tail(stack))
  BY PlainPop, Zenon DEF FlowInv
<1>2. /\ Flow(stack') /\ OneCleanup(stack')
      /\ Frames(Tail(stack)) \subseteq Frames(stack')
      /\ \A f \in Frames(stack') : f \in Frames(Tail(stack)) \/ f.op \in QuietOps
      /\ stack' # <<>> =>
           \/ Head(stack').op \in QuietOps
           \/ Fits(Top, stack') /\ (Top.op \in PlainOps \/ ret' \/ HasEvents')
  BY Zenon DEF QuietMoved
<1>3. /\ "cleanup" \notin QuietOps /\ "task_fin2" \notin QuietOps /\ "process2" \notin QuietOps
      /\ "abort" \notin QuietOps
      /\ \A f, done : f.op \in QuietOps => ~Wakes(f, done)
      /\ \A f : f.op \in QuietOps => f.op \notin ProcessOps
      /\ \A f : f.op \in PlainOps => f.op \notin StageOps
  BY DEF QuietOps, PlainOps, Wakes, ProcessOps, StageOps
<1>4. \A f \in Frames(stack') : f.op = "cleanup" => f \in Frames(stack)
  BY <1>1, <1>2, <1>3, Zenon
<1>5. /\ processed' = processed /\ processing' = processing /\ conn' = conn /\ replies' = replies
  BY DEF procVars
<1>6. StackInv'
  BY <1>1, <1>2, <1>4, Zenon DEF StackInv
<1>7. Landed'
  <2> SUFFICES ASSUME stack' # <<>>, Head(stack').op = "task_fin2"
                      \/ (Head(stack').op = "process2" /\ Head(stack').b = 1)
               PROVE  Head(stack').op # "task_fin2" /\ (ret' \/ HasEvents')
    BY Zenon DEF Landed, TopIs, Top
  <2>1. Over(Top, Head(stack')) /\ (Top.op \in PlainOps \/ ret' \/ HasEvents')
    BY <1>2, <1>3, Zenon DEF Fits
  <2> QED
    BY <1>3, <2>1, Zenon DEF Over
<1>8. ProcessingInv'
  BY <1>1, <1>2, <1>3, <1>5, Zenon DEF FlowInv, ProcessingInv
<1>9. WakeInv'
  BY <1>1, <1>2, <1>3, <1>5, Zenon DEF FlowInv, WakeInv, HasEvents, IsProcessed
<1>10. SlowInv'
  <2>1. CASE slow' # "enabled"
    BY <2>1, Zenon DEF SlowInv
  <2>2. CASE slow = "enabled" /\ ~(Top.op = "fin" /\ Top.kind = "slow")
    <3>1. PICK e \in events : e.kind = "slow" /\ \A f \in Frames(stack) : f.op = "cleanup" => e \in f.todo
      BY <1>3, <2>2, Zenon DEF FlowInv, SlowInv, TopIs
    <3> QED
      BY <1>4, <3>1, Zenon DEF SlowInv
  <2>3. CASE flags = {} /\ \E e \in events' : e.kind = "slow"
    <3>1. \A f \in Frames(stack') : f.op # "cleanup"
      BY <1>1, <1>4, <2>3, Zenon DEF StackInv
    <3> QED
      BY <2>3, <3>1, Zenon DEF SlowInv
  <2> QED
    BY <2>1, <2>2, <2>3, Zenon
<1>11. ReplyInv'
  BY <1>5, Zenon DEF FlowInv, ReplyInv, IsProcessed
<1> QED
  BY <1>6, <1>7, <1>8, <1>9, <1>10, <1>11, ZenonT(60) DEF FlowInv

(* A step of a plain call keeps the invariant.                             *)
LEMMA PlainKeeps ==
  ASSUME FlowInv, StackOK, stack # <<>>, Top.op \in PlainOps, PlainMoved,
         UNCHANGED procVars, flags' = flags, events \subseteq events',
         \/ slow' # "enabled"
         \/ slow = "enabled" /\ ~(Top.op = "fin" /\ Top.kind = "slow")
         \/ flags = {} /\ \E e \in events' : e.kind = "slow"
  PROVE  FlowInv'
<1>1. PlainOps \subseteq QuietOps
  BY Zenon DEF QuietOps
<1>2. QuietMoved /\ Top.op \in QuietOps
  BY <1>1, Zenon DEF QuietMoved, PlainMoved
<1> QED
  BY <1>2, QuietKeeps, Zenon

(* A failed assertion keeps the invariant.                                 *)
LEMMA AbortKeeps ==
  ASSUME FlowInv, stack' = <<Call("abort")>>, UNCHANGED procVars
  PROVE  FlowInv'
<1> DEFINE a == Call("abort")
<1>1. a.op = "abort"
  BY DEF Call, F0
<1> HIDE DEF a
<1>2. stack' = <<a>>
  BY DEF a
<1>3. Len(<<a>>) = 1 /\ <<a>>[1] = a /\ Head(<<a>>) = a /\ <<a>> # <<>> /\ 1..1 = {1}
  OBVIOUS
<1>4. Frames(<<a>>) = {a}
  BY <1>3, Zenon DEF Frames
<1>5. Flow(<<a>>) /\ OneCleanup(<<a>>)
  BY <1>1, <1>3 DEF Flow, OneCleanup, Alone, ProcessOps
<1>6. /\ processed' = processed /\ processing' = processing /\ conn' = conn /\ replies' = replies
  BY DEF procVars
<1>7. StackInv'
  BY <1>1, <1>2, <1>4, <1>5, SMTT(30) DEF StackInv
<1>8. Landed'
  BY <1>1, <1>2, <1>3, SMTT(30) DEF Landed, TopIs, Top
<1>9. ProcessingInv' /\ WakeInv'
  BY <1>1, <1>2, <1>4, SMTT(30) DEF ProcessingInv, WakeInv, Wakes
<1>10. SlowInv'
  BY <1>1, <1>2, <1>3 DEF SlowInv, TopIs, Top
<1>11. ReplyInv'
  BY <1>6, Zenon DEF FlowInv, ReplyInv, IsProcessed
<1> QED
  BY <1>7, <1>8, <1>9, <1>10, <1>11, Zenon DEF FlowInv

(* The operations of the frames that are pushed.                           *)
LEMMA CallOp ==
  /\ \A op : Call(op).op = op
  /\ \A op, i : CallOn(op, i).op = op
  /\ \A op, e : CallEv(op, e).op = op /\ CallEv(op, e).kind = e.kind
  /\ \A op, i, k : [CallOn(op, i) EXCEPT !.k = k].op = op
  /\ \A op, i, k, b : [CallOn(op, i) EXCEPT !.k = k, !.b = b].op = op
  /\ \A op, i, j : [CallOn(op, i) EXCEPT !.saved = j].op = op
BY Zenon DEF Call, CallOn, CallEv, F0

(* The operations of the frames that go on.                                *)
LEMMA FrameOp ==
  ASSUME NEW f \in FrameRecord
  PROVE  /\ \A op : [f EXCEPT !.op = op].op = op
         /\ \A op, k : [f EXCEPT !.op = op, !.k = k].op = op
         /\ \A op, k, ok : [f EXCEPT !.op = op, !.k = k, !.ok = ok].op = op
         /\ \A k : [f EXCEPT !.k = k].op = f.op
BY Zenon DEF FrameRecord

(* What a step of a plain frame keeps the invariant by.                    *)
LEMMA PlainStep ==
  ASSUME FlowInv, StackOK, stack # <<>>, Top.op \in PlainOps, Top.op # "fin",
         PlainMoved \/ Abort, UNCHANGED procVars, UNCHANGED <<sessionVars, slow>>
  PROVE  FlowInv'
<1>1. flags' = flags /\ events' = events /\ slow' = slow
  BY DEF sessionVars
<1>2. CASE PlainMoved
  <2>1. events \subseteq events'
    BY <1>1
  <2> QED
    BY <1>1, <1>2, <2>1, PlainKeeps, Zenon
<1>3. CASE Abort
  BY <1>3, AbortKeeps, Zenon DEF Abort
<1> QED
  BY <1>2, <1>3, Zenon

(* check_item_deps.                                                        *)
LEMMA CheckItemDepsFlow ==
  ASSUME IInv, FlowInv, UNCHANGED procVars,
         CheckItemDeps \/ CheckItemDepsRec \/ CheckItemDepsSymbol
  PROVE  FlowInv'
<1>1. StackOK /\ StackInv /\ stack # <<>> /\ Top \in FrameRecord
  BY TopFrame, Zenon DEF IInv, FlowInv, CheckItemDeps, CheckItemDepsRec, CheckItemDepsSymbol
<1>2. Top.op \in {"deps", "deps_rec", "deps_symbol"}
  BY Zenon DEF CheckItemDeps, CheckItemDepsRec, CheckItemDepsSymbol, TopIs
<1>3. Top.op \in PlainOps /\ Top.op # "fin"
  BY <1>2 DEF PlainOps
<1>4. UNCHANGED <<sessionVars, slow>>
  BY Zenon DEF CheckItemDeps, CheckItemDepsRec, CheckItemDepsSymbol, runtimeVars
<1>5. \/ \E v : Return(v)
      \/ stack' = stack
      \/ \E v : Become(<<NextDep(v)>>)
      \/ \E d : Become(<<[CallOn("deps", d) EXCEPT !.k = 1, !.b = Top.b + 1],
                         [Top EXCEPT !.op = "deps_rec"]>>)
      \/ \E d : Become(<<CallOn("symbol", d), [Top EXCEPT !.op = "deps_symbol"]>>)
      \/ Abort
  BY Zenon DEF CheckItemDeps, CheckItemDepsRec, CheckItemDepsSymbol, loopVars
<1>6. ASSUME NEW v, Return(v) PROVE PlainMoved
  BY <1>1, <1>3, <1>6, PlainReturn, Zenon DEF Return
<1>7. ASSUME stack' = stack PROVE PlainMoved
  BY <1>1, <1>3, <1>7, PlainStay, Zenon
<1>8. ASSUME NEW v, Become(<<NextDep(v)>>) PROVE PlainMoved
  <2>1. NextDep(v).op \in PlainOps
    BY <1>1 DEF NextDep, FrameRecord, PlainOps
  <2> QED
    BY <1>1, <1>3, <1>8, <2>1, PlainBecome, Zenon DEF Become
<1>9. ASSUME NEW d, Become(<<[CallOn("deps", d) EXCEPT !.k = 1, !.b = Top.b + 1],
                             [Top EXCEPT !.op = "deps_rec"]>>)
      PROVE  PlainMoved
  <2> DEFINE f == [CallOn("deps", d) EXCEPT !.k = 1, !.b = Top.b + 1]
             g == [Top EXCEPT !.op = "deps_rec"]
  <2>1. f.op \in PlainOps /\ g.op \in PlainOps
    BY <1>1, CallOp, FrameOp DEF PlainOps
  <2>2. stack' = <<f, g>> \o Tail(stack)
    BY <1>9, Zenon DEF Become
  <2> HIDE DEF f, g
  <2> QED
    BY <1>1, <1>3, <2>1, <2>2, PlainBecomeTwo, Zenon
<1>10. ASSUME NEW d, Become(<<CallOn("symbol", d), [Top EXCEPT !.op = "deps_symbol"]>>)
       PROVE  PlainMoved
  <2> DEFINE f == CallOn("symbol", d)
             g == [Top EXCEPT !.op = "deps_symbol"]
  <2>1. f.op \in PlainOps /\ g.op \in PlainOps
    BY <1>1, CallOp, FrameOp, SMTT(30) DEF PlainOps
  <2>2. stack' = <<f, g>> \o Tail(stack)
    BY <1>10, Zenon DEF Become
  <2> HIDE DEF f, g
  <2> QED
    BY <1>1, <1>3, <2>1, <2>2, PlainBecomeTwo, ZenonT(60)
<1>11. PlainMoved \/ Abort
  BY <1>5, <1>6, <1>7, <1>8, <1>9, <1>10, Zenon
<1> QED
  BY <1>1, <1>3, <1>4, <1>11, PlainStep, Zenon

(* process_symbol.                                                         *)
LEMMA ProcessSymbolFlow ==
  ASSUME IInv, FlowInv, UNCHANGED procVars,
         \/ ProcessSymbolRefused \/ ProcessSymbolNotAllowed \/ ProcessSymbolStart
         \/ ProcessSymbolReturn
  PROVE  FlowInv'
<1> USE DEF ProcessSymbolRefused, ProcessSymbolNotAllowed, ProcessSymbolStart, ProcessSymbolReturn
<1>1. StackOK /\ StackInv /\ stack # <<>>
  BY TopFrame, Zenon DEF IInv, FlowInv
<1>2. Top.op \in {"symbol", "symbol_ret"}
  BY Zenon DEF TopIs
<1>3. Top.op \in PlainOps /\ Top.op # "fin"
  BY <1>2, Zenon DEF PlainOps
<1>4. UNCHANGED <<sessionVars, slow>>
  BY Zenon DEF runtimeVars
<1>5. \/ \E v : Return(v)
      \/ \E i : \E op \in {"dec_check", "finalize"} :
           Become(<<CallOn("rule", i), CallOn(op, i),
                    [CallOn("symbol_ret", i) EXCEPT !.saved = curItem]>>)
      \/ Abort
  <2>1. CASE ProcessSymbolStart
    <3> DEFINE op == IF RuleKind[Top.item] = "lua" THEN "dec_check" ELSE "finalize"
    <3>1. op \in {"dec_check", "finalize"}
      BY Zenon
    <3>2. Become(<<CallOn("rule", Top.item), CallOn(op, Top.item),
                   [CallOn("symbol_ret", Top.item) EXCEPT !.saved = curItem]>>)
      BY <2>1, Zenon DEF StartItem
    <3> HIDE DEF op
    <3> QED
      BY <3>1, <3>2, ZenonT(60)
  <2> QED
    BY <2>1, Zenon
<1>6. ASSUME NEW v, Return(v) PROVE PlainMoved
  BY <1>1, <1>3, <1>6, PlainReturn, Zenon DEF Return
<1>7. ASSUME NEW i, NEW op \in {"dec_check", "finalize"},
             Become(<<CallOn("rule", i), CallOn(op, i),
                      [CallOn("symbol_ret", i) EXCEPT !.saved = curItem]>>)
      PROVE  PlainMoved
  <2> DEFINE f == CallOn("rule", i)
             g == CallOn(op, i)
             h == [CallOn("symbol_ret", i) EXCEPT !.saved = curItem]
  <2>1. f.op \in PlainOps /\ g.op \in PlainOps /\ h.op \in PlainOps
    BY CallOp DEF PlainOps
  <2>2. stack' = <<f, g, h>> \o Tail(stack)
    BY <1>7, Zenon DEF Become
  <2> HIDE DEF f, g, h
  <2> QED
    BY <1>1, <1>3, <2>1, <2>2, PlainBecomeThree, ZenonT(60)
<1>8. PlainMoved \/ Abort
  BY <1>5, <1>6, <1>7, ZenonT(60)
<1> QED
  BY <1>1, <1>3, <1>4, <1>8, PlainStep, Zenon

(* process_item_rdeps and the counters of asynchronous events.             *)
LEMMA RdepsFlow ==
  ASSUME IInv, FlowInv, UNCHANGED procVars,
         AsyncDecCheck \/ ProcessItemRdeps \/ ProcessItemRdepsDeps
  PROVE  FlowInv'
<1>1. StackOK /\ StackInv /\ stack # <<>> /\ Top \in FrameRecord
  BY TopFrame, Zenon DEF IInv, FlowInv, AsyncDecCheck, ProcessItemRdeps, ProcessItemRdepsDeps
<1>2. Top.op \in {"dec_check", "rdeps", "rdeps_deps"}
  BY Zenon DEF AsyncDecCheck, ProcessItemRdeps, ProcessItemRdepsDeps, TopIs
<1>3. Top.op \in PlainOps /\ Top.op # "fin"
  BY <1>2, Zenon DEF PlainOps
<1>4. UNCHANGED <<sessionVars, slow>>
  BY Zenon DEF AsyncDecCheck, ProcessItemRdeps, ProcessItemRdepsDeps, runtimeVars
<1>5. \/ stack' = Tail(stack)
      \/ \E i : stack' = <<CallOn("finalize", i)>> \o Tail(stack)
      \/ TopIs("rdeps") /\ stack' = <<[Top EXCEPT !.k = @ + 1]>> \o Tail(stack)
      \/ stack' = <<[Top EXCEPT !.op = "rdeps", !.k = @ + 1]>> \o Tail(stack)
      \/ \E j : stack' = <<[CallOn("deps", j) EXCEPT !.k = 1],
                           [Top EXCEPT !.op = "rdeps_deps"]>> \o Tail(stack)
      \/ \E j : stack' = <<CallOn("symbol", j), [Top EXCEPT !.op = "rdeps", !.k = @ + 1]>> \o Tail(stack)
      \/ Abort
  BY Zenon DEF AsyncDecCheck, ProcessItemRdeps, ProcessItemRdepsDeps, Finish, Become
<1>6. ASSUME stack' = Tail(stack) PROVE PlainMoved
  BY <1>1, <1>3, <1>6, PlainReturn, Zenon
<1>7. ASSUME NEW i, stack' = <<CallOn("finalize", i)>> \o Tail(stack) PROVE PlainMoved
  <2>1. CallOn("finalize", i).op \in PlainOps
    BY CallOp DEF PlainOps
  <2> QED
    BY <1>1, <1>3, <1>7, <2>1, PlainBecome, Zenon
<1>8. ASSUME TopIs("rdeps"), stack' = <<[Top EXCEPT !.k = @ + 1]>> \o Tail(stack)
      PROVE  PlainMoved
  <2> DEFINE f == [Top EXCEPT !.k = @ + 1]
  <2>1. f.op \in PlainOps
    BY <1>1, <1>8, Zenon DEF FrameRecord, TopIs, PlainOps
  <2> HIDE DEF f
  <2>2. stack' = <<f>> \o Tail(stack)
    BY <1>8, Zenon DEF f
  <2> QED
    BY <1>1, <1>3, <2>1, <2>2, PlainBecome, Zenon
<1>9. ASSUME stack' = <<[Top EXCEPT !.op = "rdeps", !.k = @ + 1]>> \o Tail(stack)
      PROVE  PlainMoved
  <2> DEFINE f == [Top EXCEPT !.op = "rdeps", !.k = @ + 1]
  <2>1. f.op \in PlainOps
    BY <1>1, Zenon DEF FrameRecord, PlainOps
  <2> HIDE DEF f
  <2>2. stack' = <<f>> \o Tail(stack)
    BY <1>9, ZenonT(60) DEF f
  <2> QED
    BY <1>1, <1>3, <2>1, <2>2, PlainBecome, Zenon
<1>10. ASSUME NEW j, stack' = <<[CallOn("deps", j) EXCEPT !.k = 1],
                               [Top EXCEPT !.op = "rdeps_deps"]>> \o Tail(stack)
       PROVE  PlainMoved
  <2> DEFINE f == [CallOn("deps", j) EXCEPT !.k = 1]
             g == [Top EXCEPT !.op = "rdeps_deps"]
  <2>1. f.op \in PlainOps /\ g.op \in PlainOps
    BY <1>1, CallOp, FrameOp DEF PlainOps
  <2>2. stack' = <<f, g>> \o Tail(stack)
    BY <1>10, ZenonT(60)
  <2> HIDE DEF f, g
  <2> QED
    BY <1>1, <1>3, <2>1, <2>2, PlainBecomeTwo, Zenon
<1>11. ASSUME NEW j,
              stack' = <<CallOn("symbol", j), [Top EXCEPT !.op = "rdeps", !.k = @ + 1]>> \o Tail(stack)
       PROVE  PlainMoved
  <2> DEFINE f == CallOn("symbol", j)
             g == [Top EXCEPT !.op = "rdeps", !.k = @ + 1]
  <2>1. f.op \in PlainOps /\ g.op \in PlainOps
    BY <1>1, CallOp DEF PlainOps, FrameRecord
  <2>2. stack' = <<f, g>> \o Tail(stack)
    BY <1>11, Zenon
  <2> HIDE DEF f, g
  <2> QED
    BY <1>1, <1>3, <2>1, <2>2, PlainBecomeTwo, Zenon
<1>12. PlainMoved \/ Abort
  BY <1>5, <1>6, <1>7, <1>8, <1>9, <1>10, <1>11, ZenonT(60)
<1> QED
  BY <1>1, <1>3, <1>4, <1>12, PlainStep, Zenon

(* finalize_item.                                                          *)
LEMMA FinalizeItemFlow ==
  ASSUME IInv, FlowInv, UNCHANGED procVars, FinalizeItem
  PROVE  FlowInv'
<1>1. StackOK /\ StackInv /\ stack # <<>> /\ Top.op = "finalize"
  BY TopFrame, Zenon DEF IInv, FlowInv, FinalizeItem
<1>2. Top.op \in PlainOps /\ Top.op # "fin"
  BY <1>1, Zenon DEF PlainOps
<1>3. flags' = flags
  BY Zenon DEF FinalizeItem
<1>4. \/ Abort
      \/ /\ \/ stack' = Tail(stack)
            \/ \E i : stack' = <<[CallOn("rdeps", i) EXCEPT !.k = 1]>> \o Tail(stack)
         /\ \/ events' = events /\ (slow' = slow \/ slow' = "none")
            \/ /\ flags = {}
               /\ \E i : events' = events \cup {[kind |-> "slow", item |-> i]}
  BY Zenon DEF FinalizeItem, Finish, Become, Blocked
<1>5. ASSUME ~Abort PROVE FlowInv'
  <2>1. PlainMoved
    <3>1. ASSUME stack' = Tail(stack) PROVE PlainMoved
      BY <1>1, <1>2, <3>1, PlainReturn, Zenon
    <3>2. ASSUME NEW i, stack' = <<[CallOn("rdeps", i) EXCEPT !.k = 1]>> \o Tail(stack)
          PROVE  PlainMoved
      <4> DEFINE f == [CallOn("rdeps", i) EXCEPT !.k = 1]
      <4>1. f.op \in PlainOps
        BY CallOp DEF PlainOps
      <4>2. stack' = <<f>> \o Tail(stack)
        BY <3>2, Zenon
      <4> HIDE DEF f
      <4> QED
        BY <1>1, <1>2, <4>1, <4>2, PlainBecome, Zenon
    <3> QED
      BY <1>4, <1>5, <3>1, <3>2, Zenon
  <2>2. /\ events \subseteq events'
        /\ \/ slow' # "enabled"
           \/ slow = "enabled" /\ ~(Top.op = "fin" /\ Top.kind = "slow")
           \/ flags = {} /\ \E e \in events' : e.kind = "slow"
    <3>1. CASE events' = events /\ (slow' = slow \/ slow' = "none")
      BY <1>2, <3>1
    <3>2. CASE flags = {} /\ \E i : events' = events \cup {[kind |-> "slow", item |-> i]}
      <4>1. PICK i : events' = events \cup {[kind |-> "slow", item |-> i]}
        BY <3>2
      <4>2. [kind |-> "slow", item |-> i].kind = "slow"
        OBVIOUS
      <4> QED
        BY <3>2, <4>1, <4>2, Zenon
    <3> QED
      BY <1>4, <1>5, <3>1, <3>2, Zenon
  <2> QED
    BY <1>1, <1>2, <1>3, <2>1, <2>2, PlainKeeps, Zenon
<1> QED
  BY <1>5, AbortKeeps, Zenon DEF Abort

(* The finalizer of an event.                                              *)
LEMMA EventFinFlow ==
  ASSUME IInv, FlowInv, UNCHANGED procVars, EventFin
  PROVE  FlowInv'
<1>1. StackOK /\ StackInv /\ stack # <<>> /\ Top.op = "fin"
  BY TopFrame, Zenon DEF IInv, FlowInv, EventFin
<1>2. Top.op \in PlainOps
  BY <1>1, Zenon DEF PlainOps
<1>3. flags' = flags /\ events' = events
  BY Zenon DEF EventFin, sessionVars
<1>4. PlainMoved
  <2>1. ASSUME stack' = Tail(stack) PROVE PlainMoved
    BY <1>1, <1>2, <2>1, PlainReturn, Zenon
  <2>2. ASSUME stack' = <<CallOn("rule", Top.item), CallOn("dec_check", Top.item)>> \o Tail(stack)
        PROVE  PlainMoved
    <3>1. CallOn("rule", Top.item).op \in PlainOps /\ CallOn("dec_check", Top.item).op \in PlainOps
      BY CallOp DEF PlainOps
    <3> QED
      BY <1>1, <1>2, <2>2, <3>1, PlainBecomeTwo, Zenon
  <2> QED
    BY <2>1, <2>2, Zenon DEF EventFin, Finish, Become
<1>5. \/ slow' # "enabled"
      \/ slow = "enabled" /\ ~(Top.op = "fin" /\ Top.kind = "slow")
  BY DEF EventFin, UnsetSlow
<1>6. events \subseteq events'
  BY <1>3
<1> QED
  BY <1>1, <1>2, <1>3, <1>4, <1>5, <1>6, PlainKeeps, Zenon

(* The code of a rule.                                                     *)
LEMMA RuleFlow ==
  ASSUME IInv, FlowInv, UNCHANGED procVars,
         \/ RuleReturn \/ RuleRequest \/ RuleSyncRequest \/ RuleLeak \/ RuleScore
         \/ RulePreResult \/ RuleWhitelist \/ DisableSymbol \/ EnableSymbol
         \/ RuleEnableOnly \/ ForceEnable \/ Composites
  PROVE  FlowInv'
<1> DEFINE Stays == RuleLeak \/ RuleScore \/ RulePreResult \/ RuleWhitelist \/ DisableSymbol
                    \/ EnableSymbol
           Ends == RuleReturn \/ ForceEnable \/ Composites
<1>1. /\ stack # <<>> /\ Top.op \in {"rule", "force_enable", "composites"}
      /\ flags' = flags /\ events \subseteq events' /\ slow' = slow
      /\ \/ stack' = stack
         \/ stack' = Tail(stack)
         \/ \E j : stack' = <<CallOn("force_enable", j)>> \o stack
         \/ \E i, e : stack' = <<CallOn("rule", i), CallOn("dec_check", i), CallEv("remove", e)>> \o stack
  <2>1. CASE Stays
    BY <2>1, Zenon DEF RuleLeak, RuleScore, RulePreResult, RuleWhitelist, DisableSymbol, EnableSymbol,
                      Rule, TopIs, sessionVars, loopVars, runtimeVars
  <2>2. CASE Ends
    BY <2>2, Zenon DEF RuleReturn, ForceEnable, Composites, TopIs, Finish, Return, sessionVars, runtimeVars
  <2>3. CASE RuleRequest
    BY <2>3, Zenon DEF RuleRequest, Rule, TopIs, loopVars
  <2>4. CASE RuleSyncRequest
    BY <2>4, Zenon DEF RuleSyncRequest, Rule, TopIs, Run
  <2>5. CASE RuleEnableOnly
    BY <2>5, Zenon DEF RuleEnableOnly, Rule, TopIs, Run, sessionVars
  <2> QED
    BY <2>1, <2>2, <2>3, <2>4, <2>5, Zenon
<1>2. StackOK /\ StackInv /\ Top.op \in PlainOps /\ Top.op # "fin"
  BY <1>1 DEF IInv, FlowInv, PlainOps
<1>3. PlainMoved
  <2>1. ASSUME stack' = stack PROVE PlainMoved
    BY <1>1, <1>2, <2>1, PlainStay, Zenon
  <2>2. ASSUME stack' = Tail(stack) PROVE PlainMoved
    BY <1>1, <1>2, <2>2, PlainReturn, ZenonT(60)
  <2>3. ASSUME NEW j, stack' = <<CallOn("force_enable", j)>> \o stack PROVE PlainMoved
    <3>1. CallOn("force_enable", j).op \in PlainOps
      BY CallOp DEF PlainOps
    <3> QED
      BY <1>1, <1>2, <2>3, <3>1, PlainRun, ZenonT(60)
  <2>4. ASSUME NEW i, NEW e,
               stack' = <<CallOn("rule", i), CallOn("dec_check", i), CallEv("remove", e)>> \o stack
        PROVE  PlainMoved
    <3> DEFINE f == CallOn("rule", i)
               g == CallOn("dec_check", i)
               h == CallEv("remove", e)
    <3>1. f.op \in PlainOps /\ g.op \in PlainOps /\ h.op \in PlainOps
      BY CallOp DEF PlainOps
    <3>2. stack' = <<f, g, h>> \o stack
      BY <2>4, Zenon
    <3> HIDE DEF f, g, h
    <3> QED
      BY <1>1, <1>2, <3>1, <3>2, PlainRunThree, Zenon
  <2> QED
    BY <1>1, <2>1, <2>2, <2>3, <2>4, ZenonT(60)
<1>4. \/ slow' # "enabled"
      \/ slow = "enabled" /\ ~(Top.op = "fin" /\ Top.kind = "slow")
  BY <1>1, <1>2, Zenon
<1> QED
  BY <1>1, <1>2, <1>3, <1>4, PlainKeeps, Zenon

(* process_symbols and process_stage.                                      *)
LEMMA StageFlow ==
  ASSUME IInv, FlowInv, UNCHANGED procVars,
         ProcessSymbols \/ StageBucket \/ StageItem \/ StageItemDeps \/ StageBucketEnd
  PROVE  FlowInv'
<1>1. StackOK /\ StackInv /\ stack # <<>> /\ Top \in FrameRecord
  BY TopFrame, Zenon DEF IInv, FlowInv, ProcessSymbols, StageBucket, StageItem, StageItemDeps, StageBucketEnd
<1>2. Top.op \in {"process_symbols", "bucket", "stage", "stage_deps"}
  BY Zenon DEF ProcessSymbols, StageBucket, StageItem, StageItemDeps, StageBucketEnd, TopIs
<1>3. Top.op \in StageOps /\ Top.op \in QuietOps /\ Top.op # "fin" /\ Top.op # "abort"
  BY <1>2 DEF StageOps, QuietOps
<1>4. events' = events /\ flags' = flags /\ slow' = slow
  BY Zenon DEF ProcessSymbols, StageBucket, StageItem, StageItemDeps, StageBucketEnd, sessionVars, runtimeVars
<1>5. slow = "enabled" => HasEvents
  BY <1>3, Zenon DEF FlowInv, SlowInv, TopIs, HasEvents
<1>6. \/ stack' = Tail(stack) /\ (ret' \/ HasEvents)
      \/ \E f : stack' = <<f>> \o Tail(stack) /\ f.op \in StageOps
      \/ \E f, g : stack' = <<f, g>> \o Tail(stack) /\ f.op \in PlainOps /\ g.op \in StageOps
  <2>1. CASE ProcessSymbols
    <3>1. \A b : [Call("bucket") EXCEPT !.b = b].op \in StageOps
      BY DEF Call, F0, StageOps
    <3> QED
      BY <2>1, <3>1, Zenon DEF ProcessSymbols, Return, Become
  <2>2. CASE StageBucket
    <3>1. [Top EXCEPT !.op = "stage", !.k = 1].op \in StageOps
      BY <1>1, FrameOp DEF StageOps
    <3>2. ~IsBucketOpen(Top.b) => HasEvents
      BY Zenon DEF IsBucketOpen
    <3>3. ~NothingComes(Top.ok) => Top.ok \/ HasEvents
      BY Zenon DEF NothingComes
    <3> QED
      BY <2>2, <3>1, <3>2, <3>3, ZenonT(60) DEF StageBucket, Return, Become
  <2>3. CASE StageItem
    <3> DEFINE i == BItems[Top.b][Top.k]
    <3>1. [Top EXCEPT !.k = @ + 1].op \in StageOps
      BY <1>1, <1>3, ZenonT(60) DEF FrameRecord
    <3>2. [CallOn("deps", i) EXCEPT !.k = 1].op \in PlainOps
      BY CallOp DEF PlainOps
    <3>3. [Top EXCEPT !.op = "stage_deps", !.item = i].op \in StageOps
      BY <1>1 DEF FrameRecord, StageOps
    <3>4. \/ Return(TRUE)
          \/ Become(<<[Top EXCEPT !.k = @ + 1]>>)
          \/ slow = "enabled" /\ Return(FALSE)
          \/ Become(<<[CallOn("deps", i) EXCEPT !.k = 1],
                      [Top EXCEPT !.op = "stage_deps", !.item = i]>>)
      BY <2>3, Zenon DEF StageItem
    <3> HIDE DEF i
    <3> QED
      BY <1>5, <3>1, <3>2, <3>3, <3>4, ZenonT(60) DEF Return, Become
  <2>4. CASE StageItemDeps
    <3> DEFINE next == [Top EXCEPT !.op = "stage", !.k = @ + 1, !.item = NoItem]
    <3>1. next.op \in StageOps /\ [next EXCEPT !.ok = FALSE].op \in StageOps
      BY <1>1 DEF FrameRecord, StageOps
    <3>2. CallOn("symbol", Top.item).op \in PlainOps
      BY CallOp DEF PlainOps
    <3>3. \/ Become(<<CallOn("symbol", Top.item), next>>)
          \/ Become(<<[next EXCEPT !.ok = FALSE]>>)
      BY <2>4, Zenon DEF StageItemDeps
    <3> HIDE DEF next
    <3> QED
      BY <3>1, <3>2, <3>3, ZenonT(60) DEF Become
  <2>5. CASE StageBucketEnd
    <3>1. [Top EXCEPT !.op = "bucket", !.b = @ + 1].op \in StageOps
      BY <1>1 DEF FrameRecord, StageOps
    <3> QED
      BY <2>5, <3>1, Zenon DEF StageBucketEnd, Return, Become
  <2> QED
    BY <2>1, <2>2, <2>3, <2>4, <2>5, ZenonT(60)
<1> DEFINE s == Tail(stack)
<1>7. s \in Seq(Frame) /\ Flow(s) /\ OneCleanup(s) /\ Fits(Top, s)
  BY <1>1, PlainPop, ZenonT(60)
<1>8. \A f, g : /\ f.op \in PlainOps /\ g.op \in StageOps => Over(f, g) /\ f.op # "cleanup"
                /\ g.op \in StageOps => g.op # "cleanup"
  BY DEF PlainOps, StageOps, Over, ProcessOps
<1>9. \A f : f.op \in StageOps => Fits(f, s)
  <2>1. \A f : f.op \in StageOps => f.op \notin ProcessOps /\ f.op # "cleanup"
    BY DEF StageOps, ProcessOps
  <2> QED
    BY <1>3, <1>7, <2>1, Zenon DEF Fits, Over, Alone
<1>10. StageOps \subseteq QuietOps /\ PlainOps \subseteq QuietOps
  BY DEF QuietOps
<1> HIDE DEF s
<1>11. QuietMoved
  <2>1. CASE stack' = s /\ (ret' \/ HasEvents)
    BY <1>4, <1>7, <2>1, Zenon DEF QuietMoved, s, HasEvents
  <2>2. ASSUME NEW f, stack' = <<f>> \o s, f.op \in StageOps PROVE QuietMoved
    <3>1. /\ Head(stack') = f /\ Frames(stack') = {f} \cup Frames(s)
          /\ Flow(stack') /\ OneCleanup(stack')
      BY <1>7, <1>8, <1>9, <2>2, PushFlow, ZenonT(60)
    <3> QED
      BY <1>10, <2>2, <3>1, Zenon DEF QuietMoved, s
  <2>3. ASSUME NEW f, NEW g, stack' = <<f, g>> \o s, f.op \in PlainOps, g.op \in StageOps
        PROVE  QuietMoved
    <3>1. Fits(g, s) /\ Over(f, g) /\ f.op # "cleanup" /\ g.op # "cleanup"
      BY <1>8, <1>9, <2>3, Zenon
    <3>2. /\ Head(stack') = f /\ Frames(stack') = {f, g} \cup Frames(s)
          /\ Flow(stack') /\ OneCleanup(stack')
      BY <1>7, <2>3, <3>1, PushTwoFlow, ZenonT(60)
    <3> QED
      BY <1>10, <2>3, <3>2, Zenon DEF QuietMoved, s
  <2> QED
    BY <1>6, <2>1, <2>2, <2>3, ZenonT(60) DEF s
<1>12. slow' # "enabled" \/ (slow = "enabled" /\ ~(Top.op = "fin" /\ Top.kind = "slow"))
  BY <1>3, <1>4, Zenon
<1>13. events \subseteq events'
  BY <1>4
<1> QED
  BY <1>1, <1>3, <1>4, <1>11, <1>12, <1>13, QuietKeeps, ZenonT(60)

(* The frame on top is replaced by the frames P.                           *)
Shift(P) ==
  /\ Flow(stack') /\ OneCleanup(stack')
  /\ Frames(stack') = P \cup Frames(Tail(stack))
  /\ \A f \in P : f.op # "cleanup"

(* The frame on top returns to its caller.                                 *)
LEMMA ShiftPop ==
  ASSUME StackOK, StackInv, stack # <<>>, stack' = Tail(stack)
  PROVE  /\ Shift({}) /\ Fits(Top, stack')
         /\ stack' # <<>> => Over(Top, Head(stack')) /\ Head(stack') \in Frames(stack')
<1>1. Shift({}) /\ Fits(Top, stack') /\ stack' \in Seq(Frame)
  BY PlainPop, Zenon DEF Shift
<1>2. stack' # <<>> => Head(stack') \in Frames(stack')
  BY <1>1, PopFlow, Zenon
<1> QED
  BY <1>1, <1>2, Zenon DEF Fits

(* The frame on top is replaced by one.                                    *)
LEMMA ShiftOne ==
  ASSUME StackOK, StackInv, stack # <<>>, NEW f, f.op # "cleanup",
         stack' = <<f>> \o Tail(stack), Fits(Top, Tail(stack)) => Fits(f, Tail(stack))
  PROVE  Shift({f}) /\ stack' # <<>> /\ Head(stack') = f
<1> DEFINE s == Tail(stack)
<1>1. s \in Seq(Frame) /\ Flow(s) /\ OneCleanup(s) /\ Fits(f, s)
  BY PlainPop, Zenon
<1> HIDE DEF s
<1>2. stack' = <<f>> \o s
  BY DEF s
<1>3. /\ stack' # <<>> /\ Head(stack') = f /\ Frames(stack') = {f} \cup Frames(s)
      /\ Flow(stack') /\ OneCleanup(stack')
  BY <1>1, <1>2, PushFlow, Zenon
<1> QED
  BY <1>3, Zenon DEF Shift, s

(* The frame on top is replaced by two.                                    *)
LEMMA ShiftTwo ==
  ASSUME StackOK, StackInv, stack # <<>>, NEW f, NEW g, f.op # "cleanup", g.op # "cleanup",
         Over(f, g), stack' = <<f, g>> \o Tail(stack),
         Fits(Top, Tail(stack)) => Fits(g, Tail(stack))
  PROVE  Shift({f, g}) /\ stack' # <<>> /\ Head(stack') = f
<1> DEFINE s == Tail(stack)
<1>1. s \in Seq(Frame) /\ Flow(s) /\ OneCleanup(s) /\ Fits(g, s)
  BY PlainPop, Zenon
<1> HIDE DEF s
<1>2. stack' = <<f, g>> \o s
  BY DEF s
<1>3. /\ stack' # <<>> /\ Head(stack') = f /\ Frames(stack') = {f, g} \cup Frames(s)
      /\ Flow(stack') /\ OneCleanup(stack')
  BY <1>1, <1>2, PushTwoFlow, Zenon
<1> QED
  BY <1>3, Zenon DEF Shift, s

(* What such a step keeps whatever the frames are.                         *)
LEMMA ShiftKeeps ==
  ASSUME FlowInv, StackOK, stack # <<>>, NEW P, Shift(P), UNCHANGED sessionVars, slow' = slow,
         Top.op # "fin", Top.op # "abort"
  PROVE  /\ StackInv' /\ SlowInv'
         /\ processing' = processing /\ Top.op # "process2" => ProcessingInv'
         /\ \A f \in Frames(stack) : f = Top \/ f \in Frames(stack')
<1>1. StackInv /\ Frames(stack) = {Top} \cup Frames(Tail(stack))
  BY PlainPop, Zenon DEF FlowInv
<1>2. events' = events /\ flags' = flags
  BY Zenon DEF sessionVars
<1>3. \A f \in Frames(stack') : f.op = "cleanup" => f \in Frames(stack)
  BY <1>1, Zenon DEF Shift
<1>4. StackInv'
  BY <1>1, <1>2, <1>3, Zenon DEF Shift, StackInv
<1>5. SlowInv'
  <2> SUFFICES ASSUME slow' = "enabled" PROVE SlowInv'
    BY Zenon DEF SlowInv
  <2>1. PICK e \in events : e.kind = "slow" /\ \A f \in Frames(stack) : f.op = "cleanup" => e \in f.todo
    BY Zenon DEF FlowInv, SlowInv, TopIs
  <2> QED
    BY <1>2, <1>3, <2>1, Zenon DEF SlowInv
<1>6. \A f \in Frames(stack) : f = Top \/ f \in Frames(stack')
  BY <1>1, Zenon DEF Shift
<1>7. ASSUME processing' = processing, Top.op # "process2" PROVE ProcessingInv'
  BY <1>6, <1>7, Zenon DEF FlowInv, ProcessingInv
<1> QED
  BY <1>4, <1>5, <1>6, <1>7, ZenonT(60)

(* rspamd_session_remove_event.                                            *)
LEMMA RemoveEventFlow ==
  ASSUME IInv, FlowInv, UNCHANGED procVars, RemoveEvent, UNCHANGED runtimeVars
  PROVE  FlowInv'
<1>1. StackOK /\ StackInv /\ stack # <<>> /\ Top.op = "remove" /\ slow' = slow
  BY TopFrame, Zenon DEF IInv, FlowInv, RemoveEvent, runtimeVars
<1>2. Top.op \in PlainOps /\ Top.op # "fin" /\ Top.op # "abort"
  BY <1>1, Zenon DEF PlainOps
<1>3. ASSUME Blocked, Finish PROVE FlowInv'
  <2>1. PlainMoved
    BY <1>1, <1>2, <1>3, PlainReturn, ZenonT(60) DEF Finish
  <2>2. UNCHANGED <<sessionVars, slow>>
    BY <1>1, <1>3, Zenon DEF RemoveEvent, sessionVars
  <2> QED
    BY <1>1, <1>2, <2>1, <2>2, PlainStep, ZenonT(60)
<1>4. ASSUME ~Blocked, TopEvent \in events, Become(AfterRemove(TopEvent)) PROVE FlowInv'
  <2> DEFINE e == TopEvent
             f == CallEv("fin", e)
             g == Call("pending")
  <2>1. f.op = "fin" /\ f.kind = e.kind /\ g.op = "pending"
    BY CallOp, Zenon
  <2>2. stack' = <<f, g>> \o Tail(stack) /\ events' = events \ {e} /\ flags' = flags
    BY <1>4, Zenon DEF RemoveEvent, Become, AfterRemove
  <2> HIDE DEF e, f, g
  <2>3. f.op # "cleanup" /\ g.op # "cleanup" /\ Over(f, g)
    BY <2>1, SMTT(30) DEF Over, ProcessOps
  <2>4. Fits(Top, Tail(stack)) => Fits(g, Tail(stack))
    BY <1>1, <2>1 DEF Fits, Over, Alone, ProcessOps, StageOps
  <2>5. Shift({f, g}) /\ stack' # <<>> /\ Head(stack') = f
    BY <1>1, <2>2, <2>3, <2>4, ShiftTwo, ZenonT(60)
  <2>6. Frames(stack) = {Top} \cup Frames(Tail(stack))
    BY <1>1, PlainPop, Zenon
  <2>7. Landed'
    BY <2>1, <2>5 DEF Landed, TopIs, Top
  <2>8. /\ \A h \in Frames(stack') : h.op = "cleanup" => h \in Frames(stack)
        /\ \A h \in Frames(stack) : h = Top \/ h \in Frames(stack')
        /\ g \in Frames(stack')
    BY <2>5, <2>6, Zenon DEF Shift
  <2>9. StackInv'
    BY <1>1, <2>2, <2>5, <2>8, Zenon DEF Shift, StackInv
  <2>10. processing' = processing /\ conn' = conn /\ processed' = processed /\ replies' = replies
    BY Zenon DEF procVars
  <2>11. ProcessingInv'
    BY <1>1, <2>8, <2>10, Zenon DEF FlowInv, ProcessingInv
  <2>12. WakeInv'
    BY <2>1, <2>8, Zenon DEF WakeInv, Wakes
  <2>13. SlowInv'
    <3> SUFFICES ASSUME slow' = "enabled", f.kind # "slow" PROVE SlowInv'
      BY <2>1, <2>5, Zenon DEF SlowInv, TopIs, Top
    <3>1. PICK d \in events : d.kind = "slow" /\ \A h \in Frames(stack) : h.op = "cleanup" => d \in h.todo
      BY <1>1, <1>2, ZenonT(60) DEF FlowInv, SlowInv, TopIs
    <3>2. d \in events'
      BY <2>1, <2>2, <3>1, SMTT(30)
    <3> QED
      BY <2>8, <3>1, <3>2, Zenon DEF SlowInv
  <2>14. ReplyInv'
    BY <2>10, Zenon DEF FlowInv, ReplyInv, IsProcessed
  <2> QED
    BY <2>7, <2>9, <2>11, <2>12, <2>13, <2>14, ZenonT(60) DEF FlowInv
<1>5. ASSUME Abort PROVE FlowInv'
  BY <1>5, AbortKeeps, Zenon DEF Abort
<1> QED
  BY <1>3, <1>4, <1>5, Zenon DEF RemoveEvent

(* rspamd_session_pending.                                                 *)
LEMMA PendingFlow ==
  ASSUME IInv, FlowInv, UNCHANGED procVars, Pending, UNCHANGED runtimeVars
  PROVE  FlowInv'
<1>1. StackOK /\ StackInv /\ stack # <<>> /\ Top.op = "pending" /\ slow' = slow
  BY TopFrame, Zenon DEF IInv, FlowInv, Pending, runtimeVars
<1>2. Top.op # "fin" /\ Top.op # "abort" /\ Top.op # "process2" /\ UNCHANGED sessionVars
  BY <1>1, Zenon DEF Pending
<1>3. processing' = processing /\ ReplyInv'
  BY Zenon DEF FlowInv, ReplyInv, IsProcessed, procVars
<1>4. ASSUME HasEvents, Finish PROVE FlowInv'
  <2>1. /\ Shift({})
        /\ stack' # <<>> => Over(Top, Head(stack'))
    BY <1>1, <1>4, ShiftPop, Zenon DEF Finish
  <2>2. StackInv' /\ SlowInv' /\ ProcessingInv'
    BY <1>1, <1>2, <1>3, <2>1, ShiftKeeps, Zenon
  <2>3. Landed'
    BY <1>1, <2>1, Zenon DEF Landed, TopIs, Top, Over, ProcessOps, StageOps
  <2>4. WakeInv'
    BY <1>2, <1>4, ZenonT(60) DEF WakeInv, HasEvents, sessionVars
  <2> QED
    BY <1>3, <2>2, <2>3, <2>4, Zenon DEF FlowInv
<1>5. ASSUME Become(<<Call("task_fin")>>) PROVE FlowInv'
  <2> DEFINE f == Call("task_fin")
  <2>1. f.op = "task_fin" /\ stack' = <<f>> \o Tail(stack)
    BY <1>5, CallOp, ZenonT(60) DEF Become
  <2> HIDE DEF f
  <2>2. Fits(Top, Tail(stack)) => Fits(f, Tail(stack))
    BY <1>1, <2>1, SMTT(30) DEF Fits, Over, Alone, ProcessOps, StageOps
  <2>3. Shift({f}) /\ stack' # <<>> /\ Head(stack') = f
    BY <1>1, <2>1, <2>2, ShiftOne, ZenonT(60)
  <2>4. StackInv' /\ SlowInv' /\ ProcessingInv'
    BY <1>1, <1>2, <1>3, <2>3, ShiftKeeps, ZenonT(60)
  <2>5. Landed'
    BY <2>1, <2>3, Zenon DEF Landed, TopIs, Top
  <2>6. WakeInv'
    BY <2>1, <2>3, Zenon DEF WakeInv, Wakes, Shift
  <2> QED
    BY <1>3, <2>4, <2>5, <2>6, Zenon DEF FlowInv
<1> QED
  BY <1>4, <1>5, Zenon DEF Pending

(* rspamd_session_cleanup.                                                 *)
LEMMA CleanupFlow ==
  ASSUME IInv, FlowInv, UNCHANGED procVars, Cleanup, UNCHANGED runtimeVars
  PROVE  FlowInv'
<1>1. StackOK /\ StackInv /\ stack # <<>> /\ Top.op = "cleanup" /\ slow' = slow /\ Top \in FrameRecord
  BY TopFrame, Zenon DEF IInv, FlowInv, Cleanup, runtimeVars
<1>2. /\ Frames(stack) = {Top} \cup Frames(Tail(stack)) /\ Fits(Top, Tail(stack))
      /\ Tail(stack) \in Seq(Frame) /\ Flow(Tail(stack)) /\ OneCleanup(Tail(stack))
      /\ \A f \in Frames(Tail(stack)) : f.op # "cleanup"
  BY <1>1, PlainPop, Zenon
<1>3. /\ processing' = processing /\ ReplyInv' /\ conn' = conn /\ IsProcessed' = IsProcessed
      /\ processed' = processed
  BY Zenon DEF FlowInv, ReplyInv, IsProcessed, procVars
<1>4. ASSUME slow = "enabled"
      PROVE  \E e \in events : e.kind = "slow" /\ e \in Top.todo
  BY <1>1, <1>2, <1>4, Zenon DEF FlowInv, SlowInv, TopIs
<1>5. ASSUME Top.todo = {}, events' = {}, flags' = flags \ {"CLEANUP"}, Finish PROVE FlowInv'
  <2>1. stack' = Tail(stack) /\ slow' # "enabled"
    BY <1>1, <1>4, <1>5, Zenon DEF Finish
  <2>2. stack' # <<>> /\ Head(stack').op \in {"process", "free"}
    BY <1>1, <1>2, <2>1, Zenon DEF Fits, Over, Alone
  <2>3. Head(stack') \in Frames(stack')
    BY <1>1, <2>1, <2>2, ShiftPop, ZenonT(60)
  <2>4. StackInv'
    BY <1>2, <2>1, Zenon DEF StackInv
  <2>5. Landed'
    BY <2>2 DEF Landed, TopIs, Top
  <2>6. ProcessingInv'
    BY <1>1, <1>2, <1>3, <2>1, ZenonT(60) DEF FlowInv, ProcessingInv
  <2>7. WakeInv'
    BY <2>2, <2>3, Zenon DEF WakeInv, Wakes
  <2> QED
    BY <1>3, <2>1, <2>4, <2>5, <2>6, <2>7, ZenonT(60) DEF FlowInv, SlowInv
<1>6. ASSUME NEW e \in Top.todo,
             Become(<<CallEv("fin", e), [Top EXCEPT !.todo = @ \ {e}]>>), UNCHANGED sessionVars
      PROVE  FlowInv'
  <2> DEFINE f == CallEv("fin", e)
             g == [Top EXCEPT !.todo = @ \ {e}]
             s == Tail(stack)
  <2>1. f.op = "fin" /\ f.kind = e.kind /\ g.op = "cleanup" /\ g.todo = Top.todo \ {e}
    <3>1. g.op = "cleanup" /\ g.todo = Top.todo \ {e}
      BY <1>1 DEF FrameRecord
    <3> QED
      BY <3>1, CallOp, ZenonT(60)
  <2>2. stack' = <<f, g>> \o s /\ flags' = flags /\ events' = events
    BY <1>6, Zenon DEF Become, sessionVars
  <2>3. /\ Frames(stack) = {Top} \cup Frames(s) /\ Fits(Top, s)
        /\ s \in Seq(Frame) /\ Flow(s) /\ OneCleanup(s)
        /\ \A h \in Frames(s) : h.op # "cleanup"
    BY <1>2, Zenon
  <2> HIDE DEF f, g, s
  <2>4. f.op # "cleanup" /\ Over(f, g)
    BY <2>1 DEF Over, ProcessOps
  <2>5. Fits(g, s)
    BY <1>1, <2>1, <2>3, Zenon DEF Fits, Over, Alone
  <2>6. /\ stack' # <<>> /\ Head(stack') = f /\ Frames(stack') = {f, g} \cup Frames(s)
        /\ Flow(stack') /\ OneCleanup(stack')
    BY <2>2, <2>3, <2>4, <2>5, PushTwoFlow, Zenon
  <2>7. "CLEANUP" \in flags
    BY <1>1, <2>3, Zenon DEF StackInv
  <2>8. StackInv'
    BY <2>2, <2>6, <2>7, Zenon DEF StackInv
  <2>9. Landed'
    BY <2>1, <2>6, Zenon DEF Landed, TopIs, Top
  <2>10. ProcessingInv'
    BY <1>1, <1>3, <2>3, <2>6, ZenonT(60) DEF FlowInv, ProcessingInv
  <2>11. WakeInv'
    <3>1. ~Wakes(Top, IsProcessed)
      BY <1>1 DEF Wakes
    <3> QED
      BY <1>3, <2>2, <2>3, <2>6, <3>1, ZenonT(60) DEF FlowInv, WakeInv, HasEvents
  <2>12. SlowInv'
    <3> SUFFICES ASSUME slow' = "enabled", f.kind # "slow" PROVE SlowInv'
      BY <2>1, <2>6, Zenon DEF SlowInv, TopIs, Top
    <3>1. PICK d \in events : d.kind = "slow" /\ d \in Top.todo
      BY <1>1, <1>4, Zenon
    <3>2. d \in g.todo
      BY <2>1, <3>1
    <3>3. \A h \in Frames(stack') : h.op = "cleanup" => h = g
      BY <2>3, <2>4, <2>6, Zenon
    <3> QED
      BY <2>2, <3>1, <3>2, <3>3, ZenonT(60) DEF SlowInv
  <2> QED
    BY <1>3, <2>8, <2>9, <2>10, <2>11, <2>12, ZenonT(60) DEF FlowInv
<1> QED
  BY <1>5, <1>6, Zenon DEF Cleanup

(* What rspamd_task_process marks is never the reply.                      *)
LEMMA MarkedReply ==
  ASSUME ReplyInv, processed \subseteq processed', processed' \subseteq processed \cup 0..16,
         replies' = replies
  PROVE  ReplyInv' /\ (IsProcessed => IsProcessed')
<1>1. REPLIED \notin 0..16
  BY DEF REPLIED
<1> HIDE DEF REPLIED
<1>2. REPLIED \in processed' <=> REPLIED \in processed
  BY <1>1, Zenon
<1> QED
  BY <1>2, Zenon DEF ReplyInv, IsProcessed

(* The stages that are marked on the way to a stage.                       *)
LEMMA SkippedStagesMark ==
  ASSUME NEW st \in 0..16
  PROVE  processed \subseteq SkippedStages(st) /\ SkippedStages(st) \subseteq processed \cup 0..16
<1>1. 0..(st - 1) \subseteq 0..16
  OBVIOUS
<1> QED
  BY <1>1, Zenon DEF SkippedStages

(* rspamd_task_process, refused.                                           *)
LEMMA TaskProcessNestedFlow ==
  ASSUME IInv, FlowInv, TaskProcessNested
  PROVE  FlowInv'
<1>1. /\ StackOK /\ StackInv /\ stack # <<>> /\ Top.op = "process"
      /\ stack' = Tail(stack) /\ ret' = TRUE
  BY TopFrame, Zenon DEF IInv, FlowInv, TaskProcessNested, Return
<1>2. /\ Top.op # "fin" /\ Top.op # "abort" /\ Top.op # "process2" /\ UNCHANGED sessionVars
      /\ slow' = slow /\ processing' = processing /\ processed' = processed /\ replies' = replies
  BY <1>1, Zenon DEF TaskProcessNested, runtimeVars, procVars
<1>3. Shift({}) /\ Fits(Top, stack') /\ (stack' # <<>> => Head(stack') \in Frames(stack'))
  BY <1>1, ShiftPop, Zenon
<1>4. /\ StackInv' /\ SlowInv' /\ ProcessingInv'
      /\ \A f \in Frames(stack) : f = Top \/ f \in Frames(stack')
  BY <1>1, <1>2, <1>3, ShiftKeeps, ZenonT(60)
<1>5. stack' # <<>> /\ Head(stack').op \in {"task_fin2", "finish", "pending"}
  BY <1>1, <1>3, SMTT(30) DEF Fits, Over, Alone, ProcessOps
<1>6. Landed'
  BY <1>1, <1>5, Zenon DEF Landed, TopIs, Top
<1>7. WakeInv'
  <2>1. CASE IsProcessed
    <3>1. IsProcessed'
      BY <1>2, <2>1, Zenon DEF IsProcessed
    <3> QED
      BY <1>3, <1>5, <3>1, Zenon DEF WakeInv, Wakes
  <2>2. CASE processing
    BY <1>2, <1>4, <2>2, Zenon DEF WakeInv, Wakes, ProcessingInv
  <2> QED
    BY <2>1, <2>2, Zenon DEF TaskProcessNested, MayProcess
<1>8. ReplyInv'
  BY <1>2, Zenon DEF FlowInv, ReplyInv, IsProcessed
<1> QED
  BY <1>4, <1>6, <1>7, <1>8, ZenonT(60) DEF FlowInv

(* A stage is started.                                                     *)
LEMMA StartStageFlow ==
  ASSUME IInv, FlowInv, StartStage, processed \subseteq processed',
         processed' \subseteq processed \cup 0..16, NEW c, c.op = "process2",
         \/ c.b = 0 /\ stack' = <<c>> \o Tail(stack)
         \/ \E f : /\ f.op \in StageOps \/ (c.b = 0 /\ f.op \in PlainOps)
                   /\ stack' = <<f, c>> \o Tail(stack)
  PROVE  FlowInv'
<1>1. StackOK /\ StackInv /\ stack # <<>> /\ Top.op = "process" /\ slow' = slow /\ UNCHANGED sessionVars
  BY TopFrame, Zenon DEF IInv, FlowInv, StartStage, runtimeVars
<1>2. Top.op # "fin" /\ Top.op # "abort" /\ c.op # "cleanup" /\ replies' = replies
  BY <1>1, Zenon DEF StartStage
<1>3. Fits(Top, Tail(stack)) => Fits(c, Tail(stack))
  BY <1>1 DEF Fits, Over, Alone, ProcessOps, StageOps
<1>4. \E P : Shift(P) /\ c \in P /\ Landed'
  <2>1. ASSUME c.b = 0, stack' = <<c>> \o Tail(stack) PROVE Shift({c}) /\ Landed'
    <3>1. Shift({c}) /\ Head(stack') = c
      BY <1>1, <1>2, <1>3, <2>1, ShiftOne, ZenonT(60)
    <3> QED
      BY <2>1, <3>1 DEF Landed, TopIs, Top
  <2>2. ASSUME NEW f, f.op \in StageOps \/ (c.b = 0 /\ f.op \in PlainOps),
               stack' = <<f, c>> \o Tail(stack)
        PROVE  Shift({f, c}) /\ Landed'
    <3>1. f.op # "cleanup" /\ f.op # "process2" /\ f.op # "task_fin2" /\ Over(f, c)
      BY <2>2 DEF Over, StageOps, PlainOps, ProcessOps
    <3>2. Shift({f, c}) /\ Head(stack') = f
      BY <1>1, <1>2, <1>3, <2>2, <3>1, ShiftTwo, ZenonT(60)
    <3> QED
      BY <3>1, <3>2, ZenonT(60) DEF Landed, TopIs, Top
  <2>3. \A f : c \in {c} /\ c \in {f, c}
    OBVIOUS
  <2> QED
    BY <2>1, <2>2, <2>3, ZenonT(60)
<1>5. PICK P : Shift(P) /\ c \in P
  BY <1>4, Zenon
<1>6. StackInv' /\ SlowInv'
  BY <1>1, <1>2, <1>5, ShiftKeeps, Zenon
<1>7. c \in Frames(stack')
  BY <1>5, Zenon DEF Shift
<1>8. ProcessingInv' /\ WakeInv'
  BY <1>7, Zenon DEF ProcessingInv, WakeInv, Wakes
<1>9. ReplyInv'
  BY <1>2, MarkedReply, Zenon DEF FlowInv
<1> QED
  BY <1>4, <1>6, <1>8, <1>9, Zenon DEF FlowInv

(* rspamd_task_process calls into the symbol cache.                        *)
LEMMA TaskProcessSymbolsFlow ==
  ASSUME IInv, FlowInv, TaskProcessSymbols
  PROVE  FlowInv'
<1>1. PICK st \in {SelectStage} \cap DOMAIN ExecStage :
        /\ processed' = SkippedStages(st)
        /\ Become(<<[Call("process_symbols") EXCEPT !.k = ExecStage[st]],
                    Continue(st, TRUE, 1)>>)
  BY Zenon DEF TaskProcessSymbols
<1> DEFINE c == Continue(st, TRUE, 1)
           f == [Call("process_symbols") EXCEPT !.k = ExecStage[st]]
<1>2. c.op = "process2" /\ f.op \in StageOps
  <2>1. \A k : [Call("process_symbols") EXCEPT !.k = k].op = "process_symbols"
    BY DEF Call, F0
  <2>2. c.op = "process2"
    BY Zenon DEF Continue, Call, F0
  <2> QED
    BY <2>1, <2>2, Zenon DEF StageOps
<1>3. st \in 0..16
  BY SelectStageType, Zenon DEF DONE
<1>4. processed \subseteq processed' /\ processed' \subseteq processed \cup 0..16
  BY <1>1, <1>3, SkippedStagesMark, Zenon
<1>5. StartStage /\ stack' = <<f, c>> \o Tail(stack)
  BY <1>1, Zenon DEF TaskProcessSymbols, Become
<1> HIDE DEF c, f
<1> QED
  BY <1>2, <1>4, <1>5, StartStageFlow, Zenon

(* rspamd_task_process calls into the statistics.                          *)
LEMMA TaskProcessStatFlow ==
  ASSUME IInv, FlowInv, TaskProcessStat
  PROVE  FlowInv'
<1> DEFINE active(st) == IF st \in Learn THEN AutoLearn ELSE verdict # "passthrough"
<1>1. PICK st \in {SelectStage} \cap (Classifiers \cup Learn), failed \in BOOLEAN :
        /\ processed' = SkippedStages(st) \cup (IF active(st) THEN {st} ELSE {})
                                          \cup (IF failed THEN Learn ELSE {})
        /\ Become(IF active(st) THEN <<CallOn("rule", curItem), Continue(st, TRUE, 0)>>
                                ELSE <<Continue(st, TRUE, 0)>>)
  BY Zenon DEF TaskProcessStat
<1> DEFINE c == Continue(st, TRUE, 0)
           f == CallOn("rule", curItem)
<1>2. c.op = "process2" /\ c.b = 0 /\ f.op \in PlainOps
  <2>1. c.op = "process2" /\ c.b = 0
    BY Zenon DEF Continue, Call, F0
  <2>2. f.op \in PlainOps
    BY CallOp DEF PlainOps
  <2> QED
    BY <2>1, <2>2, Zenon
<1>3. st \in 0..16 /\ Learn \subseteq 0..16
  <2>1. Learn \subseteq 0..16
    BY DEF Learn
  <2> QED
    BY <2>1, SelectStageType, Zenon DEF DONE
<1>4. processed \subseteq processed' /\ processed' \subseteq processed \cup 0..16
  <2>1. processed' \subseteq SkippedStages(st) \cup {st} \cup Learn
    BY <1>1, Zenon
  <2>2. SkippedStages(st) \subseteq processed'
    BY <1>1, Zenon
  <2> QED
    BY <1>3, <2>1, <2>2, SkippedStagesMark, ZenonT(60)
<1>5. StartStage /\ (stack' = <<f, c>> \o Tail(stack) \/ stack' = <<c>> \o Tail(stack))
  BY <1>1, Zenon DEF TaskProcessStat, Become
<1> HIDE DEF c, f
<1> QED
  BY <1>2, <1>4, <1>5, StartStageFlow, Zenon

(* The other stages of rspamd_task_process.                                *)
LEMMA TaskProcessOtherFlow ==
  ASSUME IInv, FlowInv, TaskProcessOther
  PROVE  FlowInv'
<1>1. PICK st \in {SelectStage}, ok \in BOOLEAN :
        /\ processed' = SkippedStages(st) \cup (IF st = DONE THEN {DONE} ELSE {})
        /\ Become(IF st \in CompositeStages THEN <<Call("composites"), Continue(st, ok, 0)>>
                                            ELSE <<Continue(st, ok, 0)>>)
  BY Zenon DEF TaskProcessOther
<1> DEFINE c == Continue(st, ok, 0)
           f == Call("composites")
<1>2. c.op = "process2" /\ c.b = 0 /\ f.op \in PlainOps
  <2>1. c.op = "process2" /\ c.b = 0
    BY Zenon DEF Continue, Call, F0
  <2>2. f.op \in PlainOps
    BY CallOp, Zenon DEF PlainOps
  <2> QED
    BY <2>1, <2>2, Zenon
<1>3. st \in 0..16 /\ DONE \in 0..16
  <2>1. DONE \in 0..16
    BY DEF DONE
  <2> QED
    BY <2>1, SelectStageType, Zenon DEF DONE
<1>4. processed \subseteq processed' /\ processed' \subseteq processed \cup 0..16
  <2>1. processed' \subseteq SkippedStages(st) \cup {DONE} /\ SkippedStages(st) \subseteq processed'
    BY <1>1, Zenon
  <2> QED
    BY <1>3, <2>1, SkippedStagesMark, Zenon
<1>5. StartStage /\ (stack' = <<f, c>> \o Tail(stack) \/ stack' = <<c>> \o Tail(stack))
  BY <1>1, Zenon DEF TaskProcessOther, Become
<1> HIDE DEF c, f
<1> QED
  BY <1>2, <1>4, <1>5, StartStageFlow, ZenonT(60)

(* rspamd_task_process, after the stage.                                   *)
LEMMA TaskProcessEndFlow ==
  ASSUME IInv, FlowInv, TaskProcessEnd
  PROVE  FlowInv'
<1> DEFINE marked == IF skip THEN processed \cup 0..14 ELSE processed
<1>1. /\ StackOK /\ StackInv /\ stack # <<>> /\ Top.op = "process2" /\ Top.k \in 0..16
      /\ UNCHANGED sessionVars /\ slow' = slow /\ processing' = FALSE /\ replies' = replies
  <2>1. WellFormed(Top) /\ stack # <<>> /\ Top.op = "process2"
    BY TopFrame, Zenon DEF IInv, TaskProcessEnd
  <2>2. Top.k \in 0..16
    BY <2>1, Zenon DEF WellFormed, DONE
  <2> QED
    BY <2>1, <2>2, Zenon DEF IInv, FlowInv, TaskProcessEnd, runtimeVars
<1>2. Top.op # "fin" /\ Top.op # "abort" /\ HasEvents' = HasEvents
  BY <1>1, Zenon DEF HasEvents, sessionVars
<1>3. processed \subseteq processed' /\ processed' \subseteq processed \cup 0..16
  <2>1. processed \subseteq marked /\ marked \subseteq processed \cup 0..16
    OBVIOUS
  <2>2. marked \subseteq processed' /\ processed' \subseteq marked \cup {DONE, Top.k}
    BY Zenon DEF TaskProcessEnd
  <2>3. DONE \in 0..16
    BY DEF DONE
  <2> HIDE DEF marked
  <2> QED
    BY <1>1, <2>1, <2>2, <2>3, ZenonT(60)
<1>4. ReplyInv'
  BY <1>1, <1>3, MarkedReply, Zenon DEF FlowInv
<1>5. ProcessingInv'
  BY <1>1, Zenon DEF ProcessingInv
<1>6. ASSUME stack' = Tail(stack), IsProcessed' \/ (ret' /\ HasEvents) PROVE FlowInv'
  <2>1. Shift({}) /\ Fits(Top, stack') /\ (stack' # <<>> => Head(stack') \in Frames(stack'))
    BY <1>1, <1>6, ShiftPop, Zenon
  <2>2. StackInv' /\ SlowInv'
    BY <1>1, <1>2, <2>1, ShiftKeeps, ZenonT(60)
  <2>3. stack' # <<>> /\ Head(stack').op \in {"task_fin2", "finish", "pending"}
    BY <1>1, <2>1, SMTT(30) DEF Fits, Over, Alone, ProcessOps
  <2>4. Landed'
    BY <1>6, <2>3, Zenon DEF Landed, TopIs, Top
  <2>5. WakeInv'
    BY <1>2, <1>6, <2>1, <2>3, ZenonT(60) DEF WakeInv, Wakes
  <2> QED
    BY <1>4, <1>5, <2>2, <2>4, <2>5, ZenonT(60) DEF FlowInv
<1>7. ASSUME stack' = <<Call("process")>> \o Tail(stack) PROVE FlowInv'
  <2> DEFINE f == Call("process")
  <2>1. f.op = "process" /\ stack' = <<f>> \o Tail(stack)
    BY <1>7, CallOp, ZenonT(60)
  <2> HIDE DEF f
  <2>2. Fits(Top, Tail(stack)) => Fits(f, Tail(stack))
    BY <1>1, <2>1, SMTT(30) DEF Fits, Over, Alone, ProcessOps, StageOps
  <2>3. Shift({f}) /\ stack' # <<>> /\ Head(stack') = f
    BY <1>1, <2>1, <2>2, ShiftOne, ZenonT(60)
  <2>4. StackInv' /\ SlowInv'
    BY <1>1, <1>2, <2>3, ShiftKeeps, ZenonT(60)
  <2>5. Landed'
    BY <2>1, <2>3, Zenon DEF Landed, TopIs, Top
  <2>6. WakeInv'
    BY <2>1, <2>3, Zenon DEF WakeInv, Wakes, Shift
  <2> QED
    BY <1>4, <1>5, <2>4, <2>5, <2>6, Zenon DEF FlowInv
<1>8. \/ stack' = Tail(stack) /\ (IsProcessed' \/ (ret' /\ HasEvents))
      \/ stack' = <<Call("process")>> \o Tail(stack)
  <2> HIDE DEF marked
  <2>1. \/ processed' = marked \cup {DONE} /\ Return(FALSE)
        \/ (DONE \in marked \/ HasEvents) /\ processed' = marked /\ Return(TRUE)
        \/ Become(<<Call("process")>>)
    BY Zenon DEF TaskProcessEnd, marked
  <2> QED
    BY <2>1, Zenon DEF Return, Become, IsProcessed
<1> QED
  BY <1>6, <1>7, <1>8, Zenon

(* The reply, sent for a task that is done.                                *)
LEMMA TaskReplyFlow ==
  ASSUME ReplyInv, IsProcessed, TaskReply
  PROVE  ReplyInv' /\ REPLIED \in processed'
<1>1. CASE REPLIED \in processed
  BY <1>1, Zenon DEF TaskReply, ReplyInv, IsProcessed
<1>2. CASE REPLIED \notin processed
  <2>1. replies = 0 /\ processed' = processed \cup {REPLIED} /\ replies' = replies + 1
    BY <1>2, Zenon DEF TaskReply, ReplyInv
  <2>2. REPLIED \in processed' /\ IsProcessed'
    BY <2>1, Zenon DEF IsProcessed
  <2>3. replies' = 1
    BY <2>1
  <2> QED
    BY <2>2, <2>3, Zenon DEF ReplyInv
<1> QED
  BY <1>1, <1>2, Zenon

(* rspamd_task_fin.                                                        *)
LEMMA TaskFinFlow ==
  ASSUME IInv, FlowInv, TaskFin
  PROVE  FlowInv'
<1>1. StackOK /\ StackInv /\ ReplyInv /\ stack # <<>> /\ Top.op = "task_fin"
  BY TopFrame, Zenon DEF IInv, FlowInv, TaskFin
<1>2. /\ Top.op # "fin" /\ Top.op # "abort" /\ Top.op # "process2" /\ UNCHANGED sessionVars
      /\ slow' = slow /\ processing' = processing
  BY <1>1, Zenon DEF TaskFin, runtimeVars
<1>3. ASSUME IsProcessed, TaskReply, Finish PROVE FlowInv'
  <2>1. Shift({}) /\ (stack' # <<>> => Over(Top, Head(stack')))
    BY <1>1, <1>3, ShiftPop, ZenonT(60) DEF Finish
  <2>2. StackInv' /\ SlowInv' /\ ProcessingInv'
    BY <1>1, <1>2, <2>1, ShiftKeeps, ZenonT(60)
  <2>3. Landed'
    BY <1>1, <2>1, Zenon DEF Landed, TopIs, Top, Over, ProcessOps, StageOps
  <2>4. ReplyInv' /\ WakeInv'
    BY <1>1, <1>3, TaskReplyFlow, ZenonT(60) DEF WakeInv
  <2> QED
    BY <2>2, <2>3, <2>4, ZenonT(60) DEF FlowInv
<1>4. ASSUME Become(<<Call("process"), Call("task_fin2")>>), UNCHANGED <<processed, replies>>
      PROVE  FlowInv'
  <2> DEFINE f == Call("process")
             g == Call("task_fin2")
  <2>1. f.op = "process" /\ g.op = "task_fin2" /\ stack' = <<f, g>> \o Tail(stack)
    BY <1>4, CallOp, ZenonT(60) DEF Become
  <2> HIDE DEF f, g
  <2>2. Over(f, g) /\ (Fits(Top, Tail(stack)) => Fits(g, Tail(stack)))
    BY <1>1, <2>1, SMTT(30) DEF Fits, Over, Alone, ProcessOps, StageOps
  <2>3. Shift({f, g}) /\ stack' # <<>> /\ Head(stack') = f
    BY <1>1, <2>1, <2>2, ShiftTwo, ZenonT(60)
  <2>4. StackInv' /\ SlowInv' /\ ProcessingInv'
    BY <1>1, <1>2, <2>3, ShiftKeeps, Zenon
  <2>5. Landed'
    BY <2>1, <2>3, Zenon DEF Landed, TopIs, Top
  <2>6. WakeInv'
    BY <2>1, <2>3, Zenon DEF WakeInv, Wakes, Shift
  <2>7. ReplyInv'
    BY <1>1, <1>4, Zenon DEF ReplyInv, IsProcessed
  <2> QED
    BY <2>4, <2>5, <2>6, <2>7, ZenonT(60) DEF FlowInv
<1> QED
  BY <1>3, <1>4, Zenon DEF TaskFin

(* rspamd_task_fin, after rspamd_task_process.                             *)
LEMMA TaskFinEndFlow ==
  ASSUME IInv, FlowInv, TaskFinEnd
  PROVE  FlowInv'
<1>1. /\ StackOK /\ StackInv /\ ReplyInv /\ stack # <<>> /\ Top.op = "task_fin2"
      /\ stack' = Tail(stack)
  BY TopFrame, Zenon DEF IInv, FlowInv, TaskFinEnd, Finish
<1>2. /\ Top.op # "fin" /\ Top.op # "abort" /\ Top.op # "process2" /\ UNCHANGED sessionVars
      /\ slow' = slow /\ processing' = processing /\ conn' = conn /\ HasEvents' = HasEvents
  BY <1>1, Zenon DEF TaskFinEnd, runtimeVars, sessionVars, HasEvents
<1>3. Shift({}) /\ (stack' # <<>> => Over(Top, Head(stack')))
  BY <1>1, ShiftPop, Zenon
<1>4. /\ StackInv' /\ SlowInv' /\ ProcessingInv'
      /\ \A f \in Frames(stack) : f = Top \/ f \in Frames(stack')
  BY <1>1, <1>2, <1>3, ShiftKeeps, ZenonT(60)
<1>5. Landed'
  BY <1>1, <1>3, Zenon DEF Landed, TopIs, Top, Over, ProcessOps, StageOps
<1>6. ReplyInv' /\ WakeInv'
  <2>1. CASE IsProcessed
    BY <1>1, <2>1, TaskReplyFlow, ZenonT(60) DEF TaskFinEnd, WakeInv
  <2>2. CASE ~IsProcessed
    <3>1. ret
      BY <1>1, <2>2, Zenon DEF FlowInv, Landed, TopIs
    <3>2. processed' = processed /\ replies' = replies
      BY <2>2, <3>1, ZenonT(60) DEF TaskFinEnd
    <3>3. ~Wakes(Top, IsProcessed)
      BY <1>1, <2>2, SMTT(30) DEF Wakes
    <3>4. WakeInv'
      BY <1>2, <1>4, <3>2, <3>3, ZenonT(60) DEF FlowInv, WakeInv, IsProcessed
    <3> QED
      BY <1>1, <3>2, <3>4, ZenonT(60) DEF ReplyInv, IsProcessed
  <2> QED
    BY <2>1, <2>2, Zenon
<1> QED
  BY <1>4, <1>5, <1>6, ZenonT(60) DEF FlowInv

(* rspamd_task_free.                                                       *)
LEMMA TaskFreeFlow ==
  ASSUME IInv, FlowInv, TaskFree
  PROVE  FlowInv'
<1>1. /\ StackOK /\ StackInv /\ stack # <<>> /\ Top.op = "free" /\ stack' = Tail(stack)
      /\ conn' = "freed"
  BY TopFrame, Zenon DEF IInv, FlowInv, TaskFree, Finish
<1>2. /\ Top.op # "fin" /\ Top.op # "abort" /\ Top.op # "process2" /\ UNCHANGED sessionVars
      /\ slow' = slow /\ processing' = processing /\ processed' = processed /\ replies' = replies
  BY <1>1, Zenon DEF TaskFree, runtimeVars
<1>3. Shift({}) /\ (stack' # <<>> => Over(Top, Head(stack')))
  BY <1>1, ShiftPop, Zenon
<1>4. StackInv' /\ SlowInv' /\ ProcessingInv'
  BY <1>1, <1>2, <1>3, ShiftKeeps, Zenon
<1>5. Landed'
  BY <1>1, <1>3, Zenon DEF Landed, TopIs, Top, Over, ProcessOps, StageOps
<1>6. WakeInv'
  BY <1>1 DEF WakeInv
<1>7. ReplyInv'
  BY <1>2, Zenon DEF FlowInv, ReplyInv, IsProcessed
<1> QED
  BY <1>4, <1>5, <1>6, <1>7, Zenon DEF FlowInv

(* rspamd_worker_finish_handler.                                           *)
LEMMA FinishReadFlow ==
  ASSUME IInv, FlowInv, FinishRead
  PROVE  FlowInv'
<1>1. StackOK /\ StackInv /\ stack # <<>> /\ Top.op = "finish"
  BY TopFrame, Zenon DEF IInv, FlowInv, FinishRead
<1>2. /\ Top.op # "fin" /\ Top.op # "abort" /\ Top.op # "process2" /\ UNCHANGED sessionVars
      /\ slow' = slow /\ processing' = processing /\ conn' = conn /\ HasEvents' = HasEvents
      /\ processed' = processed /\ IsProcessed' = IsProcessed /\ ReplyInv'
  BY <1>1, Zenon DEF FinishRead, runtimeVars, sessionVars, HasEvents, procVars, FlowInv, ReplyInv, IsProcessed
<1>3. ASSUME ~IsProcessed, Finish PROVE FlowInv'
  <2>1. Shift({}) /\ (stack' # <<>> => Over(Top, Head(stack')))
    BY <1>1, <1>3, ShiftPop, Zenon DEF Finish
  <2>2. /\ StackInv' /\ SlowInv' /\ ProcessingInv'
        /\ \A f \in Frames(stack) : f = Top \/ f \in Frames(stack')
    BY <1>1, <1>2, <2>1, ShiftKeeps, Zenon
  <2>3. Landed'
    BY <1>1, <2>1, Zenon DEF Landed, TopIs, Top, Over, ProcessOps, StageOps
  <2>4. ~Wakes(Top, IsProcessed)
    BY <1>1, <1>3 DEF Wakes
  <2>5. WakeInv'
    BY <1>2, <2>2, <2>4, Zenon DEF FlowInv, WakeInv
  <2> QED
    BY <1>2, <2>2, <2>3, <2>5, ZenonT(60) DEF FlowInv
<1>4. ASSUME Become(<<Call("pending")>>) PROVE FlowInv'
  <2> DEFINE f == Call("pending")
  <2>1. f.op = "pending" /\ stack' = <<f>> \o Tail(stack)
    BY <1>4, CallOp, Zenon DEF Become
  <2> HIDE DEF f
  <2>2. Fits(Top, Tail(stack)) => Fits(f, Tail(stack))
    BY <1>1, <2>1 DEF Fits, Over, Alone, ProcessOps, StageOps
  <2>3. Shift({f}) /\ stack' # <<>> /\ Head(stack') = f
    BY <1>1, <2>1, <2>2, ShiftOne, Zenon
  <2>4. StackInv' /\ SlowInv' /\ ProcessingInv'
    BY <1>1, <1>2, <2>3, ShiftKeeps, Zenon
  <2>5. Landed'
    BY <2>1, <2>3, Zenon DEF Landed, TopIs, Top
  <2>6. WakeInv'
    BY <2>1, <2>3, Zenon DEF WakeInv, Wakes, Shift
  <2> QED
    BY <1>2, <2>4, <2>5, <2>6, Zenon DEF FlowInv
<1> QED
  BY <1>3, <1>4, Zenon DEF FinishRead

(* The stack of a loop that waits.                                         *)
LEMMA NoFrames ==
  /\ <<>> \in Seq(Frame) /\ Frames(<<>>) = {} /\ Flow(<<>>) /\ OneCleanup(<<>>)
  /\ \A f : Alone(f) => Fits(f, <<>>)
<1>1. <<>> \in Seq(Frame) /\ 1..Len(<<>>) = {}
  OBVIOUS
<1> QED
  BY <1>1, Zenon DEF Frames, Flow, OneCleanup, Fits

(* A callback that makes one call.                                         *)
LEMMA OneFrame ==
  ASSUME NEW f, Alone(f)
  PROVE  /\ <<f>> \o <<>> # <<>> /\ Head(<<f>> \o <<>>) = f /\ Frames(<<f>> \o <<>>) = {f}
         /\ Flow(<<f>> \o <<>>) /\ OneCleanup(<<f>> \o <<>>)
<1> DEFINE s == <<>>
<1>1. s \in Seq(Frame) /\ Frames(s) = {} /\ Flow(s) /\ OneCleanup(s) /\ Fits(f, s)
  BY NoFrames, Zenon
<1> HIDE DEF s
<1>2. \A g \in Frames(s) : g.op # "cleanup"
  BY <1>1, Zenon
<1>3. /\ <<f>> \o s # <<>> /\ Head(<<f>> \o s) = f /\ Frames(<<f>> \o s) = {f} \cup Frames(s)
      /\ Flow(<<f>> \o s) /\ OneCleanup(<<f>> \o s)
  BY <1>1, <1>2, PushFlow, Zenon
<1>4. {f} \cup {} = {f}
  OBVIOUS
<1> QED
  BY <1>1, <1>3, <1>4, Zenon DEF s

(* A callback that makes two calls.                                        *)
LEMMA TwoFrames ==
  ASSUME NEW f, NEW g, Over(f, g), Alone(g), f.op # "cleanup"
  PROVE  /\ <<f, g>> \o <<>> # <<>> /\ Head(<<f, g>> \o <<>>) = f
         /\ Frames(<<f, g>> \o <<>>) = {f, g}
         /\ Flow(<<f, g>> \o <<>>) /\ OneCleanup(<<f, g>> \o <<>>)
<1> DEFINE s == <<>>
<1>1. s \in Seq(Frame) /\ Frames(s) = {} /\ Flow(s) /\ OneCleanup(s) /\ Fits(g, s)
  BY NoFrames, Zenon
<1> HIDE DEF s
<1>2. \A h \in Frames(s) : h.op # "cleanup"
  BY <1>1, Zenon
<1>3. /\ <<f, g>> \o s # <<>> /\ Head(<<f, g>> \o s) = f /\ Frames(<<f, g>> \o s) = {f, g} \cup Frames(s)
      /\ Flow(<<f, g>> \o s) /\ OneCleanup(<<f, g>> \o s)
  BY <1>1, <1>2, PushTwoFlow, Zenon
<1>4. {f, g} \cup {} = {f, g}
  OBVIOUS
<1> QED
  BY <1>1, <1>3, <1>4, Zenon DEF s

(* A callback that makes three calls.                                      *)
LEMMA ThreeFrames ==
  ASSUME NEW f, NEW g, NEW h, Over(f, g), Over(g, h), Alone(h),
         f.op # "cleanup", g.op # "cleanup", h.op # "cleanup"
  PROVE  /\ <<f, g, h>> \o <<>> # <<>> /\ Head(<<f, g, h>> \o <<>>) = f
         /\ Frames(<<f, g, h>> \o <<>>) = {f, g, h}
         /\ Flow(<<f, g, h>> \o <<>>) /\ OneCleanup(<<f, g, h>> \o <<>>)
<1> DEFINE s == <<>>
<1>1. s \in Seq(Frame) /\ Frames(s) = {} /\ Flow(s) /\ OneCleanup(s) /\ Fits(h, s)
  BY NoFrames, Zenon
<1> HIDE DEF s
<1>2. /\ Head(<<f, g, h>> \o s) = f /\ Frames(<<f, g, h>> \o s) = {f, g, h} \cup Frames(s)
      /\ Flow(<<f, g, h>> \o s) /\ OneCleanup(<<f, g, h>> \o s)
  <2>1. Over(f, g) /\ Over(g, h) /\ f.op # "cleanup" /\ g.op # "cleanup" /\ h.op # "cleanup"
    OBVIOUS
  <2>0. s \in Seq(Frame)
    BY <1>1, Zenon
  <2>2. Head(<<f, g, h>> \o s) = f /\ Frames(<<f, g, h>> \o s) = {f, g, h} \cup Frames(s)
    BY <2>0, PushThreeFlow, Zenon
  <2>3. Flow(<<f, g, h>> \o s)
    BY <1>1, <2>1, PushThreeFlow, Zenon
  <2>4. OneCleanup(<<f, g, h>> \o s)
    BY <1>1, <2>1, PushThreeFlow, Zenon
  <2> QED
    BY <2>2, <2>3, <2>4, SMTT(30)
<1>4. <<f, g, h>> \o s # <<>>
  BY <1>1
<1>3. {f, g, h} \cup {} = {f, g, h}
  OBVIOUS
<1> QED
  BY <1>1, <1>2, <1>3, <1>4, Zenon DEF s

(* What holds while the loop waits.                                        *)
LEMMA WaitFlow ==
  ASSUME FlowInv, stack = <<>>
  PROVE  /\ ~processing /\ ReplyInv
         /\ slow = "enabled" => \E e \in events : e.kind = "slow"
         /\ conn = "scanning" => HasEvents \/ REPLIED \in processed
<1>1. Frames(stack) = {}
  BY NoFrames, Zenon
<1> QED
  BY <1>1, Zenon DEF FlowInv, ProcessingInv, WakeInv, SlowInv, TopIs

(* The loop delivers a callback.                                           *)
LEMMA LoopFlow ==
  ASSUME FlowInv, stack = <<>>, Flow(stack'), OneCleanup(stack'),
         \A f \in Frames(stack') : f.op # "cleanup",
         stack' # <<>>, Head(stack').op # "task_fin2", Head(stack').op # "process2",
         UNCHANGED sessionVars, slow' = slow, processing' = processing, processed' = processed,
         replies' = replies,
         conn' = conn \/ \E f \in Frames(stack') : f.op = "process"
  PROVE  FlowInv'
<1>1. /\ ~processing /\ ReplyInv
      /\ slow = "enabled" => \E e \in events : e.kind = "slow"
      /\ conn = "scanning" => HasEvents \/ REPLIED \in processed
  BY WaitFlow, Zenon
<1>2. events' = events /\ flags' = flags
  BY Zenon DEF sessionVars
<1>3. StackInv' /\ Landed'
  BY Zenon DEF StackInv, Landed, TopIs, Top
<1>4. ProcessingInv' /\ SlowInv' /\ ReplyInv'
  BY <1>1, <1>2, Zenon DEF ProcessingInv, SlowInv, ReplyInv, IsProcessed
<1>5. WakeInv'
  BY <1>1, <1>2, Zenon DEF WakeInv, Wakes, HasEvents
<1> QED
  BY <1>3, <1>4, <1>5, Zenon DEF FlowInv

(* rspamd_worker_body_handler.                                             *)
LEMMA BodyHandlerFlow ==
  ASSUME FlowInv, BodyHandler
  PROVE  FlowInv'
<1> DEFINE f == Call("process")
           g == Call("finish")
<1>1. f.op = "process" /\ g.op = "finish" /\ stack = <<>> /\ stack' = <<f, g>> \o <<>>
  BY CallOp, Zenon DEF BodyHandler, Run
<1>2. /\ UNCHANGED sessionVars /\ slow' = slow /\ processing' = processing
      /\ processed' = processed /\ replies' = replies
  BY Zenon DEF BodyHandler, runtimeVars
<1> HIDE DEF f, g
<1>3. Over(f, g) /\ Alone(g) /\ f.op # "cleanup" /\ g.op # "cleanup"
  BY <1>1 DEF Over, Alone, ProcessOps
<1>4. /\ stack' # <<>> /\ Head(stack') = f /\ Frames(stack') = {f, g}
      /\ Flow(stack') /\ OneCleanup(stack')
  BY <1>1, <1>3, TwoFrames, Zenon
<1>5. /\ \A h \in Frames(stack') : h.op # "cleanup"
      /\ \E h \in Frames(stack') : h.op = "process"
      /\ Head(stack').op # "task_fin2" /\ Head(stack').op # "process2"
  BY <1>1, <1>3, <1>4, ZenonT(60)
<1> QED
  BY <1>1, <1>2, <1>4, <1>5, LoopFlow, ZenonT(60)

(* A callback that makes plain calls.                                      *)
LEMMA PlainFrames ==
  ASSUME NEW f, f.op \in PlainOps
  PROVE  f.op # "cleanup" /\ f.op # "task_fin2" /\ f.op # "process2" /\ Alone(f)
BY DEF PlainOps, Alone, ProcessOps

(* A request completes.                                                    *)
LEMMA EventCompletedFlow ==
  ASSUME FlowInv, NEW e \in Event, EventCompleted(e)
  PROVE  FlowInv'
<1> DEFINE r == CallEv("remove", e)
           f == CallOn("rule", e.item)
           d == CallOn("dec_check", e.item)
           p == [CallOn("rdeps", e.item) EXCEPT !.k = 1]
<1>1. r.op \in PlainOps /\ f.op \in PlainOps /\ d.op \in PlainOps /\ p.op \in PlainOps
  BY CallOp DEF PlainOps
<1>2. /\ stack = <<>>
      /\ \/ stack' = <<r>> \o <<>>
         \/ stack' = <<f, d, r>> \o <<>>
         \/ stack' = <<r, p>> \o <<>>
  BY Zenon DEF EventCompleted, Idle, Run
<1>3. /\ UNCHANGED sessionVars /\ slow' = slow /\ processing' = processing
      /\ processed' = processed /\ replies' = replies /\ conn' = conn
  BY Zenon DEF EventCompleted, procVars
<1> HIDE DEF r, f, d, p
<1>4. /\ stack' # <<>> /\ Flow(stack') /\ OneCleanup(stack') /\ Head(stack').op \in PlainOps
      /\ \A h \in Frames(stack') : h.op \in PlainOps
  <2>1. ASSUME stack' = <<r>> \o <<>>
        PROVE  stack' # <<>> /\ Flow(stack') /\ OneCleanup(stack') /\ Head(stack') = r /\ Frames(stack') = {r}
    BY <1>1, <2>1, PlainFrames, OneFrame, ZenonT(60)
  <2>2. ASSUME stack' = <<r, p>> \o <<>>
        PROVE  stack' # <<>> /\ Flow(stack') /\ OneCleanup(stack') /\ Head(stack') = r /\ Frames(stack') = {r, p}
    <3>1. Over(r, p) /\ Alone(p) /\ r.op # "cleanup" /\ p.op # "cleanup"
      BY <1>1, PlainFrames, PlainOver, ZenonT(60)
    <3> QED
      BY <2>2, <3>1, TwoFrames, ZenonT(60)
  <2>3. ASSUME stack' = <<f, d, r>> \o <<>>
        PROVE  stack' # <<>> /\ Flow(stack') /\ OneCleanup(stack') /\ Head(stack') = f /\ Frames(stack') = {f, d, r}
    <3>1. /\ Over(f, d) /\ Over(d, r) /\ Alone(r)
          /\ r.op # "cleanup" /\ f.op # "cleanup" /\ d.op # "cleanup"
      BY <1>1, PlainFrames, PlainOver, Zenon
    <3> QED
      BY <2>3, <3>1, ThreeFrames, Zenon
  <2> QED
    BY <1>1, <1>2, <2>1, <2>2, <2>3, ZenonT(60)
<1>5. /\ \A h \in Frames(stack') : h.op # "cleanup"
      /\ Head(stack').op # "task_fin2" /\ Head(stack').op # "process2"
  BY <1>4, PlainFrames, Zenon
<1> QED
  BY <1>2, <1>3, <1>4, <1>5, LoopFlow, ZenonT(60)

(* A cleanup starts, and the frame c is called after it.                   *)
LEMMA StartCleanupFlow ==
  ASSUME FlowInv, stack = <<>>, NEW fl, NEW after, StartCleanup(fl, after),
         after \in Seq(Frame), Flow(after), Frames(after) # {}, OneCleanup(after),
         \A f \in Frames(after) : f.op # "cleanup",
         after # <<>>, Head(after).op \in {"process", "free"}, Head(after) \in Frames(after),
         slow' = slow, processing' = processing, replies' = replies,
         processed \subseteq processed', processed' \subseteq processed \cup 0..16
  PROVE  FlowInv'
<1> DEFINE g == [Call("cleanup") EXCEPT !.todo = events]
<1>1. g.op = "cleanup" /\ g.todo = events
  BY DEF Call, F0
<1>2. stack' = <<g>> \o after /\ flags' = flags \cup {"CLEANUP"} \cup fl /\ events' = events
  BY Zenon DEF StartCleanup
<1> HIDE DEF g
<1>3. Fits(g, after)
  BY <1>1 DEF Fits, Over, ProcessOps, StageOps
<1>4. /\ stack' # <<>> /\ Head(stack') = g /\ Frames(stack') = {g} \cup Frames(after)
      /\ Flow(stack') /\ OneCleanup(stack')
  BY <1>2, <1>3, PushFlow, Zenon
<1>5. /\ ~processing /\ ReplyInv
      /\ slow = "enabled" => \E e \in events : e.kind = "slow"
  BY WaitFlow, Zenon
<1>6. StackInv' /\ Landed'
  <2>1. "CLEANUP" \in flags'
    BY <1>2, Zenon
  <2> QED
    BY <1>1, <1>4, <2>1, Zenon DEF StackInv, Landed, TopIs, Top
<1>7. ProcessingInv' /\ ReplyInv'
  BY <1>5, MarkedReply, Zenon DEF ProcessingInv
<1>8. WakeInv'
  BY <1>4, Zenon DEF WakeInv, Wakes
<1>9. SlowInv'
  BY <1>1, <1>2, <1>4, <1>5, ZenonT(60) DEF SlowInv
<1> QED
  BY <1>6, <1>7, <1>8, <1>9, ZenonT(60) DEF FlowInv

(* rspamd_task_timeout.                                                    *)
LEMMA TaskTimeoutFlow ==
  ASSUME FlowInv, TaskTimeout
  PROVE  FlowInv'
<1> DEFINE f == Call("process")
           g == Call("pending")
           s == <<f, g>> \o <<>>
<1>1. f.op = "process" /\ g.op = "pending" /\ stack = <<>> /\ StartCleanup({}, <<f, g>>)
  BY CallOp, Zenon DEF TaskTimeout, Idle, AfterTimeout
<1>2. f \in Frame /\ g \in Frame
  BY PlainFrame, Zenon
<1>3. slow' = slow /\ processing' = processing /\ replies' = replies
  BY Zenon DEF TaskTimeout, runtimeVars
<1>4. processed \subseteq processed' /\ processed' \subseteq processed \cup 0..16
  <2>1. processed \subseteq processed' /\ processed' \subseteq processed \cup {FILTERS, DONE}
    BY Zenon DEF TaskTimeout
  <2>2. {FILTERS, DONE} \subseteq 0..16
    BY DEF FILTERS, DONE
  <2> QED
    BY <2>1, <2>2, Zenon
<1> HIDE DEF f, g
<1>5. <<f, g>> = s /\ s \in Seq(Frame)
  BY <1>2
<1>6. Over(f, g) /\ Alone(g) /\ f.op # "cleanup" /\ g.op # "cleanup"
  BY <1>1 DEF Over, Alone, ProcessOps
<1>7. /\ s # <<>> /\ Head(s) = f /\ Frames(s) = {f, g}
      /\ Flow(s) /\ OneCleanup(s)
  BY <1>6, TwoFrames, Zenon
<1>8. StartCleanup({}, s)
  BY <1>1, <1>5, Zenon
<1> HIDE DEF s
<1>9. /\ \A h \in Frames(s) : h.op # "cleanup"
      /\ Head(s).op \in {"process", "free"} /\ Head(s) \in Frames(s) /\ Frames(s) # {}
  BY <1>1, <1>6, <1>7, Zenon
<1> QED
  BY <1>1, <1>3, <1>4, <1>5, <1>7, <1>8, <1>9, StartCleanupFlow, ZenonT(60)

(* rspamd_session_destroy.                                                 *)
LEMMA SessionDestroyFlow ==
  ASSUME FlowInv, stack = <<>>, SessionDestroy, slow' = slow, processing' = processing,
         replies' = replies, processed' = processed
  PROVE  FlowInv'
<1> DEFINE f == Call("free")
           s == <<f>> \o <<>>
<1>1. f.op = "free" /\ StartCleanup({"DESTROYING"}, <<f>>)
  BY CallOp, Zenon DEF SessionDestroy
<1>2. f \in Frame
  BY PlainFrame, Zenon
<1> HIDE DEF f
<1>3. <<f>> = s /\ s \in Seq(Frame)
  BY <1>2
<1>4. Alone(f) /\ f.op # "cleanup"
  BY <1>1 DEF Alone, ProcessOps
<1>5. s # <<>> /\ Head(s) = f /\ Frames(s) = {f} /\ Flow(s) /\ OneCleanup(s)
  BY <1>4, OneFrame, Zenon
<1>6. StartCleanup({"DESTROYING"}, s)
  BY <1>1, <1>3, Zenon
<1> HIDE DEF s
<1>7. /\ \A h \in Frames(s) : h.op # "cleanup"
      /\ Head(s).op \in {"process", "free"} /\ Head(s) \in Frames(s) /\ Frames(s) # {}
  BY <1>1, <1>4, <1>5, ZenonT(60)
<1>8. processed \subseteq processed' /\ processed' \subseteq processed \cup 0..16
  BY Zenon
<1> QED
  BY <1>3, <1>5, <1>6, <1>7, <1>8, StartCleanupFlow, ZenonT(60)

(* A step that changes nothing of it.                                      *)
LEMMA SameFlow ==
  ASSUME FlowInv, stack' = stack, ret' = ret, events' = events, flags' = flags, slow' = slow,
         processing' = processing, processed' = processed, replies' = replies, conn' = conn
  PROVE  FlowInv'
BY Zenon DEF FlowInv, StackInv, Landed, ProcessingInv, WakeInv, SlowInv, ReplyInv, TopIs, Top,
             HasEvents, IsProcessed

(* The steps of the scheduler.                                             *)
LEMMA SchedulerFlow ==
  ASSUME IInv, FlowInv, RuntimeStep, UNCHANGED procVars
  PROVE  FlowInv'
BY StageFlow, CheckItemDepsFlow, ProcessSymbolFlow, FinalizeItemFlow, RdepsFlow, RuleFlow,
   EventFinFlow, Zenon DEF RuntimeStep

(* The steps of the task.                                                  *)
LEMMA TaskFlow ==
  ASSUME IInv, FlowInv, TaskStep
  PROVE  FlowInv'
BY TaskProcessNestedFlow, TaskProcessSymbolsFlow, TaskProcessStatFlow, TaskProcessOtherFlow,
   TaskProcessEndFlow, TaskFinFlow, TaskFinEndFlow, TaskFreeFlow, FinishReadFlow, ZenonT(60) DEF TaskStep

(* The peer has gone, or the reply is written.                             *)
LEMMA ClosedFlow ==
  ASSUME FlowInv, GuardClosed \/ ReplyWritten
  PROVE  FlowInv'
<1>1. /\ stack = <<>> /\ slow' = slow /\ processing' = processing /\ processed' = processed
      /\ replies' = replies /\ conn' = conn
  BY Zenon DEF GuardClosed, ReplyWritten, Idle, runtimeVars, procVars
<1>2. ASSUME SessionDestroy PROVE FlowInv'
  BY <1>1, <1>2, SessionDestroyFlow, Zenon
<1>3. ASSUME UNCHANGED <<sessionVars, loopVars>> PROVE FlowInv'
  BY <1>1, <1>3, SameFlow, ZenonT(60) DEF sessionVars, loopVars
<1> QED
  BY <1>2, <1>3, Zenon DEF GuardClosed, ReplyWritten

(* The invariant holds at first.                                           *)
LEMMA InitFlow == Init => FlowInv
<1> SUFFICES ASSUME Init PROVE FlowInv
  OBVIOUS
<1>1. /\ stack = <<>> /\ processing = FALSE /\ conn = "reading" /\ slow = "none"
      /\ processed = {} /\ replies = 0
  BY Zenon DEF Init, SessionInit, RuntimeInit
<1>2. StackInv /\ Landed /\ ProcessingInv
  BY <1>1, NoFrames, ZenonT(60) DEF StackInv, Landed, ProcessingInv, TopIs
<1>3. WakeInv /\ SlowInv
  BY <1>1 DEF WakeInv, SlowInv
<1>4. ReplyInv
  BY <1>1, Zenon DEF ReplyInv
<1> QED
  BY <1>2, <1>3, <1>4, Zenon DEF FlowInv

(* Every step keeps the invariant.                                         *)
LEMMA NextFlow == IInv /\ FlowInv /\ [Next]_vars => FlowInv'
<1> SUFFICES ASSUME IInv, FlowInv, [Next]_vars PROVE FlowInv'
  OBVIOUS
<1>1. ASSUME Step PROVE FlowInv'
  <2>1. ASSUME SessionStep, UNCHANGED procVars PROVE FlowInv'
    BY <2>1, RemoveEventFlow, PendingFlow, CleanupFlow, ZenonT(60) DEF SessionStep
  <2> QED
    BY <1>1, <2>1, SchedulerFlow, TaskFlow, ZenonT(60) DEF Step
<1>2. ASSUME UNCHANGED vars PROVE FlowInv'
  BY <1>2, SameFlow, ZenonT(60) DEF vars, sessionVars, loopVars, runtimeVars, procVars
<1> QED
  BY <1>1, <1>2, BodyHandlerFlow, EventCompletedFlow, TaskTimeoutFlow, ClosedFlow, ZenonT(60)
  DEF Next, Released

(* The flow of control of every scan: which call may wait for which.       *)
THEOREM FlowInvariance == Spec => []FlowInv
<1>1. QED
  BY InitFlow, NextFlow, Invariance, PTL DEF Spec

(* For every plan and every behaviour of the rules rspamd_task_reply       *)
(* writes at most one reply, and only for a task that is processed.        *)
THEOREM OneReplySent == Spec => []OneReply
<1>1. FlowInv => OneReply
  <2> SUFFICES ASSUME FlowInv PROVE OneReply
    OBVIOUS
  <2>1. CASE REPLIED \in processed
    BY <2>1, SMTT(30) DEF FlowInv, ReplyInv, OneReply
  <2>2. CASE REPLIED \notin processed
    BY <2>2, SMTT(30) DEF FlowInv, ReplyInv, OneReply
  <2> QED
    BY <2>1, <2>2, SMTT(30)
<1>2. QED
  BY <1>1, FlowInvariance, PTL

(* For every plan rspamd_task_process never repeats a stage at once: when  *)
(* process_symbols has not finished a stage, the session has an event.     *)
THEOREM NeverSpins == Spec => []NoSpin
<1>1. FlowInv => NoSpin
  BY Zenon DEF FlowInv, Landed, NoSpin
<1>2. QED
  BY <1>1, FlowInvariance, PTL

(* For every plan, while the loop waits for a task that is being scanned,  *)
(* an event of its session is going to wake it up or its reply is being    *)
(* written: no path through the scheduler, the timeout and the nested calls*)
(* of rspamd_task_process loses the wakeup.                                *)
THEOREM NeverStalls == Spec => []NoStall
<1>1. FlowInv => NoStall
  BY WaitFlow, Zenon DEF NoStall, Idle
<1>2. QED
  BY <1>1, FlowInvariance, PTL
=============================================================================
