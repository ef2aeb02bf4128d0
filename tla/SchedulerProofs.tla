-------------------------- MODULE SchedulerProofs ---------------------------
(***************************************************************************)
(* The inductive invariant of a scan, the facts its proof rests on (what   *)
(* the frames of the call stack may be, and that set_status keeps the      *)
(* counters of the buckets exact), and that the steps of the scheduler and *)
(* of the rules keep it. Each lemma on a step takes one action apart in    *)
(* the same order: the frame it executes, the statuses, the stack, the     *)
(* other variables.                                                        *)
(***************************************************************************)
EXTENDS TaskScan, FiniteSetTheorems, TLAPS

(* A set of naturals that is not empty has a least element.                *)
LEMMA MinIsMember ==
  ASSUME NEW S \in SUBSET Nat, S # {}
  PROVE  Min(S) \in S
<1> DEFINE R == {ss \in Nat \X Nat : ss[1] < ss[2]}
<1>1. IsWellFoundedOn(R, Nat)
  BY NatLessThanWellFounded, Zenon DEF OpToRel
<1>2. PICK x \in S : \A y \in S : ~(<<y, x>> \in R)
  <2> HIDE DEF R
  <2> QED BY <1>1, WFMin, Zenon
<1>3. ASSUME NEW y \in S, y < x
      PROVE  FALSE
  <2>1. <<y, x>> \in R
    BY <1>3
  <2> QED
    BY <1>2, <2>1
<1>4. \A y \in S : x <= y
  BY <1>3
<1>5. QED
  BY <1>4, Zenon DEF Min

(* Elementary facts on the stack of frames.                                *)
LEMMA PopFrame ==
  ASSUME stack \in Seq(Frame), stack # <<>>
  PROVE  Top \in Frame /\ Tail(stack) \in Seq(Frame)
BY DEF Top

(* Pushing frames gives a stack of frames.                                 *)
LEMMA PushOne ==
  ASSUME NEW s \in Seq(Frame), NEW f \in Frame
  PROVE  <<f>> \o s \in Seq(Frame)
<1>1. <<f>> \in Seq(Frame)
  OBVIOUS
<1>2. QED
  BY <1>1

(* The same for two frames.                                                *)
LEMMA PushTwo ==
  ASSUME NEW s \in Seq(Frame), NEW f \in Frame, NEW g \in Frame
  PROVE  <<f, g>> \o s \in Seq(Frame)
<1>1. <<f, g>> \in Seq(Frame)
  OBVIOUS
<1>2. QED
  BY <1>1

(* The same for three frames.                                              *)
LEMMA PushThree ==
  ASSUME NEW s \in Seq(Frame), NEW f \in Frame, NEW g \in Frame, NEW h \in Frame
  PROVE  <<f, g, h>> \o s \in Seq(Frame)
<1>1. <<f, g, h>> \in Seq(Frame)
  OBVIOUS
<1>2. QED
  BY <1>1

(* Removing a part of a finite set takes its cardinality off.              *)
LEMMA CardinalityRemove ==
  ASSUME NEW L, NEW C, IsFiniteSet(L), C \subseteq L
  PROVE  /\ Cardinality(L \ C) \in Nat
         /\ Cardinality(L \ C) = Cardinality(L) - Cardinality(C)
<1>1. L \cap C = C
  OBVIOUS
<1>2. QED
  BY <1>1, FS_Difference, FS_CardinalityType, Zenon

(* Adding a disjoint finite set adds its cardinality.                      *)
LEMMA CardinalityAdd ==
  ASSUME NEW L, NEW C, IsFiniteSet(L), IsFiniteSet(C), L \cap C = {}
  PROVE  /\ Cardinality(L \cup C) \in Nat
         /\ Cardinality(L \cup C) = Cardinality(L) + Cardinality(C)
<1>1. /\ Cardinality(L \cap C) = 0
      /\ Cardinality(L) \in Nat /\ Cardinality(C) \in Nat
  BY FS_EmptySet, FS_CardinalityType, Zenon
<1>2. Cardinality(L \cup C) = Cardinality(L) + Cardinality(C) - Cardinality(L \cap C)
  BY FS_Union
<1>3. QED
  BY <1>1, <1>2

(* set_status keeps the counters of the buckets exact, for any set of      *)
(* items and any status: the items that become done leave the count, the   *)
(* ones that stop being done come back.                                    *)
LEMMA SetStatusAccounting ==
  ASSUME status \in [Items -> Statuses],
         bucketPending \in [1..NBuckets -> Nat],
         BucketAccounting,
         NEW S \in SUBSET Items, NEW s \in Statuses,
         SetStatus(S, s)
  PROVE  /\ status' \in [Items -> Statuses]
         /\ bucketPending' \in [1..NBuckets -> Nat]
         /\ BucketAccounting'
<1> DEFINE Left(b) == {i \in Items : Bucket[i] = b /\ ~Done(i)}
           LeftNext(b) == {i \in Items : Bucket[i] = b /\ status'[i] \notin DoneStatuses}
<1>1. status' \in [Items -> Statuses]
  BY DEF SetStatus
<1>2. ASSUME NEW b \in 1..NBuckets
      PROVE  bucketPending'[b] \in Nat /\ bucketPending'[b] = Cardinality(LeftNext(b))
  <2>1. /\ IsFiniteSet(Left(b)) /\ IsFiniteSet(Changed(S, s, b))
        /\ Cardinality(Left(b)) \in Nat /\ Cardinality(Changed(S, s, b)) \in Nat
        /\ bucketPending[b] = Cardinality(Left(b))
    <3>1. Left(b) \subseteq Items /\ Changed(S, s, b) \subseteq Items
      BY DEF Changed
    <3>2. QED
      BY <3>1, ItemsAssumption, FS_Subset, FS_CardinalityType DEF BucketAccounting
  <2>2. CASE s \in DoneStatuses
    <3>1. LeftNext(b) = Left(b) \ Changed(S, s, b)
      BY <2>2 DEF SetStatus, Changed, Done
    <3>2. Changed(S, s, b) \subseteq Left(b)
      BY <2>2, Zenon DEF Changed
    <3>3. bucketPending'[b] = bucketPending[b] - Cardinality(Changed(S, s, b))
      BY <2>2 DEF SetStatus
    <3> HIDE DEF Left, LeftNext
    <3>4. QED
      BY <2>1, <3>1, <3>2, <3>3, CardinalityRemove, ZenonT(60)
  <2>3. CASE s \notin DoneStatuses
    <3>1. LeftNext(b) = Left(b) \cup Changed(S, s, b)
      BY <2>3 DEF SetStatus, Changed, Done
    <3>2. Left(b) \cap Changed(S, s, b) = {}
      BY <2>3 DEF Changed, Done
    <3>3. bucketPending'[b] = bucketPending[b] + Cardinality(Changed(S, s, b))
      BY <2>3 DEF SetStatus
    <3> HIDE DEF Left, LeftNext
    <3>4. QED
      BY <2>1, <3>1, <3>2, <3>3, CardinalityAdd
  <2>4. QED
    BY <2>2, <2>3
<1>3. bucketPending' \in [1..NBuckets -> Nat]
  BY <1>2, Zenon DEF SetStatus
<1>4. BucketAccounting'
  BY <1>2 DEF BucketAccounting, Done
<1>5. QED
  BY <1>1, <1>3, <1>4

(* The statuses, and the counters of the buckets.                          *)
StatusOK ==
  /\ status \in [Items -> Statuses]
  /\ bucketPending \in [1..NBuckets -> Nat]
  /\ BucketAccounting

(* The calls still to be made.                                             *)
StackOK == stack \in Seq(Frame)

(* The types of the other variables.                                       *)
RestOK ==
  /\ events \subseteq Event
  /\ flags \subseteq {"DESTROYING", "CLEANUP"}
  /\ ret \in BOOLEAN
  /\ async \in [Items -> Nat]
  /\ sync \subseteq Items
  /\ inflight \in Nat
  /\ slow \in {"none", "enabled", "disabled"}
  /\ curStage \in Stages \cup {NoStage}
  /\ curItem \in Items \cup {NoItem}
  /\ force \subseteq Items
  /\ verdict \in {"allow", "limit", "passthrough"}
  /\ skip \in BOOLEAN
  /\ budget \in 0..MaxOps
  /\ running \subseteq Items
  /\ ncalls \in [Items -> Nat]
  /\ processed \subseteq 0..REPLIED
  /\ processing \in BOOLEAN
  /\ timer \in BOOLEAN
  /\ guard \in BOOLEAN
  /\ conn \in {"reading", "scanning", "freed"}
  /\ replies \in Nat

(* The inductive invariant: the counters of the buckets have their type    *)
(* only because they count the items that are not done.                    *)
IInv == StackOK /\ StatusOK /\ RestOK

-----------------------------------------------------------------------------
(* Frames.                                                                 *)

(* Updating the fields of a frame record gives a frame record.             *)
LEMMA UpdateFrame ==
  ASSUME NEW f \in FrameRecord, NEW op \in Ops, NEW i \in Items \cup {NoItem},
         NEW b \in Nat, NEW k \in Nat, NEW ok \in BOOLEAN
  PROVE  /\ [f EXCEPT !.op = op, !.k = k] \in FrameRecord
         /\ [f EXCEPT !.op = op, !.b = b] \in FrameRecord
         /\ [f EXCEPT !.op = op, !.k = k, !.ok = ok] \in FrameRecord
         /\ [f EXCEPT !.op = op, !.k = k, !.item = i] \in FrameRecord
         /\ [f EXCEPT !.k = k, !.b = b] \in FrameRecord
         /\ [f EXCEPT !.k = k, !.ok = ok, !.b = b] \in FrameRecord
         /\ [f EXCEPT !.ok = ok] \in FrameRecord
BY Zenon DEF FrameRecord

(* A call without arguments is a frame.                                    *)
LEMMA PlainFrame ==
  ASSUME NEW op \in {"pending", "cleanup", "process", "task_fin", "task_fin2", "composites",
                     "free", "finish", "abort"}
  PROVE  Call(op) \in Frame
<1>1. Call(op) \in FrameRecord
  BY Zenon DEF Call, F0, FrameRecord, Ops
<1>2. WellFormed(Call(op))
  BY DEF Call, F0, WellFormed, ItemOps
<1>3. QED
  BY <1>1, <1>2 DEF Frame

(* A call on an item is a frame.                                           *)
LEMMA ItemFrame ==
  ASSUME NEW op \in {"symbol", "finalize", "symbol_ret", "force_enable"}, NEW i \in Items
  PROVE  CallOn(op, i) \in Frame
<1>1. CallOn(op, i) \in FrameRecord
  BY Zenon DEF CallOn, F0, FrameRecord, Ops
<1>2. WellFormed(CallOn(op, i))
  BY DEF CallOn, F0, WellFormed, ItemOps
<1>3. QED
  BY <1>1, <1>2 DEF Frame

(* The code of a rule, and the end of a request, may have no item.         *)
LEMMA AnyItemFrame ==
  ASSUME NEW op \in {"rule", "dec_check"}, NEW i \in Items \cup {NoItem}
  PROVE  CallOn(op, i) \in Frame
<1>1. CallOn(op, i) \in FrameRecord
  BY Zenon DEF CallOn, F0, FrameRecord, Ops
<1>2. WellFormed(CallOn(op, i))
  BY DEF CallOn, F0, WellFormed, ItemOps
<1>3. QED
  BY <1>1, <1>2 DEF Frame

(* The start of a walk over dependencies or reverse dependencies.          *)
LEMMA WalkFrame ==
  ASSUME NEW op \in {"deps", "rdeps"}, NEW i \in Items
  PROVE  [CallOn(op, i) EXCEPT !.k = 1] \in Frame
<1>1. [CallOn(op, i) EXCEPT !.k = 1] \in FrameRecord
  BY Zenon DEF CallOn, F0, FrameRecord, Ops
<1>2. WellFormed([CallOn(op, i) EXCEPT !.k = 1])
  BY DEF CallOn, F0, WellFormed, ItemOps
<1>3. QED
  BY <1>1, <1>2 DEF Frame

(* The removal and the finalizer of an event.                              *)
LEMMA EventFrame ==
  ASSUME NEW op \in {"remove", "fin"}, NEW e \in Event
  PROVE  CallEv(op, e) \in Frame
<1>1. e.kind \in Kinds /\ e.item \in Items \cup {NoItem}
  BY DEF Event, Kinds
<1>2. [kind |-> e.kind, item |-> e.item] = e
  BY DEF Event
<1>3. CallEv(op, e) \in FrameRecord
  BY <1>1, Zenon DEF CallEv, F0, FrameRecord, Ops
<1>4. WellFormed(CallEv(op, e))
  BY <1>1, <1>2 DEF CallEv, F0, WellFormed, ItemOps
<1>5. QED
  BY <1>3, <1>4 DEF Frame

-----------------------------------------------------------------------------
(* The calls and returns.                                                  *)

(* What an action may assume of the frame it executes.                     *)
LEMMA TopFrame ==
  ASSUME StackOK, NEW op, TopIs(op)
  PROVE  /\ stack # <<>> /\ Tail(stack) \in Seq(Frame)
         /\ Top \in Frame /\ Top \in FrameRecord /\ WellFormed(Top)
         /\ Top.op = op
BY PopFrame DEF StackOK, TopIs, Frame

(* A return pops a frame.                                                  *)
LEMMA ReturnOK ==
  ASSUME StackOK, stack # <<>>, NEW v \in BOOLEAN, Return(v)
  PROVE  StackOK' /\ ret' \in BOOLEAN
BY PopFrame DEF StackOK, Return

(* So does the end of a function without a result.                         *)
LEMMA FinishOK ==
  ASSUME StackOK, stack # <<>>, Finish
  PROVE  StackOK'
BY PopFrame DEF StackOK, Finish

(* A failed assertion leaves one frame.                                    *)
LEMMA AbortOK ==
  ASSUME Abort
  PROVE  StackOK'
<1>1. Call("abort") \in Frame
  BY PlainFrame
<1>2. QED
  BY <1>1 DEF StackOK, Abort

(* Replacing the frame on top by one, two or three frames.                 *)
LEMMA BecomeOne ==
  ASSUME StackOK, stack # <<>>, NEW f \in Frame, Become(<<f>>)
  PROVE  StackOK'
BY PopFrame, PushOne DEF StackOK, Become

(* The same for two frames.                                                *)
LEMMA BecomeTwo ==
  ASSUME StackOK, stack # <<>>, NEW f \in Frame, NEW g \in Frame, Become(<<f, g>>)
  PROVE  StackOK'
BY PopFrame, PushTwo DEF StackOK, Become

(* The same for three frames.                                              *)
LEMMA BecomeThree ==
  ASSUME StackOK, stack # <<>>, NEW f \in Frame, NEW g \in Frame, NEW h \in Frame,
         Become(<<f, g, h>>)
  PROVE  StackOK'
BY PopFrame, PushThree DEF StackOK, Become

(* Calling three, two or one functions from the frame on top.              *)
LEMMA RunThree ==
  ASSUME StackOK, NEW f \in Frame, NEW g \in Frame, NEW h \in Frame, Run(<<f, g, h>>)
  PROVE  StackOK'
BY PushThree DEF StackOK, Run

(* The same for two functions.                                             *)
LEMMA RunTwo ==
  ASSUME StackOK, NEW f \in Frame, NEW g \in Frame, Run(<<f, g>>)
  PROVE  StackOK'
BY PushTwo DEF StackOK, Run

(* The same for one function.                                              *)
LEMMA RunOne ==
  ASSUME StackOK, NEW f \in Frame, Run(<<f>>)
  PROVE  StackOK'
BY PushOne DEF StackOK, Run

(* A step that leaves the statuses alone keeps their part of the           *)
(* invariant.                                                              *)
LEMMA StatusStutter ==
  ASSUME StatusOK, UNCHANGED statusVars
  PROVE  StatusOK'
BY DEF StatusOK, statusVars, BucketAccounting, Done

(* So does set_status.                                                     *)
LEMMA StatusStep ==
  ASSUME StatusOK, NEW S \in SUBSET Items, NEW s \in Statuses, SetStatus(S, s)
  PROVE  StatusOK'
BY SetStatusAccounting, Zenon DEF StatusOK

(***************************************************************************)
(* The steps of the scheduler and of the rules.                            *)
(***************************************************************************)

(* process_symbols and its sweep of the earlier stages.                    *)
LEMMA ProcessSymbolsType ==
  ASSUME IInv, ProcessSymbols, UNCHANGED procVars
  PROVE  IInv'
<1> USE DEF IInv
<1>1. /\ stack # <<>> /\ Top.k \in Stages
  BY TopFrame DEF ProcessSymbols, WellFormed
<1>2. StatusOK'
  BY StatusStutter, StatusStep, Zenon DEF ProcessSymbols, Swept, Statuses
<1>3. ASSUME StageBuckets(Top.k) # {}
      PROVE  [Call("bucket") EXCEPT !.b = FirstBucket(Top.k)] \in Frame
  <2>1. FirstBucket(Top.k) \in Nat
    BY <1>3, MinIsMember DEF FirstBucket, StageBuckets
  <2>2. [Call("bucket") EXCEPT !.b = FirstBucket(Top.k)] \in FrameRecord
    BY <2>1, Zenon DEF Call, F0, FrameRecord, Ops
  <2>3. WellFormed([Call("bucket") EXCEPT !.b = FirstBucket(Top.k)])
    BY DEF Call, F0, WellFormed, ItemOps
  <2>4. QED
    BY <2>2, <2>3 DEF Frame
<1>4. StackOK' /\ ret' \in BOOLEAN
  BY <1>1, <1>3, ReturnOK, BecomeOne, Zenon DEF ProcessSymbols, Become, RestOK
<1>5. RestOK'
  BY <1>1, <1>4, ZenonT(60) DEF RestOK, ProcessSymbols, sessionVars, asyncVars,
     callVars, taskVars, procVars
<1>6. QED
  BY <1>2, <1>4, <1>5

(* process_stage, the loop over the buckets.                               *)
LEMMA StageBucketType ==
  ASSUME IInv, StageBucket, UNCHANGED procVars
  PROVE  IInv'
<1> USE DEF IInv
<1>1. /\ stack # <<>> /\ Top \in FrameRecord /\ WellFormed(Top) /\ Top.op = "bucket"
  BY TopFrame DEF StageBucket
<1>2. StatusOK'
  BY StatusStutter, StatusStep, Zenon DEF StageBucket, Statuses
<1>3. ASSUME Top.b \in StageBuckets(curStage)
      PROVE  [Top EXCEPT !.op = "stage", !.k = 1] \in Frame
  <2>1. [Top EXCEPT !.op = "stage", !.k = 1] \in FrameRecord
    BY <1>1, Zenon DEF FrameRecord, Ops
  <2>2. WellFormed([Top EXCEPT !.op = "stage", !.k = 1])
    BY <1>1, <1>3 DEF FrameRecord, WellFormed, ItemOps, StageBuckets
  <2>3. QED
    BY <2>1, <2>2 DEF Frame
<1>4. Top.ok \in BOOLEAN
  BY <1>1 DEF FrameRecord
<1>5. StackOK' /\ ret' \in BOOLEAN
  BY <1>1, <1>3, <1>4, ReturnOK, BecomeOne, Zenon DEF StageBucket, Become, RestOK
<1>6. RestOK'
  BY SMTT(30), <1>5 DEF RestOK, StageBucket, sessionVars, asyncVars, callVars,
     taskVars, procVars
<1>7. QED
  BY <1>2, <1>5, <1>6

(* process_stage, one item: the index is in the bounds of the bucket.      *)
LEMMA StageItemType ==
  ASSUME IInv, StageItem, UNCHANGED procVars
  PROVE  IInv'
<1> USE DEF IInv
<1>1. /\ stack # <<>> /\ Top \in FrameRecord /\ WellFormed(Top) /\ Top.op = "stage"
  BY SMTT(30), TopFrame DEF StageItem
<1> DEFINE i == BItems[Top.b][Top.k]
           next == [Top EXCEPT !.k = @ + 1]
           deps == [Top EXCEPT !.op = "stage_deps", !.item = i]
<1>2. i \in Items
  BY <1>1, PlanAssumption, SMTT(30) DEF StageItem, FrameRecord, WellFormed
<1>3. next \in Frame
  <2>1. next \in FrameRecord
    BY <1>1 DEF FrameRecord
  <2>2. WellFormed(next)
    BY <1>1 DEF FrameRecord, WellFormed, ItemOps
  <2>3. QED
    BY <2>1, <2>2 DEF Frame
<1>4. deps \in Frame
  <2>1. deps \in FrameRecord
    BY <1>1, <1>2, Zenon DEF FrameRecord, Ops
  <2>2. WellFormed(deps)
    BY <1>1, <1>2 DEF FrameRecord, WellFormed, ItemOps
  <2>3. QED
    BY <2>1, <2>2 DEF Frame
<1>5. StatusOK'
  BY <1>2, StatusStutter, StatusStep, Zenon DEF StageItem, Statuses
<1> HIDE DEF i, next, deps
<1>6. StackOK' /\ ret' \in BOOLEAN
  BY <1>1, <1>2, <1>3, <1>4, WalkFrame, ReturnOK, BecomeOne, BecomeTwo,
     ZenonT(60) DEF StageItem, Become, RestOK, i, next, deps
<1>7. RestOK'
  BY SMTT(30), <1>6 DEF RestOK, StageItem, sessionVars, asyncVars, callVars,
     taskVars, procVars
<1>8. QED
  BY <1>5, <1>6, <1>7

(* process_stage, after check_item_deps.                                   *)
LEMMA StageItemDepsType ==
  ASSUME IInv, StageItemDeps, UNCHANGED procVars
  PROVE  IInv'
<1> USE DEF IInv
<1>1. /\ stack # <<>> /\ Top \in FrameRecord /\ WellFormed(Top) /\ Top.op = "stage_deps"
  BY TopFrame DEF StageItemDeps
<1> DEFINE next == [Top EXCEPT !.op = "stage", !.k = @ + 1, !.item = NoItem]
           blocked == [next EXCEPT !.ok = FALSE]
<1>2. "stage" \in Ops /\ Top.k + 1 \in Nat
  BY <1>1 DEF Ops, FrameRecord
<1>3. next \in Frame
  <2>1. next \in FrameRecord
    BY <1>1, <1>2, UpdateFrame, Zenon
  <2>2. WellFormed(next)
    BY <1>1 DEF FrameRecord, WellFormed, ItemOps
  <2>3. QED
    BY <2>1, <2>2 DEF Frame
<1>4. blocked \in Frame
  <2>1. blocked \in FrameRecord
    BY <1>1, <1>2, UpdateFrame, Zenon
  <2>2. WellFormed(blocked)
    BY <1>1 DEF FrameRecord, WellFormed, ItemOps
  <2>3. QED
    BY <2>1, <2>2 DEF Frame
<1>5. CallOn("symbol", Top.item) \in Frame
  BY <1>1, ItemFrame DEF WellFormed, ItemOps
<1>6. StatusOK'
  BY StatusStutter DEF StageItemDeps, runtimeVars
<1> HIDE DEF next, blocked
<1>7. StackOK'
  BY SMTT(30), <1>1, <1>3, <1>4, <1>5, BecomeOne, BecomeTwo DEF StageItemDeps,
     next, blocked
<1>8. RestOK'
  BY DEF RestOK, StageItemDeps, Become, sessionVars, runtimeVars, asyncVars, callVars, taskVars, procVars
<1>9. QED
  BY <1>6, <1>7, <1>8

(* process_stage, the end of a bucket.                                     *)
LEMMA StageBucketEndType ==
  ASSUME IInv, StageBucketEnd, UNCHANGED procVars
  PROVE  IInv'
<1> USE DEF IInv
<1>1. /\ stack # <<>> /\ Top \in FrameRecord /\ WellFormed(Top) /\ Top.op = "stage"
  BY TopFrame DEF StageBucketEnd
<1> DEFINE next == [Top EXCEPT !.op = "bucket", !.b = @ + 1]
<1>2. next \in Frame
  <2>1. "bucket" \in Ops /\ Top.b + 1 \in Nat
    BY <1>1 DEF Ops, FrameRecord
  <2>2. next \in FrameRecord
    BY <1>1, <2>1, UpdateFrame, Zenon
  <2>3. WellFormed(next)
    BY <1>1 DEF FrameRecord, WellFormed, ItemOps
  <2>4. QED
    BY <2>2, <2>3 DEF Frame
<1>3. StatusOK'
  BY StatusStutter DEF StageBucketEnd, runtimeVars
<1> HIDE DEF next
<1>4. StackOK' /\ ret' \in BOOLEAN
  BY <1>1, <1>2, ReturnOK, BecomeOne, Zenon DEF StageBucketEnd, Become, RestOK, next
<1>5. RestOK'
  BY <1>4 DEF RestOK, StageBucketEnd, sessionVars, runtimeVars, asyncVars, callVars, taskVars, procVars
<1>6. QED
  BY <1>3, <1>4, <1>5

(* The dependency a frame of check_item_deps looks at, and the frames that *)
(* follow it.                                                              *)
LEMMA DepFrames ==
  ASSUME Top \in FrameRecord, WellFormed(Top),
         Top.op \in {"deps", "deps_rec", "deps_symbol"},
         Top.k <= Len(Deps[Top.item])
  PROVE  /\ Top.item \in Items /\ TopDep \in Dependency /\ TopDep.item \in Items
         /\ \A v \in BOOLEAN : NextDep(v) \in Frame
         /\ [Top EXCEPT !.op = "deps_rec"] \in Frame
         /\ [Top EXCEPT !.op = "deps_symbol"] \in Frame
<1>1. Top.item \in Items /\ Top.k \in 1..Len(Deps[Top.item])
  BY DEF FrameRecord, WellFormed, ItemOps
<1>2. TopDep \in Dependency
  BY <1>1, PlanAssumption DEF TopDep
<1>3. TopDep.item \in Items
  BY <1>2 DEF Dependency
<1>4. ASSUME NEW v \in BOOLEAN
      PROVE  NextDep(v) \in Frame
  <2>1. "deps" \in Ops /\ Top.k + 1 \in Nat /\ (Top.ok /\ v) \in BOOLEAN
    BY DEF Ops, FrameRecord
  <2>2. NextDep(v) \in FrameRecord
    BY <2>1, UpdateFrame, ZenonT(60) DEF NextDep
  <2>3. WellFormed(NextDep(v))
    BY <1>1 DEF FrameRecord, WellFormed, NextDep, ItemOps
  <2>4. QED
    BY <2>2, <2>3 DEF Frame
<1>5. ASSUME NEW op \in {"deps_rec", "deps_symbol"}
      PROVE  [Top EXCEPT !.op = op] \in Frame
  <2>1. [Top EXCEPT !.op = op] \in FrameRecord
    BY DEF FrameRecord, Ops
  <2>2. WellFormed([Top EXCEPT !.op = op])
    BY <1>1 DEF FrameRecord, WellFormed, ItemOps
  <2>3. QED
    BY <2>1, <2>2 DEF Frame
<1>6. QED
  BY <1>1, <1>2, <1>3, <1>4, <1>5

(* check_item_deps, one dependency.                                        *)
LEMMA CheckItemDepsType ==
  ASSUME IInv, CheckItemDeps, UNCHANGED procVars
  PROVE  IInv'
<1> USE DEF IInv
<1>1. /\ stack # <<>> /\ Top \in FrameRecord /\ WellFormed(Top) /\ Top.op = "deps"
  BY TopFrame DEF CheckItemDeps
<1>2. Top.ok \in BOOLEAN
  BY <1>1 DEF FrameRecord
<1>3. StatusOK' /\ StackOK' /\ ret' \in BOOLEAN
  <2>1. CASE Return(Top.ok) /\ UNCHANGED statusVars
    BY <1>1, <1>2, <2>1, ReturnOK, StatusStutter
  <2>2. ASSUME Top.k <= Len(Deps[Top.item]),
               \/ SetStatus({TopDep.item}, "skipped") /\ UNCHANGED loopVars
               \/ SetStatus({Top.item}, status[TopDep.item]) /\ Return(TRUE)
               \/ /\ \/ Become(<<NextDep(TRUE)>>)
                     \/ Become(<<[CallOn("deps", TopDep.item) EXCEPT !.k = 1, !.b = Top.b + 1],
                                 [Top EXCEPT !.op = "deps_rec"]>>)
                     \/ Abort
                     \/ Become(<<NextDep(FALSE)>>)
                  /\ UNCHANGED statusVars
        PROVE  StatusOK' /\ StackOK' /\ ret' \in BOOLEAN
    <3> DEFINE d == TopDep.item
               rec == [CallOn("deps", d) EXCEPT !.k = 1, !.b = Top.b + 1]
    <3>1. /\ Top.item \in Items /\ d \in Items
          /\ NextDep(TRUE) \in Frame /\ NextDep(FALSE) \in Frame
          /\ [Top EXCEPT !.op = "deps_rec"] \in Frame
      BY <1>1, <2>2, DepFrames, Zenon
    <3> HIDE DEF d
    <3>2. rec \in Frame
      <4> DEFINE n == Top.b + 1
      <4>1. n \in Nat
        BY <1>1 DEF FrameRecord
      <4> HIDE DEF n
      <4>2. CallOn("deps", d) \in FrameRecord
        BY <3>1, Zenon DEF CallOn, F0, FrameRecord, Ops
      <4>3. [CallOn("deps", d) EXCEPT !.k = 1, !.b = n] \in FrameRecord
        BY <4>1, <4>2, Zenon DEF FrameRecord
      <4>4. rec \in FrameRecord
        BY <4>3 DEF n
      <4>5. WellFormed(rec)
        BY <3>1 DEF CallOn, F0, WellFormed, ItemOps
      <4>6. QED
        BY <4>4, <4>5 DEF Frame
    <3>3. status[d] \in Statuses /\ "skipped" \in Statuses
      BY <3>1 DEF StatusOK, Statuses
    <3> HIDE DEF rec
    <3>4. CASE SetStatus({d}, "skipped") /\ UNCHANGED loopVars
      <4>1. StatusOK'
        BY <3>1, <3>3, <3>4, StatusStep
      <4>2. QED
        BY <3>4, <4>1 DEF loopVars, StackOK, RestOK
    <3>5. CASE SetStatus({Top.item}, status[d]) /\ Return(TRUE)
      BY <1>1, <3>1, <3>3, <3>5, StatusStep, ReturnOK, Zenon
    <3>6. CASE /\ \/ Become(<<NextDep(TRUE)>>)
                  \/ Become(<<rec, [Top EXCEPT !.op = "deps_rec"]>>)
                  \/ Abort
                  \/ Become(<<NextDep(FALSE)>>)
               /\ UNCHANGED statusVars
      <4>1. StatusOK'
        BY <3>6, StatusStutter
      <4>2. ret' \in BOOLEAN
        BY <3>6 DEF Become, Abort, RestOK
      <4>3. StackOK'
        BY <1>1, <3>1, <3>2, <3>6, BecomeOne, BecomeTwo, AbortOK, ZenonT(60)
      <4>4. QED
        BY <4>1, <4>2, <4>3
    <3>7. QED
      BY <2>2, <3>4, <3>5, <3>6, Zenon DEF d, rec
  <2>3. QED
    BY <2>1, <2>2, Zenon DEF CheckItemDeps
<1>4. RestOK'
  BY <1>3, SMTT(30) DEF RestOK, CheckItemDeps, sessionVars, asyncVars, callVars, taskVars, procVars
<1>5. QED
  BY <1>3, <1>4

(* check_item_deps, after its recursive call.                              *)
LEMMA CheckItemDepsRecType ==
  ASSUME IInv, CheckItemDepsRec, UNCHANGED procVars
  PROVE  IInv'
<1> USE DEF IInv
<1>1. /\ stack # <<>> /\ Top \in FrameRecord /\ WellFormed(Top) /\ Top.op = "deps_rec"
  BY TopFrame DEF CheckItemDepsRec
<1> DEFINE d == TopDep.item
<1>2. /\ Top.item \in Items /\ d \in Items
      /\ NextDep(TRUE) \in Frame /\ NextDep(FALSE) \in Frame
      /\ [Top EXCEPT !.op = "deps_symbol"] \in Frame
  <2>1. Top.k <= Len(Deps[Top.item])
    BY <1>1, PlanAssumption DEF WellFormed, ItemOps
  <2>2. QED
    BY <1>1, <2>1, DepFrames, Zenon
<1>3. CallOn("symbol", d) \in Frame
  BY <1>2, ItemFrame
<1>4. status[d] \in Statuses
  BY <1>2 DEF StatusOK
<1> HIDE DEF d
<1>5. StatusOK'
  BY <1>2, <1>4, StatusStutter, StatusStep, Zenon DEF CheckItemDepsRec, d
<1>6. StackOK' /\ ret' \in BOOLEAN
  BY <1>1, <1>2, <1>3, ReturnOK, BecomeOne, BecomeTwo, Zenon DEF CheckItemDepsRec, Become, RestOK, d
<1>7. RestOK'
  BY <1>6 DEF RestOK, CheckItemDepsRec, sessionVars, asyncVars, callVars, taskVars, procVars
<1>8. QED
  BY <1>5, <1>6, <1>7

(* check_item_deps, after process_symbol.                                  *)
LEMMA CheckItemDepsSymbolType ==
  ASSUME IInv, CheckItemDepsSymbol, UNCHANGED procVars
  PROVE  IInv'
<1> USE DEF IInv
<1>1. /\ stack # <<>> /\ Top \in FrameRecord /\ WellFormed(Top) /\ Top.op = "deps_symbol"
  BY TopFrame DEF CheckItemDepsSymbol
<1>2. NextDep(ret) \in Frame
  <2>1. Top.k <= Len(Deps[Top.item])
    BY <1>1, PlanAssumption DEF WellFormed, ItemOps
  <2>2. ret \in BOOLEAN
    BY DEF RestOK
  <2>3. QED
    BY <1>1, <2>1, <2>2, DepFrames, SMTT(30)
<1>3. StatusOK'
  BY StatusStutter DEF CheckItemDepsSymbol, runtimeVars
<1>4. StackOK'
  BY <1>1, <1>2, BecomeOne, SMTT(30) DEF CheckItemDepsSymbol
<1>5. RestOK'
  BY SMTT(30) DEF RestOK, CheckItemDepsSymbol, Become, sessionVars, runtimeVars, asyncVars, callVars, taskVars, procVars
<1>6. QED
  BY <1>3, <1>4, <1>5

(* process_symbol, the early returns.                                      *)
LEMMA ProcessSymbolRefusedType ==
  ASSUME IInv, ProcessSymbolRefused, UNCHANGED procVars
  PROVE  IInv'
<1> USE DEF IInv
<1>1. stack # <<>>
  BY TopFrame, SMTT(30) DEF ProcessSymbolRefused
<1>2. StatusOK'
  BY StatusStutter DEF ProcessSymbolRefused, runtimeVars
<1>3. Done(Top.item) \in BOOLEAN
  BY DEF Done
<1>4. StackOK' /\ ret' \in BOOLEAN
  BY <1>1, <1>3, ReturnOK, Zenon DEF ProcessSymbolRefused
<1>5. RestOK'
  BY SMTT(30), <1>4 DEF RestOK, ProcessSymbolRefused, sessionVars, runtimeVars,
     asyncVars, callVars, taskVars, procVars
<1>6. QED
  BY <1>2, <1>4, <1>5

(* process_symbol of an item that is not allowed.                          *)
LEMMA ProcessSymbolNotAllowedType ==
  ASSUME IInv, ProcessSymbolNotAllowed, UNCHANGED procVars
  PROVE  IInv'
<1> USE DEF IInv
<1>1. stack # <<>> /\ Top.item \in Items
  BY TopFrame, SMTT(30) DEF ProcessSymbolNotAllowed, WellFormed, ItemOps
<1>2. StatusOK'
  BY <1>1, StatusStep DEF ProcessSymbolNotAllowed, Statuses
<1>3. StackOK' /\ ret' \in BOOLEAN
  BY <1>1, ReturnOK, Zenon DEF ProcessSymbolNotAllowed
<1>4. RestOK'
  BY <1>3, ZenonT(60) DEF RestOK, ProcessSymbolNotAllowed, sessionVars,
     asyncVars, callVars, taskVars, procVars
<1>5. QED
  BY <1>2, <1>3, <1>4

(* process_symbol, the call of the rule.                                   *)
LEMMA ProcessSymbolStartType ==
  ASSUME IInv, ProcessSymbolStart, UNCHANGED procVars
  PROVE  IInv'
<1> USE DEF IInv
<1> DEFINE i == Top.item
           back == [CallOn("symbol_ret", i) EXCEPT !.saved = curItem]
<1>1. stack # <<>> /\ i \in Items
  BY TopFrame DEF ProcessSymbolStart, WellFormed, ItemOps
<1>2. StatusOK'
  BY <1>1, StatusStep DEF ProcessSymbolStart, StartItem, Statuses
<1> HIDE DEF i
<1>3. back \in Frame
  <2>1. back \in FrameRecord
    BY <1>1, Zenon DEF CallOn, F0, FrameRecord, Ops, RestOK
  <2>2. WellFormed(back)
    BY <1>1 DEF CallOn, F0, WellFormed, ItemOps
  <2>3. QED
    BY <2>1, <2>2 DEF Frame
<1>4. /\ CallOn("rule", i) \in Frame
      /\ CallOn(IF RuleKind[i] = "lua" THEN "dec_check" ELSE "finalize", i) \in Frame
  BY <1>1, ItemFrame, AnyItemFrame
<1> HIDE DEF back
<1>5. StackOK'
  BY SMTT(30), <1>1, <1>3, <1>4, BecomeThree DEF ProcessSymbolStart, StartItem,
     i, back
<1>6. RestOK'
  BY SMTT(30), <1>1 DEF RestOK, ProcessSymbolStart, StartItem, WrapperHold,
     Become, sessionVars, taskVars, procVars, i
<1>7. QED
  BY <1>2, <1>5, <1>6

(* process_symbol, after the call of the rule.                             *)
LEMMA ProcessSymbolReturnType ==
  ASSUME IInv, ProcessSymbolReturn, UNCHANGED procVars
  PROVE  IInv'
<1> USE DEF IInv
<1>1. stack # <<>> /\ Top.saved \in Items \cup {NoItem}
  BY TopFrame, SMTT(30) DEF ProcessSymbolReturn, FrameRecord
<1>2. StatusOK'
  BY StatusStutter, SMTT(30) DEF ProcessSymbolReturn
<1>3. Done(Top.item) \in BOOLEAN
  BY DEF Done
<1>4. StackOK' /\ ret' \in BOOLEAN
  BY <1>1, <1>3, ReturnOK, AbortOK, SMTT(30) DEF ProcessSymbolReturn, Abort, RestOK
<1>5. RestOK'
  BY <1>1, <1>4, SMTT(30) DEF RestOK, ProcessSymbolReturn, sessionVars, asyncVars, callVars, taskVars, procVars
<1>6. QED
  BY <1>2, <1>4, <1>5

(* async_dec_check: the counter is decremented only above zero.            *)
LEMMA AsyncDecCheckType ==
  ASSUME IInv, AsyncDecCheck, UNCHANGED procVars
  PROVE  IInv'
<1> USE DEF IInv
<1>1. stack # <<>> /\ Top.item \in Items \cup {NoItem}
  BY TopFrame DEF AsyncDecCheck, FrameRecord
<1>2. StatusOK'
  BY StatusStutter DEF AsyncDecCheck
<1>3. Top.item # NoItem => CallOn("finalize", Top.item) \in Frame
  BY <1>1, ItemFrame, SMTT(30)
<1>4. StackOK'
  BY <1>1, <1>3, FinishOK, AbortOK, BecomeOne, SMTT(30) DEF AsyncDecCheck
<1>5. async' \in [Items -> Nat]
  BY <1>1, SMTT(30) DEF AsyncDecCheck, RestOK
<1>6. RestOK'
  BY <1>5, SMTT(30) DEF RestOK, AsyncDecCheck, Finish, Abort, Become,
     sessionVars, callVars, taskVars, procVars
<1>7. QED
  BY <1>2, <1>4, <1>6

(* finalize_item: items_inflight is decremented only above zero.           *)
LEMMA FinalizeItemType ==
  ASSUME IInv, FinalizeItem, UNCHANGED procVars
  PROVE  IInv'
<1> USE DEF IInv
<1> DEFINE i == Top.item
           rdeps == [CallOn("rdeps", i) EXCEPT !.k = 1]
<1>1. stack # <<>> /\ i \in Items
  BY TopFrame DEF FinalizeItem, WellFormed, ItemOps
<1>2. rdeps \in Frame
  BY <1>1, WalkFrame
<1>3. StatusOK'
  BY <1>1, StatusStutter, StatusStep, SMTT(30) DEF FinalizeItem, Statuses
<1>4. [kind |-> "slow", item |-> i] \in Event
  BY <1>1 DEF Event
<1> HIDE DEF i, rdeps
<1>5. StackOK'
  BY <1>1, <1>2, FinishOK, AbortOK, BecomeOne, SMTT(30) DEF FinalizeItem, i,
     rdeps
<1>6. events' \subseteq Event
  BY <1>4 DEF FinalizeItem, RestOK, i
<1>7. inflight' \in Nat /\ running' \subseteq Items /\ curItem' \in Items \cup {NoItem}
  BY SMTT(30) DEF FinalizeItem, RestOK
<1>8. ret' = ret /\ slow' \in {"none", "enabled", "disabled"}
  BY DEF FinalizeItem, RestOK, Finish, Abort, Become
<1>9. RestOK'
  BY <1>6, <1>7, <1>8 DEF RestOK, FinalizeItem, asyncVars, taskVars, procVars
<1>10. QED
  BY <1>3, <1>5, <1>9

(* The reverse dependency a frame of process_item_rdeps looks at, and the  *)
(* frames that follow it.                                                  *)
LEMMA RdepFrames ==
  ASSUME Top \in FrameRecord, WellFormed(Top),
         Top.op \in {"rdeps", "rdeps_deps"},
         Top.k <= Len(Rdeps[Top.item])
  PROVE  /\ Top.item \in Items /\ Rdeps[Top.item][Top.k] \in Items
         /\ [Top EXCEPT !.op = "rdeps", !.k = @ + 1] \in Frame
         /\ [Top EXCEPT !.op = "rdeps_deps"] \in Frame
<1>1. Top.item \in Items /\ Top.k \in 1..Len(Rdeps[Top.item])
  BY SMTT(30) DEF FrameRecord, WellFormed, ItemOps
<1>2. Rdeps[Top.item][Top.k] \in Items
  BY <1>1, PlanAssumption
<1>3. [Top EXCEPT !.op = "rdeps", !.k = @ + 1] \in Frame
  <2> DEFINE n == Top.k + 1
  <2>1. "rdeps" \in Ops /\ n \in Nat /\ n # 0
    BY DEF Ops, FrameRecord
  <2> HIDE DEF n
  <2>2. [Top EXCEPT !.op = "rdeps", !.k = n] \in FrameRecord
    BY <2>1, UpdateFrame, Zenon
  <2>3. WellFormed([Top EXCEPT !.op = "rdeps", !.k = n])
    BY <1>1, <2>1 DEF FrameRecord, WellFormed, ItemOps
  <2>4. QED
    BY <2>2, <2>3 DEF Frame, n
<1>4. [Top EXCEPT !.op = "rdeps_deps"] \in Frame
  <2>1. [Top EXCEPT !.op = "rdeps_deps"] \in FrameRecord
    BY DEF FrameRecord, Ops
  <2>2. WellFormed([Top EXCEPT !.op = "rdeps_deps"])
    BY SMTT(30), <1>1 DEF FrameRecord, WellFormed, ItemOps
  <2>3. QED
    BY <2>1, <2>2 DEF Frame
<1>5. QED
  BY <1>1, <1>2, <1>3, <1>4, SMTT(30)

(* process_item_rdeps, one reverse dependency.                             *)
LEMMA ProcessItemRdepsType ==
  ASSUME IInv, ProcessItemRdeps, UNCHANGED procVars
  PROVE  IInv'
<1> USE DEF IInv
<1>1. /\ stack # <<>> /\ Top \in FrameRecord /\ WellFormed(Top) /\ Top.op = "rdeps"
  BY TopFrame DEF ProcessItemRdeps
<1> DEFINE j == Rdeps[Top.item][Top.k]
           next == [Top EXCEPT !.k = @ + 1]
<1>2. ASSUME Top.k <= Len(Rdeps[Top.item])
      PROVE  /\ j \in Items /\ next \in Frame
             /\ [Top EXCEPT !.op = "rdeps_deps"] \in Frame
             /\ [CallOn("deps", j) EXCEPT !.k = 1] \in Frame
  <2>1. /\ j \in Items /\ [Top EXCEPT !.op = "rdeps_deps"] \in Frame
    BY <1>1, <1>2, RdepFrames
  <2>2. next \in FrameRecord
    BY <1>1 DEF FrameRecord
  <2>3. WellFormed(next)
    BY SMTT(30), <1>1 DEF FrameRecord, WellFormed, ItemOps
  <2>4. QED
    BY <2>1, <2>2, <2>3, WalkFrame, SMTT(30) DEF Frame
<1> HIDE DEF j, next
<1>3. StatusOK'
  BY SMTT(30), <1>2, StatusStutter, StatusStep DEF ProcessItemRdeps, Statuses,
     j
<1>4. StackOK'
  BY SMTT(30), <1>1, <1>2, FinishOK, BecomeOne, BecomeTwo DEF ProcessItemRdeps,
     j, next
<1>5. ret' = ret
  BY SMTT(30) DEF ProcessItemRdeps, Finish, Become
<1>6. RestOK'
  BY <1>5, SMTT(30) DEF RestOK, ProcessItemRdeps, sessionVars, asyncVars,
     callVars, taskVars, procVars
<1>7. QED
  BY <1>3, <1>4, <1>6

(* process_item_rdeps, after check_item_deps.                              *)
LEMMA ProcessItemRdepsDepsType ==
  ASSUME IInv, ProcessItemRdepsDeps, UNCHANGED procVars
  PROVE  IInv'
<1> USE DEF IInv
<1>1. /\ stack # <<>> /\ Top \in FrameRecord /\ WellFormed(Top) /\ Top.op = "rdeps_deps"
  BY TopFrame DEF ProcessItemRdepsDeps
<1> DEFINE j == Rdeps[Top.item][Top.k]
           next == [Top EXCEPT !.op = "rdeps", !.k = @ + 1]
<1>2. j \in Items /\ next \in Frame
  <2>1. Top.k <= Len(Rdeps[Top.item])
    BY <1>1, PlanAssumption DEF WellFormed, ItemOps
  <2>2. QED
    BY <1>1, <2>1, RdepFrames, SMTT(30)
<1>3. CallOn("symbol", j) \in Frame
  BY <1>2, ItemFrame
<1> HIDE DEF j, next
<1>4. StatusOK'
  BY StatusStutter DEF ProcessItemRdepsDeps, runtimeVars
<1>5. StackOK'
  BY <1>1, <1>2, <1>3, BecomeOne, BecomeTwo, SMTT(30) DEF ProcessItemRdepsDeps,
     j, next
<1>6. RestOK'
  BY DEF RestOK, ProcessItemRdepsDeps, Become, sessionVars, runtimeVars, asyncVars, callVars, taskVars, procVars
<1>7. QED
  BY <1>4, <1>5, <1>6

-----------------------------------------------------------------------------
(* The operations of the rules.                                            *)

(* An operation of a rule spends one of the operations left.               *)
LEMMA RuleBudget ==
  ASSUME RestOK, NEW op, Rule(op)
  PROVE  budget' \in 0..MaxOps /\ stack # <<>>
BY BoundsAssumption DEF RestOK, Rule, TopIs

(* The rule returns.                                                       *)
LEMMA RuleReturnType ==
  ASSUME IInv, RuleReturn, UNCHANGED procVars
  PROVE  IInv'
<1> USE DEF IInv
<1>1. stack # <<>>
  BY TopFrame DEF RuleReturn
<1>2. StatusOK' /\ StackOK'
  BY <1>1, StatusStutter, FinishOK, SMTT(30) DEF RuleReturn, runtimeVars
<1>3. RestOK'
  BY DEF RestOK, RuleReturn, Finish, sessionVars, runtimeVars, asyncVars, callVars, taskVars, procVars
<1>4. QED
  BY <1>2, <1>3

(* async_inc on the current item.                                          *)
LEMMA AsyncIncType ==
  ASSUME IInv, AsyncInc
  PROVE  StatusOK' /\ async' \in [Items -> Nat] /\ sync' \subseteq Items
<1> USE DEF IInv
<1>1. CASE curItem = NoItem
  BY <1>1, StatusStutter DEF AsyncInc, RestOK, asyncVars
<1>2. CASE curItem # NoItem
  <2>1. curItem \in Items
    BY <1>2, SMTT(30) DEF RestOK
  <2>2. async' \in [Items -> Nat] /\ sync' \subseteq Items
    BY <1>2, <2>1, SMTT(30) DEF AsyncInc, RestOK
  <2>3. StatusOK'
    BY <1>2, <2>1, StatusStutter, StatusStep, SMTT(30) DEF AsyncInc, Statuses
  <2>4. QED
    BY <2>2, <2>3
<1>3. QED
  BY <1>1, <1>2, SMTT(30)

(* A request is an event of the current item, or of none.                  *)
LEMMA RequestEvent ==
  ASSUME RestOK, NEW kind \in {"dns", "redis"}
  PROVE  [kind |-> kind, item |-> curItem] \in Event
BY DEF RestOK, Event, Kinds

(* A request of a rule.                                                    *)
LEMMA RuleRequestType ==
  ASSUME IInv, RuleRequest, UNCHANGED procVars
  PROVE  IInv'
<1> USE DEF IInv
<1>1. PICK kind \in {"dns", "redis"} :
        /\ Rule(kind)
        /\ events' = events \cup {[kind |-> kind, item |-> curItem]}
        /\ AsyncInc
        /\ UNCHANGED <<flags, loopVars, callVars, slow, curStage, curItem, force, verdict, skip>>
  BY SMTT(30) DEF RuleRequest
<1>2. events' \subseteq Event
  BY <1>1, RequestEvent, SMTT(30) DEF RestOK
<1>3. /\ StatusOK' /\ async' \in [Items -> Nat] /\ sync' \subseteq Items
      /\ budget' \in 0..MaxOps
  BY <1>1, AsyncIncType, RuleBudget, SMTT(30)
<1>4. StackOK'
  BY <1>1, SMTT(30) DEF StackOK, loopVars
<1>5. RestOK'
  BY <1>1, <1>2, <1>3, SMTT(30) DEF RestOK, loopVars, callVars, procVars
<1>6. QED
  BY <1>3, <1>4, <1>5, SMTT(30)

(* A request that fails at once.                                           *)
LEMMA RuleSyncRequestType ==
  ASSUME IInv, RuleSyncRequest, UNCHANGED procVars
  PROVE  IInv'
<1> USE DEF IInv
<1> DEFINE e == [kind |-> "redis", item |-> curItem]
<1>1. e \in Event
  BY RequestEvent, SMTT(30)
<1>2. /\ CallOn("rule", curItem) \in Frame /\ CallOn("dec_check", curItem) \in Frame
      /\ CallEv("remove", e) \in Frame
  BY <1>1, AnyItemFrame, EventFrame, SMTT(30) DEF RestOK
<1> HIDE DEF e
<1>3. /\ StatusOK' /\ async' \in [Items -> Nat] /\ sync' \subseteq Items
      /\ budget' \in 0..MaxOps
  BY AsyncIncType, RuleBudget, SMTT(30) DEF RuleSyncRequest
<1>4. StackOK'
  BY <1>2, RunThree, SMTT(30) DEF RuleSyncRequest, e
<1>5. events' \subseteq Event
  BY <1>1, SMTT(30) DEF RestOK, RuleSyncRequest, e
<1>6. RestOK'
  BY <1>3, <1>5, SMTT(30) DEF RestOK, RuleSyncRequest, Run, callVars, procVars
<1>7. QED
  BY <1>3, <1>4, <1>6, SMTT(30)

(* A counter that is never given back.                                     *)
LEMMA RuleLeakType ==
  ASSUME IInv, RuleLeak, UNCHANGED procVars
  PROVE  IInv'
<1> USE DEF IInv
<1>1. /\ StatusOK' /\ async' \in [Items -> Nat] /\ sync' \subseteq Items
      /\ budget' \in 0..MaxOps
  BY AsyncIncType, RuleBudget DEF RuleLeak
<1>2. StackOK'
  BY SMTT(30) DEF RuleLeak, StackOK, loopVars
<1>3. RestOK'
  BY <1>1 DEF RestOK, RuleLeak, sessionVars, loopVars, callVars, procVars
<1>4. QED
  BY <1>1, <1>2, <1>3

(* The score crosses the limit.                                            *)
LEMMA RuleScoreType ==
  ASSUME IInv, RuleScore, UNCHANGED procVars
  PROVE  IInv'
<1> USE DEF IInv
<1>1. budget' \in 0..MaxOps
  BY RuleBudget DEF RuleScore
<1>2. StatusOK' /\ StackOK'
  BY StatusStutter, SMTT(30) DEF RuleScore, runtimeVars, StackOK, loopVars
<1>3. RestOK'
  BY <1>1, SMTT(30) DEF RestOK, RuleScore, sessionVars, loopVars, runtimeVars, asyncVars, callVars, procVars
<1>4. QED
  BY <1>2, <1>3

(* set_pre_result and its disable_all_symbols.                             *)
LEMMA RulePreResultType ==
  ASSUME IInv, RulePreResult, UNCHANGED procVars
  PROVE  IInv'
<1> USE DEF IInv
<1>1. budget' \in 0..MaxOps
  BY RuleBudget, Zenon DEF RulePreResult
<1>2. StatusOK'
  BY StatusStep, ZenonT(60) DEF RulePreResult, DisableAll, Statuses
<1>3. StackOK'
  BY Zenon DEF RulePreResult, StackOK, loopVars
<1>4. verdict' \in {"allow", "limit", "passthrough"}
  BY Zenon DEF RestOK, RulePreResult
<1>5. UNCHANGED <<sessionVars, loopVars, asyncVars, callVars, slow, curStage, curItem, force, skip>>
  BY Zenon DEF RulePreResult
<1>6. RestOK'
  BY <1>1, <1>4, <1>5, SMTT(30) DEF RestOK, sessionVars, loopVars, asyncVars, callVars, procVars
<1>7. QED
  BY <1>2, <1>3, <1>6

(* The whitelist of the settings.                                          *)
LEMMA RuleWhitelistType ==
  ASSUME IInv, RuleWhitelist, UNCHANGED procVars
  PROVE  IInv'
<1> USE DEF IInv
<1>1. budget' \in 0..MaxOps
  BY RuleBudget DEF RuleWhitelist
<1>2. StatusOK' /\ StackOK'
  BY StatusStutter, SMTT(30) DEF RuleWhitelist, runtimeVars, StackOK, loopVars
<1>3. RestOK'
  BY <1>1, SMTT(30) DEF RestOK, RuleWhitelist, sessionVars, loopVars, runtimeVars, asyncVars, callVars, procVars
<1>4. QED
  BY <1>2, <1>3

(* disable_symbol.                                                         *)
LEMMA DisableSymbolType ==
  ASSUME IInv, DisableSymbol, UNCHANGED procVars
  PROVE  IInv'
<1> USE DEF IInv
<1>1. budget' \in 0..MaxOps
  BY RuleBudget DEF DisableSymbol
<1>2. StatusOK'
  BY StatusStep DEF DisableSymbol, Statuses
<1>3. StackOK'
  BY SMTT(30) DEF DisableSymbol, StackOK, loopVars
<1>4. RestOK'
  BY <1>1 DEF RestOK, DisableSymbol, sessionVars, loopVars, asyncVars, callVars, procVars
<1>5. QED
  BY <1>2, <1>3, <1>4

(* enable_symbol: an item that is not done any more counts again.          *)
LEMMA EnableSymbolType ==
  ASSUME IInv, EnableSymbol, UNCHANGED procVars
  PROVE  IInv'
<1> USE DEF IInv
<1>1. budget' \in 0..MaxOps
  BY RuleBudget, Zenon DEF EnableSymbol
<1>2. StatusOK'
  BY SMTT(30), StatusStep DEF EnableSymbol, Statuses
<1>3. StackOK'
  BY SMTT(30) DEF EnableSymbol, StackOK, loopVars
<1>4. RestOK'
  BY SMTT(30), <1>1 DEF RestOK, EnableSymbol, sessionVars, loopVars, asyncVars,
     callVars, procVars
<1>5. QED
  BY <1>2, <1>3, <1>4

(* symbols_enabled of the settings, for the list.                          *)
LEMMA RuleEnableOnlyType ==
  ASSUME IInv, RuleEnableOnly, UNCHANGED procVars
  PROVE  IInv'
<1> USE DEF IInv
<1>1. budget' \in 0..MaxOps
  BY RuleBudget, SMTT(30) DEF RuleEnableOnly
<1>2. StatusOK'
  BY StatusStep, StatusStutter, SMTT(30) DEF RuleEnableOnly, DisableAll, Statuses
<1>3. StackOK'
  BY SMTT(30), ItemFrame, RunOne DEF RuleEnableOnly
<1>4. RestOK'
  BY SMTT(30), <1>1 DEF RestOK, RuleEnableOnly, Run, sessionVars, asyncVars,
     callVars, procVars
<1>5. QED
  BY <1>2, <1>3, <1>4

(* symbols_enabled of the settings, for one symbol.                        *)
LEMMA ForceEnableType ==
  ASSUME IInv, ForceEnable, UNCHANGED procVars
  PROVE  IInv'
<1> USE DEF IInv
<1>1. stack # <<>> /\ Top.item \in Items
  BY TopFrame DEF ForceEnable, WellFormed, ItemOps
<1>2. StatusOK'
  BY <1>1, StatusStep, StatusStutter, SMTT(30) DEF ForceEnable, Statuses
<1>3. StackOK'
  BY SMTT(30), <1>1, FinishOK DEF ForceEnable
<1>4. RestOK'
  BY <1>1, SMTT(30) DEF RestOK, ForceEnable, Finish, sessionVars, asyncVars, callVars, procVars
<1>5. QED
  BY <1>2, <1>3, <1>4

(* The finalizers of the events.                                           *)
LEMMA EventFinType ==
  ASSUME IInv, EventFin, UNCHANGED procVars
  PROVE  IInv'
<1> USE DEF IInv
<1>1. stack # <<>> /\ Top.item \in Items \cup {NoItem}
  BY TopFrame DEF EventFin, FrameRecord
<1>2. CallOn("rule", Top.item) \in Frame /\ CallOn("dec_check", Top.item) \in Frame
  BY <1>1, AnyItemFrame, SMTT(30)
<1>3. StatusOK'
  BY StatusStutter, SMTT(30) DEF EventFin
<1>4. StackOK'
  BY SMTT(30), <1>1, <1>2, FinishOK, BecomeTwo DEF EventFin
<1>5. /\ ret' = ret /\ curItem' \in Items \cup {NoItem}
      /\ slow' \in {"none", "enabled", "disabled"}
  BY SMTT(30), <1>1 DEF EventFin, Finish, Become, SetCurItem, UnsetSlow, RestOK
<1>6. RestOK'
  BY <1>5, SMTT(30) DEF RestOK, EventFin, sessionVars, asyncVars, callVars, taskVars, procVars
<1>7. QED
  BY <1>3, <1>4, <1>6

(* composites_foreach.                                                     *)
LEMMA CompositesType ==
  ASSUME IInv, Composites, UNCHANGED procVars
  PROVE  IInv'
<1> USE DEF IInv
<1>1. stack # <<>>
  BY TopFrame DEF Composites
<1>2. StatusOK'
  BY StatusStep DEF Composites, Statuses
<1>3. StackOK' /\ ret' \in BOOLEAN
  BY <1>1, ReturnOK, ZenonT(60) DEF Composites
<1>4. RestOK'
  BY <1>3, ZenonT(60) DEF RestOK, Composites, sessionVars, asyncVars, callVars, taskVars, procVars
<1>5. QED
  BY <1>2, <1>3, <1>4
=============================================================================
