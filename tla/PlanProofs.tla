----------------------------- MODULE PlanProofs -----------------------------
(***************************************************************************)
(* For every set of symbols, types, priorities and declared dependencies   *)
(* the plan of the symbol cache orders the dependencies first, keeps the   *)
(* reverse dependencies in step with the dependencies, and keeps the       *)
(* positions that running tasks rely on.                                   *)
(*                                                                         *)
(* break_dependency_cycles, propagate and tsort_visit are depth-first      *)
(* walks.  That the first one leaves no cycle is stated without paths: in  *)
(* any set of the items it has finished, one depends on no other.          *)
(***************************************************************************)
EXTENDS SymcachePlan, FiniteSetTheorems, TLAPS

(* What the cache is doing.                                                *)
Phases == {"register", "cycles", "plan", "sort", "ready"}

(* A frame of a walk.                                                      *)
FrameT == [item : Sym, left : SUBSET Sym, ord : Nat]

(* An entry of items_by_order.                                             *)
Entry == [item : Sym, stage : Int, level : Int]

(* No depth exceeds itself.                                                *)
LEMMA NotDeeperItself ==
  ASSUME NEW n \in Nat
  PROVE  ~(n > n)
OBVIOUS

(* An enumeration of a set is a sequence of its elements.                  *)
LEMMA EnumerationSeq ==
  ASSUME NEW S, NEW N \in Nat, NEW s \in [1..N -> S]
  PROVE  s \in Seq(S) /\ Len(s) = N
OBVIOUS

(* The entries that resort makes of an enumeration s of the symbols.       *)
Entries(s, st, lv) ==
  [n \in 1..Len(s) |-> [item |-> s[n], stage |-> st[s[n]], level |-> lv[s[n]]]]

(* The symbols of s have a stage and a level.                              *)
Ranked(s, st, lv) ==
  \A n \in 1..Len(s) : s[n] \in Sym /\ st[s[n]] \in Int /\ lv[s[n]] \in Int

(* o lists the symbols of s with their stages and levels.                  *)
Lists(o, s, st, lv) ==
  /\ Len(o) = Len(s) /\ o \in Seq(Entry)
  /\ \A n \in 1..Len(s) : /\ o[n].item = s[n] /\ o[n].stage = st[s[n]]
                          /\ o[n].level = lv[s[n]] /\ o[n] \in Entry

(* So do the entries.                                                      *)
LEMMA EntriesOf ==
  ASSUME NEW s, Len(s) \in Nat, NEW st, NEW lv, Ranked(s, st, lv),
         NEW o, o = Entries(s, st, lv)
  PROVE  Lists(o, s, st, lv)
<1> USE DEF Entries, Ranked, Lists
<1>1. \A n \in 1..Len(s) : /\ o[n].item = s[n] /\ o[n].stage = st[s[n]]
                           /\ o[n].level = lv[s[n]] /\ o[n] \in Entry
  BY DEF Entry
<1>2. o \in [1..Len(s) -> Entry]
  BY <1>1
<1> QED
  BY <1>1, <1>2

(* The types, and what is known of the edges.                              *)
TypeInv ==
  /\ declared \subseteq (Sym \ Late) \X (Sym \ Late)
  /\ disabled \subseteq Sym \ Late
  /\ items \subseteq Sym
  /\ deps \subseteq (Sym \ Late) \X (Sym \ Late)
  /\ back \subseteq deps
  /\ \A e \in back : e[2] \in items
  /\ prio \in [Sym -> Int]
  /\ planned \subseteq items
  /\ stage \in [Sym -> Int]
  /\ level \in [Sym -> Int]
  /\ depth \in [Sym -> Nat]
  /\ perm \subseteq Sym
  /\ phase \in Phases
  /\ path \in Seq(FrameT)
  /\ seen \subseteq items
  /\ stale \in BOOLEAN
  /\ order \in Seq(Entry)
  /\ held \in Seq(Entry)

(* The running walk: every frame was called for a dependency of the frame  *)
(* below, and no item is on the path twice.                                *)
PathInv ==
  /\ \A n \in 1..Len(path) :
       /\ path[n].item \in items
       /\ path[n].left \subseteq DepsOf(path[n].item)
       /\ n < Len(path) => path[n + 1].item \in DepsOf(path[n].item) \ path[n].left
       /\ \A m \in 1..Len(path) : path[m].item = path[n].item => m = n
  /\ phase \in {"register", "ready"} => path = <<>>

(* In every set of the items of B one depends on no other of them.         *)
Grounded(E, B) ==
  \A S \in SUBSET B : S # {} => \E i \in S : \A d \in S : <<i, d>> \notin E

(* The items break_dependency_cycles has finished.                         *)
Black == seen \ OnPath

(* What is kept of their dependencies leads to finished items only.        *)
BlackClosed ==
  \A b \in Black, d \in items : <<b, d>> \in deps \ back => d \in Black

(* What a frame has looked at is a back edge, finished, or being walked.   *)
CycleLooked(n) ==
  \A d \in DepsOf(path[n].item) \ path[n].left :
    \/ <<path[n].item, d>> \in back
    \/ d \in Black
    \/ n < Len(path) /\ d = path[n + 1].item

(* The walk of break_dependency_cycles.                                    *)
CycleInv ==
  phase = "cycles" =>
    /\ OnPath \subseteq seen
    /\ BlackClosed
    /\ \A n \in 1..Len(path) : CycleLooked(n)
    /\ Grounded(deps \ back, Black)

(* B holds all items that are walked, with their dependencies and without  *)
(* a cycle.                                                                *)
AcyclicOn(B) ==
  /\ Executable \subseteq B
  /\ OnPath \subseteq B
  /\ \A b \in B : DepsOf(b) \subseteq B
  /\ Grounded(deps, B)

(* After it, the items that can be walked are such a set.                  *)
Acyclic == phase \in {"plan", "sort", "ready"} => \E B \in SUBSET items : AcyclicOn(B)

(* The dependency d of i has not to move before it.                        *)
InPlace(i, d) ==
  d \in Executable => ~IsEarlier(stage[i], level[i], stage[d], level[d])

(* All dependencies of i are in place.                                     *)
Settled(i) == \A d \in DepsOf(i) : InPlace(i, d)

(* propagate has nothing to move.                                          *)
Fixed == \A i \in Executable : Settled(i)

(* What a frame of propagate has looked at is in place.                    *)
PlanLooked(n) == \A d \in DepsOf(path[n].item) \ path[n].left : InPlace(path[n].item, d)

(* Up to the frames on the path, what propagate has walked is settled; it  *)
(* moves nothing once the order exists.                                    *)
PlanInv ==
  /\ phase = "plan" =>
       /\ OnPath \subseteq Executable
       /\ \A i \in seen \ OnPath : Settled(i)
       /\ \A n \in 1..Len(path) : PlanLooked(n)
       /\ stale => Fixed
  /\ phase \in {"sort", "ready"} => Fixed

(* The dependency d is visited, or being visited, deeper than o.           *)
Deeper(d, o) ==
  \/ d \in perm /\ depth[d] > o
  \/ \E n \in 1..Len(path) : path[n].item = d /\ path[n].ord > o

(* What a frame of tsort_visit has looked at is deeper than the frame.     *)
SortLooked(n) ==
  \A d \in DepsOf(path[n].item) \ path[n].left : Deeper(d, path[n].ord)

(* The dependencies of a visited item are deeper than it.                  *)
DepsDeeper(i) == \A d \in DepsOf(i) : Deeper(d, depth[i])

(* The walk of tsort_visit.                                                *)
SortInv ==
  phase = "sort" =>
    /\ \A i \in perm : i \notin OnPath
    /\ \A i \in Executable \cap perm : DepsDeeper(i)
    /\ \A n \in 1..Len(path) : SortLooked(n)

(* The orders agree with the positions of the items.                       *)
Agrees(o) ==
  \A n \in 1..Len(o) :
    o[n].item \in planned /\ stage[o[n].item] = o[n].stage /\ level[o[n].item] = o[n].level

(* What is known of the orders, and of the items that have a plan.         *)
KeptInv ==
  /\ phase \in {"plan", "sort", "ready"} => Agrees(order) /\ Agrees(held)
  /\ phase \in {"register", "cycles"} => order = <<>> /\ held = <<>> /\ ~stale /\ planned = {}
  /\ phase \in {"plan", "sort"} /\ ~stale => order = <<>> /\ held = <<>>
  /\ phase \in {"plan", "sort"} => planned = items
  /\ phase = "ready" => items \ Late \subseteq planned

(* What is empty outside of a phase.                                       *)
PhaseInv ==
  /\ phase = "register" => items = {} /\ seen = {}
  /\ phase # "cycles" => back = {}

(* The reverse dependencies, from the init on.                             *)
RdepsInv ==
  phase # "register" => rdeps = {<<e[2], e[1]>> : e \in {d \in deps : d[2] \in items}}

(* The inductive invariant.                                                *)
PlanIInv ==
  /\ TypeInv /\ PathInv /\ CycleInv /\ Acyclic /\ PlanInv /\ SortInv /\ KeptInv
  /\ PhaseInv /\ RdepsInv /\ DepsFirst

-----------------------------------------------------------------------------
(* The steps of a walk.                                                    *)

(* A frame that has looked at d has one dependency less to look at.        *)
SameFrames(q, d) ==
  \A n \in 1..Len(path) :
    /\ q[n].item = path[n].item
    /\ q[n].ord = path[n].ord
    /\ q[n].left = IF n = Len(path) THEN path[n].left \ {d} ELSE path[n].left

(* A frame with other dependencies to look at.                             *)
LEMMA LeftExcept ==
  ASSUME NEW x \in FrameT, NEW y
  PROVE  [x EXCEPT !.left = y] = [item |-> x.item, left |-> y, ord |-> x.ord]
BY DEF FrameT

(* The path after the top frame has looked at d.                           *)
LEMMA LookedShape ==
  ASSUME TypeInv, path # <<>>, NEW d
  PROVE  /\ Looked(d) \in Seq(FrameT)
         /\ Len(Looked(d)) = Len(path)
         /\ SameFrames(Looked(d), d)
<1> DEFINE p == path
           N == Len(path)
           r == [item |-> path[N].item, left |-> path[N].left \ {d}, ord |-> path[N].ord]
           q == Looked(d)
<1>1. p \in Seq(FrameT)
  BY DEF TypeInv
<1>2. N \in 1..N /\ N \in Nat
  BY <1>1
<1>3. \A n \in 1..N : p[n] \in FrameT
  BY <1>1
<1>4. r \in FrameT
  BY <1>2, <1>3 DEF FrameT
<1>5. q = [p EXCEPT ![N] = r]
  <2>1. p[N] \in FrameT
    BY <1>2, <1>3
  <2>2. [p[N] EXCEPT !.left = p[N].left \ {d}] = r
    BY <2>1, LeftExcept, Zenon
  <2>3. q = [p EXCEPT ![N] = [p[N] EXCEPT !.left = p[N].left \ {d}]]
    BY Zenon DEF Looked
  <2> QED
    BY <2>2, <2>3, Zenon
<1>6. r.item = p[N].item /\ r.ord = p[N].ord /\ r.left = p[N].left \ {d}
  OBVIOUS
<1> HIDE DEF r, q
<1>7. q \in Seq(FrameT) /\ Len(q) = N
  BY <1>1, <1>2, <1>4, <1>5
<1>8. q[N] = r /\ \A n \in 1..N : n # N => q[n] = p[n]
  BY <1>1, <1>2, <1>5
<1>9. SameFrames(q, d)
  BY <1>6, <1>8, Zenon DEF SameFrames
<1> QED
  BY <1>7, <1>9 DEF q

(* A step that looks at d.                                                 *)
LEMMA LookFacts ==
  ASSUME TypeInv, path # <<>>, NEW d \in Last(path).left, path' = Looked(d)
  PROVE  /\ path' \in Seq(FrameT)
         /\ Len(path) \in Nat \ {0} /\ Len(path') = Len(path)
         /\ SameFrames(path', d)
         /\ Last(path) = path[Len(path)]
         /\ OnPath' = OnPath
<1>1. path \in Seq(FrameT)
  BY DEF TypeInv
<1>3. path' \in Seq(FrameT) /\ Len(path') = Len(path) /\ SameFrames(path', d)
  BY LookedShape, Zenon
<1>4. OnPath' = OnPath
  <2>1. \A n \in 1..Len(path) : path'[n].item = path[n].item
    BY <1>3, Zenon DEF SameFrames
  <2>2. OnPath' = {path'[n].item : n \in 1..Len(path)}
    BY <1>3, Zenon DEF OnPath
  <2>3. \A x : x \in OnPath' <=> \E n \in 1..Len(path) : x = path'[n].item
    BY <2>2, Zenon
  <2>4. \A x : x \in OnPath <=> \E n \in 1..Len(path) : x = path[n].item
    BY Zenon DEF OnPath
  <2>5. \A x : x \in OnPath' <=> x \in OnPath
    <3> TAKE x
    <3>1. \A n \in 1..Len(path) : x = path'[n].item <=> x = path[n].item
      BY <2>1, Zenon
    <3> QED
      BY <2>3, <2>4, <3>1, ZenonT(60)
  <2> QED
    BY <2>5, Zenon
<1>5. Len(path) \in Nat \ {0}
  BY <1>1
<1> QED
  BY <1>3, <1>4, <1>5, Zenon DEF Last

(* A step that looks at d and walks into it.                               *)
LEMMA PushFacts ==
  ASSUME TypeInv, path # <<>>, NEW d \in Last(path).left, NEW o \in Nat, d \in items,
         path' = Append(Looked(d), Frame(d, o))
  PROVE  /\ path' \in Seq(FrameT)
         /\ Len(path) \in Nat \ {0} /\ Len(path') = Len(path) + 1
         /\ SameFrames(path', d)
         /\ path'[Len(path) + 1] = Frame(d, o)
         /\ Last(path) = path[Len(path)]
         /\ OnPath' = OnPath \cup {d}
<1> DEFINE q == Looked(d)
<1>1. path \in Seq(FrameT)
  BY DEF TypeInv
<1>2. q \in Seq(FrameT) /\ Len(q) = Len(path) /\ SameFrames(q, d)
  BY LookedShape, Zenon
<1>3. Frame(d, o) \in FrameT /\ Frame(d, o).item = d
  BY DEF Frame, FrameT, DepsOf, TypeInv
<1>4. path' = Append(q, Frame(d, o))
  OBVIOUS
<1> HIDE DEF q
<1>5. Len(path) \in Nat \ {0}
  BY <1>1
<1>6. /\ path' \in Seq(FrameT) /\ Len(path') = Len(path) + 1
      /\ path'[Len(path) + 1] = Frame(d, o)
      /\ \A n \in 1..Len(path) : path'[n] = q[n]
  BY <1>2, <1>3, <1>4, <1>5
<1>7. SameFrames(path', d)
  BY <1>2, <1>6, Zenon DEF SameFrames
<1>8. OnPath' = {path'[n].item : n \in 1..Len(path')}
  BY DEF OnPath
<1>9. /\ \A n \in 1..Len(path') : n \in 1..Len(path) \/ n = Len(path) + 1
      /\ \A n \in 1..Len(path) : n \in 1..Len(path')
      /\ Len(path) + 1 \in 1..Len(path')
  BY <1>5, <1>6
<1>10. OnPath' = OnPath \cup {d}
  <2>1. \A n \in 1..Len(path) : path'[n].item = path[n].item
    BY <1>7, Zenon DEF SameFrames
  <2>2. path'[Len(path) + 1].item = d
    BY <1>3, <1>6, Zenon
  <2>3. \A x : x \in OnPath' <=> \E n \in 1..Len(path') : x = path'[n].item
    BY <1>8, Zenon
  <2>4. \A x : x \in OnPath <=> \E n \in 1..Len(path) : x = path[n].item
    BY Zenon DEF OnPath
  <2>5. \A x : x \in OnPath' <=> x \in OnPath \/ x = d
    <3>1. ASSUME NEW x \in OnPath'
          PROVE  x \in OnPath \/ x = d
      <4>1. PICK n \in 1..Len(path') : x = path'[n].item
        BY <2>3, Zenon
      <4>2. CASE n \in 1..Len(path)
        <5>1. x = path[n].item
          BY <2>1, <4>1, <4>2, Zenon
        <5> QED
          BY <2>4, <4>2, <5>1, Zenon
      <4>3. CASE n = Len(path) + 1
        BY <2>2, <4>1, <4>3, Zenon
      <4> QED
        BY <1>9, <4>2, <4>3, Zenon
    <3>2. ASSUME NEW x \in OnPath
          PROVE  x \in OnPath'
      <4>1. PICK n \in 1..Len(path) : x = path[n].item
        BY <2>4, Zenon
      <4>2. x = path'[n].item /\ n \in 1..Len(path')
        BY <2>1, <1>9, <4>1, Zenon
      <4> QED
        BY <2>3, <4>2, Zenon
    <3>3. d \in OnPath'
      BY <2>2, <2>3, <1>9, Zenon
    <3> QED
      BY <3>1, <3>2, <3>3, Zenon
  <2> QED
    BY <2>5, Zenon
<1> QED
  BY <1>5, <1>6, <1>7, <1>10, Zenon DEF Last

(* A step that starts a walk at i.                                         *)
LEMMA RootFacts ==
  ASSUME TypeInv, path = <<>>, NEW i \in items, NEW o \in Nat, Enter(i, o)
  PROVE  /\ path' \in Seq(FrameT) /\ Len(path) = 0 /\ Len(path') = 1
         /\ path'[1] = Frame(i, o)
         /\ OnPath = {} /\ OnPath' = {i}
<1>1. Frame(i, o) \in FrameT /\ Frame(i, o).item = i
  BY DEF Frame, FrameT, DepsOf, TypeInv
<1>2. /\ path' \in Seq(FrameT) /\ Len(path) = 0 /\ Len(path') = 1
      /\ path'[1] = Frame(i, o)
  BY <1>1 DEF Enter
<1>3. OnPath = {}
  BY <1>2 DEF OnPath
<1>4. OnPath' = {path'[n].item : n \in 1..1}
  BY <1>2 DEF OnPath
<1> QED
  BY <1>1, <1>2, <1>3, <1>4

(* The path without its last frame.                                        *)
LEMMA FrontShape ==
  ASSUME NEW S, NEW q \in Seq(S), q # <<>>
  PROVE  /\ SubSeq(q, 1, Len(q) - 1) \in Seq(S)
         /\ Len(SubSeq(q, 1, Len(q) - 1)) = Len(q) - 1
         /\ \A n \in 1..Len(SubSeq(q, 1, Len(q) - 1)) : SubSeq(q, 1, Len(q) - 1)[n] = q[n]
<1> DEFINE k == Len(q) - 1
<1>1. k \in 0..Len(q)
  OBVIOUS
<1> HIDE DEF k
<1>2. /\ SubSeq(q, 1, k) \in Seq(S) /\ Len(SubSeq(q, 1, k)) = k
      /\ \A n \in 1..k : SubSeq(q, 1, k)[n] = q[n]
  BY <1>1
<1> QED
  BY <1>2, Zenon DEF k

(* A step that leaves the top frame.                                       *)
LEMMA LeaveFacts ==
  ASSUME TypeInv, PathInv, path # <<>>, Leave
  PROVE  /\ path' \in Seq(FrameT)
         /\ Len(path) \in Nat \ {0} /\ Len(path') = Len(path) - 1
         /\ \A n \in 1..Len(path') : path'[n] = path[n]
         /\ Last(path) = path[Len(path)]
         /\ Last(path).item \in OnPath
         /\ OnPath' = OnPath \ {Last(path).item}
<1>1. path \in Seq(FrameT)
  BY DEF TypeInv
<1>2. Len(path) \in Nat \ {0}
  BY <1>1
<1>3. path' = SubSeq(path, 1, Len(path) - 1)
  BY DEF Leave, Front
<1>4. /\ path' \in Seq(FrameT) /\ Len(path') = Len(path) - 1
      /\ \A n \in 1..Len(path') : path'[n] = path[n]
  BY <1>1, <1>3, FrontShape, Zenon
<1>5. OnPath' = {path[n].item : n \in 1..(Len(path) - 1)}
  BY <1>2, <1>4 DEF OnPath
<1>6. \A n \in 1..Len(path) : n \in 1..(Len(path) - 1) \/ n = Len(path)
  BY <1>2
<1>7. \A n \in 1..(Len(path) - 1) : n \in 1..Len(path) /\ n # Len(path)
  BY <1>2
<1>9. Last(path) = path[Len(path)] /\ Len(path) \in 1..Len(path)
  BY <1>2 DEF Last
<1>8. \A n \in 1..(Len(path) - 1) : path[n].item # path[Len(path)].item
  <2>1. \A m, n \in 1..Len(path) : path[m].item = path[n].item => m = n
    BY Zenon DEF PathInv
  <2> QED
    BY <1>7, <1>9, <2>1, Zenon
<1>10. OnPath' = OnPath \ {Last(path).item}
  BY <1>5, <1>6, <1>7, <1>8, <1>9, Zenon DEF OnPath
<1> QED
  BY <1>2, <1>4, <1>9, <1>10, Zenon DEF OnPath

-----------------------------------------------------------------------------
(* The shape of the path is kept by the steps of the walks.                *)

(* What PathInv says of the n-th frame of p.                               *)
FrameAt(p, n) ==
  /\ p[n].item \in items
  /\ p[n].left \subseteq DepsOf(p[n].item)
  /\ n < Len(p) => p[n + 1].item \in DepsOf(p[n].item) \ p[n].left
  /\ \A m \in 1..Len(p) : p[m].item = p[n].item => m = n

(* PathInv, for one frame.                                                 *)
LEMMA PathFrames ==
  ASSUME PathInv, NEW n \in 1..Len(path)
  PROVE  FrameAt(path, n)
BY Zenon DEF PathInv, FrameAt

(* PathInv, from its frames.                                               *)
LEMMA PathFromFrames ==
  ASSUME UNCHANGED <<items, deps, phase>>, phase \notin {"register", "ready"},
         \A n \in 1..Len(path') : FrameAt(path', n)
  PROVE  PathInv'
<1>1. \A x : DepsOf(x)' = DepsOf(x)
  BY DEF DepsOf
<1>2. phase' \notin {"register", "ready"}
  OBVIOUS
<1>3. items' = items
  OBVIOUS
<1> QED
  BY <1>1, <1>2, <1>3, Zenon DEF PathInv, FrameAt

(* Looking at a dependency keeps PathInv.                                  *)
LEMMA LookPath ==
  ASSUME TypeInv, PathInv, path # <<>>, NEW d \in Last(path).left, path' = Looked(d),
         UNCHANGED <<items, deps, phase>>, phase \notin {"register", "ready"}
  PROVE  PathInv'
<1>1. /\ Len(path) \in Nat \ {0} /\ Len(path') = Len(path)
      /\ SameFrames(path', d)
  BY LookFacts, Zenon
<1>2. ASSUME NEW n \in 1..Len(path')
      PROVE  FrameAt(path', n)
  <2>1. n \in 1..Len(path)
    BY <1>1
  <2>2. FrameAt(path, n)
    BY <2>1, PathFrames, Zenon
  <2>3. path'[n].item = path[n].item /\ path'[n].left \subseteq path[n].left
    BY <1>1, <2>1, Zenon DEF SameFrames
  <2>4. n < Len(path) => n + 1 \in 1..Len(path)
    BY <1>1, <2>1
  <2>5. \A m \in 1..Len(path) : path'[m].item = path[m].item
    BY <1>1, Zenon DEF SameFrames
  <2>6. n < Len(path) => path'[n + 1].item = path[n + 1].item
    BY <2>4, <2>5, Zenon
  <2>7. /\ path'[n].item \in items
        /\ path'[n].left \subseteq DepsOf(path'[n].item)
    BY <2>2, <2>3, Zenon DEF FrameAt
  <2>8. n < Len(path') => path'[n + 1].item \in DepsOf(path'[n].item) \ path'[n].left
    BY <1>1, <2>2, <2>3, <2>6, Zenon DEF FrameAt
  <2>9. \A m \in 1..Len(path') : path'[m].item = path'[n].item => m = n
    BY <1>1, <2>2, <2>3, <2>5, Zenon DEF FrameAt
  <2> QED
    BY <2>7, <2>8, <2>9, Zenon DEF FrameAt
<1> QED
  BY <1>2, PathFromFrames, Zenon

(* Walking into an item that is not on the path keeps PathInv.             *)
LEMMA PushPath ==
  ASSUME TypeInv, PathInv, path # <<>>, NEW d \in Last(path).left, NEW o \in Nat,
         d \in items, d \notin OnPath, path' = Append(Looked(d), Frame(d, o)),
         UNCHANGED <<items, deps, phase>>, phase \notin {"register", "ready"}
  PROVE  PathInv'
<1>1. /\ Len(path) \in Nat \ {0} /\ Len(path') = Len(path) + 1
      /\ SameFrames(path', d)
      /\ path'[Len(path) + 1] = Frame(d, o)
      /\ Last(path) = path[Len(path)]
  BY PushFacts, Zenon
<1>2. path'[Len(path) + 1].item = d /\ path'[Len(path) + 1].left = DepsOf(d)
  BY <1>1 DEF Frame
<1>3. \A m \in 1..Len(path) : path'[m].item = path[m].item /\ path[m].item # d
  BY <1>1, Zenon DEF SameFrames, OnPath
<1>4. /\ \A m \in 1..Len(path') : m \in 1..Len(path) \/ m = Len(path) + 1
      /\ Len(path) + 1 \notin 1..Len(path)
  BY <1>1
<1>5. ASSUME NEW n \in 1..Len(path)
      PROVE  FrameAt(path', n)
  <2>2. FrameAt(path, n)
    BY PathFrames, Zenon
  <2>3. path'[n].item = path[n].item /\ path'[n].left \subseteq path[n].left
    BY <1>1, Zenon DEF SameFrames
  <2>6. path'[n + 1].item \in DepsOf(path'[n].item) \ path'[n].left
    <3>1. CASE n = Len(path)
      <4>1. path'[n].left = path[n].left \ {d} /\ d \in path[n].left
        BY <1>1, <3>1, Zenon DEF SameFrames
      <4>2. d \in DepsOf(path[n].item)
        BY <2>2, <4>1, Zenon DEF FrameAt
      <4>3. path'[n + 1].item = d
        BY <1>2, <3>1, Zenon
      <4>4. d \notin path'[n].left
        BY <4>1, Zenon
      <4> QED
        BY <2>3, <4>2, <4>3, <4>4, Zenon
    <3>2. CASE n # Len(path)
      <4>1. n < Len(path) /\ n + 1 \in 1..Len(path)
        BY <1>1, <3>2
      <4>2. path[n + 1].item \in DepsOf(path[n].item) \ path[n].left
        BY <2>2, <4>1, Zenon DEF FrameAt
      <4>3. path'[n + 1].item = path[n + 1].item
        BY <1>3, <4>1, Zenon
      <4> QED
        BY <2>3, <4>2, <4>3, Zenon
    <3> QED
      BY <3>1, <3>2, Zenon
  <2>7. /\ path'[n].item \in items
        /\ path'[n].left \subseteq DepsOf(path'[n].item)
    BY <2>2, <2>3, Zenon DEF FrameAt
  <2>9. \A m \in 1..Len(path') : path'[m].item = path'[n].item => m = n
    <3>1. \A m \in 1..Len(path) : path'[m].item = path'[n].item => m = n
      BY <1>3, <2>2, Zenon DEF FrameAt
    <3> QED
      BY <1>2, <1>3, <1>4, <3>1, Zenon
  <2> QED
    BY <2>6, <2>7, <2>9, Zenon DEF FrameAt
<1>6. FrameAt(path', Len(path) + 1)
  <2>1. ~(Len(path) + 1 < Len(path'))
    BY <1>1
  <2>2. \A m \in 1..Len(path') : path'[m].item = path'[Len(path) + 1].item => m = Len(path) + 1
    BY <1>2, <1>3, <1>4, Zenon
  <2>3. path'[Len(path) + 1].left \subseteq DepsOf(path'[Len(path) + 1].item)
    BY <1>2, Zenon
  <2> QED
    BY <1>2, <2>1, <2>2, <2>3, Zenon DEF FrameAt
<1>7. \A n \in 1..Len(path') : FrameAt(path', n)
  BY <1>4, <1>5, <1>6, Zenon
<1> QED
  BY <1>7, PathFromFrames, Zenon

(* A walk that starts keeps PathInv.                                       *)
LEMMA RootPath ==
  ASSUME TypeInv, path = <<>>, NEW i \in items, NEW o \in Nat, Enter(i, o),
         UNCHANGED <<items, deps, phase>>, phase \notin {"register", "ready"}
  PROVE  PathInv'
<1>1. Len(path') = 1 /\ path'[1] = Frame(i, o)
  BY RootFacts, Zenon
<1>2. path'[1].item = i /\ path'[1].left = DepsOf(i)
  BY <1>1 DEF Frame
<1>3. \A n \in 1..Len(path') : n = 1 /\ ~(n < Len(path'))
  BY <1>1
<1>4. \A n \in 1..Len(path') : FrameAt(path', n)
  BY <1>2, <1>3, Zenon DEF FrameAt
<1> QED
  BY <1>4, PathFromFrames, Zenon

(* Leaving a frame keeps PathInv.                                          *)
LEMMA LeavePath ==
  ASSUME TypeInv, PathInv, path # <<>>, Leave,
         UNCHANGED <<items, deps, phase>>, phase \notin {"register", "ready"}
  PROVE  PathInv'
<1>1. /\ Len(path) \in Nat \ {0} /\ Len(path') = Len(path) - 1
      /\ \A n \in 1..Len(path') : path'[n] = path[n]
  BY LeaveFacts, Zenon
<1>2. ASSUME NEW n \in 1..Len(path')
      PROVE  FrameAt(path', n)
  <2>1. n \in 1..Len(path) /\ n < Len(path) /\ \A m \in 1..Len(path') : m \in 1..Len(path)
    BY <1>1
  <2>2. FrameAt(path, n)
    BY <2>1, PathFrames, Zenon
  <2>3. path'[n] = path[n]
    BY <1>1, Zenon
  <2>4. n < Len(path') => path'[n + 1] = path[n + 1]
    BY <1>1
  <2>5. \A m \in 1..Len(path') : path'[m].item = path[m].item
    BY <1>1, Zenon
  <2>6. path[n + 1].item \in DepsOf(path[n].item) \ path[n].left
    BY <2>1, <2>2, Zenon DEF FrameAt
  <2>7. n < Len(path') => path'[n + 1].item \in DepsOf(path'[n].item) \ path'[n].left
    BY <2>3, <2>4, <2>6, Zenon
  <2>8. \A m \in 1..Len(path') : path'[m].item = path'[n].item => m = n
    BY <2>1, <2>2, <2>3, <2>5, Zenon DEF FrameAt
  <2>9. path'[n].item \in items /\ path'[n].left \subseteq DepsOf(path'[n].item)
    BY <2>2, <2>3, Zenon DEF FrameAt
  <2> QED
    BY <2>7, <2>8, <2>9, Zenon DEF FrameAt
<1> QED
  BY <1>2, PathFromFrames, Zenon

-----------------------------------------------------------------------------
(* break_dependency_cycles.                                                *)

(* Fewer dependencies.                                                     *)
LEMMA GroundedSub ==
  ASSUME NEW E, NEW B, Grounded(E, B), NEW F, \A e \in F : e \in E
  PROVE  Grounded(F, B)
BY Zenon DEF Grounded

(* One more item, which nothing of the set depends on.                     *)
LEMMA GroundedAdd ==
  ASSUME NEW E, NEW B, Grounded(E, B), NEW t, \A b \in B : <<b, t>> \notin E,
         <<t, t>> \notin E
  PROVE  Grounded(E, B \cup {t})
<1> SUFFICES ASSUME NEW S \in SUBSET (B \cup {t}), S # {}
             PROVE  \E i \in S : \A d \in S : <<i, d>> \notin E
  BY Zenon DEF Grounded
<1>1. CASE S \ {t} = {}
  <2>1. \A d \in S : d = t
    BY <1>1, Zenon
  <2>2. t \in S
    BY <2>1, Zenon
  <2> QED
    BY <2>1, <2>2, Zenon
<1>2. CASE S \ {t} # {}
  <2>1. S \ {t} \in SUBSET B
    BY Zenon
  <2>2. PICK i \in S \ {t} : \A d \in S \ {t} : <<i, d>> \notin E
    BY <1>2, <2>1, Zenon DEF Grounded
  <2>3. <<i, t>> \notin E
    BY <2>1, Zenon
  <2> QED
    BY <2>2, <2>3, Zenon
<1> QED
  BY <1>1, <1>2, Zenon

(* The dependencies do not change during the walks.                        *)
LEMMA CycleLookedNext ==
  ASSUME items' = items, deps' = deps, NEW n,
         \A x \in DepsOf(path'[n].item) \ path'[n].left :
           \/ <<path'[n].item, x>> \in back'
           \/ x \in Black'
           \/ n < Len(path') /\ x = path'[n + 1].item
  PROVE  CycleLooked(n)'
<1>1. \A x : DepsOf(x)' = DepsOf(x)
  BY Zenon DEF DepsOf
<1>2. DepsOf(path[n].item)' = DepsOf(path'[n].item)
  BY Zenon DEF DepsOf
<1> QED
  BY <1>2, Zenon DEF CycleLooked

(* A walk of break_dependency_cycles starts.                               *)
LEMMA CycleRootInv ==
  ASSUME TypeInv, PathInv, CycleInv, CycleRoot
  PROVE  CycleInv'
<1>1. PICK i \in Executable \ seen : Enter(i, 0) /\ seen' = seen \cup {i}
  BY Zenon DEF CycleRoot
<1>2. /\ phase = "cycles" /\ phase' = phase /\ path = <<>>
      /\ items' = items /\ deps' = deps /\ back' = back
  BY DEF CycleRoot, graphVars
<1>3. i \in items
  BY Zenon DEF Executable
<1>4. Len(path') = 1 /\ path'[1] = Frame(i, 0) /\ OnPath = {} /\ OnPath' = {i}
  <2>1. 0 \in Nat
    OBVIOUS
  <2> QED
    BY <1>1, <1>2, <1>3, <2>1, RootFacts, Zenon
<1>5. Black' = Black
  <2>1. Black' = (seen \cup {i}) \ {i}
    BY <1>1, <1>4, Zenon DEF Black
  <2>2. Black = seen
    BY <1>4, Zenon DEF Black
  <2> QED
    BY <1>1, <2>1, <2>2, Zenon
<1>6. BlackClosed /\ Grounded(deps \ back, Black)
  BY <1>2, Zenon DEF CycleInv
<1>7. BlackClosed'
  BY <1>2, <1>5, <1>6, Zenon DEF BlackClosed
<1>8. Grounded(deps' \ back', Black')
  BY <1>2, <1>5, <1>6, Zenon
<1>9. \A n \in 1..Len(path') : CycleLooked(n)'
  <2>1. path'[1].item = i /\ path'[1].left = DepsOf(i)
    BY <1>4 DEF Frame
  <2>4. \A n \in 1..Len(path') : n = 1
    BY <1>4
  <2>5. CycleLooked(1)'
    BY <1>2, <2>1, CycleLookedNext, Zenon
  <2> QED
    BY <2>4, <2>5, Zenon
<1>10. OnPath' \subseteq seen'
  BY <1>1, <1>4, Zenon
<1> QED
  BY <1>7, <1>8, <1>9, <1>10, Zenon DEF CycleInv

(* A new item becomes grey, a grey one is a back edge.                     *)
LEMMA CycleEdgeInv ==
  ASSUME TypeInv, PathInv, CycleInv, CycleEdge
  PROVE  CycleInv'
<1>1. PICK d \in Last(path).left :
        \/ /\ d \notin seen
           /\ path' = Append(Looked(d), Frame(d, 0))
           /\ seen' = seen \cup {d}
           /\ back' = back
        \/ /\ d \in seen
           /\ path' = Looked(d)
           /\ back' = IF IsGrey(d) THEN back \cup {<<Last(path).item, d>>} ELSE back
           /\ seen' = seen
  BY Zenon DEF CycleEdge
<1>2. /\ phase = "cycles" /\ phase' = phase /\ path # <<>>
      /\ items' = items /\ deps' = deps
  BY DEF CycleEdge, graphVars
<1>3. /\ OnPath \subseteq seen /\ BlackClosed /\ Grounded(deps \ back, Black)
      /\ \A n \in 1..Len(path) : CycleLooked(n)
  BY <1>2, Zenon DEF CycleInv
<1>4. \A x : DepsOf(x)' = DepsOf(x)
  BY <1>2, Zenon DEF DepsOf
<1>5. Len(path) \in Nat \ {0} /\ Last(path) = path[Len(path)]
  BY <1>2 DEF TypeInv, Last
<1>6. Len(path) \in 1..Len(path)
  BY <1>5
<1>7. d \in DepsOf(path[Len(path)].item)
  <2>1. FrameAt(path, Len(path))
    BY <1>6, PathFrames, Zenon
  <2> QED
    BY <1>5, <2>1, Zenon DEF FrameAt
<1>8. d \in items
  BY <1>7, Zenon DEF DepsOf
<1>9. \A n \in 1..Len(path) : n # Len(path) => n < Len(path) /\ n + 1 \in 1..Len(path)
  BY <1>5
<1>10. CASE d \notin seen
  <2>1. /\ path' = Append(Looked(d), Frame(d, 0))
        /\ seen' = seen \cup {d} /\ back' = back
    BY <1>1, <1>10, Zenon
  <2>2. /\ Len(path') = Len(path) + 1 /\ SameFrames(path', d)
        /\ path'[Len(path) + 1] = Frame(d, 0) /\ OnPath' = OnPath \cup {d}
    <3>1. 0 \in Nat
      OBVIOUS
    <3> QED
      BY <1>2, <1>8, <2>1, <3>1, PushFacts, Zenon
  <2>3. Black' = Black
    <3>1. Black' = (seen \cup {d}) \ (OnPath \cup {d})
      BY <2>1, <2>2, Zenon DEF Black
    <3> QED
      BY <1>10, <3>1, Zenon DEF Black
  <2>4. BlackClosed'
    BY <1>2, <1>3, <2>1, <2>3, Zenon DEF BlackClosed
  <2>5. Grounded(deps' \ back', Black')
    BY <1>2, <1>3, <2>1, <2>3, Zenon
  <2>6. OnPath' \subseteq seen'
    BY <1>3, <2>1, <2>2, Zenon
  <2>7. path'[Len(path) + 1].item = d /\ path'[Len(path) + 1].left = DepsOf(d)
    BY <2>2 DEF Frame
  <2>8. ASSUME NEW k, k = Len(path) + 1
        PROVE  CycleLooked(k)'
    <3>1. path'[k].left = DepsOf(path'[k].item)
      BY <2>7, <2>8, Zenon
    <3> QED
      BY <1>2, <3>1, CycleLookedNext, Zenon
  <2>9. ASSUME NEW n \in 1..Len(path)
        PROVE  CycleLooked(n)'
    <3>1. path'[n].item = path[n].item
      BY <2>2, Zenon DEF SameFrames
    <3>2. CycleLooked(n)
      BY <1>3, Zenon
    <3>3. n < Len(path')
      BY <1>5, <2>2
    <3>4. CASE n = Len(path)
      <4>1. path'[n].left = path[n].left \ {d} /\ path'[n + 1].item = d
        BY <2>2, <2>7, <3>4, Zenon DEF SameFrames
      <4>2. \A x \in DepsOf(path[n].item) \ path[n].left : <<path[n].item, x>> \in back \/ x \in Black
        BY <1>5, <3>2, <3>4 DEF CycleLooked
      <4>3. \A x \in DepsOf(path'[n].item) \ path'[n].left :
              \/ <<path'[n].item, x>> \in back' \/ x \in Black' \/ x = path'[n + 1].item
        BY <2>1, <2>3, <3>1, <4>1, <4>2, Zenon
      <4> QED
        BY <1>2, <3>3, <4>3, CycleLookedNext, Zenon
    <3>5. CASE n # Len(path)
      <4>1. path'[n].left = path[n].left
        BY <2>2, <3>5, Zenon DEF SameFrames
      <4>2. path'[n + 1].item = path[n + 1].item
        BY <1>9, <2>2, <3>5, Zenon DEF SameFrames
      <4>3. \A x \in DepsOf(path'[n].item) \ path'[n].left :
              \/ <<path'[n].item, x>> \in back' \/ x \in Black' \/ x = path'[n + 1].item
        BY <2>1, <2>3, <3>1, <3>2, <4>1, <4>2, Zenon DEF CycleLooked
      <4> QED
        BY <1>2, <3>3, <4>3, CycleLookedNext, Zenon
    <3> QED
      BY <3>4, <3>5, Zenon
  <2>10. \A n \in 1..Len(path') : n \in 1..Len(path) \/ n = Len(path) + 1
    BY <1>5, <2>2
  <2>11. \A n \in 1..Len(path') : CycleLooked(n)'
    BY <2>8, <2>9, <2>10, Zenon
  <2> QED
    BY <2>4, <2>5, <2>6, <2>11, Zenon DEF CycleInv
<1>11. CASE d \in seen
  <2>1. /\ path' = Looked(d) /\ seen' = seen
        /\ back' = IF IsGrey(d) THEN back \cup {<<Last(path).item, d>>} ELSE back
    BY <1>1, <1>11, Zenon
  <2>2. Len(path') = Len(path) /\ SameFrames(path', d) /\ OnPath' = OnPath
    BY <1>2, <2>1, LookFacts, Zenon
  <2>3. Black' = Black
    BY <2>1, <2>2, Zenon DEF Black
  <2>4. \A e \in back : e \in back'
    BY <2>1, Zenon
  <2>5. BlackClosed'
    BY <1>2, <1>3, <2>3, <2>4, Zenon DEF BlackClosed
  <2>6. Grounded(deps' \ back', Black')
    <3>1. \A e \in deps' \ back' : e \in deps \ back
      BY <1>2, <2>4, Zenon
    <3>2. Grounded(deps' \ back', Black)
      BY <1>3, <3>1, GroundedSub, Zenon
    <3> QED
      BY <2>3, <3>2, Zenon
  <2>7. OnPath' \subseteq seen'
    BY <1>3, <2>1, <2>2, Zenon
  <2>8. <<path[Len(path)].item, d>> \in back' \/ d \in Black'
    BY <1>5, <1>11, <2>1, <2>3, Zenon DEF IsGrey, Black
  <2>9. ASSUME NEW n \in 1..Len(path')
        PROVE  CycleLooked(n)'
    <3>0. n \in 1..Len(path)
      BY <2>2, Zenon
    <3>1. path'[n].item = path[n].item
      BY <2>2, <3>0, Zenon DEF SameFrames
    <3>2. CycleLooked(n)
      BY <1>3, <3>0, Zenon
    <3>3. CASE n = Len(path)
      <4>1. path'[n].left = path[n].left \ {d}
        BY <2>2, <3>0, <3>3, Zenon DEF SameFrames
      <4>2. \A x \in DepsOf(path[n].item) \ path[n].left : <<path[n].item, x>> \in back \/ x \in Black
        BY <1>5, <3>2, <3>3 DEF CycleLooked
      <4>3. \A x \in DepsOf(path'[n].item) \ path'[n].left :
              <<path'[n].item, x>> \in back' \/ x \in Black'
        BY <2>3, <2>4, <2>8, <3>1, <3>3, <4>1, <4>2, Zenon
      <4> QED
        BY <1>2, <4>3, CycleLookedNext, Zenon
    <3>4. CASE n # Len(path)
      <4>1. path'[n].left = path[n].left
        BY <2>2, <3>0, <3>4, Zenon DEF SameFrames
      <4>2. path'[n + 1].item = path[n + 1].item /\ n < Len(path')
        BY <1>9, <2>2, <3>0, <3>4, Zenon DEF SameFrames
      <4>3. \A x \in DepsOf(path'[n].item) \ path'[n].left :
              \/ <<path'[n].item, x>> \in back' \/ x \in Black' \/ x = path'[n + 1].item
        BY <2>3, <2>4, <3>1, <3>2, <4>1, <4>2, Zenon DEF CycleLooked
      <4> QED
        BY <1>2, <4>2, <4>3, CycleLookedNext, Zenon
    <3> QED
      BY <3>3, <3>4, Zenon
  <2> QED
    BY <2>5, <2>6, <2>7, <2>9, Zenon DEF CycleInv
<1> QED
  BY <1>10, <1>11, Zenon

(* An item becomes black: all it keeps leads to black items.               *)
LEMMA CycleLeaveInv ==
  ASSUME TypeInv, PathInv, CycleInv, CycleLeave
  PROVE  CycleInv'
<1> DEFINE t == Last(path).item
<1>1. /\ phase = "cycles" /\ phase' = phase /\ path # <<>> /\ Last(path).left = {} /\ Leave
      /\ items' = items /\ deps' = deps /\ back' = back /\ seen' = seen
  BY DEF CycleLeave, graphVars
<1>2. /\ OnPath \subseteq seen /\ BlackClosed /\ Grounded(deps \ back, Black)
      /\ \A n \in 1..Len(path) : CycleLooked(n)
  BY <1>1, Zenon DEF CycleInv
<1>3. /\ Len(path) \in Nat \ {0} /\ Len(path') = Len(path) - 1
      /\ \A n \in 1..Len(path') : path'[n] = path[n]
      /\ Last(path) = path[Len(path)]
      /\ t \in OnPath /\ OnPath' = OnPath \ {t}
  BY <1>1, LeaveFacts, Zenon
<1>4. t = path[Len(path)].item /\ path[Len(path)].left = {}
  BY <1>1, <1>3, Zenon
<1> HIDE DEF t
<1>5. Black' = Black \cup {t} /\ t \notin Black
  <2>1. Black' = seen \ (OnPath \ {t})
    BY <1>1, <1>3, Zenon DEF Black
  <2>2. t \in seen
    BY <1>2, <1>3, Zenon
  <2>3. \A x : x \in Black' <=> x \in Black \/ x = t
    BY <1>3, <2>1, <2>2, Zenon DEF Black
  <2>4. t \notin Black
    BY <1>3, Zenon DEF Black
  <2> QED
    BY <2>3, <2>4, Zenon
<1>6. \A d \in DepsOf(t) : <<t, d>> \in back \/ d \in Black
  <2>1. CycleLooked(Len(path))
    BY <1>2, <1>3
  <2>2. ~(Len(path) < Len(path))
    BY <1>3
  <2> QED
    BY <1>4, <2>1, <2>2, Zenon DEF CycleLooked
<1>7. BlackClosed'
  <2>1. ASSUME NEW b \in Black', NEW d \in items', <<b, d>> \in deps' \ back'
        PROVE  d \in Black'
    <3>1. CASE b = t
      <4>1. d \in DepsOf(t) /\ <<t, d>> \notin back
        BY <1>1, <2>1, <3>1, Zenon DEF DepsOf
      <4> QED
        BY <1>5, <1>6, <4>1, Zenon
    <3>2. CASE b \in Black
      BY <1>1, <1>2, <1>5, <2>1, <3>2, Zenon DEF BlackClosed
    <3> QED
      BY <1>5, <3>1, <3>2, Zenon
  <2> QED
    BY <2>1, Zenon DEF BlackClosed
<1>8. Grounded(deps' \ back', Black')
  <2>0. t \in items
    BY <1>2, <1>3, Zenon DEF TypeInv
  <2>1. \A b \in Black : <<b, t>> \notin deps \ back
    BY <1>2, <1>5, <2>0, Zenon DEF BlackClosed
  <2>2. <<t, t>> \notin deps \ back
    BY <1>5, <1>6, <2>0, Zenon DEF DepsOf
  <2>3. Grounded(deps \ back, Black \cup {t})
    BY <1>2, <2>1, <2>2, GroundedAdd, Zenon
  <2> QED
    BY <1>1, <1>5, <2>3, Zenon
<1>9. ASSUME NEW n \in 1..Len(path')
      PROVE  CycleLooked(n)'
  <2>1. n \in 1..Len(path) /\ n < Len(path) /\ (n < Len(path') \/ n + 1 = Len(path))
    BY <1>3
  <2>2. path'[n] = path[n]
    BY <1>3, Zenon
  <2>3. n < Len(path') => path'[n + 1] = path[n + 1]
    BY <1>3
  <2>4. CycleLooked(n)
    BY <1>2, <2>1, Zenon
  <2>5. n + 1 = Len(path) => path[n + 1].item \in Black'
    BY <1>4, <1>5, Zenon
  <2>6. ASSUME NEW x \in DepsOf(path'[n].item) \ path'[n].left
        PROVE  \/ <<path'[n].item, x>> \in back'
               \/ x \in Black'
               \/ n < Len(path') /\ x = path'[n + 1].item
    <3>1. <<path[n].item, x>> \in back \/ x \in Black \/ x = path[n + 1].item
      BY <2>2, <2>4, <2>6, Zenon DEF CycleLooked
    <3> QED
      BY <1>1, <1>5, <2>1, <2>2, <2>3, <2>5, <3>1, Zenon
  <2> QED
    BY <1>1, <2>6, CycleLookedNext, Zenon
<1>10. OnPath' \subseteq seen'
  BY <1>1, <1>2, <1>3, Zenon
<1> QED
  BY <1>7, <1>8, <1>9, <1>10, Zenon DEF CycleInv

-----------------------------------------------------------------------------
(* The later walks meet no cycle.                                          *)

(* A dependency of the top frame is not on the path.                       *)
LEMMA NoCycle ==
  ASSUME TypeInv, PathInv, Acyclic, phase \in {"plan", "sort"}, path # <<>>,
         NEW d \in Last(path).left
  PROVE  d \notin OnPath
<1> SUFFICES ASSUME d \in OnPath PROVE FALSE
  OBVIOUS
<1>1. Len(path) \in Nat \ {0} /\ Last(path) = path[Len(path)]
  BY DEF TypeInv, Last
<1>2. PICK m \in 1..Len(path) : d = path[m].item
  BY Zenon DEF OnPath
<1>3. PICK B \in SUBSET items : AcyclicOn(B)
  BY DEF Acyclic
<1> DEFINE S == {path[n].item : n \in m..Len(path)}
<1>4. \A n \in m..Len(path) : n \in 1..Len(path)
  BY <1>1
<1>5. m \in m..Len(path)
  BY <1>1
<1>6. d \in S
  BY <1>2, <1>5, Zenon
<1>7. S \in SUBSET B
  BY <1>3, <1>4, Zenon DEF AcyclicOn, OnPath
<1>8. PICK i \in S : \A e \in S : <<i, e>> \notin deps
  BY <1>3, <1>6, <1>7, Zenon DEF AcyclicOn, Grounded
<1>9. PICK n \in m..Len(path) : i = path[n].item
  BY <1>8, Zenon
<1>10. FrameAt(path, n)
  BY <1>4, PathFrames, Zenon
<1>11. CASE n = Len(path)
  <2>1. d \in DepsOf(i)
    BY <1>1, <1>9, <1>10, <1>11, Zenon DEF FrameAt
  <2> QED
    BY <1>6, <1>8, <2>1, Zenon DEF DepsOf
<1>12. CASE n # Len(path)
  <2>1. n < Len(path) /\ n + 1 \in m..Len(path)
    BY <1>1, <1>12
  <2>2. path[n + 1].item \in DepsOf(i)
    BY <1>9, <1>10, <2>1, Zenon DEF FrameAt
  <2>3. path[n + 1].item \in S
    BY <2>1, Zenon
  <2> QED
    BY <1>8, <2>2, <2>3, Zenon DEF DepsOf
<1> QED
  BY <1>11, <1>12, Zenon

(* A step that walks along dependencies.                                   *)
LEMMA AcyclicKept ==
  ASSUME Acyclic, phase \in {"plan", "sort", "ready"}, items' = items, deps' = deps,
         \A x \in OnPath' : x \in OnPath \/ x \in Executable \/ \E y \in OnPath : x \in DepsOf(y)
  PROVE  Acyclic'
<1>1. PICK B \in SUBSET items : AcyclicOn(B)
  BY Zenon DEF Acyclic
<1>2. OnPath' \subseteq B
  BY <1>1, Zenon DEF AcyclicOn
<1>3. Executable' = Executable
  BY DEF Executable
<1>4. \A x : DepsOf(x)' = DepsOf(x)
  BY Zenon DEF DepsOf
<1>5. /\ Executable' \subseteq B
      /\ \A b \in B : DepsOf(b)' \subseteq B
      /\ Grounded(deps', B)
  BY <1>1, <1>3, <1>4, Zenon DEF AcyclicOn
<1>6. AcyclicOn(B)'
  BY <1>2, <1>5, Zenon DEF AcyclicOn
<1> QED
  BY <1>6, Zenon DEF Acyclic

(* Walking into a dependency of the top frame.                             *)
LEMMA PushAcyclic ==
  ASSUME TypeInv, PathInv, Acyclic, phase \in {"plan", "sort"}, path # <<>>,
         NEW d \in Last(path).left, items' = items, deps' = deps,
         OnPath' = OnPath \cup {d}
  PROVE  Acyclic'
<1>1. Len(path) \in 1..Len(path) /\ Last(path) = path[Len(path)]
  BY DEF TypeInv, Last
<1>2. FrameAt(path, Len(path))
  BY <1>1, PathFrames, Zenon
<1>3. d \in DepsOf(path[Len(path)].item) /\ path[Len(path)].item \in OnPath
  BY <1>1, <1>2, Zenon DEF FrameAt, OnPath
<1>4. \A x \in OnPath' : x \in OnPath \/ x \in Executable \/ \E y \in OnPath : x \in DepsOf(y)
  BY <1>3, Zenon
<1>5. phase \in {"plan", "sort", "ready"}
  OBVIOUS
<1> QED
  BY <1>4, <1>5, AcyclicKept, Zenon

(* Without the back edges the items that were seen have no cycle.          *)
LEMMA CyclesDoneAcyclic ==
  ASSUME TypeInv, PathInv, CycleInv, CyclesDone
  PROVE  Acyclic'
<1>1. /\ phase = "cycles" /\ path = <<>> /\ Executable \subseteq seen
      /\ items' = items /\ deps' = deps \ back /\ path' = path
  BY DEF CyclesDone
<1>2. OnPath = {} /\ OnPath' = {}
  BY <1>1 DEF OnPath
<1>3. Black = seen
  BY <1>2, Zenon DEF Black
<1>4. BlackClosed /\ Grounded(deps \ back, seen)
  BY <1>1, <1>3, Zenon DEF CycleInv
<1>5. seen \in SUBSET items'
  BY <1>1, Zenon DEF TypeInv
<1>6. Executable' \subseteq seen
  BY <1>1 DEF Executable
<1>7. \A b \in seen : DepsOf(b)' \subseteq seen
  BY <1>1, <1>3, <1>4, Zenon DEF BlackClosed, DepsOf
<1>8. \E B \in SUBSET items' : AcyclicOn(B)'
  <2>1. ASSUME NEW B, B = seen
        PROVE  AcyclicOn(B)'
    <3>1. OnPath' \subseteq B /\ Executable' \subseteq B /\ Grounded(deps', B)
      BY <1>1, <1>2, <1>4, <1>6, <2>1, Zenon
    <3>2. \A b \in B : DepsOf(b)' \subseteq B
      BY <1>7, <2>1, Zenon
    <3> QED
      BY <3>1, <3>2, Zenon DEF AcyclicOn
  <2> QED
    BY <1>5, <2>1, Zenon
<1> QED
  BY <1>8, Zenon DEF Acyclic

(* A symbol that is added later has no dependencies.                       *)
LEMMA AddSymbolAcyclic ==
  ASSUME TypeInv, PathInv, Acyclic, AddSymbol
  PROVE  Acyclic'
<1>1. PICK i \in Late \ items : items' = items \cup {i}
  BY Zenon DEF AddSymbol
<1>2. phase = "ready" /\ deps' = deps /\ path' = path
  BY DEF AddSymbol, walkVars
<1>3. PICK B \in SUBSET items : AcyclicOn(B)
  BY <1>2 DEF Acyclic
<1>4. \A x : <<i, x>> \notin deps /\ <<x, i>> \notin deps
  BY <1>1 DEF TypeInv
<1>5. \A x : DepsOf(x)' = DepsOf(x)
  BY <1>1, <1>2, <1>4, Zenon DEF DepsOf
<1>6. DepsOf(i) = {}
  BY <1>4, Zenon DEF DepsOf
<1>7. Grounded(deps, B \cup {i})
  BY <1>3, <1>4, GroundedAdd, Zenon DEF AcyclicOn
<1>8. Executable' \subseteq B \cup {i}
  BY <1>1, <1>3, Zenon DEF AcyclicOn, Executable
<1>9. ASSUME NEW C, C = B \cup {i}
      PROVE  AcyclicOn(C)' /\ C \in SUBSET items'
  <2>1. OnPath' \subseteq C
    BY <1>2, <1>3, <1>9, Zenon DEF AcyclicOn, OnPath
  <2>2. \A b \in C : DepsOf(b)' \subseteq C
    BY <1>3, <1>5, <1>6, <1>9, Zenon DEF AcyclicOn
  <2>3. Grounded(deps', C) /\ Executable' \subseteq C
    BY <1>2, <1>7, <1>8, <1>9, Zenon
  <2>4. C \in SUBSET items'
    BY <1>1, <1>9, Zenon
  <2> QED
    BY <2>1, <2>2, <2>3, <2>4, Zenon DEF AcyclicOn
<1> QED
  BY <1>9, Zenon DEF Acyclic

-----------------------------------------------------------------------------
(* compute_exec_plan.                                                      *)

(* A step that moves nothing keeps items in place.                         *)
LEMMA InPlaceKept ==
  ASSUME items' = items, stage' = stage, level' = level, NEW i, NEW d, InPlace(i, d)
  PROVE  InPlace(i, d)'
BY DEF InPlace, Executable

(* The same, for all dependencies of an item.                              *)
LEMMA SettledKept ==
  ASSUME items' = items, deps' = deps, stage' = stage, level' = level, NEW i, Settled(i)
  PROVE  Settled(i)'
<1>1. DepsOf(i)' = DepsOf(i)
  BY Zenon DEF DepsOf
<1> QED
  BY <1>1, InPlaceKept, Zenon DEF Settled

(* The same, for all items.                                                *)
LEMMA FixedKept ==
  ASSUME items' = items, deps' = deps, stage' = stage, level' = level, Fixed
  PROVE  Fixed'
<1>1. Executable' = Executable
  BY DEF Executable
<1> QED
  BY <1>1, SettledKept, Zenon DEF Fixed

(* The dependencies do not change during the walk.                         *)
LEMMA PlanLookedNext ==
  ASSUME items' = items, deps' = deps, NEW n, NEW x, path'[n].item = x,
         \A d \in DepsOf(x) \ path'[n].left : InPlace(x, d)'
  PROVE  PlanLooked(n)'
<1>1. DepsOf(path[n].item)' = DepsOf(x)
  BY Zenon DEF DepsOf
<1>2. ASSUME NEW d \in DepsOf(x) \ path'[n].left
      PROVE  InPlace(path[n].item, d)'
  <2>1. InPlace(x, d)'
    OBVIOUS
  <2> QED
    BY <2>1, Zenon DEF InPlace
<1> QED
  BY <1>1, <1>2, Zenon DEF PlanLooked

(* A walk of propagate starts.                                             *)
LEMMA PlanRootInv ==
  ASSUME TypeInv, PathInv, PlanInv, PlanRoot
  PROVE  PlanInv'
<1>1. PICK i \in Executable \ seen : Enter(i, 0) /\ seen' = seen \cup {i}
  BY Zenon DEF PlanRoot
<1>2. /\ phase = "plan" /\ phase' = phase /\ path = <<>>
      /\ items' = items /\ deps' = deps /\ stage' = stage /\ level' = level
      /\ stale' = stale
  BY DEF PlanRoot, graphVars, planVars
<1>3. i \in items
  BY Zenon DEF Executable
<1>4. Len(path') = 1 /\ path'[1] = Frame(i, 0) /\ OnPath = {} /\ OnPath' = {i}
  <2>1. 0 \in Nat
    OBVIOUS
  <2> QED
    BY <1>1, <1>2, <1>3, <2>1, RootFacts, Zenon
<1>5. Executable' = Executable
  BY <1>2 DEF Executable
<1>6. \A x \in seen' \ OnPath' : Settled(x)'
  <2>1. ASSUME NEW x \in seen' \ OnPath'
        PROVE  Settled(x)'
    <3>1. x \in seen \ OnPath
      BY <1>1, <1>4, Zenon
    <3>2. Settled(x)
      BY <1>2, <3>1, Zenon DEF PlanInv
    <3> QED
      BY <1>2, <3>2, SettledKept, Zenon
  <2> QED
    BY <2>1, Zenon
<1>7. \A n \in 1..Len(path') : PlanLooked(n)'
  <2>1. path'[1].item = i /\ path'[1].left = DepsOf(i)
    BY <1>4 DEF Frame
  <2>2. \A d \in DepsOf(i) \ path'[1].left : InPlace(i, d)'
    BY <2>1, Zenon
  <2>3. PlanLooked(1)'
    BY <1>2, <2>1, <2>2, PlanLookedNext, Zenon
  <2>4. \A n \in 1..Len(path') : n = 1
    BY <1>4
  <2> QED
    BY <2>3, <2>4, Zenon
<1>8. stale' => Fixed'
  BY <1>2, FixedKept, Zenon DEF PlanInv
<1>9. OnPath' \subseteq Executable'
  BY <1>1, <1>4, <1>5, Zenon
<1> QED
  BY <1>2, <1>6, <1>7, <1>8, <1>9 DEF PlanInv

(* A frame of propagate has seen all dependencies.                         *)
LEMMA PlanLeaveInv ==
  ASSUME TypeInv, PathInv, PlanInv, PlanLeave
  PROVE  PlanInv'
<1>1. /\ phase = "plan" /\ phase' = phase /\ path # <<>> /\ Last(path).left = {} /\ Leave
      /\ items' = items /\ deps' = deps /\ stage' = stage /\ level' = level
      /\ stale' = stale /\ seen' = seen
  BY DEF PlanLeave, graphVars, planVars
<1>2. /\ Len(path) \in Nat \ {0} /\ Len(path') = Len(path) - 1
      /\ \A n \in 1..Len(path') : path'[n] = path[n]
      /\ Last(path) = path[Len(path)]
      /\ OnPath' = OnPath \ {Last(path).item}
  BY <1>1, LeaveFacts, Zenon
<1>3. /\ \A i \in seen \ OnPath : Settled(i)
      /\ \A n \in 1..Len(path) : PlanLooked(n)
      /\ OnPath \subseteq Executable
  BY <1>1, Zenon DEF PlanInv
<1>4. Executable' = Executable
  BY <1>1 DEF Executable
<1>5. Settled(Last(path).item)
  <2>1. PlanLooked(Len(path))
    BY <1>2, <1>3
  <2> QED
    BY <1>1, <1>2, <2>1, Zenon DEF PlanLooked, Settled
<1>6. ASSUME NEW x \in seen' \ OnPath'
      PROVE  Settled(x)'
  <2>1. Settled(x)
    BY <1>1, <1>2, <1>3, <1>5, Zenon
  <2> QED
    BY <1>1, <2>1, SettledKept, Zenon
<1>7. ASSUME NEW n \in 1..Len(path')
      PROVE  PlanLooked(n)'
  <2>1. n \in 1..Len(path)
    BY <1>2
  <2>2. PlanLooked(n) /\ path'[n] = path[n]
    BY <1>2, <1>3, <2>1, Zenon
  <2>3. ASSUME NEW d \in DepsOf(path[n].item) \ path'[n].left, NEW x, x = path[n].item
        PROVE  InPlace(x, d)'
    <3>1. InPlace(x, d)
      BY <2>2, <2>3, Zenon DEF PlanLooked
    <3> QED
      BY <1>1, <3>1, InPlaceKept, Zenon
  <2>4. ASSUME NEW x, x = path[n].item
        PROVE  PlanLooked(n)'
    <3>1. path'[n].item = x
      BY <2>2, <2>4, Zenon
    <3>2. \A d \in DepsOf(x) \ path'[n].left : InPlace(x, d)'
      BY <2>3, <2>4, Zenon
    <3> QED
      BY <1>1, <3>1, <3>2, PlanLookedNext, Zenon
  <2> QED
    BY <2>4, Zenon
<1>8. stale' => Fixed'
  BY <1>1, FixedKept, Zenon DEF PlanInv
<1>9. OnPath' \subseteq Executable'
  BY <1>2, <1>3, <1>4, Zenon
<1> QED
  BY <1>1, <1>6, <1>7, <1>8, <1>9 DEF PlanInv

(* is_earlier is transitive.                                               *)
LEMMA IsEarlierTrans ==
  ASSUME NEW a \in Int, NEW b \in Int, NEW c \in Int, NEW d \in Int, NEW e \in Int, NEW f \in Int,
         IsEarlier(a, b, c, d), IsEarlier(c, d, e, f)
  PROVE  IsEarlier(a, b, e, f)
BY DEF IsEarlier

(* is_earlier is irreflexive.                                              *)
LEMMA NotEarlierThanSelf ==
  ASSUME NEW a \in Int, NEW b \in Int
  PROVE  ~IsEarlier(a, b, a, b)
BY DEF IsEarlier

(* Moving d to the position of the item that needs it keeps it in place    *)
(* for all others that need it.                                            *)
LEMMA MovedInPlace ==
  ASSUME TypeInv, NEW it \in Sym, NEW d \in Sym, it # d,
         IsEarlier(stage[it], level[it], stage[d], level[d]),
         stage' = [stage EXCEPT ![d] = stage[it]], level' = [level EXCEPT ![d] = level[it]],
         items' = items, NEW x \in Sym, x # d, NEW y \in Sym,
         InPlace(x, y) \/ (x = it /\ y = d)
  PROVE  InPlace(x, y)'
<1>1. /\ stage'[x] = stage[x] /\ level'[x] = level[x]
      /\ stage'[d] = stage[it] /\ level'[d] = level[it]
      /\ y # d => stage'[y] = stage[y] /\ level'[y] = level[y]
  BY DEF TypeInv
<1>2. Executable' = Executable
  BY DEF Executable
<1>3. \A i \in Sym : stage[i] \in Int /\ level[i] \in Int
  BY DEF TypeInv
<1>4. CASE y # d
  BY <1>1, <1>2, <1>4, Zenon DEF InPlace
<1>5. CASE y = d /\ x = it
  <2>1. ~IsEarlier(stage[it], level[it], stage[it], level[it])
    BY <1>3, NotEarlierThanSelf, Zenon
  <2> QED
    BY <1>1, <1>5, <2>1, Zenon DEF InPlace
<1>6. CASE y = d /\ x # it
  <2>1. InPlace(x, d)
    BY <1>6, Zenon
  <2>2. SUFFICES ASSUME d \in Executable, IsEarlier(stage[x], level[x], stage[it], level[it])
                 PROVE  FALSE
    BY <1>1, <1>2, <1>6, Zenon DEF InPlace
  <2>3. /\ stage[x] \in Int /\ level[x] \in Int /\ stage[it] \in Int /\ level[it] \in Int
        /\ stage[d] \in Int /\ level[d] \in Int
    BY <1>3, Zenon
  <2>4. IsEarlier(stage[x], level[x], stage[d], level[d])
    BY <2>2, <2>3, IsEarlierTrans, Zenon
  <2> QED
    BY <2>1, <2>2, <2>4, Zenon DEF InPlace
<1> QED
  BY <1>4, <1>5, <1>6, Zenon

(* propagate moves a dependency, or finds it in place.                     *)
LEMMA PlanEdgeInv ==
  ASSUME TypeInv, PathInv, Acyclic, PlanInv, PlanEdge
  PROVE  PlanInv'
<1> DEFINE it == Last(path).item
           N == Len(path)
<1>1. PICK d \in Last(path).left :
        IF d \in Executable \ OnPath /\ IsEarlier(stage[it], level[it], stage[d], level[d])
          THEN /\ stage' = [stage EXCEPT ![d] = stage[it]]
               /\ level' = [level EXCEPT ![d] = level[it]]
               /\ path' = Moved(d)
          ELSE path' = Looked(d) /\ stage' = stage /\ level' = level
  BY Zenon DEF PlanEdge
<1>2. /\ phase = "plan" /\ phase' = phase /\ path # <<>>
      /\ items' = items /\ deps' = deps /\ stale' = stale /\ seen' = seen
  BY DEF PlanEdge, graphVars
<1>3. /\ \A i \in seen \ OnPath : Settled(i)
      /\ \A n \in 1..N : PlanLooked(n)
      /\ OnPath \subseteq Executable
  BY <1>2, Zenon DEF PlanInv
<1>4. N \in Nat \ {0} /\ N \in 1..N /\ Last(path) = path[N]
  BY <1>2 DEF TypeInv, Last
<1>5. FrameAt(path, N)
  BY <1>4, PathFrames, Zenon
<1>6. it \in OnPath /\ d \in DepsOf(it)
  BY <1>4, <1>5, Zenon DEF FrameAt, OnPath
<1>7. d \notin OnPath
  <2>1. phase \in {"plan", "sort"}
    BY <1>2
  <2> QED
    BY <1>2, <2>1, NoCycle, Zenon
<1>8. d \in items /\ d \in Sym /\ it \in Sym /\ it # d
  BY <1>3, <1>6, <1>7, Zenon DEF DepsOf, TypeInv, Executable
<1>9. Executable' = Executable
  BY <1>2 DEF Executable
<1>10. path[N].item = it
  BY <1>4, Zenon
<1> HIDE DEF it
<1>11. CASE IsEarlier(stage[it], level[it], stage[d], level[d]) /\ d \in Executable
  <2>1. /\ stage' = [stage EXCEPT ![d] = stage[it]]
        /\ level' = [level EXCEPT ![d] = level[it]]
        /\ path' = Append(Looked(d), Frame(d, 0))
    BY <1>1, <1>7, <1>11, Zenon DEF Moved
  <2>2. /\ Len(path') = N + 1 /\ SameFrames(path', d)
        /\ path'[N + 1] = Frame(d, 0) /\ OnPath' = OnPath \cup {d}
    <3>1. 0 \in Nat
      OBVIOUS
    <3> QED
      BY <1>2, <1>8, <2>1, <3>1, PushFacts, Zenon
  <2>3. ~stale
    BY <1>2, <1>3, <1>6, <1>11, Zenon DEF PlanInv, Fixed, Settled, InPlace
  <2>4. OnPath' \subseteq Executable'
    BY <1>3, <1>9, <1>11, <2>2, Zenon
  <2>5. ASSUME NEW x \in Sym, x # d, NEW y \in Sym, InPlace(x, y) \/ (x = it /\ y = d)
        PROVE  InPlace(x, y)'
    BY <1>2, <1>8, <1>11, <2>1, <2>5, MovedInPlace, Zenon
  <2>6. \A x : DepsOf(x) \subseteq Sym
    BY Zenon DEF DepsOf, TypeInv
  <2>7. \A x : DepsOf(x)' = DepsOf(x)
    BY <1>2, Zenon DEF DepsOf
  <2>8. ASSUME NEW x \in seen' \ OnPath'
        PROVE  Settled(x)'
    <3>1. x \in seen \ OnPath /\ x # d /\ x \in Sym
      BY <1>2, <2>2, Zenon DEF TypeInv
    <3>2. Settled(x)
      BY <1>3, <3>1, Zenon
    <3> QED
      BY <2>5, <2>6, <2>7, <3>1, <3>2, Zenon DEF Settled
  <2>9. path'[N + 1].item = d /\ path'[N + 1].left = DepsOf(d)
    BY <2>2 DEF Frame
  <2>10. ASSUME NEW k, k = N + 1
         PROVE  PlanLooked(k)'
    <3>1. path'[k].item = d /\ \A y \in DepsOf(d) \ path'[k].left : InPlace(d, y)'
      BY <2>9, <2>10, Zenon
    <3> QED
      BY <1>2, <3>1, PlanLookedNext, Zenon
  <2>11. ASSUME NEW n \in 1..N, NEW x, x = path[n].item
         PROVE  PlanLooked(n)'
    <3>1. path'[n].item = x
      BY <2>2, <2>11, Zenon DEF SameFrames
    <3>2. x \in OnPath /\ x # d /\ x \in Sym
      BY <1>3, <1>7, <2>11, Zenon DEF OnPath, Executable, TypeInv
    <3>3. \A y \in DepsOf(x) \ path[n].left : InPlace(x, y)
      BY <1>3, <2>11, Zenon DEF PlanLooked
    <3>4. \A y \in DepsOf(x) \ path'[n].left : y \in DepsOf(x) \ path[n].left \/ (x = it /\ y = d)
      <4>1. CASE n = N
        <5>1. path'[n].left = path[n].left \ {d} /\ x = it
          BY <1>10, <2>2, <2>11, <4>1, Zenon DEF SameFrames
        <5> QED
          BY <5>1, Zenon
      <4>2. CASE n # N
        <5>1. path'[n].left = path[n].left
          BY <2>2, <4>2, Zenon DEF SameFrames
        <5> QED
          BY <5>1, Zenon
      <4> QED
        BY <4>1, <4>2, Zenon
    <3>5. \A y \in DepsOf(x) \ path'[n].left : InPlace(x, y)'
      BY <2>5, <2>6, <3>2, <3>3, <3>4, Zenon
    <3> QED
      BY <1>2, <3>1, <3>5, PlanLookedNext, Zenon
  <2>12. \A n \in 1..Len(path') : n \in 1..N \/ n = N + 1
    BY <1>4, <2>2
  <2>13. \A n \in 1..Len(path') : PlanLooked(n)'
    BY <2>10, <2>11, <2>12, Zenon
  <2> QED
    BY <1>2, <2>3, <2>4, <2>8, <2>13 DEF PlanInv
<1>12. CASE ~(IsEarlier(stage[it], level[it], stage[d], level[d]) /\ d \in Executable)
  <2>1. path' = Looked(d) /\ stage' = stage /\ level' = level
    BY <1>1, <1>12, Zenon DEF it
  <2>2. Len(path') = N /\ SameFrames(path', d) /\ OnPath' = OnPath
    BY <1>2, <2>1, LookFacts, Zenon
  <2>3. InPlace(it, d)
    BY <1>12, Zenon DEF InPlace
  <2>4. ASSUME NEW x \in seen' \ OnPath'
        PROVE  Settled(x)'
    <3>1. Settled(x)
      BY <1>2, <1>3, <2>2, Zenon
    <3> QED
      BY <1>2, <2>1, <3>1, SettledKept, Zenon
  <2>5. ASSUME NEW n \in 1..Len(path'), NEW x, x = path[n].item
        PROVE  PlanLooked(n)'
    <3>0. n \in 1..N
      BY <2>2, Zenon
    <3>1. path'[n].item = x
      BY <2>2, <2>5, <3>0, Zenon DEF SameFrames
    <3>3. \A y \in DepsOf(x) \ path[n].left : InPlace(x, y)
      BY <1>3, <2>5, <3>0, Zenon DEF PlanLooked
    <3>4. \A y \in DepsOf(x) \ path'[n].left : InPlace(x, y)
      <4>1. CASE n = N
        <5>1. path'[n].left = path[n].left \ {d} /\ x = it
          BY <1>10, <2>2, <2>5, <3>0, <4>1, Zenon DEF SameFrames
        <5> QED
          BY <2>3, <3>3, <5>1, Zenon
      <4>2. CASE n # N
        <5>1. path'[n].left = path[n].left
          BY <2>2, <3>0, <4>2, Zenon DEF SameFrames
        <5> QED
          BY <3>3, <5>1, Zenon
      <4> QED
        BY <4>1, <4>2, Zenon
    <3>5. \A y \in DepsOf(x) \ path'[n].left : InPlace(x, y)'
      BY <1>2, <2>1, <3>4, InPlaceKept, Zenon
    <3> QED
      BY <1>2, <3>1, <3>5, PlanLookedNext, Zenon
  <2>6. stale' => Fixed'
    BY <1>2, <2>1, FixedKept, Zenon DEF PlanInv
  <2>7. OnPath' \subseteq Executable'
    BY <1>3, <1>9, <2>2, Zenon
  <2>8. \A n \in 1..Len(path') : PlanLooked(n)'
    BY <2>5, Zenon
  <2> QED
    BY <1>2, <2>4, <2>6, <2>7, <2>8 DEF PlanInv
<1> QED
  BY <1>11, <1>12, Zenon

(* compute_exec_plan is done.                                              *)
LEMMA PlanDoneInv ==
  ASSUME TypeInv, PathInv, PlanInv, PlanDone
  PROVE  PlanInv'
<1>1. /\ phase = "plan" /\ phase' = "sort" /\ path = <<>> /\ Executable \subseteq seen
      /\ items' = items /\ deps' = deps /\ stage' = stage /\ level' = level
  BY DEF PlanDone, graphVars, planVars
<1>2. OnPath = {}
  BY <1>1 DEF OnPath
<1>3. Fixed
  BY <1>1, <1>2, Zenon DEF PlanInv, Fixed
<1>4. Fixed'
  BY <1>1, <1>3, FixedKept, Zenon
<1> QED
  BY <1>1, <1>4 DEF PlanInv

(* compute_exec_plan starts in the init.                                   *)
LEMMA CyclesDonePlanInv ==
  ASSUME TypeInv, PathInv, KeptInv, CyclesDone
  PROVE  PlanInv'
<1>1. /\ phase = "cycles" /\ phase' = "plan" /\ path = <<>> /\ path' = path
      /\ seen' = {} /\ stale' = stale
  BY DEF CyclesDone, Seed
<1>2. ~stale
  BY <1>1 DEF KeptInv
<1>3. Len(path') = 0 /\ OnPath' = {}
  BY <1>1 DEF OnPath
<1>4. \A n \in 1..Len(path') : PlanLooked(n)'
  BY <1>3
<1> QED
  BY <1>1, <1>2, <1>3, <1>4, SMTT(30) DEF PlanInv

(* compute_exec_plan starts again: only new items are seeded.              *)
LEMMA MaybeResortInv ==
  ASSUME TypeInv, PathInv, PlanInv, KeptInv, MaybeResort
  PROVE  PlanInv'
<1>1. /\ phase = "ready" /\ phase' = "plan" /\ path' = path
      /\ seen' = {} /\ stale' = stale /\ items' = items /\ deps' = deps /\ prio' = prio
      /\ stage' = [i \in Sym |-> IF i \in Seeded THEN DeclaredStage(Type[i]) ELSE stage[i]]
      /\ level' = [i \in Sym |-> IF i \in Seeded THEN LevelOf(Type[i], prio[i]) ELSE level[i]]
  BY DEF MaybeResort, Seed, graphVars
<1>2. path = <<>>
  BY <1>1 DEF PathInv
<1>3. Len(path') = 0 /\ OnPath' = {}
  BY <1>1, <1>2 DEF OnPath
<1>4. \A n \in 1..Len(path') : PlanLooked(n)'
  BY <1>3
<1>5. Fixed
  BY <1>1 DEF PlanInv
<1>6. \A i \in items \ Late : i \in Sym /\ i \notin Seeded
  BY <1>1, SMTT(30) DEF KeptInv, Seeded, TypeInv
<1>7. \A i \in items \ Late : stage'[i] = stage[i] /\ level'[i] = level[i]
  BY <1>1, <1>6
<1>8. Executable' = Executable
  BY <1>1 DEF Executable
<1>9. ASSUME NEW i \in Executable', NEW d \in DepsOf(i)'
      PROVE  InPlace(i, d)'
  <2>1. d \in DepsOf(i)
    BY <1>1, Zenon DEF DepsOf
  <2>2. i \in items \ Late /\ d \in items \ Late
    BY <1>8, <2>1 DEF DepsOf, TypeInv, Executable
  <2>3. InPlace(i, d)
    BY <1>5, <1>8, <2>1, Zenon DEF Fixed, Settled
  <2> QED
    BY <1>7, <1>8, <2>2, <2>3, Zenon DEF InPlace
<1>10. Fixed'
  BY <1>9, Zenon DEF Fixed, Settled
<1> QED
  BY <1>1, <1>3, <1>4, <1>10 DEF PlanInv

(* A symbol that is added leaves the others in place.                      *)
LEMMA AddSymbolInv ==
  ASSUME TypeInv, PlanInv, AddSymbol
  PROVE  PlanInv'
<1>1. PICK s \in Late \ items : items' = items \cup {s}
  BY Zenon DEF AddSymbol
<1>2. /\ phase = "ready" /\ phase' = phase /\ deps' = deps /\ stage' = stage /\ level' = level
  BY DEF AddSymbol, planVars
<1>3. Fixed
  BY <1>2 DEF PlanInv
<1>4. ASSUME NEW i \in Executable', NEW d \in DepsOf(i)'
      PROVE  InPlace(i, d)'
  <2>1. i # s /\ d # s /\ <<i, d>> \in deps
    BY <1>1, <1>2, SMTT(30) DEF DepsOf, TypeInv
  <2>2. i \in Executable /\ d \in DepsOf(i)
    BY <1>1, <1>2, <2>1, Zenon DEF DepsOf, Executable
  <2>3. InPlace(i, d)
    BY <1>3, <2>2, Zenon DEF Fixed, Settled
  <2>4. d \in Executable' => d \in Executable
    BY <1>1, <2>1, Zenon DEF Executable
  <2> QED
    BY <1>2, <2>3, <2>4, Zenon DEF InPlace
<1>5. Fixed'
  BY <1>4, Zenon DEF Fixed, Settled
<1> QED
  BY <1>2, <1>5 DEF PlanInv

-----------------------------------------------------------------------------
(* tsort_visit.                                                            *)

(* The types of a frame.                                                   *)
LEMMA FrameTyped ==
  ASSUME TypeInv, NEW n \in 1..Len(path)
  PROVE  path[n].item \in Sym /\ path[n].left \subseteq Sym /\ path[n].ord \in Nat
<1>1. path[n] \in FrameT
  BY DEF TypeInv
<1> QED
  BY <1>1 DEF FrameT

(* The dependencies do not change during the walk.                         *)
LEMMA SortLookedNext ==
  ASSUME items' = items, deps' = deps, NEW n, NEW x, NEW o,
         path'[n].item = x, path'[n].ord = o,
         \A d \in DepsOf(x) \ path'[n].left : Deeper(d, o)'
  PROVE  SortLooked(n)'
<1>1. DepsOf(path[n].item)' = DepsOf(x)
  BY Zenon DEF DepsOf
<1>2. ASSUME NEW d \in DepsOf(x) \ path'[n].left
      PROVE  Deeper(d, path[n].ord)'
  <2>1. Deeper(d, o)'
    OBVIOUS
  <2> QED
    BY <2>1, Zenon DEF Deeper
<1> QED
  BY <1>1, <1>2, Zenon DEF SortLooked

(* Nor do they for the items that are visited.                             *)
LEMMA DepsDeeperNext ==
  ASSUME items' = items, deps' = deps, NEW i, NEW o, depth'[i] = o,
         \A d \in DepsOf(i) : Deeper(d, o)'
  PROVE  DepsDeeper(i)'
<1>1. DepsOf(i)' = DepsOf(i)
  BY Zenon DEF DepsOf
<1>2. ASSUME NEW d \in DepsOf(i)
      PROVE  Deeper(d, depth[i])'
  <2>1. Deeper(d, o)'
    OBVIOUS
  <2> QED
    BY <2>1, Zenon DEF Deeper
<1> QED
  BY <1>1, <1>2, Zenon DEF DepsDeeper

(* A walk of tsort_visit starts.                                           *)
LEMMA SortRootInv ==
  ASSUME TypeInv, PathInv, SortInv, SortRoot
  PROVE  SortInv'
<1>1. PICK i \in Executable \ perm : Enter(i, 0)
  BY Zenon DEF SortRoot
<1>2. /\ phase = "sort" /\ phase' = phase /\ path = <<>>
      /\ items' = items /\ deps' = deps /\ depth' = depth /\ perm' = perm
  BY DEF SortRoot, graphVars, sortVars
<1>3. i \in items
  BY Zenon DEF Executable
<1>4. Len(path') = 1 /\ path'[1] = Frame(i, 0) /\ OnPath = {} /\ OnPath' = {i} /\ Len(path) = 0
  <2>1. 0 \in Nat
    OBVIOUS
  <2> QED
    BY <1>1, <1>2, <1>3, <2>1, RootFacts, Zenon
<1>5. Executable' = Executable
  BY <1>2 DEF Executable
<1>6. \A x \in perm' : x \notin OnPath'
  BY <1>1, <1>2, <1>4, Zenon
<1>7. ASSUME NEW x \in Executable' \cap perm', NEW o, o = depth[x]
      PROVE  DepsDeeper(x)'
  <2>1. DepsDeeper(x)
    BY <1>2, <1>5, Zenon DEF SortInv
  <2>2. ~\E n \in 1..Len(path) : TRUE
    BY <1>4
  <2>3. \A d \in DepsOf(x) : d \in perm /\ depth[d] > o
    BY <1>7, <2>1, <2>2, Zenon DEF DepsDeeper, Deeper
  <2>4. \A d \in DepsOf(x) : Deeper(d, o)'
    BY <1>2, <2>3, Zenon DEF Deeper
  <2>5. depth'[x] = o
    BY <1>2, <1>7, Zenon
  <2> QED
    BY <1>2, <2>4, <2>5, DepsDeeperNext, Zenon
<1>8. \A x \in Executable' \cap perm' : DepsDeeper(x)'
  BY <1>7, Zenon
<1>9. \A n \in 1..Len(path') : SortLooked(n)'
  <2>1. path'[1].item = i /\ path'[1].left = DepsOf(i) /\ path'[1].ord = 0
    BY <1>4 DEF Frame
  <2>2. \A d \in DepsOf(i) \ path'[1].left : Deeper(d, 0)'
    BY <2>1, Zenon
  <2>3. SortLooked(1)'
    BY <1>2, <2>1, <2>2, SortLookedNext, Zenon
  <2>4. \A n \in 1..Len(path') : n = 1
    BY <1>4
  <2> QED
    BY <2>3, <2>4, Zenon
<1> QED
  BY <1>6, <1>8, <1>9, Zenon DEF SortInv

(* A step that keeps what is deeper keeps the rest of the invariant.       *)
LEMMA DeeperKept ==
  ASSUME TypeInv, SortInv, phase = "sort", items' = items, deps' = deps,
         \A y : \A k \in Nat : Deeper(y, k) => Deeper(y, k)',
         NEW x \in Executable \cap perm, depth'[x] = depth[x]
  PROVE  DepsDeeper(x)'
<1>1. DepsDeeper(x)
  BY Zenon DEF SortInv
<1>2. ASSUME NEW o, o = depth[x]
      PROVE  DepsDeeper(x)'
  <2>1. \A d \in DepsOf(x) : Deeper(d, o)
    BY <1>1, <1>2, Zenon DEF DepsDeeper
  <2>0. o \in Nat
    BY <1>2 DEF TypeInv, Executable
  <2>2. \A d \in DepsOf(x) : Deeper(d, o)'
    BY <2>0, <2>1, Zenon
  <2>3. depth'[x] = o
    BY <1>2, Zenon
  <2> QED
    BY <2>2, <2>3, DepsDeeperNext, Zenon
<1> QED
  BY <1>2, Zenon

(* The same, for the frames.                                               *)
LEMMA LookedDeeperKept ==
  ASSUME TypeInv, SortInv, phase = "sort", items' = items, deps' = deps,
         \A y : \A k \in Nat : Deeper(y, k) => Deeper(y, k)',
         NEW n \in 1..Len(path), path'[n].item = path[n].item, path'[n].ord = path[n].ord,
         \A y \in DepsOf(path[n].item) \ path'[n].left :
           y \in DepsOf(path[n].item) \ path[n].left \/ Deeper(y, path[n].ord)
  PROVE  SortLooked(n)'
<1>1. SortLooked(n)
  BY Zenon DEF SortInv
<1>2. ASSUME NEW x, x = path[n].item, NEW o, o = path[n].ord
      PROVE  SortLooked(n)'
  <2>1. \A y \in DepsOf(x) \ path'[n].left : Deeper(y, o)
    BY <1>1, <1>2, Zenon DEF SortLooked
  <2>0. o \in Nat
    BY <1>2, FrameTyped, Zenon
  <2>2. \A y \in DepsOf(x) \ path'[n].left : Deeper(y, o)'
    BY <2>0, <2>1, Zenon
  <2>3. path'[n].item = x /\ path'[n].ord = o
    BY <1>2, Zenon
  <2> QED
    BY <2>2, <2>3, SortLookedNext, Zenon
<1> QED
  BY <1>2, Zenon

(* tsort_visit goes into a dependency, or finds it deep enough.            *)
LEMMA SortEdgeInv ==
  ASSUME TypeInv, PathInv, Acyclic, SortInv, SortEdge
  PROVE  SortInv'
<1> DEFINE N == Len(path)
           o == Last(path).ord + 1
<1>1. PICK d \in Last(path).left :
        IF Visits(d, o)
          THEN /\ path' = Append(Looked(d), Frame(d, o))
               /\ depth' = IF d \in perm THEN [depth EXCEPT ![d] = o] ELSE depth
               /\ perm' = perm \ {d}
          ELSE path' = Looked(d) /\ depth' = depth /\ perm' = perm
  BY ZenonT(60) DEF SortEdge, sortVars
<1>2. /\ phase = "sort" /\ phase' = phase /\ path # <<>>
      /\ items' = items /\ deps' = deps
  BY DEF SortEdge, graphVars
<1>3. /\ \A i \in perm : i \notin OnPath
      /\ \A n \in 1..N : SortLooked(n)
  BY <1>2, Zenon DEF SortInv
<1>4. /\ N \in Nat \ {0} /\ N \in 1..N /\ Last(path) = path[N]
  BY <1>2 DEF TypeInv, Last
<1>5. path[N].ord \in Nat /\ o \in Nat /\ o = path[N].ord + 1
  <2>1. path[N].ord \in Nat
    BY <1>4, FrameTyped, Zenon
  <2> QED
    BY <1>4, <2>1
<1>6. FrameAt(path, N)
  BY <1>4, PathFrames, Zenon
<1>7. d \in DepsOf(path[N].item)
  BY <1>4, <1>6, Zenon DEF FrameAt
<1>8. d \notin OnPath
  <2>1. phase \in {"plan", "sort"}
    BY <1>2
  <2> QED
    BY <1>2, <2>1, NoCycle, Zenon
<1>9. d \in items /\ d \in Sym
  BY <1>7, Zenon DEF DepsOf, TypeInv
<1>10. Executable' = Executable
  BY <1>2 DEF Executable
<1> HIDE DEF o
<1>11. CASE Visits(d, o)
  <2>1. /\ path' = Append(Looked(d), Frame(d, o))
        /\ depth' = IF d \in perm THEN [depth EXCEPT ![d] = o] ELSE depth
        /\ perm' = perm \ {d}
    BY <1>1, <1>11, Zenon
  <2>2. /\ Len(path') = N + 1 /\ SameFrames(path', d)
        /\ path'[N + 1] = Frame(d, o) /\ OnPath' = OnPath \cup {d}
    BY <1>2, <1>5, <1>9, <2>1, PushFacts, Zenon
  <2>3. path'[N + 1].item = d /\ path'[N + 1].left = DepsOf(d) /\ path'[N + 1].ord = o
    BY <2>2 DEF Frame
  <2>4. /\ \A n \in 1..Len(path') : n \in 1..N \/ n = N + 1
        /\ \A n \in 1..N : n \in 1..Len(path')
        /\ N + 1 \in 1..Len(path')
    BY <1>4, <2>2
  <2>5. \A y \in Sym : y # d => depth'[y] = depth[y]
    BY <2>1 DEF TypeInv
  <2>6. ASSUME NEW k \in Nat, o > k
        PROVE  Deeper(d, k)'
    BY <2>3, <2>4, <2>6, Zenon DEF Deeper
  <2>7. ASSUME NEW y, NEW k \in Nat, Deeper(y, k)
        PROVE  Deeper(y, k)'
    <3>1. CASE y = d
      <4>1. d \in perm /\ depth[d] > k
        BY <1>8, <2>7, <3>1, Zenon DEF Deeper, OnPath
      <4>2. o > depth[d] /\ depth[d] \in Nat
        BY <1>9, <1>11, <4>1 DEF Visits, TypeInv
      <4>3. o > k
        BY <1>5, <4>1, <4>2
      <4> QED
        BY <2>6, <3>1, <4>3, Zenon
    <3>2. CASE y # d /\ y \in perm /\ depth[y] > k
      <4>1. y \in Sym /\ y \in perm'
        BY <2>1, <3>2, Zenon DEF TypeInv
      <4> QED
        BY <2>5, <3>2, <4>1, Zenon DEF Deeper
    <3>3. CASE \E n \in 1..N : path[n].item = y /\ path[n].ord > k
      <4>1. PICK n \in 1..N : path[n].item = y /\ path[n].ord > k
        BY <3>3, Zenon
      <4>2. path'[n].item = y /\ path'[n].ord > k
        BY <2>2, <4>1, Zenon DEF SameFrames
      <4> QED
        BY <2>4, <4>2, Zenon DEF Deeper
    <3> QED
      BY <2>7, <3>1, <3>2, <3>3, Zenon DEF Deeper
  <2>8. \A i \in perm' : i \notin OnPath'
    BY <1>3, <2>1, <2>2, Zenon
  <2>9. ASSUME NEW x \in Executable' \cap perm'
        PROVE  DepsDeeper(x)'
    <3>1. x \in Executable \cap perm /\ x # d /\ x \in Sym
      BY <1>10, <2>1, Zenon DEF TypeInv
    <3>2. depth'[x] = depth[x]
      BY <2>5, <3>1, Zenon
    <3> QED
      BY <1>2, <2>7, <3>1, <3>2, DeeperKept, Zenon
  <2>10. ASSUME NEW k, k = N + 1, NEW j, j = o
         PROVE  SortLooked(k)'
    <3>1. path'[k].item = d /\ path'[k].ord = j /\ \A y \in DepsOf(d) \ path'[k].left : Deeper(y, j)'
      BY <2>3, <2>10, Zenon
    <3> QED
      BY <1>2, <3>1, SortLookedNext, Zenon
  <2>11. ASSUME NEW n \in 1..N, n # N
         PROVE  SortLooked(n)'
    <3>1. /\ path'[n].item = path[n].item /\ path'[n].ord = path[n].ord
          /\ path'[n].left = path[n].left
      BY <2>2, <2>11, Zenon DEF SameFrames
    <3>2. \A y \in DepsOf(path[n].item) \ path'[n].left :
            y \in DepsOf(path[n].item) \ path[n].left \/ Deeper(y, path[n].ord)
      BY <3>1, Zenon
    <3> QED
      BY <1>2, <2>7, <3>1, <3>2, LookedDeeperKept, Zenon
  <2>12. ASSUME NEW n, n = N, NEW x, x = path[n].item, NEW j, j = path[n].ord
         PROVE  SortLooked(n)'
    <3>1. path'[n].item = x /\ path'[n].ord = j /\ path'[n].left = path[n].left \ {d}
      BY <1>4, <2>2, <2>12, Zenon DEF SameFrames
    <3>2. j \in Nat /\ o > j
      BY <1>5, <2>12
    <3>3. Deeper(d, j)'
      BY <2>6, <3>2, Zenon
    <3>4. \A y \in DepsOf(x) \ path[n].left : Deeper(y, j)
      BY <1>3, <1>4, <2>12, Zenon DEF SortLooked
    <3>5. \A y \in DepsOf(x) \ path'[n].left : Deeper(y, j)'
      BY <2>7, <3>1, <3>2, <3>3, <3>4, Zenon
    <3> QED
      BY <1>2, <3>1, <3>5, SortLookedNext, Zenon
  <2>13. \A n \in 1..Len(path') : SortLooked(n)'
    BY <2>4, <2>10, <2>11, <2>12, Zenon
  <2> QED
    BY <2>8, <2>9, <2>13, Zenon DEF SortInv
<1>12. CASE ~Visits(d, o)
  <2>1. path' = Looked(d) /\ depth' = depth /\ perm' = perm
    BY <1>1, <1>12, Zenon
  <2>2. Len(path') = N /\ SameFrames(path', d) /\ OnPath' = OnPath
    BY <1>2, <2>1, LookFacts, Zenon
  <2>3. Deeper(d, path[N].ord)
    <3>1. d \in perm /\ ~(o > depth[d]) /\ depth[d] \in Nat
      BY <1>8, <1>9, <1>12 DEF Visits, TypeInv
    <3>2. depth[d] > path[N].ord
      BY <1>5, <3>1
    <3> QED
      BY <3>1, <3>2, Zenon DEF Deeper
  <2>4. ASSUME NEW y, NEW k \in Nat, Deeper(y, k)
        PROVE  Deeper(y, k)'
    <3>1. CASE y \in perm /\ depth[y] > k
      BY <2>1, <3>1, Zenon DEF Deeper
    <3>2. CASE \E n \in 1..N : path[n].item = y /\ path[n].ord > k
      <4>1. PICK n \in 1..N : path[n].item = y /\ path[n].ord > k
        BY <3>2, Zenon
      <4>2. path'[n].item = y /\ path'[n].ord > k /\ n \in 1..Len(path')
        BY <2>2, <4>1, Zenon DEF SameFrames
      <4> QED
        BY <4>2, Zenon DEF Deeper
    <3> QED
      BY <2>4, <3>1, <3>2, Zenon DEF Deeper
  <2>5. \A i \in perm' : i \notin OnPath'
    BY <1>3, <2>1, <2>2, Zenon
  <2>6. ASSUME NEW x \in Executable' \cap perm'
        PROVE  DepsDeeper(x)'
    <3>1. x \in Executable \cap perm /\ depth'[x] = depth[x]
      BY <1>10, <2>1, Zenon
    <3> QED
      BY <1>2, <2>4, <3>1, DeeperKept, Zenon
  <2>7. ASSUME NEW n \in 1..Len(path')
        PROVE  SortLooked(n)'
    <3>1. n \in 1..N
      BY <2>2, Zenon
    <3>2. path'[n].item = path[n].item /\ path'[n].ord = path[n].ord
      BY <2>2, <3>1, Zenon DEF SameFrames
    <3>3. \A y \in DepsOf(path[n].item) \ path'[n].left :
            y \in DepsOf(path[n].item) \ path[n].left \/ Deeper(y, path[n].ord)
      <4>1. CASE n = N
        <5>1. path'[n].left = path[n].left \ {d}
          BY <2>2, <3>1, <4>1, Zenon DEF SameFrames
        <5> QED
          BY <2>3, <4>1, <5>1, Zenon
      <4>2. CASE n # N
        <5>1. path'[n].left = path[n].left
          BY <2>2, <3>1, <4>2, Zenon DEF SameFrames
        <5> QED
          BY <5>1, Zenon
      <4> QED
        BY <4>1, <4>2, Zenon
    <3> QED
      BY <1>2, <2>4, <3>1, <3>2, <3>3, LookedDeeperKept, Zenon
  <2> QED
    BY <2>5, <2>6, <2>7, Zenon DEF SortInv
<1> QED
  BY <1>11, <1>12, Zenon

(* An item is marked PERM with its order.                                  *)
LEMMA SortLeaveInv ==
  ASSUME TypeInv, PathInv, SortInv, SortLeave
  PROVE  SortInv'
<1> DEFINE N == Len(path)
           t == Last(path).item
<1>1. /\ phase = "sort" /\ phase' = phase /\ path # <<>> /\ Last(path).left = {} /\ Leave
      /\ items' = items /\ deps' = deps
      /\ depth' = [depth EXCEPT ![t] = Last(path).ord] /\ perm' = perm \cup {t}
  BY DEF SortLeave, graphVars
<1>2. /\ N \in Nat \ {0} /\ Len(path') = N - 1
      /\ \A n \in 1..Len(path') : path'[n] = path[n]
      /\ Last(path) = path[N]
      /\ t \in OnPath /\ OnPath' = OnPath \ {t}
  BY <1>1, LeaveFacts, Zenon
<1>3. /\ \A i \in perm : i \notin OnPath
      /\ \A n \in 1..N : SortLooked(n)
  BY <1>1, Zenon DEF SortInv
<1>4. N \in 1..N
  BY <1>2
<1>5. path[N].item = t /\ path[N].left = {} /\ path[N].ord \in Nat /\ t \in Sym
  BY <1>1, <1>2, <1>4, FrameTyped, Zenon
<1>6. Executable' = Executable
  BY <1>1, SMTT(30) DEF Executable
<1>7. depth'[t] = path[N].ord /\ \A y \in Sym : y # t => depth'[y] = depth[y]
  BY <1>1, <1>2, <1>5 DEF TypeInv
<1> HIDE DEF t
<1>8. \A n \in 1..N : n \in 1..Len(path') \/ n = N
  BY <1>2
<1>9. \A n \in 1..Len(path') : n \in 1..N
  BY <1>2
<1>10. t \notin perm
  BY <1>2, <1>3, Zenon
<1>11. ASSUME NEW y, NEW k \in Nat, Deeper(y, k)
       PROVE  Deeper(y, k)'
  <2>1. CASE y \in perm /\ depth[y] > k
    <3>1. y \in Sym /\ y # t /\ y \in perm'
      BY <1>1, <1>10, <2>1, Zenon DEF TypeInv
    <3> QED
      BY <1>7, <2>1, <3>1, Zenon DEF Deeper
  <2>2. CASE \E n \in 1..N : path[n].item = y /\ path[n].ord > k
    <3>1. PICK n \in 1..N : path[n].item = y /\ path[n].ord > k
      BY <2>2, Zenon
    <3>2. CASE n = N
      <4>1. y = t /\ depth'[t] > k /\ t \in perm'
        BY <1>1, <1>5, <1>7, <3>1, <3>2, Zenon
      <4> QED
        BY <4>1, Zenon DEF Deeper
    <3>3. CASE n # N
      <4>1. n \in 1..Len(path')
        BY <1>8, <3>3, Zenon
      <4>2. path'[n].item = y /\ path'[n].ord > k
        BY <1>2, <3>1, <4>1, Zenon
      <4> QED
        BY <4>1, <4>2, Zenon DEF Deeper
    <3> QED
      BY <3>2, <3>3, Zenon
  <2> QED
    BY <1>11, <2>1, <2>2, Zenon DEF Deeper
<1>12. \A i \in perm' : i \notin OnPath'
  BY <1>1, <1>2, <1>3, Zenon
<1>13. ASSUME NEW x \in Executable' \cap perm', x # t
       PROVE  DepsDeeper(x)'
  <2>1. x \in Executable \cap perm /\ x \in Sym
    BY <1>1, <1>6, <1>13, Zenon DEF TypeInv
  <2>2. depth'[x] = depth[x]
    BY <1>7, <1>13, <2>1, Zenon
  <2> QED
    BY <1>1, <1>11, <2>1, <2>2, DeeperKept, Zenon
<1>14. ASSUME NEW x, x = t, NEW j, j = path[N].ord
       PROVE  DepsDeeper(x)'
  <2>1. SortLooked(N)
    BY <1>3, <1>4, Zenon
  <2>2. \A y \in DepsOf(x) : Deeper(y, j)
    BY <1>5, <1>14, <2>1, Zenon DEF SortLooked
  <2>3. j \in Nat /\ depth'[x] = j
    BY <1>5, <1>7, <1>14, Zenon
  <2>4. \A y \in DepsOf(x) : Deeper(y, j)'
    BY <1>11, <2>2, <2>3, Zenon
  <2> QED
    BY <1>1, <2>3, <2>4, DepsDeeperNext, Zenon
<1>15. \A x \in Executable' \cap perm' : DepsDeeper(x)'
  BY <1>13, <1>14, Zenon
<1>16. ASSUME NEW n \in 1..Len(path')
       PROVE  SortLooked(n)'
  <2>1. n \in 1..N /\ path'[n] = path[n]
    BY <1>2, <1>9, Zenon
  <2>2. path'[n].item = path[n].item /\ path'[n].ord = path[n].ord /\ path'[n].left = path[n].left
    BY <2>1, Zenon
  <2>3. \A y \in DepsOf(path[n].item) \ path'[n].left :
          y \in DepsOf(path[n].item) \ path[n].left \/ Deeper(y, path[n].ord)
    BY <2>2, Zenon
  <2> QED
    BY <1>1, <1>11, <2>1, <2>2, <2>3, LookedDeeperKept, Zenon
<1> QED
  BY <1>12, <1>15, <1>16, Zenon DEF SortInv

(* resort takes the marks of the items to sort.                            *)
LEMMA PlanDoneSortInv ==
  ASSUME TypeInv, PlanDone
  PROVE  SortInv'
<1>1. /\ path = <<>> /\ path' = path /\ items' = items /\ perm' = perm \ Executable
  BY DEF PlanDone, graphVars
<1>2. Len(path') = 0 /\ OnPath' = {}
  BY <1>1 DEF OnPath
<1>3. Executable' \cap perm' = {}
  BY <1>1 DEF Executable
<1>4. \A n \in 1..Len(path') : SortLooked(n)'
  BY <1>2
<1> QED
  BY <1>2, <1>3, <1>4, Zenon DEF SortInv

-----------------------------------------------------------------------------
(* The rest of the invariant.                                              *)

(* Stages are numbers.                                                     *)
LEMMA DeclaredStageInt ==
  ASSUME NEW t
  PROVE  DeclaredStage(t) \in Int
BY DEF DeclaredStage, NoStage

(* Levels are numbers.                                                     *)
LEMMA LevelOfInt ==
  ASSUME NEW t, NEW p \in Int
  PROVE  LevelOf(t, p) \in Int
BY DEF LevelOf

(* The seed of compute_exec_plan.                                          *)
LEMMA SeedTypes ==
  ASSUME TypeInv, Seed
  PROVE  /\ stage' \in [Sym -> Int] /\ level' \in [Sym -> Int]
<1>1. \A i \in Sym : (IF i \in Seeded THEN DeclaredStage(Type[i]) ELSE stage[i]) \in Int
  BY DeclaredStageInt DEF TypeInv
<1>2. \A i \in Sym : (IF i \in Seeded THEN LevelOf(Type[i], prio[i]) ELSE level[i]) \in Int
  BY LevelOfInt DEF TypeInv
<1> QED
  BY <1>1, <1>2 DEF Seed

(* No walk is running.                                                     *)
LEMMA EmptyPathInv ==
  ASSUME path' = <<>>
  PROVE  PathInv'
BY DEF PathInv

(* The walks leave the orders alone.                                       *)
LEMMA KeptUnchanged ==
  ASSUME KeptInv,
         UNCHANGED <<items, planned, stage, level, stale, order, held>>,
         \/ phase' = phase
         \/ phase = "plan" /\ phase' = "sort"
  PROVE  KeptInv'
BY DEF KeptInv, Agrees

(* Steps that leave the dependencies alone.                                *)
LEMMA RdepsUnchanged ==
  ASSUME RdepsInv, phase # "register", UNCHANGED <<items, deps, rdeps>>
  PROVE  RdepsInv'
BY Zenon DEF RdepsInv

(* The invariant holds before the init.                                    *)
LEMMA InitStep ==
  ASSUME Init
  PROVE  PlanIInv
<1>1. TypeInv
  <2>1. Priority \in [Sym -> Int]
    BY SymAssumption
  <2>2. stage \in [Sym -> Int] /\ level \in [Sym -> Int] /\ depth \in [Sym -> Nat]
    BY DEF Init, NoStage
  <2>3. declared \subseteq (Sym \ Late) \X (Sym \ Late) /\ disabled \subseteq Sym \ Late
    BY SymAssumption DEF Init
  <2>4. /\ phase \in Phases /\ stale \in BOOLEAN /\ path \in Seq(FrameT)
        /\ order \in Seq(Entry) /\ held \in Seq(Entry)
    <3>1. /\ phase = "register" /\ stale = FALSE /\ path = <<>>
          /\ order = <<>> /\ held = <<>>
      BY Zenon DEF Init
    <3>2. <<>> \in Seq(FrameT) /\ <<>> \in Seq(Entry)
      OBVIOUS
    <3> QED
      BY <3>1, <3>2, Zenon DEF Phases
  <2>5. /\ items = {} /\ deps = {} /\ back = {} /\ planned = {} /\ perm = {} /\ seen = {}
        /\ prio = Priority
    BY ZenonT(60) DEF Init
  <2> QED
    BY <2>1, <2>2, <2>3, <2>4, <2>5, Zenon DEF TypeInv
<1>2. PathInv /\ CycleInv /\ Acyclic /\ PlanInv /\ SortInv /\ DepsFirst
  BY DEF Init, PathInv, CycleInv, Acyclic, PlanInv, SortInv, DepsFirst
<1>3. KeptInv /\ PhaseInv /\ RdepsInv
  BY DEF Init, KeptInv, PhaseInv, RdepsInv
<1> QED
  BY <1>1, <1>2, <1>3 DEF PlanIInv

(* init, up to break_dependency_cycles.                                    *)
LEMMA InitCacheStep ==
  ASSUME PlanIInv, InitCache
  PROVE  PlanIInv'
<1> DEFINE left == Sym \ (Late \cup disabled)
<1>1. /\ phase = "register" /\ phase' = "cycles"
      /\ items' = left /\ deps' = ProcessDeps(left)
      /\ rdeps' = {<<e[2], e[1]>> : e \in {k \in ProcessDeps(left) : k[2] \in left}}
      /\ path' = path /\ seen' = seen /\ back' = back
      /\ order' = order /\ held' = held /\ stale' = stale /\ planned' = planned
      /\ UNCHANGED <<declared, disabled, prio, stage, level, depth, perm>>
  BY DEF InitCache, declVars, planVars, sortVars, walkVars
<1>2. path = <<>> /\ seen = {} /\ back = {}
  BY <1>1 DEF PlanIInv, PathInv, PhaseInv
<1>3. order = <<>> /\ held = <<>> /\ ~stale /\ planned = {}
  BY <1>1 DEF PlanIInv, KeptInv
<1>4. \A e \in ProcessDeps(left) : e \in declared
  BY DEF ProcessDeps
<1>5. TypeInv'
  <2>1. TypeInv
    BY DEF PlanIInv
  <2>2. items' \subseteq Sym /\ deps' \subseteq (Sym \ Late) \X (Sym \ Late)
    BY <1>1, <1>4, <2>1, Zenon DEF TypeInv
  <2>3. back' = {} /\ planned' = {} /\ seen' = {} /\ phase' \in Phases
    BY <1>1, <1>2, <1>3 DEF Phases
  <2> QED
    BY <1>1, <2>1, <2>2, <2>3, Zenon DEF TypeInv
<1>6. PathInv'
  BY <1>1, <1>2, EmptyPathInv
<1>7. CycleInv'
  <2>1. Len(path') = 0 /\ OnPath' = {} /\ Black' = {}
    BY <1>1, <1>2 DEF OnPath, Black
  <2>2. Grounded(deps' \ back', Black')
    BY <2>1, Zenon DEF Grounded
  <2>3. \A n \in 1..Len(path') : CycleLooked(n)'
    BY <2>1
  <2>4. BlackClosed' /\ OnPath' \subseteq seen'
    BY <2>1, Zenon DEF BlackClosed
  <2> QED
    BY <2>2, <2>3, <2>4, Zenon DEF CycleInv
<1>8. Acyclic' /\ PlanInv' /\ SortInv' /\ DepsFirst'
  BY <1>1 DEF Acyclic, PlanInv, SortInv, DepsFirst
<1>9. KeptInv' /\ PhaseInv'
  BY <1>1, <1>2, <1>3 DEF KeptInv, PhaseInv
<1>10. RdepsInv'
  BY <1>1, Zenon DEF RdepsInv
<1> QED
  BY <1>5, <1>6, <1>7, <1>8, <1>9, <1>10, Zenon DEF PlanIInv

(* The steps of break_dependency_cycles.                                   *)
LEMMA CycleStep ==
  ASSUME PlanIInv, CycleRoot \/ CycleEdge \/ CycleLeave
  PROVE  PlanIInv'
<1>1. TypeInv /\ PathInv /\ CycleInv /\ KeptInv /\ RdepsInv
  BY ZenonT(60) DEF PlanIInv
<1>2. /\ phase = "cycles" /\ phase' = phase
      /\ UNCHANGED <<declared, disabled, items, deps, rdeps, prio, planned, stage, level,
                     depth, perm, stale, order, held>>
  BY DEF CycleRoot, CycleEdge, CycleLeave, declVars, graphVars, planVars, sortVars
<1>3. /\ items' = items /\ deps' = deps /\ UNCHANGED <<items, deps, phase>>
      /\ phase \notin {"register", "ready"}
  BY <1>2
<1>4. /\ path' \in Seq(FrameT) /\ PathInv' /\ CycleInv'
      /\ seen' \subseteq items /\ back' \subseteq deps /\ \A e \in back' : e[2] \in items
  <2>0. 0 \in Nat
    OBVIOUS
  <2>1. /\ seen \subseteq items /\ back \subseteq deps /\ \A e \in back : e[2] \in items
    BY <1>1, Zenon DEF TypeInv
  <2>2. CASE CycleRoot
    <3>1. CycleInv'
      BY <1>1, <2>2, CycleRootInv, Zenon
    <3>2. PICK i \in Executable \ seen : Enter(i, 0) /\ seen' = seen \cup {i}
      BY <2>2, Zenon DEF CycleRoot
    <3>3. path = <<>> /\ back' = back /\ i \in items
      BY <2>2 DEF CycleRoot, Executable
    <3>4. path' \in Seq(FrameT)
      BY <1>1, <2>0, <3>2, <3>3, RootFacts, Zenon
    <3>5. PathInv'
      BY <1>1, <1>3, <2>0, <3>2, <3>3, RootPath, Zenon
    <3> QED
      BY <2>1, <3>1, <3>2, <3>3, <3>4, <3>5, Zenon
  <2>3. CASE CycleLeave
    <3>1. CycleInv'
      BY <1>1, <2>3, CycleLeaveInv, Zenon
    <3>2. path # <<>> /\ Leave /\ seen' = seen /\ back' = back
      BY <2>3 DEF CycleLeave
    <3>3. path' \in Seq(FrameT)
      BY <1>1, <3>2, LeaveFacts, Zenon
    <3>4. PathInv'
      BY <1>1, <1>3, <3>2, LeavePath, Zenon
    <3> QED
      BY <2>1, <3>1, <3>2, <3>3, <3>4, Zenon
  <2>4. CASE CycleEdge
    <3>1. CycleInv'
      BY <1>1, <2>4, CycleEdgeInv, Zenon
    <3>2. path # <<>>
      BY <2>4, Zenon DEF CycleEdge
    <3>3. PICK d \in Last(path).left :
            \/ /\ d \notin seen
               /\ path' = Append(Looked(d), Frame(d, 0))
               /\ seen' = seen \cup {d}
               /\ back' = back
            \/ /\ d \in seen
               /\ path' = Looked(d)
               /\ back' = IF IsGrey(d) THEN back \cup {<<Last(path).item, d>>} ELSE back
               /\ seen' = seen
      BY <2>4, Zenon DEF CycleEdge
    <3>4. Len(path) \in 1..Len(path) /\ Last(path) = path[Len(path)]
      BY <1>1, <3>2 DEF TypeInv, Last
    <3>5. FrameAt(path, Len(path))
      BY <1>1, <3>4, PathFrames, Zenon
    <3>6. d \in DepsOf(Last(path).item)
      BY <3>4, <3>5, Zenon DEF FrameAt
    <3>7. d \in items /\ <<Last(path).item, d>> \in deps
      BY <3>6, Zenon DEF DepsOf
    <3>8. CASE d \notin seen
      <4>1. path' = Append(Looked(d), Frame(d, 0)) /\ seen' = seen \cup {d} /\ back' = back
        BY <3>3, <3>8, Zenon
      <4>2. d \notin OnPath
        BY <1>1, <1>2, <3>8, Zenon DEF CycleInv
      <4>3. path' \in Seq(FrameT)
        BY <1>1, <2>0, <3>2, <3>7, <4>1, PushFacts, Zenon
      <4>4. PathInv'
        BY <1>1, <1>3, <2>0, <3>2, <3>7, <4>1, <4>2, PushPath, Zenon
      <4> QED
        BY <2>1, <3>1, <3>7, <4>1, <4>3, <4>4, Zenon
    <3>9. CASE d \in seen
      <4>1. /\ path' = Looked(d) /\ seen' = seen
            /\ back' = IF IsGrey(d) THEN back \cup {<<Last(path).item, d>>} ELSE back
        BY <3>3, <3>9, Zenon
      <4>2. path' \in Seq(FrameT)
        BY <1>1, <3>2, <4>1, LookFacts, Zenon
      <4>3. PathInv'
        BY <1>1, <1>3, <3>2, <4>1, LookPath, Zenon
      <4>4. <<Last(path).item, d>>[2] = d
        OBVIOUS
      <4>5. \A e \in back' : e \in back \/ e = <<Last(path).item, d>>
        BY <4>1, Zenon
      <4>6. back' \subseteq deps /\ \A e \in back' : e[2] \in items
        BY <2>1, <3>7, <4>4, <4>5, Zenon
      <4> QED
        BY <2>1, <3>1, <4>1, <4>2, <4>3, <4>6, Zenon
    <3> QED
      BY <3>8, <3>9, Zenon
  <2> QED
    BY <2>2, <2>3, <2>4, Zenon
<1>5. TypeInv'
  BY <1>1, <1>2, <1>4 DEF TypeInv
<1>6. Acyclic' /\ PlanInv' /\ SortInv' /\ DepsFirst'
  BY <1>2 DEF Acyclic, PlanInv, SortInv, DepsFirst
<1>7. KeptInv'
  BY <1>1, <1>2, KeptUnchanged
<1>8. RdepsInv'
  BY <1>1, <1>2, RdepsUnchanged
<1>9. PhaseInv'
  BY <1>2 DEF PhaseInv
<1> QED
  BY <1>4, <1>5, <1>6, <1>7, <1>8, <1>9, Zenon DEF PlanIInv

(* The back edges are dropped, in both directions.                         *)
LEMMA CyclesDoneStep ==
  ASSUME PlanIInv, CyclesDone
  PROVE  PlanIInv'
<1>1. TypeInv /\ PathInv /\ CycleInv /\ KeptInv /\ RdepsInv
  BY SMTT(30) DEF PlanIInv
<1>2. /\ phase = "cycles" /\ phase' = "plan" /\ path = <<>> /\ path' = path
      /\ items' = items /\ deps' = deps \ back /\ back' = {} /\ seen' = {} /\ planned' = items
      /\ rdeps' = rdeps \ DroppedRdeps /\ Seed
      /\ UNCHANGED <<declared, disabled, prio, depth, perm, stale, order, held>>
  BY DEF CyclesDone, Seed, declVars, sortVars
<1>3. TypeInv'
  <2>1. stage' \in [Sym -> Int] /\ level' \in [Sym -> Int]
    BY <1>1, <1>2, SeedTypes, Zenon
  <2>2. deps' \subseteq (Sym \ Late) \X (Sym \ Late) /\ phase' \in Phases
    BY <1>1, <1>2 DEF TypeInv, Phases
  <2>3. /\ back' = {} /\ seen' = {} /\ planned' = items' /\ items' = items
    BY <1>2, Zenon
  <2> QED
    BY <1>1, <1>2, <2>1, <2>2, <2>3, Zenon DEF TypeInv
<1>4. PathInv'
  BY <1>2, EmptyPathInv, Zenon
<1>5. Acyclic'
  BY <1>1, CyclesDoneAcyclic, Zenon
<1>6. PlanInv'
  BY <1>1, CyclesDonePlanInv, Zenon
<1>7. CycleInv' /\ SortInv' /\ DepsFirst' /\ PhaseInv'
  BY <1>2 DEF CycleInv, SortInv, DepsFirst, PhaseInv
<1>8. KeptInv'
  <2>1. order' = <<>> /\ held' = <<>> /\ Len(order') = 0 /\ Len(held') = 0
    BY <1>1, <1>2 DEF KeptInv
  <2>2. Agrees(order)' /\ Agrees(held)'
    BY <2>1 DEF Agrees
  <2> QED
    BY <1>2, <2>1, <2>2, SMTT(30) DEF KeptInv
<1>9. RdepsInv'
  <2>1. \A r : r \in rdeps <=> \E e \in deps : e[2] \in items /\ r = <<e[2], e[1]>>
    BY <1>1, <1>2, Zenon DEF RdepsInv
  <2>2. \A r : r \in DroppedRdeps <=> \E e \in back : r = <<e[2], e[1]>>
    BY Zenon DEF DroppedRdeps
  <2>3. \A e \in deps : e = <<e[1], e[2]>>
    BY <1>1, SMTT(30) DEF TypeInv
  <2>4. back \subseteq deps
    BY <1>1, Zenon DEF TypeInv
  <2>5. \A e, f \in deps : <<e[2], e[1]>> = <<f[2], f[1]>> => e = f
    BY <2>3
  <2>6. ASSUME NEW r
        PROVE  r \in rdeps' <=> \E e \in deps \ back : e[2] \in items /\ r = <<e[2], e[1]>>
    <3>1. r \in rdeps' <=> r \in rdeps /\ r \notin DroppedRdeps
      BY <1>2, Zenon
    <3>2. ASSUME r \in rdeps'
          PROVE  \E e \in deps \ back : e[2] \in items /\ r = <<e[2], e[1]>>
      BY <2>1, <2>2, <3>1, <3>2, Zenon
    <3>3. ASSUME NEW e \in deps \ back, e[2] \in items, r = <<e[2], e[1]>>
          PROVE  r \in rdeps'
      <4>1. r \in rdeps
        BY <2>1, <3>3, Zenon
      <4>2. ASSUME NEW f \in back, r = <<f[2], f[1]>>
            PROVE  FALSE
        BY <2>4, <2>5, <3>3, <4>2, Zenon
      <4> QED
        BY <2>2, <3>1, <4>1, <4>2, Zenon
    <3> QED
      BY <3>2, <3>3, Zenon
  <2>7. \A r : r \in {<<e[2], e[1]>> : e \in {d \in deps' : d[2] \in items'}} <=>
               \E e \in deps \ back : e[2] \in items /\ r = <<e[2], e[1]>>
    BY <1>2, Zenon
  <2>8. rdeps' = {<<e[2], e[1]>> : e \in {d \in deps' : d[2] \in items'}}
    BY <2>6, <2>7, Zenon
  <2> QED
    BY <2>8, Zenon DEF RdepsInv
<1> QED
  BY <1>3, <1>4, <1>5, <1>6, <1>7, <1>8, <1>9, Zenon DEF PlanIInv

(* propagate moves nothing once there is an order.                         *)
LEMMA PlanEdgeKept ==
  ASSUME TypeInv, PathInv, PlanInv, PlanEdge, stale
  PROVE  stage' = stage /\ level' = level
<1>1. PICK d \in Last(path).left :
        IF d \in Executable \ OnPath
           /\ IsEarlier(stage[Last(path).item], level[Last(path).item], stage[d], level[d])
          THEN /\ stage' = [stage EXCEPT ![d] = stage[Last(path).item]]
               /\ level' = [level EXCEPT ![d] = level[Last(path).item]]
               /\ path' = Moved(d)
          ELSE path' = Looked(d) /\ stage' = stage /\ level' = level
  BY Zenon DEF PlanEdge
<1>2. phase = "plan" /\ path # <<>>
  BY Zenon DEF PlanEdge
<1>3. Len(path) \in 1..Len(path) /\ Last(path) = path[Len(path)]
  BY <1>2 DEF TypeInv, Last
<1>4. FrameAt(path, Len(path))
  BY <1>3, PathFrames, Zenon
<1>5. Last(path).item \in OnPath /\ d \in DepsOf(Last(path).item)
  BY <1>3, <1>4, Zenon DEF FrameAt, OnPath
<1>6. Last(path).item \in Executable /\ Fixed
  BY <1>2, <1>5, Zenon DEF PlanInv
<1>7. InPlace(Last(path).item, d)
  BY <1>5, <1>6, Zenon DEF Fixed, Settled
<1> QED
  BY <1>1, <1>7, Zenon DEF InPlace

(* propagate keeps the positions the orders have.                          *)
LEMMA KeptPositions ==
  ASSUME TypeInv, PathInv, PlanInv, KeptInv, PlanEdge
  PROVE  KeptInv'
<1>1. /\ phase = "plan" /\ phase' = phase
      /\ UNCHANGED <<items, planned, stale, order, held>>
  BY DEF PlanEdge, graphVars
<1>2. CASE stale
  <2>1. stage' = stage /\ level' = level
    BY <1>2, PlanEdgeKept, Zenon
  <2> QED
    BY <1>1, <2>1, KeptUnchanged
<1>3. CASE ~stale
  <2>1. order' = <<>> /\ held' = <<>> /\ Len(order') = 0 /\ Len(held') = 0 /\ planned = items
    BY <1>1, <1>3, SMTT(30) DEF KeptInv
  <2>2. Agrees(order)' /\ Agrees(held)'
    BY <2>1 DEF Agrees
  <2> QED
    BY <1>1, <2>1, <2>2 DEF KeptInv
<1> QED
  BY <1>2, <1>3, Zenon

(* The steps of compute_exec_plan.                                         *)
LEMMA PlanStep ==
  ASSUME PlanIInv, PlanRoot \/ PlanEdge \/ PlanLeave
  PROVE  PlanIInv'
<1>1. TypeInv /\ PathInv /\ Acyclic /\ PlanInv /\ KeptInv /\ RdepsInv
  BY SMTT(30) DEF PlanIInv
<1>2. /\ phase = "plan" /\ phase' = phase
      /\ UNCHANGED <<declared, disabled, items, deps, rdeps, prio, planned, depth, perm,
                     stale, order, held, back>>
  BY DEF PlanRoot, PlanEdge, PlanLeave, declVars, graphVars, planVars, sortVars
<1>3. /\ items' = items /\ deps' = deps /\ UNCHANGED <<items, deps, phase>>
      /\ phase \notin {"register", "ready"} /\ phase \in {"plan", "sort", "ready"}
      /\ phase \in {"plan", "sort"}
  BY <1>2
<1>4. /\ path' \in Seq(FrameT) /\ PathInv' /\ PlanInv' /\ Acyclic' /\ KeptInv'
      /\ seen' \subseteq items /\ stage' \in [Sym -> Int] /\ level' \in [Sym -> Int]
  <2>0. 0 \in Nat
    OBVIOUS
  <2>1. seen \subseteq items /\ stage \in [Sym -> Int] /\ level \in [Sym -> Int]
    BY <1>1, Zenon DEF TypeInv
  <2>2. CASE PlanRoot
    <3>1. PlanInv'
      BY <1>1, <2>2, PlanRootInv, Zenon
    <3>2. PICK i \in Executable \ seen : Enter(i, 0) /\ seen' = seen \cup {i}
      BY <2>2, Zenon DEF PlanRoot
    <3>3. path = <<>> /\ stage' = stage /\ level' = level /\ i \in items
      BY <2>2 DEF PlanRoot, planVars, Executable
    <3>4. path' \in Seq(FrameT) /\ OnPath' = {i}
      BY <1>1, <2>0, <3>2, <3>3, RootFacts, Zenon
    <3>5. PathInv'
      BY <1>1, <1>3, <2>0, <3>2, <3>3, RootPath, Zenon
    <3>6. Acyclic'
      BY <1>1, <1>3, <3>2, <3>4, AcyclicKept, Zenon
    <3>7. KeptInv'
      BY <1>1, <1>2, <3>3, KeptUnchanged, SMTT(30)
    <3> QED
      BY <2>1, <3>1, <3>2, <3>3, <3>4, <3>5, <3>6, <3>7, Zenon
  <2>3. CASE PlanLeave
    <3>1. PlanInv'
      BY <1>1, <2>3, PlanLeaveInv, ZenonT(60)
    <3>2. path # <<>> /\ Leave /\ seen' = seen /\ stage' = stage /\ level' = level
      BY <2>3, ZenonT(60) DEF PlanLeave, planVars
    <3>3. path' \in Seq(FrameT) /\ OnPath' = OnPath \ {Last(path).item}
      BY <1>1, <3>2, LeaveFacts, Zenon
    <3>4. PathInv'
      BY <1>1, <1>3, <3>2, LeavePath, Zenon
    <3>5. Acyclic'
      BY <1>1, <1>3, <3>3, AcyclicKept, Zenon
    <3>6. KeptInv'
      BY <1>1, <1>2, <3>2, KeptUnchanged
    <3> QED
      BY <2>1, <3>1, <3>2, <3>3, <3>4, <3>5, <3>6, Zenon
  <2>4. CASE PlanEdge
    <3>1. PlanInv' /\ KeptInv'
      BY <1>1, <2>4, PlanEdgeInv, KeptPositions, Zenon
    <3>2. path # <<>> /\ seen' = seen
      BY <2>4, Zenon DEF PlanEdge
    <3>3. PICK d \in Last(path).left :
            \/ /\ d \in Executable \ OnPath
               /\ stage' = [stage EXCEPT ![d] = stage[Last(path).item]]
               /\ level' = [level EXCEPT ![d] = level[Last(path).item]]
               /\ path' = Append(Looked(d), Frame(d, 0))
            \/ path' = Looked(d) /\ stage' = stage /\ level' = level
      BY <2>4, Zenon DEF PlanEdge, Moved
    <3>4. CASE path' = Looked(d) /\ stage' = stage /\ level' = level
      <4>1. path' \in Seq(FrameT) /\ OnPath' = OnPath
        BY <1>1, <3>2, <3>4, LookFacts, Zenon
      <4>2. PathInv'
        BY <1>1, <1>3, <3>2, <3>4, LookPath, Zenon
      <4>3. Acyclic'
        BY <1>1, <1>3, <4>1, AcyclicKept, Zenon
      <4> QED
        BY <2>1, <3>1, <3>2, <3>4, <4>1, <4>2, <4>3, Zenon
    <3>5. CASE /\ d \in Executable \ OnPath
               /\ stage' = [stage EXCEPT ![d] = stage[Last(path).item]]
               /\ level' = [level EXCEPT ![d] = level[Last(path).item]]
               /\ path' = Append(Looked(d), Frame(d, 0))
      <4>1. d \in items /\ d \notin OnPath
        BY <3>5, Zenon DEF Executable
      <4>2. path' \in Seq(FrameT) /\ OnPath' = OnPath \cup {d}
        BY <1>1, <2>0, <3>2, <3>5, <4>1, PushFacts, Zenon
      <4>3. PathInv'
        BY <1>1, <1>3, <2>0, <3>2, <3>5, <4>1, PushPath, Zenon
      <4>4. Acyclic'
        BY <1>1, <1>3, <3>2, <4>2, PushAcyclic, Zenon
      <4>5. Last(path).item \in Sym
        <5>1. Len(path) \in 1..Len(path) /\ Last(path) = path[Len(path)]
          BY <1>1, <3>2, SMTT(30) DEF TypeInv, Last
        <5> QED
          BY <1>1, <5>1, FrameTyped, ZenonT(60)
      <4>6. stage[Last(path).item] \in Int /\ level[Last(path).item] \in Int
        BY <2>1, <4>5, SMTT(30)
      <4>7. stage' \in [Sym -> Int]
        BY <2>1, <3>5, <4>6, Zenon
      <4>8. level' \in [Sym -> Int]
        BY <2>1, <3>5, <4>6, Zenon
      <4> QED
        BY <2>1, <3>1, <3>2, <4>2, <4>3, <4>4, <4>7, <4>8, ZenonT(60)
    <3> QED
      BY <3>3, <3>4, <3>5, Zenon
  <2> QED
    BY <2>2, <2>3, <2>4, Zenon
<1>5. TypeInv'
  BY <1>1, <1>2, <1>4, Zenon DEF TypeInv
<1>6. CycleInv' /\ SortInv' /\ DepsFirst'
  BY <1>2 DEF CycleInv, SortInv, DepsFirst
<1>7. RdepsInv'
  BY <1>1, <1>2, RdepsUnchanged
<1>8. PhaseInv'
  <2>1. back' = {}
    BY <1>2 DEF PhaseInv, PlanIInv
  <2> QED
    BY <1>2, <2>1 DEF PhaseInv
<1> QED
  BY <1>4, <1>5, <1>6, <1>7, <1>8, Zenon DEF PlanIInv

(* compute_exec_plan is done, resort starts.                               *)
LEMMA PlanDoneStep ==
  ASSUME PlanIInv, PlanDone
  PROVE  PlanIInv'
<1>1. TypeInv /\ PathInv /\ Acyclic /\ PlanInv /\ KeptInv /\ RdepsInv
  BY DEF PlanIInv
<1>2. /\ phase = "plan" /\ phase' = "sort" /\ path = <<>> /\ path' = path /\ seen' = {}
      /\ depth' = [i \in Sym |-> IF i \in Executable THEN 0 ELSE depth[i]]
      /\ perm' = perm \ Executable
      /\ UNCHANGED <<declared, disabled, items, deps, rdeps, prio, planned, stage, level,
                     stale, order, held, back>>
  BY DEF PlanDone, declVars, graphVars, planVars
<1>3. TypeInv'
  <2>1. depth' \in [Sym -> Nat]
    BY <1>1, <1>2, SMTT(30) DEF TypeInv
  <2>2. perm' \subseteq Sym /\ seen' \subseteq items /\ phase' \in Phases
    BY <1>1, <1>2 DEF TypeInv, Phases
  <2> QED
    BY <1>1, <1>2, <2>1, <2>2, ZenonT(60) DEF TypeInv
<1>4. PathInv'
  BY <1>2, EmptyPathInv, Zenon
<1>5. Acyclic'
  <2>1. phase \in {"plan", "sort", "ready"} /\ OnPath' = OnPath
    BY <1>2 DEF OnPath
  <2> QED
    BY <1>1, <1>2, <2>1, AcyclicKept, ZenonT(60)
<1>6. PlanInv' /\ SortInv'
  BY <1>1, PlanDoneInv, PlanDoneSortInv, Zenon
<1>7. CycleInv' /\ DepsFirst'
  BY <1>2 DEF CycleInv, DepsFirst
<1>8. KeptInv'
  BY <1>1, <1>2, KeptUnchanged
<1>9. RdepsInv'
  BY <1>1, <1>2, RdepsUnchanged, SMTT(30)
<1>10. PhaseInv'
  <2>1. back' = {}
    BY <1>2 DEF PhaseInv, PlanIInv
  <2> QED
    BY <1>2, <2>1 DEF PhaseInv
<1> QED
  BY <1>3, <1>4, <1>5, <1>6, <1>7, <1>8, <1>9, <1>10, Zenon DEF PlanIInv

(* The steps of tsort_visit.                                               *)
LEMMA SortStep ==
  ASSUME PlanIInv, SortRoot \/ SortEdge \/ SortLeave
  PROVE  PlanIInv'
<1>1. TypeInv /\ PathInv /\ Acyclic /\ PlanInv /\ SortInv /\ KeptInv /\ RdepsInv
  BY ZenonT(60) DEF PlanIInv
<1>2. /\ phase = "sort" /\ phase' = phase
      /\ UNCHANGED <<declared, disabled, items, deps, rdeps, prio, planned, stage, level, seen,
                     stale, order, held, back>>
  BY DEF SortRoot, SortEdge, SortLeave, declVars, graphVars, planVars
<1>3. /\ items' = items /\ deps' = deps /\ UNCHANGED <<items, deps, phase>>
      /\ phase \notin {"register", "ready"} /\ phase \in {"plan", "sort", "ready"}
      /\ phase \in {"plan", "sort"}
  BY <1>2
<1>4. /\ path' \in Seq(FrameT) /\ PathInv' /\ SortInv' /\ Acyclic'
      /\ perm' \subseteq Sym /\ depth' \in [Sym -> Nat]
  <2>0. 0 \in Nat
    OBVIOUS
  <2>1. perm \subseteq Sym /\ depth \in [Sym -> Nat]
    BY <1>1, Zenon DEF TypeInv
  <2>2. CASE SortRoot
    <3>1. SortInv'
      BY <1>1, <2>2, SortRootInv, Zenon
    <3>2. PICK i \in Executable \ perm : Enter(i, 0)
      BY <2>2, Zenon DEF SortRoot
    <3>3. path = <<>> /\ depth' = depth /\ perm' = perm /\ i \in items
      BY <2>2 DEF SortRoot, sortVars, Executable
    <3>4. path' \in Seq(FrameT) /\ OnPath' = {i}
      BY <1>1, <2>0, <3>2, <3>3, RootFacts, Zenon
    <3>5. PathInv'
      BY <1>1, <1>3, <2>0, <3>2, <3>3, RootPath, Zenon
    <3>6. Acyclic'
      BY <1>1, <1>3, <3>2, <3>4, AcyclicKept, Zenon
    <3> QED
      BY <2>1, <3>1, <3>3, <3>4, <3>5, <3>6, Zenon
  <2>3. ASSUME path # <<>>
        PROVE  Last(path).item \in Sym /\ Last(path).ord \in Nat /\ Last(path).left \subseteq items
    <3>1. Len(path) \in 1..Len(path) /\ Last(path) = path[Len(path)]
      BY <1>1, <2>3 DEF TypeInv, Last
    <3>2. FrameAt(path, Len(path))
      BY <1>1, <3>1, PathFrames, Zenon
    <3>3. Last(path).left \subseteq items
      BY <3>1, <3>2, Zenon DEF FrameAt, DepsOf
    <3> QED
      BY <1>1, <3>1, <3>3, FrameTyped, Zenon
  <2>4. CASE SortLeave
    <3>1. SortInv'
      BY <1>1, <2>4, SortLeaveInv, Zenon
    <3>2. /\ path # <<>> /\ Leave /\ perm' = perm \cup {Last(path).item}
          /\ depth' = [depth EXCEPT ![Last(path).item] = Last(path).ord]
      BY <2>4, Zenon DEF SortLeave
    <3>3. path' \in Seq(FrameT) /\ OnPath' = OnPath \ {Last(path).item}
      BY <1>1, <3>2, LeaveFacts, Zenon
    <3>4. PathInv'
      BY <1>1, <1>3, <3>2, LeavePath, Zenon
    <3>5. Acyclic'
      BY <1>1, <1>3, <3>3, AcyclicKept, Zenon
    <3>6. depth' \in [Sym -> Nat] /\ perm' \subseteq Sym
      BY <2>1, <2>3, <3>2
    <3> QED
      BY <3>1, <3>3, <3>4, <3>5, <3>6, Zenon
  <2>5. CASE SortEdge
    <3>1. SortInv'
      BY <1>1, <2>5, SortEdgeInv, Zenon
    <3>2. path # <<>>
      BY <2>5, Zenon DEF SortEdge
    <3>3. PICK d \in Last(path).left :
            \/ /\ path' = Append(Looked(d), Frame(d, Last(path).ord + 1))
               /\ depth' = [depth EXCEPT ![d] = Last(path).ord + 1] \/ depth' = depth
               /\ perm' = perm \ {d}
            \/ path' = Looked(d) /\ depth' = depth /\ perm' = perm
      BY <2>5, Zenon DEF SortEdge, sortVars
    <3>4. CASE path' = Looked(d) /\ depth' = depth /\ perm' = perm
      <4>1. path' \in Seq(FrameT) /\ OnPath' = OnPath
        BY <1>1, <3>2, <3>4, LookFacts, Zenon
      <4>2. PathInv'
        BY <1>1, <1>3, <3>2, <3>4, LookPath, Zenon
      <4>3. Acyclic'
        BY <1>1, <1>3, <4>1, AcyclicKept, Zenon
      <4> QED
        BY <2>1, <3>1, <3>4, <4>1, <4>2, <4>3, Zenon
    <3>5. CASE /\ path' = Append(Looked(d), Frame(d, Last(path).ord + 1))
               /\ depth' = [depth EXCEPT ![d] = Last(path).ord + 1] \/ depth' = depth
               /\ perm' = perm \ {d}
      <4>0. Last(path).ord + 1 \in Nat /\ d \in items /\ d \in Sym
        BY <1>1, <2>3, <3>2, SMTT(30) DEF TypeInv
      <4>1. d \notin OnPath
        BY <1>1, <1>3, <3>2, NoCycle, Zenon
      <4>2. path' \in Seq(FrameT) /\ OnPath' = OnPath \cup {d}
        BY <1>1, <3>2, <3>5, <4>0, PushFacts, Zenon
      <4>3. PathInv'
        BY <1>1, <1>3, <3>2, <3>5, <4>0, <4>1, PushPath, ZenonT(60)
      <4>4. Acyclic'
        BY <1>1, <1>3, <3>2, <4>2, PushAcyclic, ZenonT(60)
      <4>5. depth' \in [Sym -> Nat] /\ perm' \subseteq Sym
        BY <2>1, <3>5, <4>0
      <4> QED
        BY <3>1, <4>2, <4>3, <4>4, <4>5, ZenonT(60)
    <3> QED
      BY <3>3, <3>4, <3>5, Zenon
  <2> QED
    BY <2>2, <2>4, <2>5, Zenon
<1>5. TypeInv'
  BY <1>1, <1>2, <1>4, Zenon DEF TypeInv
<1>6. CycleInv' /\ DepsFirst'
  BY <1>2 DEF CycleInv, DepsFirst
<1>7. PlanInv'
  <2>1. Fixed
    BY <1>1, <1>2 DEF PlanInv
  <2>2. Fixed'
    BY <1>2, <2>1, FixedKept, Zenon
  <2> QED
    BY <1>2, <2>2, ZenonT(60) DEF PlanInv
<1>8. KeptInv'
  BY <1>1, <1>2, KeptUnchanged
<1>9. RdepsInv'
  BY <1>1, <1>2, RdepsUnchanged, SMTT(30)
<1>10. PhaseInv'
  <2>1. back' = {}
    BY <1>2 DEF PhaseInv, PlanIInv
  <2> QED
    BY <1>2, <2>1 DEF PhaseInv
<1> QED
  BY <1>4, <1>5, <1>6, <1>7, <1>8, <1>9, <1>10, Zenon DEF PlanIInv

(* An order sorted by cache_order_cmp puts dependencies first.             *)
LEMMA SortedDepsFirst ==
  ASSUME TypeInv, Fixed, NEW i \in Executable, NEW d \in Executable, <<i, d>> \in deps,
         depth[d] > depth[i]
  PROVE  ~Before(i, d)
<1>1. i \in Sym /\ d \in Sym /\ d \in DepsOf(i)
  BY DEF Executable, TypeInv, DepsOf
<1>2. InPlace(i, d)
  BY <1>1, Zenon DEF Fixed, Settled
<1>3. ~IsEarlier(stage[i], level[i], stage[d], level[d])
  BY <1>2, Zenon DEF InPlace
<1>4. depth[i] \in Nat /\ depth[d] \in Nat
  BY <1>1 DEF TypeInv
<1>5. ~(depth[i] > depth[d]) /\ depth[i] # depth[d]
  BY <1>4
<1> QED
  BY <1>3, <1>5, Zenon DEF Before

(* resort is done.                                                         *)
LEMMA SortDoneStep ==
  ASSUME PlanIInv, SortDone
  PROVE  PlanIInv'
<1>1. TypeInv /\ PathInv /\ Acyclic /\ PlanInv /\ SortInv /\ KeptInv /\ RdepsInv
  BY DEF PlanIInv
<1>2. PICK s \in Injection(1..Cardinality(Executable), Executable) :
        /\ \A m, n \in 1..Len(s) : m < n => Before(s[m], s[n])
        /\ order' = [n \in 1..Len(s) |->
                       [item |-> s[n], stage |-> stage[s[n]], level |-> level[s[n]]]]
  BY ZenonT(60) DEF SortDone
<1>3. /\ phase = "sort" /\ phase' = "ready" /\ path = <<>> /\ path' = path
      /\ Executable \subseteq perm /\ stale' = FALSE
      /\ UNCHANGED <<declared, disabled, items, deps, rdeps, prio, planned, stage, level, depth,
                     perm, seen, back, held>>
  BY DEF SortDone, declVars, graphVars, planVars, sortVars, walkVars
<1>4. Fixed
  BY <1>1, <1>3 DEF PlanInv
<1>5. Len(s) \in Nat /\ \A n \in 1..Len(s) : s[n] \in Executable
  <2>1. IsFiniteSet(Executable)
    <3>1. Executable \subseteq Sym /\ IsFiniteSet(Sym)
      BY <1>1, SymAssumption, Zenon DEF TypeInv, Executable
    <3> QED
      BY <3>1, FS_Subset, Zenon
  <2>2. Cardinality(Executable) \in Nat
    BY <2>1, FS_CardinalityType, Zenon
  <2>3. s \in [1..Cardinality(Executable) -> Executable]
    BY Zenon DEF Injection
  <2>4. s \in Seq(Executable) /\ Len(s) = Cardinality(Executable)
    BY <2>2, <2>3, EnumerationSeq, ZenonT(60)
  <2> QED
    BY <2>2, <2>3, <2>4, ZenonT(60)
<1>6. /\ Len(order') = Len(s) /\ order' \in Seq(Entry)
      /\ \A n \in 1..Len(s) : /\ order'[n].item = s[n] /\ order'[n].stage = stage[s[n]]
                              /\ order'[n].level = level[s[n]] /\ order'[n] \in Entry
  <2>1. Ranked(s, stage, level)
    BY <1>1, <1>5, ZenonT(60) DEF TypeInv, Executable, Ranked
  <2>2. Len(s) \in Nat
    BY <1>5, Zenon
  <2>3. order' = Entries(s, stage, level)
    BY <1>2, Zenon DEF Entries
  <2>4. Lists(order', s, stage, level)
    BY <2>1, <2>2, <2>3, EntriesOf, ZenonT(60)
  <2> QED
    BY <2>4, ZenonT(60) DEF Lists
<1>7. \A n \in 1..Len(s) : /\ order'[n].item = s[n] /\ order'[n].stage = stage[s[n]]
                           /\ order'[n].level = level[s[n]] /\ order'[n] \in Entry
  BY <1>6, Zenon
<1>8. order' \in Seq(Entry)
  BY <1>6, Zenon
<1>9. TypeInv'
  <2>1. phase' \in Phases /\ stale' \in BOOLEAN
    BY <1>3, Zenon DEF Phases
  <2> QED
    BY <1>1, <1>3, <1>8, <2>1, Zenon DEF TypeInv
<1>10. PathInv'
  BY <1>3, EmptyPathInv, Zenon
<1>11. Acyclic'
  <2>1. phase \in {"plan", "sort", "ready"} /\ OnPath' = OnPath
    BY <1>3 DEF OnPath
  <2> QED
    BY <1>1, <1>3, <2>1, AcyclicKept, ZenonT(60)
<1>12. PlanInv'
  <2>1. Fixed'
    BY <1>3, <1>4, FixedKept, Zenon
  <2> QED
    BY <1>3, <2>1 DEF PlanInv
<1>13. CycleInv' /\ SortInv'
  BY <1>3, SMTT(30) DEF CycleInv, SortInv
<1>14. KeptInv'
  <2>1. planned = items /\ Agrees(held)
    BY <1>1, <1>3 DEF KeptInv
  <2>2. Agrees(held)'
    BY <1>3, <2>1, ZenonT(60) DEF Agrees
  <2>3. \A n \in 1..Len(s) : s[n] \in items
    BY <1>5, Zenon DEF Executable
  <2>4. Agrees(order)'
    <3>1. ASSUME NEW n \in 1..Len(order')
          PROVE  /\ order'[n].item \in planned'
                 /\ stage'[order'[n].item] = order'[n].stage
                 /\ level'[order'[n].item] = order'[n].level
      <4>1. n \in 1..Len(s)
        BY <1>6, Zenon
      <4>2. order'[n].item = s[n] /\ order'[n].stage = stage[s[n]] /\ order'[n].level = level[s[n]]
        BY <1>7, <4>1, Zenon
      <4>3. stage' = stage /\ level' = level /\ planned' = items
        BY <1>3, <2>1, Zenon
      <4> QED
        BY <2>3, <4>1, <4>2, <4>3, Zenon
    <3> QED
      BY <3>1, Zenon DEF Agrees
  <2> QED
    BY <1>3, <2>1, <2>2, <2>4, SMTT(30) DEF KeptInv
<1>15. RdepsInv'
  BY <1>1, <1>3, RdepsUnchanged, SMTT(30)
<1>16. PhaseInv'
  <2>1. back' = {}
    BY <1>3 DEF PhaseInv, PlanIInv
  <2> QED
    BY <1>3, <2>1, SMTT(30) DEF PhaseInv
<1>17. DepsFirst'
  <2>1. ASSUME NEW m \in 1..Len(s), NEW n \in 1..Len(s), <<s[m], s[n]>> \in deps
        PROVE  n < m
    <3>1. s[n] \in DepsOf(s[m]) /\ s[m] \in Executable /\ s[n] \in Executable
      BY <1>5, <2>1, Zenon DEF DepsOf, Executable
    <3>2. DepsDeeper(s[m])
      BY <1>1, <1>3, <3>1, Zenon DEF SortInv
    <3>3. ~\E k \in 1..Len(path) : TRUE
      BY <1>3
    <3>4. depth[s[n]] > depth[s[m]]
      BY <3>1, <3>2, <3>3, Zenon DEF DepsDeeper, Deeper
    <3>5. ~Before(s[m], s[n])
      BY <1>1, <1>4, <2>1, <3>1, <3>4, SortedDepsFirst, Zenon
    <3>6. ~(m < n)
      BY <1>2, <3>5, Zenon
    <3>7. m # n
      <4>1. depth[s[n]] \in Nat
        BY <1>1, <3>1 DEF TypeInv, Executable
      <4> QED
        BY <3>4, <4>1, NotDeeperItself, ZenonT(60)
    <3> QED
      BY <1>5, <3>6, <3>7
  <2> QED
    <3>1. ASSUME NEW m \in 1..Len(order'), NEW n \in 1..Len(order'),
                 <<order'[m].item, order'[n].item>> \in deps'
          PROVE  n < m
      <4>1. m \in 1..Len(s) /\ n \in 1..Len(s)
        BY <1>6, Zenon
      <4>2. order'[m].item = s[m] /\ order'[n].item = s[n]
        BY <1>7, <4>1, Zenon
      <4>3. <<s[m], s[n]>> \in deps
        BY <1>3, <3>1, <4>2, Zenon
      <4> QED
        BY <2>1, <4>1, <4>3, Zenon
    <3> QED
      BY <3>1, Zenon DEF DepsFirst
<1> QED
  BY <1>9, <1>10, <1>11, <1>12, <1>13, <1>14, <1>15, <1>16, <1>17, ZenonT(60) DEF PlanIInv

(* A step of a cache that is ready, and stays so with the same items.      *)
LEMMA ReadyStep ==
  ASSUME PlanIInv, Validate \/ CreateRuntime
  PROVE  PlanIInv'
<1>1. TypeInv /\ PathInv /\ Acyclic /\ PlanInv /\ KeptInv /\ RdepsInv /\ PhaseInv /\ DepsFirst
  BY SMTT(30) DEF PlanIInv
<1>2. /\ phase = "ready" /\ phase' = phase
      /\ UNCHANGED <<declared, disabled, items, deps, rdeps, planned, stage, level, depth, perm,
                     path, seen, back, stale, order>>
  BY DEF Validate, CreateRuntime, declVars, graphVars, planVars, sortVars, walkVars
<1>3. prio' \in [Sym -> Int] /\ (held' = held \/ held' = order)
  <2>1. CASE Validate
    <3>1. prio \in [Sym -> Int]
      BY <1>1, Zenon DEF TypeInv
    <3>2. \A i \in Sym :
            (IF i \in items \cap NegativeWeight /\ prio[i] = 0 THEN 1 ELSE prio[i]) \in Int
      BY <3>1
    <3>3. /\ held' = held
          /\ prio' = [i \in Sym |-> IF i \in items \cap NegativeWeight /\ prio[i] = 0
                                      THEN 1 ELSE prio[i]]
      BY <2>1, Zenon DEF Validate
    <3> QED
      BY <3>2, <3>3
  <2>2. CASE CreateRuntime
    BY <1>1, <2>2 DEF CreateRuntime, TypeInv
  <2> QED
    BY <2>1, <2>2, Zenon
<1>4. TypeInv'
  <2>1. held' \in Seq(Entry)
    BY <1>1, <1>3, Zenon DEF TypeInv
  <2> QED
    BY <1>1, <1>2, <1>3, <2>1, Zenon DEF TypeInv
<1>5. PathInv'
  <2>1. path' = <<>>
    BY <1>1, <1>2 DEF PathInv
  <2> QED
    BY <2>1, EmptyPathInv, Zenon
<1>6. Acyclic'
  <2>1. phase \in {"plan", "sort", "ready"} /\ OnPath' = OnPath
    BY <1>2 DEF OnPath
  <2> QED
    BY <1>1, <1>2, <2>1, AcyclicKept, Zenon
<1>7. PlanInv'
  <2>1. Fixed
    BY <1>1, <1>2 DEF PlanInv
  <2>2. Fixed'
    BY <1>2, <2>1, FixedKept, Zenon
  <2> QED
    BY <1>2, <2>2 DEF PlanInv
<1>8. CycleInv' /\ SortInv'
  BY <1>2 DEF CycleInv, SortInv
<1>9. KeptInv'
  <2>1. Agrees(order) /\ Agrees(held) /\ items \ Late \subseteq planned
    BY <1>1, <1>2 DEF KeptInv
  <2>2. Agrees(order)'
    BY <1>2, <2>1, Zenon DEF Agrees
  <2>3. CASE held' = held
    <3>1. Agrees(held)'
      BY <1>2, <2>1, <2>3, Zenon DEF Agrees
    <3> QED
      BY <1>2, <2>1, <2>2, <3>1, ZenonT(60) DEF KeptInv
  <2>4. CASE held' = order
    <3>1. Agrees(held)'
      BY <1>2, <2>1, <2>4, Zenon DEF Agrees
    <3> QED
      BY <1>2, <2>1, <2>2, <3>1 DEF KeptInv
  <2> QED
    BY <1>3, <2>3, <2>4, Zenon
<1>10. RdepsInv'
  BY <1>1, <1>2, RdepsUnchanged
<1>11. PhaseInv'
  BY <1>1, <1>2, Zenon DEF PhaseInv
<1>12. DepsFirst'
  BY <1>1, <1>2, Zenon DEF DepsFirst
<1> QED
  BY <1>4, <1>5, <1>6, <1>7, <1>8, <1>9, <1>10, <1>11, <1>12, Zenon DEF PlanIInv

(* A symbol registered at run time.                                        *)
LEMMA AddSymbolStep ==
  ASSUME PlanIInv, AddSymbol
  PROVE  PlanIInv'
<1>1. TypeInv /\ PathInv /\ Acyclic /\ PlanInv /\ KeptInv /\ RdepsInv /\ PhaseInv /\ DepsFirst
  BY DEF PlanIInv
<1>2. /\ phase = "ready" /\ phase' = phase /\ stale' = TRUE
      /\ UNCHANGED <<declared, disabled, deps, rdeps, prio, planned, stage, level, depth, perm,
                     path, seen, back, order, held>>
  BY DEF AddSymbol, declVars, planVars, sortVars, walkVars
<1>3. PICK i \in Late \ items : items' = items \cup {i}
  BY Zenon DEF AddSymbol
<1>4. TypeInv'
  <2>1. items' \subseteq Sym /\ planned \subseteq items' /\ seen \subseteq items'
    BY <1>1, <1>3, SymAssumption, Zenon DEF TypeInv
  <2>2. \A e \in back' : e[2] \in items'
    BY <1>1, <1>2, <1>3, Zenon DEF TypeInv
  <2>3. stale' \in BOOLEAN
    BY <1>2
  <2> QED
    BY <1>1, <1>2, <2>1, <2>2, <2>3, Zenon DEF TypeInv
<1>5. PathInv'
  <2>1. path' = <<>>
    BY <1>1, <1>2 DEF PathInv
  <2> QED
    BY <2>1, EmptyPathInv, Zenon
<1>6. Acyclic' /\ PlanInv'
  BY <1>1, AddSymbolAcyclic, AddSymbolInv, Zenon
<1>7. CycleInv' /\ SortInv'
  BY <1>2, ZenonT(60) DEF CycleInv, SortInv
<1>8. KeptInv'
  <2>1. Agrees(order) /\ Agrees(held) /\ items \ Late \subseteq planned
    BY <1>1, <1>2 DEF KeptInv
  <2>2. Agrees(order)' /\ Agrees(held)'
    BY <1>2, <2>1, Zenon DEF Agrees
  <2>3. items' \ Late \subseteq planned'
    BY <1>2, <1>3, <2>1, Zenon
  <2> QED
    BY <1>2, <2>2, <2>3, ZenonT(60) DEF KeptInv
<1>9. RdepsInv'
  <2>1. \A d \in deps : d[2] \in items' <=> d[2] \in items
    <3>1. \A d \in deps : d[2] # i
      BY <1>1 DEF TypeInv
    <3> QED
      BY <1>3, <3>1, Zenon
  <2>2. {d \in deps : d[2] \in items'} = {d \in deps : d[2] \in items}
    BY <2>1, ZenonT(60)
  <2>3. rdeps = {<<e[2], e[1]>> : e \in {d \in deps : d[2] \in items}}
    BY <1>1, <1>2 DEF RdepsInv
  <2> QED
    BY <1>2, <2>2, <2>3, Zenon DEF RdepsInv
<1>10. PhaseInv'
  <2>1. back' = {}
    BY <1>1, <1>2 DEF PhaseInv
  <2> QED
    BY <1>2, <2>1 DEF PhaseInv
<1>11. DepsFirst'
  BY <1>1, <1>2, Zenon DEF DepsFirst
<1> QED
  BY <1>4, <1>5, <1>6, <1>7, <1>8, <1>9, <1>10, <1>11, Zenon DEF PlanIInv

(* maybe_resort.                                                           *)
LEMMA MaybeResortStep ==
  ASSUME PlanIInv, MaybeResort
  PROVE  PlanIInv'
<1>1. TypeInv /\ PathInv /\ Acyclic /\ PlanInv /\ KeptInv /\ RdepsInv /\ PhaseInv
  BY ZenonT(60) DEF PlanIInv
<1>2. /\ phase = "ready" /\ phase' = "plan" /\ stale /\ Seed /\ seen' = {} /\ planned' = items
      /\ stage' = [i \in Sym |-> IF i \in Seeded THEN DeclaredStage(Type[i]) ELSE stage[i]]
      /\ level' = [i \in Sym |-> IF i \in Seeded THEN LevelOf(Type[i], prio[i]) ELSE level[i]]
      /\ UNCHANGED <<declared, disabled, items, deps, rdeps, prio, depth, perm, path, back,
                     stale, order, held>>
  BY DEF MaybeResort, Seed, declVars, graphVars, sortVars
<1>3. TypeInv'
  <2>1. stage' \in [Sym -> Int] /\ level' \in [Sym -> Int]
    BY <1>1, <1>2, SeedTypes, ZenonT(60)
  <2>2. phase' \in Phases
    BY <1>2, Zenon DEF Phases
  <2>3. seen' = {} /\ planned' = items' /\ items' = items
    BY <1>2, ZenonT(60)
  <2> QED
    BY <1>1, <1>2, <2>1, <2>2, <2>3, Zenon DEF TypeInv
<1>4. path' = <<>>
  BY <1>1, <1>2, Zenon DEF PathInv
<1>5. PathInv'
  BY <1>4, EmptyPathInv, Zenon
<1>6. Acyclic'
  <2>1. phase \in {"plan", "sort", "ready"} /\ OnPath' = OnPath
    BY <1>2, ZenonT(60) DEF OnPath
  <2> QED
    BY <1>1, <1>2, <2>1, AcyclicKept, ZenonT(60)
<1>7. PlanInv'
  BY <1>1, MaybeResortInv, ZenonT(60)
<1>8. CycleInv' /\ SortInv' /\ DepsFirst'
  BY <1>2, ZenonT(60) DEF CycleInv, SortInv, DepsFirst
<1>9. KeptInv'
  <2>1. Agrees(order) /\ Agrees(held)
    BY <1>1, <1>2, ZenonT(60) DEF KeptInv
  <2>2. \A i \in planned : i \in items /\ stage'[i] = stage[i] /\ level'[i] = level[i]
    <3>1. \A i \in planned : i \in Sym /\ i \in items /\ i \notin Seeded
      BY <1>1, Zenon DEF TypeInv, Seeded
    <3> QED
      BY <1>2, <3>1
  <2>3. Agrees(order)'
    BY <1>2, <2>1, <2>2, ZenonT(60) DEF Agrees
  <2>4. Agrees(held)'
    BY <1>2, <2>1, <2>2, ZenonT(60) DEF Agrees
  <2> QED
    BY <1>2, <2>3, <2>4, ZenonT(60) DEF KeptInv
<1>10. RdepsInv'
  BY <1>1, <1>2, RdepsUnchanged, ZenonT(60)
<1>11. PhaseInv'
  <2>1. back' = {}
    BY <1>1, <1>2 DEF PhaseInv
  <2> QED
    BY <1>2, <2>1, ZenonT(60) DEF PhaseInv
<1> QED
  BY <1>3, <1>5, <1>6, <1>7, <1>8, <1>9, <1>10, <1>11, ZenonT(60) DEF PlanIInv

(* A step that changes nothing.                                            *)
LEMMA PlanStutter ==
  ASSUME PlanIInv, UNCHANGED vars
  PROVE  PlanIInv'
<1>1. UNCHANGED <<declared, disabled, items, deps, rdeps, prio, planned, stage, level, depth, perm,
                  phase, path, seen, back, stale, order, held>>
  BY DEF vars, declVars, graphVars, planVars, sortVars, walkVars
<1>2. TypeInv'
  BY <1>1, Zenon DEF PlanIInv, TypeInv
<1>3. PathInv'
  BY <1>1, ZenonT(60) DEF PlanIInv, PathInv, DepsOf
<1>4. CycleInv'
  <2>1. OnPath' = OnPath
    BY <1>1, Zenon DEF OnPath
  <2>2. Black' = Black
    BY <1>1, <2>1, Zenon DEF Black
  <2>3. BlackClosed => BlackClosed'
    BY <1>1, <2>2, Zenon DEF BlackClosed
  <2>4. \A n : CycleLooked(n) => CycleLooked(n)'
    BY <1>1, <2>2, Zenon DEF CycleLooked, DepsOf
  <2>5. Grounded(deps \ back, Black) => Grounded(deps' \ back', Black')
    BY <1>1, <2>2, Zenon
  <2> QED
    BY <1>1, <2>1, <2>3, <2>4, <2>5, Zenon DEF PlanIInv, CycleInv
<1>5. Acyclic'
  BY <1>1, Zenon DEF PlanIInv, Acyclic, AcyclicOn, OnPath, Executable, DepsOf
<1>6. PlanInv'
  BY <1>1, Zenon DEF PlanIInv, PlanInv, Fixed, Settled, PlanLooked, InPlace, OnPath, Executable,
                     DepsOf
<1>7. SortInv'
  <2>1. OnPath' = OnPath /\ Executable' = Executable
    BY <1>1, Zenon DEF OnPath, Executable
  <2>2. \A i : DepsDeeper(i) => DepsDeeper(i)'
    BY <1>1, Zenon DEF DepsDeeper, Deeper, DepsOf
  <2>3. \A n : SortLooked(n) => SortLooked(n)'
    BY <1>1, Zenon DEF SortLooked, Deeper, DepsOf
  <2> QED
    BY <1>1, <2>1, <2>2, <2>3, Zenon DEF PlanIInv, SortInv
<1>8. KeptInv' /\ PhaseInv' /\ RdepsInv' /\ DepsFirst'
  BY <1>1, Zenon DEF PlanIInv, KeptInv, Agrees, PhaseInv, RdepsInv, DepsFirst
<1> QED
  BY <1>2, <1>3, <1>4, <1>5, <1>6, <1>7, <1>8, ZenonT(60) DEF PlanIInv

-----------------------------------------------------------------------------
(* The inductive invariant holds in every state the cache reaches, for     *)
(* every set of symbols and every order in which the walks take them.      *)
THEOREM PlanInvariant == Spec => []PlanIInv
<1>1. Init => PlanIInv
  BY InitStep
<1>2. PlanIInv /\ [Next]_vars => PlanIInv'
  <2> SUFFICES ASSUME PlanIInv, [Next]_vars PROVE PlanIInv'
    OBVIOUS
  <2>1. CASE InitCache
    BY <2>1, InitCacheStep, Zenon
  <2>2. CASE CycleRoot \/ CycleEdge \/ CycleLeave
    BY <2>2, CycleStep, Zenon
  <2>3. CASE CyclesDone
    BY <2>3, CyclesDoneStep, Zenon
  <2>4. CASE PlanRoot \/ PlanEdge \/ PlanLeave
    BY <2>4, PlanStep, ZenonT(60)
  <2>5. CASE PlanDone
    BY <2>5, PlanDoneStep, Zenon
  <2>6. CASE SortRoot \/ SortEdge \/ SortLeave
    BY <2>6, SortStep, Zenon
  <2>7. CASE SortDone
    BY <2>7, SortDoneStep, Zenon
  <2>8. CASE Validate \/ CreateRuntime
    BY <2>8, ReadyStep, Zenon
  <2>9. CASE AddSymbol
    BY <2>9, AddSymbolStep, Zenon
  <2>10. CASE MaybeResort
    BY <2>10, MaybeResortStep, Zenon
  <2>11. CASE UNCHANGED vars
    BY <2>11, PlanStutter, Zenon
  <2> QED
    BY <2>1, <2>2, <2>3, <2>4, <2>5, <2>6, <2>7, <2>8, <2>9, <2>10, <2>11, ZenonT(60) DEF Next
<1> QED
  BY <1>1, <1>2, PTL DEF Spec

(* Whatever is declared, items_by_order has every dependency before its    *)
(* dependents: the cycles are broken, the positions propagated and the     *)
(* depths computed so that cache_order_cmp never puts an item first.       *)
THEOREM DependenciesFirst == Spec => []DepsFirst
<1>1. PlanIInv => DepsFirst
  BY Zenon DEF PlanIInv
<1> QED
  BY <1>1, PlanInvariant, PTL

(* The reverse dependencies stay those of the dependencies that are left,  *)
(* after the cycles are broken and when symbols are added later.           *)
THEOREM ReverseDepsMatch == Spec => []RdepsMatch
<1>1. PlanIInv => RdepsMatch
  BY DEF PlanIInv, RdepsInv, RdepsMatch
<1> QED
  BY <1>1, PlanInvariant, PTL

(* A resort at run time moves no item that a running task has in its       *)
(* order.                                                                  *)
THEOREM PositionsKept == Spec => []PlanKept
<1>1. PlanIInv => PlanKept
  <2> SUFFICES ASSUME PlanIInv, phase = "ready"
               PROVE  \A n \in 1..Len(held) : /\ stage[held[n].item] = held[n].stage
                                               /\ level[held[n].item] = held[n].level
    BY Zenon DEF PlanKept
  <2>1. Agrees(held)
    BY DEF PlanIInv, KeptInv
  <2> QED
    BY <2>1, Zenon DEF Agrees
<1> QED
  BY <1>1, PlanInvariant, PTL
=============================================================================
