---------------------------- MODULE SymcachePlan ----------------------------
(***************************************************************************)
(* The execution plan of the symbol cache (libserver/symcache/             *)
(* symcache_impl.cxx): how the declared types, priorities and dependencies *)
(* of the symbols become the order that the scheduler (Symcache) works on. *)
(*                                                                         *)
(* init drops the statically disabled symbols, resolves the dependencies,  *)
(* breaks their cycles, assigns a stage and a level to every item and      *)
(* sorts them.  The three walks over the dependencies are depth-first      *)
(* searches; they follow hash tables, so the model takes the items and the *)
(* dependencies of an item in any order.  Virtual symbols stand for their  *)
(* parents and are left out.                                               *)
(***************************************************************************)
EXTENDS Integers, Sequences, FiniteSets, Functions

CONSTANTS
  Sym,            \* the symbols by id, in the order of registration
  Late,           \* those registered after the init, e.g. from a map
  Type,           \* [Sym -> Types]
  Priority,       \* [Sym -> Int]: the declared priorities
  NegativeWeight, \* symbols with a negative weight
  MaxEdges,       \* bound on the declared dependencies
  Disablable      \* symbols that disabled_symbols may match

Types == {"CONNFILTER", "PREFILTER", "FILTER", "POSTFILTER", "IDEMPOTENT",
          "COMPOSITE", "CLASSIFIER"}

NoStage == 5

ASSUME SymAssumption ==
  /\ Sym \subseteq Nat /\ IsFiniteSet(Sym)
  /\ Late \subseteq Sym
  /\ Type \in [Sym -> Types]
  /\ Priority \in [Sym -> Int]
  /\ NegativeWeight \subseteq Sym
  /\ MaxEdges \in Nat
  /\ Disablable \subseteq Sym

VARIABLES
  declared,  \* delayed_deps: pairs <<from, to>>
  disabled,  \* the symbols that match disabled_symbols
  items,     \* items_by_id
  deps,      \* cache_item::deps, as pairs <<dependent, dependency>>
  rdeps,     \* cache_item::rdeps, as pairs <<dependency, dependent>>
  prio,      \* cache_item::priority
  planned,   \* cache_item::planned
  stage,     \* cache_item::stage
  level,     \* cache_item::level
  depth,     \* cache_item::order without its marks
  perm,      \* items with tsort_mask::PERM
  phase,     \* what the cache is doing
  path,      \* the frames of the running walk, the outermost first
  seen,      \* the items the running walk has visited
  back,      \* back_edges
  stale,     \* cur_order_gen is not the generation of the order
  order,     \* items_by_order, as a sequence of [item, stage, level]
  held       \* the order a running task has a reference to

declVars == <<declared, disabled>>
graphVars == <<items, deps, rdeps>>
planVars == <<planned, stage, level>>
sortVars == <<depth, perm>>
walkVars == <<path, seen, back>>
vars == <<declVars, graphVars, prio, planVars, sortVars, phase, walkVars, stale, order, held>>

-----------------------------------------------------------------------------
(* declared_exec_stage.                                                    *)
DeclaredStage(t) ==
  CASE t = "CONNFILTER" -> 0 [] t = "PREFILTER" -> 1 [] t = "FILTER" -> 2
    [] t = "POSTFILTER" -> 3 [] t = "IDEMPOTENT" -> 4 [] OTHER -> NoStage

Executable == {i \in items : DeclaredStage(Type[i]) # NoStage}

(* edge_allowed.                                                           *)
Unscheduled == {"COMPOSITE", "CLASSIFIER"}

EdgeAllowed(src, dst) ==
  IF dst \in Unscheduled
    THEN src \in {"POSTFILTER", "IDEMPOTENT", dst}
    ELSE \/ src \in Unscheduled
         \/ DeclaredStage(src) >= DeclaredStage(dst)
         \/ src = "PREFILTER" /\ dst = "FILTER"

(* The position of an item by its type and a priority.                     *)
LevelOf(t, p) ==
  CASE DeclaredStage(t) \in {0, 1} -> p
    [] DeclaredStage(t) \in {3, 4} -> -p
    [] OTHER -> 0

(* is_earlier.                                                             *)
IsEarlier(st1, l1, st2, l2) == st1 < st2 \/ (st1 = st2 /\ l1 > l2)

-----------------------------------------------------------------------------
(* A walk: the frame of an item knows which dependencies are left to see.  *)
DepsOf(i) == {d \in items : <<i, d>> \in deps}

Frame(i, o) == [item |-> i, left |-> DepsOf(i), ord |-> o]

(* The last element of a sequence, and the sequence without it.            *)
Last(s) == s[Len(s)]

Front(s) == SubSeq(s, 1, Len(s) - 1)

OnPath == {path[n].item : n \in 1..Len(path)}

Enter(i, o) == path' = Append(path, Frame(i, o))

(* The path once the top frame has looked at d.                            *)
Looked(d) == [path EXCEPT ![Len(path)].left = @ \ {d}]

Leave == path' = Front(path)

-----------------------------------------------------------------------------
(* process_deps, for the dependencies of the symbols that are left: those  *)
(* on self and on a later stage are dropped.  A dependency on a removed    *)
(* symbol is reported, and keeps its item.                                 *)
ProcessDeps(left) ==
  {e \in declared : /\ e[1] \in left
                    /\ e[2] \in left => e[1] # e[2] /\ EdgeAllowed(Type[e[1]], Type[e[2]])}

(* init, up to break_dependency_cycles: the delayed dependencies are       *)
(* registered, the disabled symbols removed, the dependencies processed.   *)
InitCache ==
  /\ phase = "register"
  /\ LET left == Sym \ (Late \cup disabled)
     IN  /\ items' = left
         /\ deps' = ProcessDeps(left)
         /\ rdeps' = {<<e[2], e[1]>> : e \in {k \in ProcessDeps(left) : k[2] \in left}}
  /\ phase' = "cycles"
  /\ UNCHANGED <<declVars, prio, planVars, sortVars, walkVars, stale, order, held>>

(* break_dependency_cycles: visit, grey is on the path.                    *)
CycleRoot ==
  /\ phase = "cycles" /\ path = <<>>
  /\ \E i \in Executable \ seen : Enter(i, 0) /\ seen' = seen \cup {i}
  /\ UNCHANGED <<declVars, graphVars, prio, planVars, sortVars, phase, back, stale, order, held>>

IsGreyOrBlack(d) == d \in seen

IsGrey(d) == d \in OnPath

CycleEdge ==
  /\ phase = "cycles" /\ path # <<>>
  /\ \E d \in Last(path).left :
       \/ /\ d \notin seen
          /\ path' = Append(Looked(d), Frame(d, 0))
          /\ seen' = seen \cup {d}
          /\ UNCHANGED back
       \/ /\ d \in seen
          /\ path' = Looked(d)
          /\ back' = IF IsGrey(d) THEN back \cup {<<Last(path).item, d>>} ELSE back
          /\ UNCHANGED seen
  /\ UNCHANGED <<declVars, graphVars, prio, planVars, sortVars, phase, stale, order, held>>

CycleLeave ==
  /\ phase = "cycles" /\ path # <<>> /\ Last(path).left = {}
  /\ Leave
  /\ UNCHANGED <<declVars, graphVars, prio, planVars, sortVars, phase, seen, back, stale, order, held>>

DroppedRdepsNone == {}

DroppedRdeps == {<<e[2], e[1]>> : e \in back}

(* compute_exec_plan, the seed: items that have a plan keep it.            *)
SeededAll == items

Seeded == items \ planned

Seed ==
  /\ planned' = items
  /\ stage' = [i \in Sym |-> IF i \in Seeded THEN DeclaredStage(Type[i]) ELSE stage[i]]
  /\ level' = [i \in Sym |-> IF i \in Seeded THEN LevelOf(Type[i], prio[i]) ELSE level[i]]
  /\ phase' = "plan"
  /\ seen' = {}

CyclesDone ==
  /\ phase = "cycles" /\ path = <<>> /\ Executable \subseteq seen
  /\ deps' = deps \ back
  /\ rdeps' = rdeps \ DroppedRdeps
  /\ back' = {}
  /\ Seed
  /\ UNCHANGED <<declVars, items, prio, sortVars, path, stale, order, held>>

(* propagate: an item pushes its position down to its dependencies, and    *)
(* what moves pushes in turn.  (init calls compute_exec_plan once more     *)
(* before it sorts; nothing is left to move then.)                         *)
PlanRoot ==
  /\ phase = "plan" /\ path = <<>>
  /\ \E i \in Executable \ seen : Enter(i, 0) /\ seen' = seen \cup {i}
  /\ UNCHANGED <<declVars, graphVars, prio, planVars, sortVars, phase, back, stale, order, held>>

MovedNoRecursion(d) == Looked(d)

Moved(d) == Append(Looked(d), Frame(d, 0))

PlanEdge ==
  /\ phase = "plan" /\ path # <<>>
  /\ LET it == Last(path).item
     IN  \E d \in Last(path).left :
           IF d \in Executable \ OnPath /\ IsEarlier(stage[it], level[it], stage[d], level[d])
             THEN /\ stage' = [stage EXCEPT ![d] = stage[it]]
                  /\ level' = [level EXCEPT ![d] = level[it]]
                  /\ path' = Moved(d)
             ELSE path' = Looked(d) /\ UNCHANGED <<stage, level>>
  /\ UNCHANGED <<declVars, graphVars, prio, planned, sortVars, phase, seen, back, stale, order, held>>

PlanLeave ==
  /\ phase = "plan" /\ path # <<>> /\ Last(path).left = {}
  /\ Leave
  /\ UNCHANGED <<declVars, graphVars, prio, planVars, sortVars, phase, seen, back, stale, order, held>>

(* resort, the items to sort lose their marks; composites and classifiers  *)
(* are not among them and keep theirs.                                     *)
PlanDone ==
  /\ phase = "plan" /\ path = <<>> /\ Executable \subseteq seen
  /\ phase' = "sort"
  /\ seen' = {}
  /\ depth' = [i \in Sym |-> IF i \in Executable THEN 0 ELSE depth[i]]
  /\ perm' = perm \ Executable
  /\ UNCHANGED <<declVars, graphVars, prio, planVars, path, back, stale, order, held>>

(* tsort_visit of d for the order o.                                       *)
VisitsOnce(d, o) == d \notin perm

Visits(d, o) == IF d \in perm THEN o > depth[d] ELSE d \notin OnPath

SortRoot ==
  /\ phase = "sort" /\ path = <<>>
  /\ \E i \in Executable \ perm : Enter(i, 0)
  /\ UNCHANGED <<declVars, graphVars, prio, planVars, sortVars, phase, seen, back, stale, order, held>>

SortEdge ==
  /\ phase = "sort" /\ path # <<>>
  /\ LET o == Last(path).ord + 1
     IN  \E d \in Last(path).left :
           IF Visits(d, o)
             THEN /\ path' = Append(Looked(d), Frame(d, o))
                  /\ depth' = IF d \in perm THEN [depth EXCEPT ![d] = o] ELSE depth
                  /\ perm' = perm \ {d}
             ELSE path' = Looked(d) /\ UNCHANGED sortVars
  /\ UNCHANGED <<declVars, graphVars, prio, planVars, phase, seen, back, stale, order, held>>

SortLeave ==
  /\ phase = "sort" /\ path # <<>> /\ Last(path).left = {}
  /\ depth' = [depth EXCEPT ![Last(path).item] = Last(path).ord]
  /\ perm' = perm \cup {Last(path).item}
  /\ Leave
  /\ UNCHANGED <<declVars, graphVars, prio, planVars, phase, seen, back, stale, order, held>>

(* cache_order_cmp.  The soft keys of the filters are priorities, weights  *)
(* and the statistics of the hits: any order between equals.               *)
Before(i, j) ==
  IF stage[i] # stage[j] \/ level[i] # level[j]
    THEN IsEarlier(stage[i], level[i], stage[j], level[j])
    ELSE \/ depth[i] > depth[j]
         \/ depth[i] = depth[j] /\ (stage[i] = 2 \/ i < j)

(* The sort.  A bucket is a run of equal stages and levels of the order.   *)
SortDone ==
  /\ phase = "sort" /\ path = <<>> /\ Executable \subseteq perm
  /\ \E s \in Injection(1..Cardinality(Executable), Executable) :
       /\ \A m, n \in 1..Len(s) : m < n => Before(s[m], s[n])
       /\ order' = [n \in 1..Len(s) |->
                      [item |-> s[n], stage |-> stage[s[n]], level |-> level[s[n]]]]
  /\ stale' = FALSE
  /\ phase' = "ready"
  /\ UNCHANGED <<declVars, graphVars, prio, planVars, sortVars, walkVars, held>>

-----------------------------------------------------------------------------
(* validate: symbols with a negative weight get a priority.                *)
Validate ==
  /\ phase = "ready"
  /\ prio' = [i \in Sym |-> IF i \in items \cap NegativeWeight /\ prio[i] = 0 THEN 1 ELSE prio[i]]
  /\ UNCHANGED <<declVars, graphVars, planVars, sortVars, phase, walkVars, stale, order, held>>

(* A symbol registered at run time, and rspamd_symcache_promote_resort.    *)
AddSymbol ==
  /\ phase = "ready"
  /\ \E i \in Late \ items : items' = items \cup {i}
  /\ stale' = TRUE
  /\ UNCHANGED <<declVars, deps, rdeps, prio, planVars, sortVars, phase, walkVars, order, held>>

(* symcache_runtime::create: maybe_resort, and a reference to the order.   *)
MaybeResort ==
  /\ phase = "ready" /\ stale
  /\ Seed
  /\ UNCHANGED <<declVars, graphVars, prio, sortVars, path, back, stale, order, held>>

CreateRuntime ==
  /\ phase = "ready" /\ ~stale
  /\ held' = order
  /\ UNCHANGED <<declVars, graphVars, prio, planVars, sortVars, phase, walkVars, stale, order>>

-----------------------------------------------------------------------------
Init ==
  /\ declared \in {E \in SUBSET ((Sym \ Late) \X (Sym \ Late)) : Cardinality(E) <= MaxEdges}
  /\ disabled \in SUBSET (Disablable \ Late)
  /\ items = {} /\ deps = {} /\ rdeps = {}
  /\ prio = Priority
  /\ planned = {}
  /\ stage = [i \in Sym |-> NoStage] /\ level = [i \in Sym |-> 0]
  /\ depth = [i \in Sym |-> 0] /\ perm = {}
  /\ phase = "register"
  /\ path = <<>> /\ seen = {} /\ back = {}
  /\ stale = FALSE
  /\ order = <<>> /\ held = <<>>

Next ==
  \/ InitCache
  \/ CycleRoot \/ CycleEdge \/ CycleLeave \/ CyclesDone
  \/ PlanRoot \/ PlanEdge \/ PlanLeave \/ PlanDone
  \/ SortRoot \/ SortEdge \/ SortLeave \/ SortDone
  \/ Validate \/ AddSymbol \/ MaybeResort \/ CreateRuntime

Spec == Init /\ [][Next]_vars

-----------------------------------------------------------------------------
(* The pairs <<i, j>> such that i depends on j, directly or not.           *)
Reaches(edges) ==
  LET upTo[n \in Nat] ==
        IF n = 0 THEN edges
        ELSE LET c == upTo[n - 1]
             IN  c \cup {<<q[1][1], q[2][2]>> : q \in {p \in c \X c : p[1][2] = p[2][1]}}
  IN  upTo[Cardinality(Sym)]

(* break_dependency_cycles drops only dependencies that close a cycle (its *)
(* message: "%s depends on %s which (indirectly) depends on it").          *)
OnlyCyclesBroken ==
  [][phase = "cycles" /\ phase' = "plan" =>
       LET dropped == deps \ deps'
       IN  dropped # {} => {<<e[2], e[1]>> : e \in dropped} \subseteq Reaches(deps)]_vars

(* After it, the reverse dependencies are those of the dependencies that   *)
(* are left, so that the end of an item starts just the items that wait.   *)
RdepsMatch ==
  phase \in {"plan", "sort", "ready"} =>
    rdeps = {<<e[2], e[1]>> : e \in {d \in deps : d[2] \in items}}

(* The order puts every dependency before its dependents, whatever the     *)
(* declared types and priorities are (compute_exec_plan: "a dependency     *)
(* must run before the dependent"; so the graph is acyclic, too).          *)
DepsFirst ==
  phase = "ready" =>
    \A m, n \in 1..Len(order) :
      <<order[m].item, order[n].item>> \in deps => n < m

(* The init plans an item at the earliest of its declared position and     *)
(* those of the items that depend on it, directly or not, and nowhere      *)
(* else; only filters that a prefilter needs leave their stage             *)
(* (edge_allowed: "merely a prefilter may depend on a filter, which hoists *)
(* the filter").                                                           *)
HoistedByNeed ==
  phase = "ready" /\ items \cap Late = {} =>
    LET reaches == Reaches(deps \cap (Executable \X Executable))
        declaredAt == [i \in Sym |-> <<DeclaredStage(Type[i]), LevelOf(Type[i], Priority[i])>>]
        earlier(i, j) == IsEarlier(declaredAt[i][1], declaredAt[i][2], declaredAt[j][1], declaredAt[j][2])
        above(i) == {i} \cup {j \in Executable : <<j, i>> \in reaches}
    IN  \A i \in Executable :
          /\ \E j \in above(i) :
               /\ <<stage[i], level[i]>> = declaredAt[j]
               /\ \A k \in above(i) : ~earlier(k, j)
          /\ stage[i] # DeclaredStage(Type[i]) =>
               Type[i] = "FILTER" /\ stage[i] = DeclaredStage("PREFILTER")

(* Stages and levels are assigned once: what a task that is running takes  *)
(* from its order and what it takes from the items (get_stage) agree, even *)
(* when symbols were added and the cache was sorted again meanwhile.       *)
PlanKept ==
  phase = "ready" =>
    \A n \in 1..Len(held) :
      /\ stage[held[n].item] = held[n].stage
      /\ level[held[n].item] = held[n].level
=============================================================================
