----------------------------- MODULE MCTaskScan -----------------------------
(* Plans of the symbol cache for the model checking of TaskScan.           *)
EXTENDS TaskScan

Weak(i) == [item |-> i, hard |-> FALSE]
Hard(i) == [item |-> i, hard |-> TRUE]

(* Prefilters p1 and p2 of the same priority and p3 of a lower one that    *)
(* depends on p1; filters f, e and g, g depends on p3, e and hard on f; an *)
(* idempotent symbol z that depends on g and hard on e.  When f finishes,  *)
(* the check of g may start e, whose end starts g under that check.        *)
LevelItems == {"p1", "p2", "p3", "f", "e", "g", "z"}
LevelNBuckets == 4
LevelBStage == <<1, 1, 2, 4>>
LevelBItems == <<<<"p1", "p2">>, <<"p3">>, <<"f", "e", "g">>, <<"z">>>>
LevelBucket == [i \in LevelItems |->
                  CASE i \in {"p1", "p2"} -> 1 [] i = "p3" -> 2
                    [] i \in {"f", "e", "g"} -> 3 [] i = "z" -> 4]
LevelType == [i \in LevelItems |->
                CASE i \in {"p1", "p2", "p3"} -> "PREFILTER"
                  [] i \in {"f", "e", "g"} -> "FILTER" [] i = "z" -> "IDEMPOTENT"]
LevelFlags == [i \in LevelItems |-> {}]
LevelDeps == [i \in LevelItems |->
                CASE i = "p3" -> <<Weak("p1")>>
                  [] i = "g" -> <<Weak("p3"), Weak("e"), Hard("f")>>
                  [] i = "z" -> <<Weak("g"), Hard("e")>>
                  [] OTHER -> <<>>]
LevelRdeps == [i \in LevelItems |->
                 CASE i = "p1" -> <<"p3">> [] i \in {"p3", "f"} -> <<"g">>
                   [] i = "e" -> <<"g", "z">> [] i = "g" -> <<"z">> [] OTHER -> <<>>]
AllLua == [i \in LevelItems |-> "lua"]

(* Every stage and every flag: a prefilter p; filters a, m, n and g, where *)
(* g depends on m and n; a fine filter f that depends on m and hard on n;  *)
(* a composite c with no bucket, a postfilter q that needs enabling and    *)
(* depends on c, and an idempotent symbol z that survives "disable all".   *)
(* When m finishes, the checks of f and g may start n.                     *)
MixedItems == {"p", "a", "m", "n", "f", "g", "c", "q", "z"}
MixedNBuckets == 4
MixedBStage == <<1, 2, 3, 4>>
MixedBItems == <<<<"p">>, <<"a", "m", "n", "f", "g">>, <<"q">>, <<"z">>>>
MixedBucket == [i \in MixedItems |->
                  CASE i = "p" -> 1 [] i \in {"a", "m", "n", "f", "g"} -> 2
                    [] i = "q" -> 3 [] i = "z" -> 4 [] i = "c" -> 0]
MixedType == [i \in MixedItems |->
                CASE i = "p" -> "PREFILTER" [] i = "c" -> "COMPOSITE"
                  [] i = "q" -> "POSTFILTER" [] i = "z" -> "IDEMPOTENT"
                  [] OTHER -> "FILTER"]
MixedFlags == [i \in MixedItems |->
                 CASE i = "f" -> {"FINE"} [] i = "q" -> {"EXPLICIT_ENABLE"}
                   [] i = "z" -> {"EXPLICIT_DISABLE", "IGNORE_PASSTHROUGH"}
                   [] OTHER -> {}]
MixedDeps == [i \in MixedItems |->
                CASE i = "f" -> <<Weak("m"), Hard("n")>>
                  [] i = "g" -> <<Weak("m"), Weak("n")>>
                  [] i = "q" -> <<Weak("c")>>
                  [] OTHER -> <<>>]
MixedRdeps == [i \in MixedItems |->
                 CASE i = "m" -> <<"g", "f">> [] i = "n" -> <<"f", "g">>
                   [] i = "c" -> <<"q">> [] OTHER -> <<>>]
MixedRules == [i \in MixedItems |-> IF i = "p" THEN "direct" ELSE "lua"]

(* One level of filters: g depends on a, b and hard on c, h on a and g.    *)
DiamondItems == {"a", "b", "c", "g", "h"}
DiamondNBuckets == 1
DiamondBStage == <<2>>
DiamondBItems == <<<<"a", "b", "c", "g", "h">>>>
DiamondBucket == [i \in DiamondItems |-> 1]
DiamondType == [i \in DiamondItems |-> "FILTER"]
DiamondFlags == [i \in DiamondItems |-> {}]
DiamondDeps == [i \in DiamondItems |->
                  CASE i = "g" -> <<Weak("a"), Weak("b"),
                                  Hard("c")>>
                    [] i = "h" -> <<Weak("a"), Weak("g")>>
                    [] OTHER -> <<>>]
DiamondRdeps == [i \in DiamondItems |->
                   CASE i = "a" -> <<"h", "g">> [] i \in {"b", "c"} -> <<"g">>
                     [] i = "g" -> <<"h">> [] OTHER -> <<>>]
DiamondRules == [i \in DiamondItems |-> "lua"]

AllStages == 0..16
Settings == {"redis", "score", "pass", "skip", "enable", "only"}
Toggling == {"redis", "disable", "enable"}
Disabling == {"dns", "redis", "disable"}
SyncRequests == {"redis", "sync"}
Leaks == {"dns", "redis", "leak"}
NestedRequests == {"dns", "sync"}
=============================================================================
