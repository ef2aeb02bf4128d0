--------------------------- MODULE UpstreamProofs ---------------------------
(***************************************************************************)
(* Proofs about UpstreamList: what every function of the library keeps of  *)
(* a list, for any number of upstreams of any kinds.  ProxyProofs applies  *)
(* them to the handlers that call the library.                             *)
(***************************************************************************)
EXTENDS UpstreamList, WellFoundedInduction, TLAPS

(* The positions of a list: active_idx names one of the upstream's own,    *)
(* and every upstream that has a position has an index.                    *)
Indexed(L) ==
  /\ \A u \in Ups : L.up[u].idx # 0 =>
       L.up[u].idx \in 1..Len(L.alive) /\ L.alive[L.up[u].idx] = u
  /\ \A i \in 1..Len(L.alive) : L.up[L.alive[i]].idx # 0

(* Only a numeric upstream may be in the alive list twice: its pending     *)
(* revive timer adds it again after a probe has brought it back.           *)
Once(L) ==
  \A i, j \in 1..Len(L.alive) :
    L.alive[i] = L.alive[j] /\ Kind[L.alive[i]] # "numeric" => i = j

(* A ring that is not marked stale is the ring of the alive upstreams.     *)
Fresh(L) == ~L.dirty => L.ring = Alive(L)

(* The list as a data structure.                                           *)
Shape(L) == L \in List /\ Indexed(L) /\ Once(L) /\ Fresh(L)

(* The references an upstream r needs: of the list, of its revive timer    *)
(* and of its DNS callbacks.  What follows holds of every upstream r, of   *)
(* kind k.                                                                 *)
Need(r) ==
  (IF r.place = "listed" THEN 1 ELSE 0) + (IF r.timer = "revive" THEN 1 ELSE 0)
  + r.dns

(* It has them.                                                            *)
Refs(r) == r.ref >= Need(r)

(* What is alive is listed and has addresses.                              *)
Live(r, k) == r.idx # 0 => r.place = "listed" /\ k # "srv" /\ ~r.pending

(* What is dead and has addresses waits for its revive timer, and has a    *)
(* time at which it may be probed.                                         *)
Back(r, k) ==
  r.place = "listed" /\ r.idx = 0 /\ k # "srv" /\ ~r.pending =>
    r.timer = "revive" /\ r.probe # "unset"

(* The timer of a pending upstream is the lazy one, and that of an alive   *)
(* one too, unless it is numeric.                                          *)
Clock(r, k) ==
  r.place = "listed" /\ (r.pending \/ (r.idx # 0 /\ k # "numeric")) =>
    r.timer # "revive"

(* What is probed is listed and has addresses.                             *)
Half(r, k) == r.half => r.place = "listed" /\ k # "srv" /\ ~r.pending

(* What is freed has no timer and no references.                           *)
Gone(r) == r.place = "absent" => r.timer = "off" /\ r.ref = 0

(* All of it, for one upstream.                                            *)
Sound(r, k) ==
  Refs(r) /\ Live(r, k) /\ Back(r, k) /\ Clock(r, k) /\ Half(r, k) /\ Gone(r)

(* The invariant of the list.                                              *)
ListInv(L) == Shape(L) /\ \A u \in Ups : Sound(L.up[u], Kind[u])

(* What most functions leave alone, from list L to list M.                 *)
Tame(M, L) ==
  \A w \in Ups :
    /\ M.up[w].place = L.up[w].place
    /\ M.up[w].inflight <= L.up[w].inflight
    /\ M.up[w].place = "drained" => M.up[w].timer = L.up[w].timer

-----------------------------------------------------------------------------
(* A nonempty set of numbers has a least one.                              *)
LEMMA LeastNat ==
  ASSUME NEW T, T \subseteq Nat, T # {}
  PROVE  \E x \in T : \A y \in T : x <= y
<1> DEFINE R == {p \in Nat \X Nat : p[1] < p[2]}
<1>1. IsWellFoundedOn(R, Nat)
  BY NatLessThanWellFounded DEF OpToRel
<1> HIDE DEF R
<1>2. PICK x \in T : \A y \in T : <<y, x>> \notin R
  BY <1>1, WFMin, Zenon
<1>3. \A y \in T : ~(y < x)
  BY <1>2, Zenon DEF R
<1> QED
  BY <1>3

(* What occurs in a sequence has a last position.                          *)
LEMMA LastAtProperty ==
  ASSUME NEW q \in Seq(Ups), NEW w, \E i \in 1..Len(q) : q[i] = w
  PROVE  LastAt(q, w) \in 1..Len(q) /\ q[LastAt(q, w)] = w
<1> DEFINE T == {Len(q) - i : i \in {i \in 1..Len(q) : q[i] = w}}
<1>1. T \subseteq Nat /\ T # {}
  OBVIOUS
<1> HIDE DEF T
<1>2. PICK x \in T : \A y \in T : x <= y
  BY <1>1, LeastNat, Zenon
<1>3. PICK i \in 1..Len(q) : q[i] = w /\ x = Len(q) - i
  BY <1>2 DEF T
<1>4. ASSUME NEW j \in 1..Len(q), q[j] = w
      PROVE  j <= i
  <2>1. Len(q) - j \in T
    BY <1>4 DEF T
  <2>2. x <= Len(q) - j
    BY <2>1, <1>2
  <2> QED
    BY <2>2, <1>3
<1> QED
  BY <1>3, <1>4 DEF LastAt

(* Taking one element out of a sequence.                                   *)
LEMMA WithoutProperty ==
  ASSUME NEW q \in Seq(Ups), NEW i \in 1..Len(q)
  PROVE  /\ Without(q, i) \in Seq(Ups)
         /\ Len(Without(q, i)) = Len(q) - 1
         /\ \A j \in 1..(Len(q) - 1) :
              Without(q, i)[j] = IF j < i THEN q[j] ELSE q[j + 1]
<1> DEFINE a == SubSeq(q, 1, i - 1)
           b == SubSeq(q, i + 1, Len(q))
<1>1. /\ a \in Seq(Ups) /\ Len(a) = i - 1
      /\ \A j \in 1..(i - 1) : a[j] = q[j]
  OBVIOUS
<1>2. /\ b \in Seq(Ups) /\ Len(b) = Len(q) - i
      /\ \A j \in 1..(Len(q) - i) : b[j] = q[i + j]
  OBVIOUS
<1> HIDE DEF a, b
<1>3. /\ a \o b \in Seq(Ups) /\ Len(a \o b) = Len(a) + Len(b)
      /\ \A j \in 1..(Len(a) + Len(b)) :
           (a \o b)[j] = IF j <= Len(a) THEN a[j] ELSE b[j - Len(a)]
  <2>1. a \in Seq(Ups) /\ b \in Seq(Ups)
    BY <1>1, <1>2
  <2> QED
    BY <2>1
<1>4. Without(q, i) = a \o b
  BY DEF Without, a, b
<1>5. ASSUME NEW j \in 1..(Len(q) - 1)
      PROVE  (a \o b)[j] = IF j < i THEN q[j] ELSE q[j + 1]
  <2>1. CASE j < i
    BY <2>1, <1>1, <1>2, <1>3
  <2>2. CASE ~(j < i)
    <3>1. j - (i - 1) \in 1..(Len(q) - i) /\ i + (j - (i - 1)) = j + 1
      BY <2>2
    <3>2. b[j - (i - 1)] = q[j + 1]
      BY <3>1, <1>2
    <3> QED
      BY <3>2, <2>2, <1>1, <1>2, <1>3
  <2> QED
    BY <2>1, <2>2, Zenon
<1>6. a \o b \in Seq(Ups) /\ Len(a \o b) = Len(q) - 1
  BY <1>1, <1>2, <1>3
<1> QED
  BY <1>4, <1>5, <1>6, Zenon

-----------------------------------------------------------------------------
(* A list of which one upstream changes, and keeps its position.           *)
LEMMA OneUp ==
  ASSUME NEW L, Shape(L), NEW u \in Ups, NEW r \in Upstream,
         r.idx = L.up[u].idx
  PROVE  /\ Shape([L EXCEPT !.up[u] = r])
         /\ [L EXCEPT !.up[u] = r].up = [L.up EXCEPT ![u] = r]
         /\ [L EXCEPT !.up[u] = r].alive = L.alive
<1> DEFINE M == [L EXCEPT !.up[u] = r]
<1>1. M \in List
  BY DEF Shape, List
<1>2. M.up = [L.up EXCEPT ![u] = r] /\ M.alive = L.alive /\ M.ring = L.ring
      /\ M.dirty = L.dirty
  BY DEF Shape, List
<1> HIDE DEF M
<1>3. \A w \in Ups : M.up[w].idx = L.up[w].idx
  BY <1>2 DEF Shape, List
<1>4. \A i \in 1..Len(L.alive) : L.alive[i] \in Ups
  BY DEF Shape, List
<1>5. Indexed(M)
  BY <1>2, <1>3, <1>4 DEF Shape, Indexed
<1>6. Once(M) /\ Fresh(M)
  BY <1>2 DEF Shape, Once, Fresh, Alive
<1> QED
  BY <1>1, <1>2, <1>5, <1>6 DEF Shape, M

(* The same, with what holds of the upstreams.                             *)
LEMMA OneUpInv ==
  ASSUME NEW L, ListInv(L), NEW u \in Ups, NEW r \in Upstream,
         r.idx = L.up[u].idx, Sound(r, Kind[u])
  PROVE  /\ ListInv([L EXCEPT !.up[u] = r])
         /\ [L EXCEPT !.up[u] = r].up = [L.up EXCEPT ![u] = r]
         /\ [L EXCEPT !.up[u] = r].alive = L.alive
         /\ \A w \in Ups : [L EXCEPT !.up[u] = r].up[w] = IF w = u THEN r ELSE L.up[w]
<1>1. \A w \in Ups : [L.up EXCEPT ![u] = r][w] = IF w = u THEN r ELSE L.up[w]
  BY DEF ListInv, Shape, List
<1> QED
  BY <1>1, OneUp DEF ListInv

(* A change of one upstream that keeps what Tame asks for.                 *)
LEMMA OneUpTame ==
  ASSUME NEW L, ListInv(L), NEW u \in Ups, NEW r \in Upstream,
         r.idx = L.up[u].idx, Sound(r, Kind[u]),
         r.place = L.up[u].place, r.inflight <= L.up[u].inflight,
         r.place = "drained" => r.timer = L.up[u].timer
  PROVE  Tame([L EXCEPT !.up[u] = r], L)
<1>1. \A w \in Ups : L.up[w].inflight \in Nat
  BY DEF ListInv, Shape, List, Upstream
<1> QED
  BY <1>1, OneUpInv DEF Tame

(* What an upstream keeps when it enters or leaves ls->alive.              *)
Keeps(r, old) ==
  /\ r.place = old.place /\ r.pending = old.pending /\ r.timer = old.timer
  /\ r.ref = old.ref /\ r.dns = old.dns /\ r.inflight = old.inflight

(* Filling or refunding a token bucket changes nothing else.               *)
LEMMA BucketType ==
  ASSUME NEW L, NEW r \in Upstream
  PROVE  /\ FullBucket(L, r) \in Upstream /\ Keeps(FullBucket(L, r), r)
         /\ Refunded(L, r) \in Upstream /\ Keeps(Refunded(L, r), r)
         /\ Refunded(L, r).probe = r.probe
<1>1. ASSUME NEW a \in 0..MaxTokens, NEW t \in Nat
      PROVE  /\ [r EXCEPT !.avail = a, !.taken = t] \in Upstream
             /\ Keeps([r EXCEPT !.avail = a, !.taken = t], r)
             /\ [r EXCEPT !.avail = a, !.taken = t].probe = r.probe
  BY Zenon DEF Upstream, Keeps
<1>2. MaxTokens \in 0..MaxTokens
  BY UpsAssumption
<1>3. AtMost(r.avail + r.taken, MaxTokens) \in 0..MaxTokens
  BY UpsAssumption DEF Upstream, AtMost
<1>4. CASE L.rot = "token_bucket"
  BY <1>1, <1>2, <1>3, <1>4, Zenon DEF FullBucket, Refunded
<1>5. CASE L.rot # "token_bucket"
  BY <1>5 DEF FullBucket, Refunded, Keeps
<1> QED
  BY <1>4, <1>5

(* ls->alive grows by an upstream that is numeric or not in it.            *)
LEMMA EnlistShape ==
  ASSUME NEW L, Shape(L), NEW u \in Ups,
         Kind[u] = "numeric" \/ L.up[u].idx = 0
  PROVE  /\ Shape(Enlist(L, u))
         /\ \A w \in Ups \ {u} : Enlist(L, u).up[w] = L.up[w]
         /\ Keeps(Enlist(L, u).up[u], L.up[u])
         /\ Enlist(L, u).up[u].idx # 0
<1> DEFINE q == L.alive
           old == L.up[u]
           f == FullBucket(L, old)
           n == Len(q) + 1
           r == [f EXCEPT !.idx = n, !.probe = "unset"]
           M == Enlist(L, u)
<1>0. q \in Seq(Ups) /\ n \in Nat \ {0} /\ old \in Upstream
  BY DEF Shape, List
<1>1. f \in Upstream /\ Keeps(f, old)
  BY <1>0, BucketType
<1>2. M = [L EXCEPT !.alive = Append(q, u), !.dirty = TRUE, !.up[u] = r]
  BY DEF Enlist
<1> HIDE DEF M, f
<1>3. r \in Upstream /\ r.idx = n /\ Keeps(r, old)
  BY <1>0, <1>1, Zenon DEF Upstream, Keeps
<1> HIDE DEF r, q
<1>4. Append(q, u) \in Seq(Ups)
  BY <1>0
<1>5. /\ M \in List /\ M.dirty = TRUE /\ M.alive = Append(q, u)
      /\ M.up = [L.up EXCEPT ![u] = r]
  BY <1>2, <1>3, <1>4, Zenon DEF Shape, List
<1>6. \A w \in Ups : M.up[w] = IF w = u THEN r ELSE L.up[w]
  BY <1>5 DEF Shape, List
<1>7. Indexed(M)
  <2>0. /\ Len(M.alive) = n
        /\ \A i \in 1..n : M.alive[i] = IF i = n THEN u ELSE q[i]
    BY <1>0, <1>5
  <2>1. ASSUME NEW w \in Ups, M.up[w].idx # 0
        PROVE  M.up[w].idx \in 1..n /\ M.alive[M.up[w].idx] = w
    <3>1. CASE w = u
      BY <3>1, <2>0, <1>0, <1>3, <1>6
    <3>2. CASE w # u
      <4>1. M.up[w].idx \in 1..Len(q) /\ q[M.up[w].idx] = w
        BY <3>2, <2>1, <1>6 DEF Shape, Indexed, q
      <4> QED
        BY <4>1, <2>0, <1>0
    <3> QED
      BY <3>1, <3>2
  <2>2. ASSUME NEW i \in 1..n
        PROVE  M.up[M.alive[i]].idx # 0
    <3>1. M.up[u].idx # 0
      BY <1>0, <1>3, <1>6
    <3>2. i # n => M.alive[i] \in Ups /\ L.up[M.alive[i]].idx # 0
      BY <2>0, <1>0, SMTT(30) DEF Shape, Indexed, q
    <3> QED
      BY <2>0, <3>1, <3>2, <1>6
  <2> QED
    BY <2>0, <2>1, <2>2 DEF Indexed
<1>8. Once(M)
  BY <1>0, <1>5 DEF Shape, Indexed, Once, q
<1>9. Fresh(M)
  BY <1>5 DEF Fresh
<1> QED
  BY <1>0, <1>3, <1>5, <1>6, <1>7, <1>8, <1>9 DEF Shape, M

(* ls->alive shrinks by the position that active_idx names.                *)
LEMMA DelistShape ==
  ASSUME NEW L, Shape(L), NEW u \in Ups, L.up[u].idx # 0
  PROVE  /\ Shape(Delist(L, u))
         /\ \A w \in Ups : /\ Keeps(Delist(L, u).up[w], L.up[w])
                           /\ Delist(L, u).up[w].probe = L.up[w].probe
         /\ \A w \in Ups \ {u} : Delist(L, u).up[w].idx # 0 <=> L.up[w].idx # 0
         /\ Kind[u] # "numeric" => Delist(L, u).up[u].idx = 0
<1> DEFINE k == L.up[u].idx
           q == Without(L.alive, k)
           f == [Refunded(L, L.up[u]) EXCEPT !.idx = 0]
           out == [L.up EXCEPT ![u] = f]
           up == [w \in Ups |-> [out[w] EXCEPT !.idx = Reindexed(q, w, @)]]
           M == Delist(L, u)
<1>0. /\ L \in List /\ L.alive \in Seq(Ups) /\ L.up \in [Ups -> Upstream]
      /\ Len(L.alive) \in Nat
      /\ k \in 1..Len(L.alive) /\ L.alive[k] = u
  BY DEF Shape, List, Indexed
<1>1. /\ q \in Seq(Ups) /\ Len(q) = Len(L.alive) - 1
      /\ \A j \in 1..(Len(L.alive) - 1) :
           q[j] = IF j < k THEN L.alive[j] ELSE L.alive[j + 1]
  BY <1>0, WithoutProperty, SMTT(30)
<1> HIDE DEF q
<1> DEFINE at(j) == IF j < k THEN j ELSE j + 1
<1>a. \A j \in 1..Len(q) :
        at(j) \in 1..Len(L.alive) /\ at(j) # k /\ q[j] = L.alive[at(j)]
  BY <1>0, <1>1
<1>b. \A i, j \in 1..Len(q) : at(i) = at(j) => i = j
  BY <1>0, <1>1
<1> HIDE DEF at
<1>2. f \in Upstream /\ f.idx = 0 /\ Keeps(f, L.up[u]) /\ f.probe = L.up[u].probe
  <2>1. /\ Refunded(L, L.up[u]) \in Upstream
        /\ Keeps(Refunded(L, L.up[u]), L.up[u])
        /\ Refunded(L, L.up[u]).probe = L.up[u].probe
    BY <1>0, BucketType
  <2> QED
    BY <2>1 DEF Upstream, Keeps
<1> HIDE DEF f
<1>3. \A w \in Ups : /\ out[w] \in Upstream /\ Keeps(out[w], L.up[w])
                     /\ out[w].probe = L.up[w].probe
                     /\ out[w].idx = IF w = u THEN 0 ELSE L.up[w].idx
  BY <1>0, <1>2 DEF Keeps
<1> HIDE DEF out
<1>4. ASSUME NEW w \in Ups
      PROVE  LET i == Reindexed(q, w, out[w].idx)
             IN  /\ i \in Nat
                 /\ i # 0 => i \in 1..Len(q) /\ q[i] = w
                 /\ (\E j \in 1..Len(q) : q[j] = w) => i # 0
  <2>1. CASE \E j \in 1..Len(q) : q[j] = w
    <3>1. LastAt(q, w) \in 1..Len(q) /\ q[LastAt(q, w)] = w
      BY <2>1, <1>1, LastAtProperty
    <3> QED
      BY <3>1, <2>1, <1>1, SMTT(30) DEF Reindexed
  <2>2. CASE ~\E j \in 1..Len(q) : q[j] = w
    <3>1. w # u => L.up[w].idx = 0
      <4> SUFFICES ASSUME w # u, L.up[w].idx # 0 PROVE FALSE
        OBVIOUS
      <4> DEFINE m == L.up[w].idx
      <4>1. m \in 1..Len(L.alive) /\ L.alive[m] = w /\ m # k
        BY <1>0 DEF Shape, Indexed
      <4> HIDE DEF m
      <4>2. CASE m < k
        BY <4>1, <4>2, <2>2, <1>0, <1>1
      <4>3. CASE m > k
        <5>1. m - 1 \in 1..Len(q) /\ q[m - 1] = L.alive[m]
          BY <4>1, <4>3, <1>0, <1>1
        <5> QED
          BY <5>1, <4>1, <2>2
      <4> QED
        BY <4>1, <4>2, <4>3, <1>0
    <3>2. out[w].idx = 0
      BY <3>1, <1>3
    <3> QED
      BY <3>2, <2>2 DEF Reindexed
  <2> QED
    BY <2>1, <2>2

<1>5. \A w \in Ups : /\ up[w] \in Upstream /\ Keeps(up[w], L.up[w])
                     /\ up[w].probe = L.up[w].probe
                     /\ up[w].idx = Reindexed(q, w, out[w].idx)
  <2> SUFFICES ASSUME NEW w \in Ups, NEW i \in Nat, i = Reindexed(q, w, out[w].idx)
               PROVE  LET r == [out[w] EXCEPT !.idx = i]
                      IN  /\ r \in Upstream /\ Keeps(r, L.up[w])
                          /\ r.probe = L.up[w].probe /\ r.idx = i
    BY <1>4, ZenonT(60)
  <2> QED
    BY <1>3 DEF Upstream, Keeps
<1>6. M = [L EXCEPT !.alive = q, !.dirty = TRUE, !.up = up]
  BY DEF Delist, q, out, f
<1>7. up \in [Ups -> Upstream]
  BY <1>5
<1> HIDE DEF up, M
<1>8. M \in List /\ M.alive = q /\ M.dirty = TRUE /\ M.up = up
  BY <1>0, <1>1, <1>6, <1>7, Zenon DEF List
<1>9. Indexed(M)
  <2>1. \A i \in 1..Len(q) : q[i] \in Ups
    BY <1>1
  <2> QED
    BY <2>1, <1>4, <1>5, <1>8 DEF Indexed
<1>10. Once(M)
  <2> SUFFICES ASSUME NEW i \in 1..Len(q), NEW j \in 1..Len(q), q[i] = q[j],
                      Kind[q[i]] # "numeric"
               PROVE  i = j
    BY <1>8 DEF Once
  <2>1. at(i) = at(j)
    BY <1>a, ZenonT(60) DEF Once, Shape
  <2> QED
    BY <2>1, <1>b
<1>11. Fresh(M)
  BY <1>8 DEF Fresh
<1>12. \A w \in Ups \ {u} : up[w].idx # 0 <=> L.up[w].idx # 0
  <2> SUFFICES ASSUME NEW w \in Ups \ {u} PROVE up[w].idx # 0 <=> L.up[w].idx # 0
    OBVIOUS
  <2>1. CASE \E j \in 1..Len(q) : q[j] = w
    <3>1. L.up[w].idx # 0
      BY <2>1, <1>a DEF Shape, Indexed
    <3> QED
      BY <2>1, <3>1, <1>4, <1>5
  <2>2. CASE ~\E j \in 1..Len(q) : q[j] = w
    BY <2>2, <1>3, <1>5 DEF Reindexed
  <2> QED
    BY <2>1, <2>2
<1>13. Kind[u] # "numeric" => up[u].idx = 0
  <2> SUFFICES ASSUME Kind[u] # "numeric" PROVE up[u].idx = 0
    OBVIOUS
  <2>1. ~\E j \in 1..Len(q) : q[j] = u
    BY <1>0, <1>a, ZenonT(60) DEF Shape, Once
  <2> QED
    BY <2>1, <1>3, <1>5 DEF Reindexed
<1> QED
  BY <1>5, <1>8, <1>9, <1>10, <1>11, <1>12, <1>13 DEF Shape, M

-----------------------------------------------------------------------------
(* The functions of the library keep ListInv.                              *)

(* The type and the soundness of an upstream of the list.                  *)
LEMMA UpTyped ==
  ASSUME NEW L, ListInv(L), NEW u \in Ups
  PROVE  L.up[u] \in Upstream /\ Sound(L.up[u], Kind[u])
BY DEF ListInv, Shape, List

(* rspamd_upstream_resolve_addrs takes a reference for every request it    *)
(* sends.                                                                  *)
LEMMA ResolveInv ==
  ASSUME NEW L, ListInv(L), NEW u \in Ups, NEW n \in Nat, L.up[u].place # "absent"
  PROVE  ListInv(Resolve(L, u, n)) /\ Tame(Resolve(L, u, n), L)
<1> DEFINE m == L.up[u].ref + n
           r == [L.up[u] EXCEPT !.dns = n, !.ref = m]
<1>0. L.up[u] \in Upstream /\ Sound(L.up[u], Kind[u])
  BY UpTyped
<1>1. m \in Nat
  BY <1>0 DEF Upstream
<1>2. CASE Drained(L, u) \/ Kind[u] = "numeric" \/ L.up[u].dns # 0
  <2>1. \A w \in Ups : L.up[w].inflight \in Nat
    BY UpTyped DEF Upstream
  <2> QED
    BY <1>2, <2>1 DEF Resolve, Tame
<1>3. CASE ~(Drained(L, u) \/ Kind[u] = "numeric" \/ L.up[u].dns # 0)
  <2>1. Resolve(L, u, n) = [L EXCEPT !.up[u] = r]
    BY <1>0, <1>3, ZenonT(60) DEF Resolve, ListInv, Shape, List, Upstream
  <2>2. r.ref >= L.up[u].ref + n /\ L.up[u].dns = 0
    BY <1>0, <1>3 DEF Upstream
  <2> HIDE DEF m
  <2>3. /\ r \in Upstream /\ r.dns = n /\ r.idx = L.up[u].idx
        /\ r.place = L.up[u].place /\ r.timer = L.up[u].timer
        /\ r.pending = L.up[u].pending /\ r.probe = L.up[u].probe
        /\ r.half = L.up[u].half /\ r.inflight = L.up[u].inflight
    BY <1>0, <1>1, Zenon DEF Upstream
  <2> HIDE DEF r
  <2>4. Refs(r)
    BY <1>0, <2>2, <2>3 DEF Upstream, Sound, Refs, Need
  <2>5. Sound(r, Kind[u])
    BY <1>0, <2>3, <2>4 DEF Sound, Live, Back, Clock, Half, Gone
  <2>6. r.inflight <= L.up[u].inflight
    BY <1>0, <2>3 DEF Upstream
  <2> QED
    BY <2>1, <2>3, <2>5, <2>6, OneUpInv, OneUpTame
<1> QED
  BY <1>2, <1>3

(* rspamd_upstream_release lowers the load by one.                         *)
LEMMA ReleaseInv ==
  ASSUME NEW L, ListInv(L), NEW u \in Ups
  PROVE  /\ ListInv(Release(L, u)) /\ Tame(Release(L, u), L)
         /\ Release(L, u).up[u] = [L.up[u] EXCEPT !.inflight = Less(@, 1)]
<1> DEFINE i == Less(L.up[u].inflight, 1)
           r == [L.up[u] EXCEPT !.inflight = i]
<1>0. L.up[u] \in Upstream /\ Sound(L.up[u], Kind[u])
  BY UpTyped
<1>1. i \in Nat /\ i <= L.up[u].inflight
  BY <1>0 DEF Upstream, Less
<1>2. Release(L, u) = [L EXCEPT !.up[u] = r]
  BY DEF Release
<1> HIDE DEF i
<1>3. /\ r \in Upstream /\ r.idx = L.up[u].idx /\ r.inflight <= L.up[u].inflight
      /\ r.place = L.up[u].place /\ r.timer = L.up[u].timer
  BY <1>0, <1>1 DEF Upstream
<1>4. Sound(r, Kind[u])
  BY <1>0 DEF Upstream, Sound, Refs, Need, Live, Back, Clock, Half, Gone
<1> HIDE DEF r
<1>5. ListInv(Release(L, u)) /\ Tame(Release(L, u), L) /\ Release(L, u).up[u] = r
  BY <1>2, <1>3, <1>4, OneUpInv, OneUpTame
<1> QED
  BY <1>5 DEF r, i

(* rspamd_upstream_return_tokens changes the bucket alone.                 *)
LEMMA ReturnTokensInv ==
  ASSUME NEW L, ListInv(L), NEW u \in Ups, NEW tokens \in Nat, NEW success,
         NEW add \in Nat
  PROVE  LET M == ReturnTokens(L, u, tokens, success, add)
         IN  ListInv(M) /\ Tame(M, L)
<1> DEFINE M == ReturnTokens(L, u, tokens, success, add)
           t == Less(L.up[u].taken, tokens)
           more == IF L.up[u].place = "listed" THEN add ELSE 0
           back == IF success THEN AtMost(L.up[u].avail + tokens, MaxTokens)
                              ELSE L.up[u].avail
           a == Refilled(back, more)
           r == [L.up[u] EXCEPT !.taken = t, !.avail = a]
<1>0. L.up[u] \in Upstream /\ Sound(L.up[u], Kind[u])
  BY UpTyped
<1>1. t \in Nat
  BY <1>0 DEF Upstream, Less
<1>2. a \in 0..MaxTokens
  <2>1. back \in 0..MaxTokens /\ more \in Nat
    BY <1>0, UpsAssumption DEF Upstream, AtMost
  <2> QED
    BY <2>1, UpsAssumption DEF Refilled, AtMost
<1>3. CASE tokens = 0
  <2>1. \A w \in Ups : L.up[w].inflight \in Nat
    BY UpTyped DEF Upstream
  <2> QED
    BY <1>3, <2>1 DEF ReturnTokens, Tame
<1>4. CASE tokens # 0
  <2>1. M = [L EXCEPT !.up[u].taken = t, !.up[u].avail = a]
    BY <1>4 DEF ReturnTokens
  <2> HIDE DEF M, t, a
  <2>2. M = [L EXCEPT !.up[u] = r]
    BY <2>1, Zenon DEF ListInv, Shape, List, Upstream
  <2>3. /\ r \in Upstream /\ r.idx = L.up[u].idx /\ r.inflight = L.up[u].inflight
        /\ r.place = L.up[u].place /\ r.timer = L.up[u].timer
    BY <1>0, <1>1, <1>2, ZenonT(60) DEF Upstream
  <2>4. Sound(r, Kind[u])
    BY <1>0 DEF Upstream, Sound, Refs, Need, Live, Back, Clock, Half, Gone
  <2>5. r.inflight <= L.up[u].inflight
    BY <1>0, <2>3 DEF Upstream
  <2> HIDE DEF r
  <2> QED
    BY <2>2, <2>3, <2>4, <2>5, OneUpInv, OneUpTame DEF M
<1> QED
  BY <1>3, <1>4

(* A reference that nothing needs is released; the last one of a drained   *)
(* upstream frees it.                                                      *)
LEMMA UnrefInv ==
  ASSUME NEW L, ListInv(L), NEW u \in Ups, L.up[u].ref >= Need(L.up[u]) + 1
  PROVE  /\ ListInv(Unref(L, u))
         /\ \A w \in Ups : Unref(L, u).up[w].inflight <= L.up[w].inflight
         /\ \A w \in Ups :
              \/ /\ Unref(L, u).up[w].place = L.up[w].place
                 /\ Unref(L, u).up[w].timer = L.up[w].timer
              \/ w = u /\ Drained(L, u) /\ L.up[u].timer # "revive"
<1>0. L.up[u] \in Upstream /\ Sound(L.up[u], Kind[u])
  BY UpTyped
<1>1. \A w \in Ups : L.up[w].inflight \in Nat
  BY UpTyped DEF Upstream
<1>2. L.up[u].place # "absent"
  BY <1>0 DEF Upstream, Sound, Gone, Need
<1>3. CASE L.up[u].ref = 1
  <2>1. L.up[u].place = "drained" /\ L.up[u].timer # "revive" /\ L.up[u].idx = 0
    BY <1>0, <1>2, <1>3 DEF Upstream, Sound, Live, Need
  <2>2. Absent \in Upstream /\ Absent.idx = 0 /\ Absent.inflight = 0
    BY UpsAssumption DEF Absent, Upstream
  <2>3. Sound(Absent, Kind[u])
    BY DEF Absent, Sound, Refs, Need, Live, Back, Clock, Half, Gone
  <2>4. Unref(L, u) = [L EXCEPT !.up[u] = Absent]
    BY <1>3 DEF Unref
  <2>5. /\ ListInv(Unref(L, u))
        /\ \A w \in Ups : Unref(L, u).up[w] = IF w = u THEN Absent ELSE L.up[w]
    BY <2>1, <2>2, <2>3, <2>4, OneUpInv
  <2> QED
    BY <1>1, <2>1, <2>2, <2>5 DEF Drained
<1>4. CASE L.up[u].ref # 1
  <2> DEFINE m == L.up[u].ref - 1
             r == [L.up[u] EXCEPT !.ref = m]
  <2>1. m \in Nat /\ m >= Need(L.up[u]) /\ L.up[u].inflight <= L.up[u].inflight
    BY <1>0 DEF Upstream, Need
  <2>2. Unref(L, u) = [L EXCEPT !.up[u] = r]
    BY <1>4 DEF Unref
  <2> HIDE DEF m
  <2>3. /\ r \in Upstream /\ r.idx = L.up[u].idx /\ r.inflight = L.up[u].inflight
        /\ r.place = L.up[u].place /\ r.timer = L.up[u].timer
    BY <1>0, <2>1 DEF Upstream
  <2>4. Sound(r, Kind[u])
    BY <1>0, <1>2, <2>1 DEF Upstream, Sound, Refs, Need, Live, Back, Clock, Half, Gone
  <2> HIDE DEF r
  <2>5. /\ ListInv(Unref(L, u))
        /\ \A w \in Ups : Unref(L, u).up[w] = IF w = u THEN r ELSE L.up[w]
    BY <2>2, <2>3, <2>4, OneUpInv, SMTT(30)
  <2> QED
    BY <1>1, <2>1, <2>3, <2>5
<1> QED
  BY <1>3, <1>4

(* An upstream that is put back.  Before that only the others have to be   *)
(* sound, and the references of this one.                                  *)
Returning(L, u) ==
  /\ Shape(L)
  /\ \A w \in Ups \ {u} : Sound(L.up[w], Kind[w])
  /\ L.up[u].place = "listed" /\ Refs(L.up[u]) /\ Half(L.up[u], Kind[u])
  /\ L.up[u].idx = 0 \/ (Kind[u] = "numeric" /\ ~L.up[u].pending)
  /\ L.up[u].pending => Kind[u] # "numeric"

(* rspamd_upstream_set_active on an upstream that is not alive: it enters  *)
(* ls->alive if it can be asked, and waits for its addresses otherwise.    *)
LEMMA SetActiveInv ==
  ASSUME NEW L, NEW u \in Ups, Returning(L, u)
  PROVE  /\ ListInv(SetActive(L, u))
         /\ \A w \in Ups \ {u} : SetActive(L, u).up[w] = L.up[w]
         /\ LET r == SetActive(L, u).up[u]
            IN  /\ r.place = "listed" /\ r.ref = L.up[u].ref /\ r.dns = L.up[u].dns
                /\ r.inflight = L.up[u].inflight
                /\ r.timer \in {L.up[u].timer, "lazy"}
<1> DEFINE old == L.up[u]
           B == IF Kind[u] = "srv" \/ old.pending
                  THEN [L EXCEPT !.up[u].idx = 0] ELSE Enlist(L, u)
           b == B.up[u]
<1>0. old \in Upstream /\ L \in List
  BY DEF Returning, Shape, List
<1>1. /\ Shape(B) /\ \A w \in Ups \ {u} : B.up[w] = L.up[w]
      /\ Keeps(b, old) /\ Half(b, Kind[u])
      /\ (b.idx = 0 <=> Kind[u] = "srv" \/ old.pending)
  <2>1. CASE Kind[u] = "srv" \/ old.pending
    <3>1. old.idx = 0
      BY <2>1 DEF Returning
    <3>2. [old EXCEPT !.idx = 0] = old
      BY <3>1, <1>0 DEF Upstream
    <3>3. [L EXCEPT !.up[u].idx = 0] = L
      BY <3>2, <1>0 DEF List
    <3> QED
      BY <2>1, <3>1, <3>3, Zenon DEF Returning, Keeps
  <2>2. CASE ~(Kind[u] = "srv" \/ old.pending)
    <3>1. B = Enlist(L, u)
      BY <2>2
    <3>2. /\ Shape(Enlist(L, u)) /\ Keeps(Enlist(L, u).up[u], old)
          /\ \A w \in Ups \ {u} : Enlist(L, u).up[w] = L.up[w]
          /\ Enlist(L, u).up[u].idx # 0
      BY EnlistShape DEF Returning
    <3> QED
      BY <2>2, <3>1, <3>2 DEF Returning, Keeps, Half
  <2> QED
    BY <2>1, <2>2
<1>2. SetActive(L, u) = ScheduleResolve(B, u)
  BY DEF SetActive
<1> HIDE DEF B
<1>3. b \in Upstream
  BY <1>1, SMTT(30) DEF Shape, List
<1>4. CASE Kind[u] = "numeric"
  <2>1. SetActive(L, u) = B
    BY <1>2, <1>4, SMTT(30) DEF ScheduleResolve
  <2>2. Sound(b, Kind[u])
    BY <1>1, <1>3, <1>4
    DEF Returning, Keeps, Sound, Refs, Need, Live, Back, Clock, Gone
  <2>3. ListInv(B)
    BY <1>1, <2>2, SMTT(30) DEF ListInv, Returning
  <2> QED
    BY <1>1, <2>1, <2>3 DEF Returning, Keeps
<1>5. CASE Kind[u] # "numeric"
  <2> DEFINE r == [b EXCEPT !.timer = "lazy"]
  <2>1. SetActive(L, u) = [B EXCEPT !.up[u] = r]
    BY <1>2, <1>5 DEF ScheduleResolve
  <2>2. /\ r \in Upstream /\ r.timer = "lazy" /\ r.idx = b.idx /\ r.place = b.place
        /\ r.pending = b.pending /\ r.ref = b.ref /\ r.dns = b.dns
        /\ r.half = b.half /\ r.inflight = b.inflight
    BY <1>3, SMTT(30) DEF Upstream
  <2> HIDE DEF r
  <2>3. Sound(r, Kind[u])
    BY <1>0, <1>1, <2>2
    DEF Returning, Keeps, Upstream, Sound, Refs, Need, Live, Back, Clock, Half, Gone
  <2>4. /\ Shape(SetActive(L, u))
        /\ SetActive(L, u).up = [B.up EXCEPT ![u] = r]
    BY <1>1, <2>1, <2>2, OneUp, SMTT(30)
  <2>5. \A w \in Ups : SetActive(L, u).up[w] = IF w = u THEN r ELSE B.up[w]
    BY <1>1, <2>4, SMTT(30) DEF Shape, List
  <2> QED
    BY <1>1, <2>2, <2>3, <2>4, <2>5 DEF ListInv, Returning, Keeps
<1> QED
  BY <1>4, <1>5

(* An alive upstream that is taken out.                                    *)
LEMMA DelistInv ==
  ASSUME NEW L, ListInv(L), NEW u \in Ups, L.up[u].idx # 0
  PROVE  LET r == Delist(L, u).up[u]
         IN  /\ Shape(Delist(L, u)) /\ Tame(Delist(L, u), L)
             /\ \A w \in Ups \ {u} : Sound(Delist(L, u).up[w], Kind[w])
             /\ r \in Upstream /\ Refs(r) /\ Keeps(r, L.up[u])
             /\ Kind[u] # "numeric" => r.idx = 0
             /\ \A w \in Ups : Delist(L, u).up[w].dns = L.up[w].dns
<1> DEFINE M == Delist(L, u)
<1>1. /\ Shape(M)
      /\ \A w \in Ups : Keeps(M.up[w], L.up[w]) /\ M.up[w].probe = L.up[w].probe
      /\ \A w \in Ups \ {u} : M.up[w].idx # 0 <=> L.up[w].idx # 0
      /\ Kind[u] # "numeric" => M.up[u].idx = 0
      /\ \A w \in Ups \ {u} : M.up[w].half = L.up[w].half
  <2>1. \A w \in Ups \ {u} : M.up[w].half = L.up[w].half
    BY UpTyped DEF Delist, ListInv, Shape, List, Upstream
  <2> QED
    BY <2>1, DelistShape DEF ListInv
<1> HIDE DEF M
<1>2. \A w \in Ups : L.up[w] \in Upstream /\ M.up[w] \in Upstream /\ Sound(L.up[w], Kind[w])
  BY <1>1, UpTyped DEF Shape, List
<1>3. Tame(M, L)
  BY <1>1, <1>2, SMTT(30) DEF Tame, Keeps, Upstream
<1>4. \A w \in Ups \ {u} : Sound(M.up[w], Kind[w])
  BY <1>1, <1>2, SMTT(30) DEF Keeps, Sound, Refs, Need, Live, Back, Clock, Half, Gone
<1>5. Refs(M.up[u])
  BY <1>1, <1>2, SMTT(30) DEF Keeps, Sound, Refs, Need
<1> QED
  BY <1>1, <1>2, <1>3, <1>4, <1>5 DEF M, Keeps

(* DNS requests change an upstream only by their number and references.    *)
LEMMA ResolveRecord ==
  ASSUME NEW L, Shape(L), NEW u \in Ups, NEW n \in Nat, Refs(L.up[u])
  PROVE  LET r == Resolve(L, u, n).up[u]
         IN  /\ Shape(Resolve(L, u, n))
             /\ \A w \in Ups \ {u} : Resolve(L, u, n).up[w] = L.up[w]
             /\ r \in Upstream /\ Refs(r)
             /\ r.idx = L.up[u].idx /\ r.place = L.up[u].place
             /\ r.timer = L.up[u].timer /\ r.pending = L.up[u].pending
             /\ r.inflight = L.up[u].inflight
<1> DEFINE m == L.up[u].ref + n
           r == [L.up[u] EXCEPT !.dns = n, !.ref = m]
<1>0. L \in List /\ L.up[u] \in Upstream /\ m \in Nat
  BY SMTT(30) DEF Shape, List, Upstream
<1>1. CASE Drained(L, u) \/ Kind[u] = "numeric" \/ L.up[u].dns # 0
  BY <1>0, <1>1 DEF Resolve
<1>2. CASE ~(Drained(L, u) \/ Kind[u] = "numeric" \/ L.up[u].dns # 0)
  <2>1. Resolve(L, u, n) = [L EXCEPT !.up[u] = r]
    BY <1>0, <1>2, ZenonT(60) DEF Resolve, List, Upstream
  <2>2. m >= L.up[u].ref + n /\ L.up[u].dns = 0
    BY <1>0, <1>2 DEF Upstream
  <2> HIDE DEF m
  <2>3. /\ r \in Upstream /\ r.dns = n /\ r.ref = m
        /\ r.idx = L.up[u].idx /\ r.place = L.up[u].place
        /\ r.timer = L.up[u].timer /\ r.pending = L.up[u].pending
        /\ r.inflight = L.up[u].inflight
    BY <1>0, ZenonT(60) DEF Upstream
  <2> HIDE DEF r
  <2>4. Refs(r)
    BY <1>0, <2>2, <2>3 DEF Upstream, Refs, Need
  <2>5. /\ Shape([L EXCEPT !.up[u] = r])
        /\ \A w \in Ups : [L EXCEPT !.up[u] = r].up[w] = IF w = u THEN r ELSE L.up[w]
    <3>1. \A w \in Ups : [L.up EXCEPT ![u] = r][w] = IF w = u THEN r ELSE L.up[w]
      BY <1>0 DEF List
    <3> QED
      BY <2>3, <3>1, OneUp
  <2> QED
    BY <2>1, <2>3, <2>4, <2>5
<1> QED
  BY <1>1, <1>2

(* rspamd_upstream_set_inactive arms the revive timer and counts it.       *)
LEMMA SetInactiveInv ==
  ASSUME NEW L, ListInv(L), NEW u \in Ups, L.up[u].idx # 0, NEW n \in Nat
  PROVE  ListInv(SetInactive(L, u, n)) /\ Tame(SetInactive(L, u, n), L)
<1> DEFINE D == Delist(L, u)
           R == Resolve(D, u, n)
           b == R.up[u]
           m == b.ref + 1
           r == [b EXCEPT !.ref = m, !.timer = "revive", !.probe = "later"]
           M == SetInactive(L, u, n)
<1>0. L.up[u] \in Upstream /\ Sound(L.up[u], Kind[u])
  BY UpTyped
<1>1. /\ Shape(D) /\ Tame(D, L) /\ \A w \in Ups \ {u} : Sound(D.up[w], Kind[w])
      /\ Refs(D.up[u]) /\ Keeps(D.up[u], L.up[u])
      /\ Kind[u] # "numeric" => D.up[u].idx = 0
  BY DelistInv, SMTT(30)
<1> HIDE DEF D
<1>2. /\ Shape(R) /\ \A w \in Ups \ {u} : R.up[w] = D.up[w]
      /\ b \in Upstream /\ Refs(b) /\ b.idx = D.up[u].idx
      /\ b.place = D.up[u].place /\ b.pending = D.up[u].pending
      /\ b.inflight = D.up[u].inflight
  BY <1>1, ResolveRecord
<1>3. M = [R EXCEPT !.up[u].ref = m, !.up[u].timer = "revive", !.up[u].probe = "later"]
  BY DEF SetInactive, D
<1> HIDE DEF R, M
<1>4. M = [R EXCEPT !.up[u] = r]
  BY <1>2, <1>3, ZenonT(60) DEF Shape, List, Upstream
<1>5. m \in Nat /\ m >= b.ref + 1
  BY <1>2 DEF Upstream
<1> HIDE DEF m
<1>6. /\ r \in Upstream /\ r.ref = m /\ r.timer = "revive" /\ r.probe = "later"
      /\ r.idx = b.idx /\ r.place = b.place /\ r.pending = b.pending
      /\ r.dns = b.dns /\ r.inflight = b.inflight /\ r.half = b.half
  BY <1>2, <1>5, Zenon DEF Upstream
<1> HIDE DEF r
<1>7. b.place = "listed" /\ ~b.pending /\ Kind[u] # "srv"
  BY <1>0, <1>1, <1>2 DEF Sound, Live, Keeps
<1>8. Sound(r, Kind[u])
  BY <1>1, <1>2, <1>5, <1>6, <1>7
  DEF Upstream, Sound, Refs, Need, Live, Back, Clock, Half, Gone
<1>9. /\ Shape(M)
      /\ \A w \in Ups : M.up[w] = IF w = u THEN r ELSE R.up[w]
  <2>1. \A w \in Ups : [R.up EXCEPT ![u] = r][w] = IF w = u THEN r ELSE R.up[w]
    BY <1>2 DEF Shape, List
  <2> QED
    BY <1>2, <1>4, <1>6, <2>1, OneUp
<1>10. ListInv(M)
  BY <1>1, <1>2, <1>8, <1>9 DEF ListInv
<1>11. Tame(M, L)
  <2>1. \A w \in Ups \ {u} : M.up[w] = D.up[w]
    BY <1>2, <1>9
  <2>2. /\ M.up[u].place = D.up[u].place /\ M.up[u].place = "listed"
        /\ M.up[u].inflight = D.up[u].inflight
    BY <1>2, <1>6, <1>7, <1>9
  <2> QED
    BY <1>1, <2>1, <2>2, ZenonT(60) DEF Tame
<1> QED
  BY <1>10, <1>11 DEF M

(* Tame is transitive.                                                     *)
LEMMA TameTrans ==
  ASSUME NEW L, NEW M, NEW N, ListInv(L), ListInv(M), ListInv(N),
         Tame(M, L), Tame(N, M)
  PROVE  Tame(N, L)
<1>1. \A w \in Ups : /\ L.up[w].inflight \in Nat /\ M.up[w].inflight \in Nat
                     /\ N.up[w].inflight \in Nat
  BY UpTyped DEF Upstream
<1> QED
  BY <1>1 DEF Tame

(* A change of the error counters, or of what is being probed.             *)
LEMMA MarkInv ==
  ASSUME NEW L, ListInv(L), NEW u \in Ups, NEW e \in BOOLEAN
  PROVE  /\ ListInv([L EXCEPT !.up[u].errs = e]) /\ Tame([L EXCEPT !.up[u].errs = e], L)
         /\ ListInv([L EXCEPT !.up[u].half = FALSE])
         /\ Tame([L EXCEPT !.up[u].half = FALSE], L)
<1> DEFINE r == [L.up[u] EXCEPT !.errs = e]
           s == [L.up[u] EXCEPT !.half = FALSE]
<1>0. L.up[u] \in Upstream /\ Sound(L.up[u], Kind[u])
  BY UpTyped
<1>1. /\ r \in Upstream /\ r.idx = L.up[u].idx /\ r.inflight <= L.up[u].inflight
      /\ r.place = L.up[u].place /\ r.timer = L.up[u].timer
  BY <1>0 DEF Upstream
<1>2. /\ s \in Upstream /\ s.idx = L.up[u].idx /\ s.inflight <= L.up[u].inflight
      /\ s.place = L.up[u].place /\ s.timer = L.up[u].timer
  <2>1. ASSUME NEW h \in BOOLEAN
        PROVE  LET t == [L.up[u] EXCEPT !.half = h]
               IN  /\ t \in Upstream /\ t.idx = L.up[u].idx
                   /\ t.inflight = L.up[u].inflight
                   /\ t.place = L.up[u].place /\ t.timer = L.up[u].timer
    BY <1>0 DEF Upstream
  <2>2. L.up[u].inflight <= L.up[u].inflight
    BY <1>0 DEF Upstream
  <2> QED
    BY <2>1, <2>2, Zenon
<1>3. Sound(r, Kind[u]) /\ Sound(s, Kind[u])
  BY <1>0 DEF Upstream, Sound, Refs, Need, Live, Back, Clock, Half, Gone
<1>4. ListInv([L EXCEPT !.up[u] = r]) /\ Tame([L EXCEPT !.up[u] = r], L)
  BY <1>1, <1>3, OneUpInv, OneUpTame, Zenon
<1>5. ListInv([L EXCEPT !.up[u] = s]) /\ Tame([L EXCEPT !.up[u] = s], L)
  BY <1>2, <1>3, OneUpInv, OneUpTame, ZenonT(60)
<1>6. /\ [L EXCEPT !.up[u].errs = e] = [L EXCEPT !.up[u] = r]
      /\ [L EXCEPT !.up[u].half = FALSE] = [L EXCEPT !.up[u] = s]
  OBVIOUS
<1> QED
  BY <1>4, <1>5, <1>6, Zenon

(* The error window of rspamd_upstream_fail, which may deactivate.         *)
LEMMA CountFailureInv ==
  ASSUME NEW L, ListInv(L), NEW u \in Ups, L.up[u].idx # 0,
         NEW verdict \in Verdicts, NEW n \in Nat
  PROVE  /\ ListInv(CountFailure(L, u, verdict, n))
         /\ Tame(CountFailure(L, u, verdict, n), L)
<1> DEFINE E(M, e) == [M EXCEPT !.up[u].errs = e]
<1>0. L.up[u].place # "absent"
  BY UpTyped DEF Sound, Live
<1>1. ASSUME NEW e \in BOOLEAN
      PROVE  /\ ListInv(Resolve(E(L, e), u, n)) /\ Tame(Resolve(E(L, e), u, n), L)
  <2>1. ListInv(E(L, e)) /\ Tame(E(L, e), L)
    BY MarkInv, Zenon
  <2> HIDE DEF E
  <2>2. E(L, e).up[u].place # "absent"
    BY <1>0, <2>1 DEF Tame
  <2>3. ListInv(Resolve(E(L, e), u, n)) /\ Tame(Resolve(E(L, e), u, n), E(L, e))
    BY <2>1, <2>2, ResolveInv
  <2> QED
    BY <2>1, <2>3, TameTrans
<1>2. /\ ListInv(E(SetInactive(L, u, n), FALSE))
      /\ Tame(E(SetInactive(L, u, n), FALSE), L)
  <2> DEFINE S == SetInactive(L, u, n)
  <2>1. ListInv(S) /\ Tame(S, L)
    BY SetInactiveInv
  <2> HIDE DEF S
  <2>2. ListInv(E(S, FALSE)) /\ Tame(E(S, FALSE), S)
    BY <2>1, MarkInv, Zenon
  <2> HIDE DEF E
  <2>3. Tame(E(S, FALSE), L)
    BY <2>1, <2>2, TameTrans, Zenon
  <2> QED
    BY <2>2, <2>3, Zenon DEF S
<1>3. Tame(L, L)
  BY UpTyped DEF Tame, Upstream
<1> QED
  BY <1>1, <1>2, <1>3, Zenon DEF CountFailure

(* rspamd_upstream_fail gives the request back, whatever else it does.     *)
LEMMA FailInv ==
  ASSUME NEW L, ListInv(L), NEW u \in Ups, NEW verdict \in Verdicts, NEW n \in Nat
  PROVE  LET M == Fail(L, u, verdict, n)
         IN  /\ ListInv(M) /\ Tame(M, L)
             /\ M.up[u].inflight <= Less(L.up[u].inflight, 1)
<1> DEFINE R == Release(L, u)
           C == CountFailure(R, u, verdict, n)
           H == [C EXCEPT !.up[u].half = FALSE]
<1>0. Fail(L, u, verdict, n) =
        IF L.up[u].idx = 0 \/ L.up[u].place # "listed" THEN R ELSE H
  BY Zenon DEF Fail
<1>1. /\ ListInv(R) /\ Tame(R, L)
      /\ R.up[u] = [L.up[u] EXCEPT !.inflight = Less(@, 1)]
  BY ReleaseInv
<1>2. R.up[u].inflight = Less(L.up[u].inflight, 1) /\ R.up[u].idx = L.up[u].idx
  BY <1>1, UpTyped DEF Upstream
<1> HIDE DEF R
<1>3. CASE L.up[u].idx = 0 \/ L.up[u].place # "listed"
  <2>1. R.up[u].inflight \in Nat
    BY <1>1, UpTyped DEF Upstream
  <2> QED
    <3>1. Fail(L, u, verdict, n) = R
      BY <1>0, <1>3
    <3>2. R.up[u].inflight <= Less(L.up[u].inflight, 1)
      BY <1>2, <2>1
    <3> QED
      BY <1>1, <3>1, <3>2, Zenon
<1>4. CASE ~(L.up[u].idx = 0 \/ L.up[u].place # "listed")
  <2>1. ListInv(C) /\ Tame(C, R)
    BY <1>1, <1>2, <1>4, CountFailureInv, Zenon
  <2> HIDE DEF C
  <2>2. ListInv(H) /\ Tame(H, C)
    BY <2>1, MarkInv, Zenon
  <2>3. Fail(L, u, verdict, n) = H
    BY <1>0, <1>4
  <2> HIDE DEF H
  <2>4. Tame(H, R)
    BY <1>1, <2>1, <2>2, TameTrans
  <2>5. Tame(H, L)
    BY <1>1, <2>2, <2>4, TameTrans
  <2>6. H.up[u].inflight <= Less(L.up[u].inflight, 1)
    BY <1>2, <2>4 DEF Tame
  <2> QED
    BY <2>2, <2>3, <2>5, <2>6
<1> QED
  BY <1>3, <1>4

(* rspamd_upstream_ok gives the request back, and reactivates what was     *)
(* probed.                                                                 *)
LEMMA OkInv ==
  ASSUME NEW L, ListInv(L), NEW u \in Ups
  PROVE  /\ ListInv(Ok(L, u)) /\ Tame(Ok(L, u), L)
         /\ Ok(L, u).up[u].inflight <= Less(L.up[u].inflight, 1)
<1> DEFINE R == Release(L, u)
           probed == [R EXCEPT !.up[u].half = FALSE]
           P == IF ~R.up[u].half \/ Drained(R, u) THEN R
                ELSE IF R.up[u].idx = 0 THEN SetActive(probed, u)
                ELSE probed
           E == [P EXCEPT !.up[u].errs = FALSE]
<1>0. Ok(L, u) = IF P.up[u].idx # 0 THEN E ELSE P
  BY Zenon DEF Ok
<1>1. /\ ListInv(R) /\ Tame(R, L)
      /\ R.up[u] = [L.up[u] EXCEPT !.inflight = Less(@, 1)]
  BY ReleaseInv
<1>2. R.up[u].inflight = Less(L.up[u].inflight, 1)
  BY <1>1, UpTyped DEF Upstream
<1> HIDE DEF R
<1>3. ListInv(probed) /\ Tame(probed, R)
  BY <1>1, MarkInv, Zenon
<1>4. probed.up[u].pending = R.up[u].pending /\ probed.up[u].idx = R.up[u].idx
  BY <1>1, SMTT(30) DEF ListInv, Shape, List, Upstream
<1> HIDE DEF probed
<1>5. ListInv(P) /\ Tame(P, R)
  <2>1. CASE ~R.up[u].half \/ Drained(R, u)
    BY <2>1, <1>1, UpTyped DEF Tame, Upstream
  <2>2. CASE ~(~R.up[u].half \/ Drained(R, u)) /\ R.up[u].idx # 0
    BY <2>2, <1>3
  <2>3. CASE ~(~R.up[u].half \/ Drained(R, u)) /\ R.up[u].idx = 0
    <3>1. R.up[u].place = "listed" /\ ~R.up[u].pending
      BY <2>3, <1>1, UpTyped DEF Sound, Half
    <3>2. probed.up[u].place = "listed"
      BY <3>1, <1>3 DEF Tame
    <3>3. Refs(probed.up[u]) /\ Half(probed.up[u], Kind[u])
      BY <1>3, UpTyped DEF Sound
    <3>4. Returning(probed, u)
      BY <2>3, <3>1, <3>2, <3>3, <1>3, <1>4 DEF Returning, ListInv
    <3> DEFINE S == SetActive(probed, u)
    <3>5. /\ ListInv(S) /\ \A w \in Ups \ {u} : S.up[w] = probed.up[w]
          /\ S.up[u].place = "listed" /\ S.up[u].inflight = probed.up[u].inflight
      BY <3>4, SetActiveInv
    <3>6. P = S
      BY <2>3
    <3> HIDE DEF S, P
    <3>7. \A w \in Ups : probed.up[w].inflight \in Nat
      BY <1>3, UpTyped DEF Upstream
    <3>8. Tame(S, probed)
      BY <3>2, <3>5, <3>7 DEF Tame
    <3>9. Tame(S, R)
      BY <3>5, <3>8, <1>1, <1>3, TameTrans
    <3> QED
      BY <3>5, <3>6, <3>9
  <2> QED
    BY <2>1, <2>2, <2>3
<1> HIDE DEF P
<1>6. ListInv(E) /\ Tame(E, P)
  BY <1>5, MarkInv, ZenonT(60)
<1> HIDE DEF E
<1>7. Tame(E, R)
  BY <1>1, <1>5, <1>6, TameTrans
<1>8. ListInv(Ok(L, u)) /\ Tame(Ok(L, u), R)
  BY <1>0, <1>5, <1>6, <1>7
<1>9. Tame(Ok(L, u), L)
  BY <1>1, <1>8, TameTrans
<1>10. Ok(L, u).up[u].inflight <= Less(L.up[u].inflight, 1)
  BY <1>2, <1>8, SMTT(30) DEF Tame
<1> QED
  BY <1>8, <1>9, <1>10

(* rspamd_upstream_revive_cb: an upstream comes back, or a drained one is  *)
(* freed.                                                                  *)
LEMMA ReviveCbInv ==
  ASSUME NEW L, ListInv(L), NEW u \in Ups, L.up[u].timer = "revive"
  PROVE  LET M == ReviveCb(L, u)
         IN  /\ ListInv(M)
             /\ \A w \in Ups : M.up[w].inflight <= L.up[w].inflight
             /\ \A w \in Ups : w # u \/ ~Drained(L, u) =>
                  /\ M.up[w].place = L.up[w].place
                  /\ M.up[w].place = "drained" => M.up[w].timer = L.up[w].timer
<1> DEFINE off == [L EXCEPT !.up[u].timer = "off"]
           r == [L.up[u] EXCEPT !.timer = "off"]
           B == IF Drained(L, u) THEN off ELSE SetActive(off, u)
<1>0. L.up[u] \in Upstream /\ Sound(L.up[u], Kind[u])
  BY UpTyped
<1>1. /\ r \in Upstream /\ r.idx = L.up[u].idx /\ r.place = L.up[u].place
      /\ r.timer = "off" /\ r.ref = L.up[u].ref /\ r.dns = L.up[u].dns
      /\ r.pending = L.up[u].pending /\ r.half = L.up[u].half
      /\ r.inflight = L.up[u].inflight
  BY <1>0 DEF Upstream
<1>2. ReviveCb(L, u) = Unref(B, u)
  BY Zenon DEF ReviveCb
<1>3. off = [L EXCEPT !.up[u] = r]
  OBVIOUS
<1>4. r.ref >= Need(r) + 1 /\ L.up[u].place # "absent"
  BY <1>0, <1>1 DEF Upstream, Sound, Refs, Need, Gone
<1> HIDE DEF off, r
<1>5. \A w \in Ups : /\ L.up[w].inflight \in Nat
                     /\ L.up[w].inflight <= L.up[w].inflight
  BY UpTyped, SMTT(30) DEF Upstream
<1>6. /\ ListInv(B) /\ B.up[u].ref >= Need(B.up[u]) + 1
      /\ \A w \in Ups \ {u} : B.up[w] = L.up[w]
      /\ B.up[u].place = L.up[u].place /\ B.up[u].inflight = L.up[u].inflight
  <2>1. CASE Drained(L, u)
    <3>1. Sound(r, Kind[u])
      BY <2>1, <1>0, <1>1, <1>4
      DEF Drained, Upstream, Sound, Refs, Need, Live, Back, Clock, Half, Gone
    <3>2. /\ ListInv(off)
          /\ \A w \in Ups : off.up[w] = IF w = u THEN r ELSE L.up[w]
      BY <3>1, <1>1, <1>3, OneUpInv, SMTT(30)
    <3> QED
      BY <2>1, <3>2, <1>1, <1>4, SMTT(30)
  <2>2. CASE ~Drained(L, u)
    <3>1. L.up[u].place = "listed"
      BY <2>2, <1>0, <1>4 DEF Drained, Upstream
    <3>2. /\ Shape(off)
          /\ \A w \in Ups : off.up[w] = IF w = u THEN r ELSE L.up[w]
      <4>1. \A w \in Ups : [L.up EXCEPT ![u] = r][w] = IF w = u THEN r ELSE L.up[w]
        BY DEF ListInv, Shape, List
      <4> QED
        BY <4>1, <1>1, <1>3, OneUp DEF ListInv
    <3>3. ~r.pending /\ (r.idx = 0 \/ Kind[u] = "numeric")
      <4>1. Clock(L.up[u], Kind[u])
        BY <1>0 DEF Sound
      <4>2. ~L.up[u].pending /\ (L.up[u].idx = 0 \/ Kind[u] = "numeric")
        BY <4>1, <3>1, SMTT(30) DEF Clock
      <4> QED
        BY <4>2, <1>1
    <3>4. Refs(r) /\ Half(r, Kind[u])
      BY <1>0, <1>1, <1>4, SMTT(30) DEF Upstream, Sound, Refs, Need, Half
    <3>5. Returning(off, u)
      BY <3>1, <3>2, <3>3, <3>4, <1>1, SMTT(30) DEF Returning, ListInv
    <3> DEFINE S == SetActive(off, u)
    <3>6. /\ ListInv(S) /\ \A w \in Ups \ {u} : S.up[w] = off.up[w]
          /\ S.up[u].place = "listed" /\ S.up[u].ref = off.up[u].ref
          /\ S.up[u].dns = off.up[u].dns /\ S.up[u].inflight = off.up[u].inflight
          /\ S.up[u].timer \in {off.up[u].timer, "lazy"}
      BY <3>5, SetActiveInv
    <3>7. B = S
      BY <2>2
    <3> HIDE DEF S, B
    <3>8. S.up[u].ref >= Need(S.up[u]) + 1
      <4>1. off.up[u] = r /\ r.place = "listed"
        BY <3>1, <3>2, <1>1, SMTT(30)
      <4> QED
        BY <4>1, <3>6, <1>1, <1>4 DEF Need
    <3> QED
      BY <3>1, <3>2, <3>6, <3>7, <3>8, <1>1
  <2> QED
    BY <2>1, <2>2
<1> HIDE DEF B
<1>7. /\ ListInv(Unref(B, u))
      /\ \A w \in Ups : Unref(B, u).up[w].inflight <= B.up[w].inflight
      /\ \A w \in Ups :
           \/ /\ Unref(B, u).up[w].place = B.up[w].place
              /\ Unref(B, u).up[w].timer = B.up[w].timer
           \/ w = u /\ Drained(B, u) /\ B.up[u].timer # "revive"
  BY <1>6, UnrefInv
<1>8. \A w \in Ups : B.up[w].inflight = L.up[w].inflight /\ B.up[w].place = L.up[w].place
  BY <1>6, SMTT(30)
<1> QED
  BY <1>2, <1>6, <1>7, <1>8 DEF Drained

(* A DNS callback ends: its reference is released.                         *)
LEMMA DnsEndInv ==
  ASSUME NEW L, ListInv(L), NEW u \in Ups, L.up[u].dns > 0, NEW f \in BOOLEAN
  PROVE  LET M == [L EXCEPT !.up[u].dns = @ - 1, !.up[u].fresh = f]
             N == [L EXCEPT !.up[u].dns = @ - 1]
             r == M.up[u]
         IN  /\ ListInv(M) /\ Tame(M, L) /\ ListInv(N) /\ Tame(N, L)
             /\ r.ref >= Need(r) + 1 /\ N.up[u].ref >= Need(N.up[u]) + 1
             /\ r.pending = L.up[u].pending /\ r.timer = L.up[u].timer
             /\ N.up[u].timer = L.up[u].timer
<1> DEFINE d == L.up[u].dns - 1
           r == [L.up[u] EXCEPT !.dns = d, !.fresh = f]
           s == [L.up[u] EXCEPT !.dns = d]
           M == [L EXCEPT !.up[u].dns = d, !.up[u].fresh = f]
           N == [L EXCEPT !.up[u].dns = d]
<1>0. L.up[u] \in Upstream /\ Sound(L.up[u], Kind[u]) /\ L \in List
  BY UpTyped DEF ListInv, Shape
<1>1. d \in Nat /\ d + 1 = L.up[u].dns
  BY <1>0 DEF Upstream
<1> HIDE DEF d
<1>2. M = [L EXCEPT !.up[u] = r] /\ N = [L EXCEPT !.up[u] = s]
  BY <1>0, ZenonT(60) DEF List, Upstream
<1>3. /\ r \in Upstream /\ r.idx = L.up[u].idx /\ r.place = L.up[u].place
      /\ r.timer = L.up[u].timer /\ r.ref = L.up[u].ref /\ r.dns = d
      /\ r.pending = L.up[u].pending /\ r.half = L.up[u].half
      /\ r.inflight = L.up[u].inflight /\ r.probe = L.up[u].probe
  BY <1>0, <1>1, Zenon DEF Upstream
<1>4. /\ s \in Upstream /\ s.idx = L.up[u].idx /\ s.place = L.up[u].place
      /\ s.timer = L.up[u].timer /\ s.ref = L.up[u].ref /\ s.dns = d
      /\ s.pending = L.up[u].pending /\ s.half = L.up[u].half
      /\ s.inflight = L.up[u].inflight /\ s.probe = L.up[u].probe
  BY <1>0, <1>1 DEF Upstream
<1> HIDE DEF r, s, M, N
<1>5. r.ref >= Need(r) + 1 /\ s.ref >= Need(s) + 1
  BY <1>0, <1>1, <1>3, <1>4 DEF Upstream, Sound, Refs, Need
<1>6. Sound(r, Kind[u]) /\ Sound(s, Kind[u])
  <2>1. Refs(r) /\ Refs(s)
    BY <1>3, <1>4, <1>5 DEF Upstream, Refs, Need
  <2> QED
    BY <2>1, <1>0, <1>3, <1>4, SMTT(30) DEF Sound, Live, Back, Clock, Half,
       Gone
<1>7. L.up[u].inflight <= L.up[u].inflight
  BY <1>0 DEF Upstream
<1>8. ListInv(M) /\ Tame(M, L) /\ M.up[u] = r
  BY <1>2, <1>3, <1>6, <1>7, OneUpInv, OneUpTame
<1>9. ListInv(N) /\ Tame(N, L) /\ N.up[u] = s
  BY <1>2, <1>4, <1>6, <1>7, OneUpInv, OneUpTame, SMTT(30)
<1> QED
  BY <1>3, <1>4, <1>5, <1>8, <1>9, SMTT(30) DEF d, M, N

(* The conclusion about the callbacks that release a reference.            *)
Freed(M, L, u) ==
  /\ \A w \in Ups : M.up[w].inflight <= L.up[w].inflight
  /\ \A w \in Ups :
       \/ /\ M.up[w].place = L.up[w].place
          /\ M.up[w].place = "drained" => M.up[w].timer = L.up[w].timer
       \/ w = u /\ Drained(L, u) /\ L.up[u].timer # "revive"

(* The reference that a callback releases after a tame change.             *)
LEMMA UnrefTame ==
  ASSUME NEW L, NEW M, NEW u \in Ups, ListInv(L), ListInv(M), Tame(M, L),
         M.up[u].ref >= Need(M.up[u]) + 1
  PROVE  ListInv(Unref(M, u)) /\ Freed(Unref(M, u), L, u)
<1>1. /\ ListInv(Unref(M, u))
      /\ \A w \in Ups : Unref(M, u).up[w].inflight <= M.up[w].inflight
      /\ \A w \in Ups :
           \/ /\ Unref(M, u).up[w].place = M.up[w].place
              /\ Unref(M, u).up[w].timer = M.up[w].timer
           \/ w = u /\ Drained(M, u) /\ M.up[u].timer # "revive"
  BY UnrefInv
<1> DEFINE N == Unref(M, u)
<1>2. \A w \in Ups : /\ N.up[w].inflight \in Nat /\ M.up[w].inflight \in Nat
                     /\ L.up[w].inflight \in Nat
  BY <1>1, UpTyped, SMTT(30) DEF Upstream
<1> HIDE DEF N
<1>3. \A w \in Ups : N.up[w].inflight <= L.up[w].inflight
  BY <1>1, <1>2 DEF Tame, N
<1>4. ASSUME NEW w \in Ups
      PROVE  \/ /\ N.up[w].place = L.up[w].place
                /\ N.up[w].place = "drained" => N.up[w].timer = L.up[w].timer
             \/ w = u /\ Drained(L, u) /\ L.up[u].timer # "revive"
  BY <1>1 DEF Tame, Drained, N
<1> QED
  BY <1>1, <1>3, <1>4, SMTT(30) DEF Freed, N

(* rspamd_upstream_dns_srv_cb at its end.                                  *)
LEMMA SrvEndInv ==
  ASSUME NEW L, ListInv(L), NEW u \in Ups, L.up[u].dns > 0
  PROVE  LET N == [L EXCEPT !.up[u].dns = @ - 1]
         IN  ListInv(Unref(N, u)) /\ Freed(Unref(N, u), L, u)
<1> DEFINE N == [L EXCEPT !.up[u].dns = @ - 1]
<1>1. ListInv(N) /\ Tame(N, L) /\ N.up[u].ref >= Need(N.up[u]) + 1
  BY DnsEndInv, Zenon
<1> HIDE DEF N
<1>2. ListInv(Unref(N, u)) /\ Freed(Unref(N, u), L, u)
  BY <1>1, UnrefTame
<1> QED
  BY <1>2, SMTT(30) DEF N

(* An upstream with a reference to spare.                                  *)
Spare(L, u) == L.up[u].ref >= Need(L.up[u]) + 1

(* rspamd_upstream_promote_pending, while a callback holds the upstream.   *)
LEMMA PromoteInv ==
  ASSUME NEW L, ListInv(L), NEW u \in Ups, Kind[u] # "srv", Spare(L, u)
  PROVE  /\ ListInv(Promote(L, u)) /\ Tame(Promote(L, u), L)
         /\ Spare(Promote(L, u), u)
<1>0. L.up[u] \in Upstream /\ Sound(L.up[u], Kind[u])
  BY UpTyped
<1>1. \A w \in Ups : L.up[w].inflight \in Nat
  BY UpTyped DEF Upstream
<1>2. CASE ~(L.up[u].place = "listed" /\ L.up[u].pending)
  BY <1>1, <1>2 DEF Promote, Tame
<1>3. CASE L.up[u].place = "listed" /\ L.up[u].pending
  <2> DEFINE r == [L.up[u] EXCEPT !.pending = FALSE]
             A == [L EXCEPT !.up[u].pending = FALSE]
             M == Enlist(A, u)
             b == M.up[u]
  <2>1. M = Promote(L, u)
    BY <1>3 DEF Promote
  <2>2. A = [L EXCEPT !.up[u] = r]
    OBVIOUS
  <2>3. /\ r \in Upstream /\ r.idx = L.up[u].idx /\ r.place = "listed"
        /\ ~r.pending /\ r.timer = L.up[u].timer /\ r.ref = L.up[u].ref
        /\ r.dns = L.up[u].dns /\ r.inflight = L.up[u].inflight
    <3>1. ASSUME NEW p \in BOOLEAN
          PROVE  LET t == [L.up[u] EXCEPT !.pending = p]
                 IN  /\ t \in Upstream /\ t.idx = L.up[u].idx
                     /\ t.place = L.up[u].place /\ t.pending = p
                     /\ t.timer = L.up[u].timer /\ t.ref = L.up[u].ref
                     /\ t.dns = L.up[u].dns /\ t.inflight = L.up[u].inflight
      BY <1>0, SMTT(30) DEF Upstream
    <3> QED
      BY <3>1, <1>3, Zenon
  <2> HIDE DEF r, A
  <2>4. r.idx = 0 /\ r.timer # "revive"
    BY <1>0, <1>3, <2>3 DEF Sound, Live, Clock
  <2>5. Shape(A) /\ \A w \in Ups : A.up[w] = IF w = u THEN r ELSE L.up[w]
    <3>1. \A w \in Ups : [L.up EXCEPT ![u] = r][w] = IF w = u THEN r ELSE L.up[w]
      BY DEF ListInv, Shape, List
    <3> QED
      BY <2>2, <2>3, <3>1, OneUp DEF ListInv
  <2>6. /\ Shape(M) /\ \A w \in Ups \ {u} : M.up[w] = A.up[w]
        /\ Keeps(b, r) /\ b.idx # 0
    BY <2>4, <2>5, EnlistShape, SMTT(30)
  <2> HIDE DEF M
  <2>7. b.ref >= Need(b) + 1 /\ Refs(b)
    BY <1>0, <1>3, <2>3, <2>6, SMTT(30) DEF Keeps, Spare, Need, Refs, Upstream
  <2>8. Sound(b, Kind[u])
    BY <2>3, <2>4, <2>6, <2>7 DEF Keeps, Sound, Live, Back, Clock, Half, Gone
  <2>9. \A w \in Ups : M.up[w] = IF w = u THEN b ELSE L.up[w]
    BY <2>5, <2>6, SMTT(30)
  <2>10. ListInv(M)
    BY <2>6, <2>8, <2>9 DEF ListInv
  <2>11. Tame(M, L)
    <3>1. b.place = L.up[u].place /\ b.inflight = L.up[u].inflight /\ b.place = "listed"
      BY <1>3, <2>3, <2>6 DEF Keeps
    <3> QED
      <4>1. L.up[u].inflight <= L.up[u].inflight
        BY <1>1
      <4>2. /\ M.up[u].place = L.up[u].place /\ M.up[u].place # "drained"
            /\ M.up[u].inflight <= L.up[u].inflight
        BY <3>1, <4>1, <2>9
      <4>3. \A w \in Ups \ {u} : M.up[w] = L.up[w] /\ M.up[w].inflight <= L.up[w].inflight
        BY <1>1, <2>9, SMTT(30)
      <4> QED
        BY <4>2, <4>3 DEF Tame
  <2> QED
    BY <2>1, <2>7, <2>10, <2>11 DEF Spare
<1> QED
  BY <1>2, <1>3

(* rspamd_upstream_dns_cb.                                                 *)
LEMMA DnsCbInv ==
  ASSUME NEW L, ListInv(L), NEW u \in Ups, Kind[u] # "srv", L.up[u].dns > 0,
         NEW found \in BOOLEAN
  PROVE  ListInv(DnsCb(L, u, found)) /\ Freed(DnsCb(L, u, found), L, u)
<1> DEFINE f == L.up[u].fresh \/ found
           got == [L EXCEPT !.up[u].dns = @ - 1, !.up[u].fresh = f]
           none == [L EXCEPT !.up[u].dns = @ - 1]
           done == [got EXCEPT !.up[u].fresh = FALSE]
           B == IF Drained(L, u) THEN none
                ELSE IF got.up[u].dns = 0 THEN UpdateAddrs(got, u) ELSE got
<1>0. DnsCb(L, u, found) = Unref(B, u)
  BY Zenon DEF DnsCb
<1>1. f \in BOOLEAN
  BY SMTT(30)
<1> HIDE DEF f
<1>2. /\ ListInv(got) /\ Tame(got, L) /\ Spare(got, u)
      /\ ListInv(none) /\ Tame(none, L) /\ Spare(none, u)
  BY <1>1, DnsEndInv, Zenon DEF Spare
<1> HIDE DEF got, none
<1>3. ListInv(done) /\ Tame(done, got) /\ Spare(done, u)
  <2> DEFINE r == [got.up[u] EXCEPT !.fresh = FALSE]
  <2>0. got.up[u] \in Upstream /\ Sound(got.up[u], Kind[u])
    BY <1>2, UpTyped
  <2>1. done = [got EXCEPT !.up[u] = r]
    OBVIOUS
  <2>2. /\ r \in Upstream /\ r.idx = got.up[u].idx /\ r.place = got.up[u].place
        /\ r.timer = got.up[u].timer /\ r.ref = got.up[u].ref
        /\ r.dns = got.up[u].dns /\ r.inflight = got.up[u].inflight
        /\ r.pending = got.up[u].pending /\ r.half = got.up[u].half
        /\ r.probe = got.up[u].probe
    <3>1. ASSUME NEW p \in BOOLEAN
          PROVE  LET t == [got.up[u] EXCEPT !.fresh = p]
                 IN  /\ t \in Upstream /\ t.idx = got.up[u].idx
                     /\ t.place = got.up[u].place /\ t.timer = got.up[u].timer
                     /\ t.ref = got.up[u].ref /\ t.dns = got.up[u].dns
                     /\ t.inflight = got.up[u].inflight
                     /\ t.pending = got.up[u].pending /\ t.half = got.up[u].half
                     /\ t.probe = got.up[u].probe
      BY <2>0 DEF Upstream
    <3> QED
      BY <3>1, Zenon
  <2> HIDE DEF r, done
  <2>3. r.ref >= Need(r) + 1
    BY <1>2, <2>2, SMTT(30) DEF Spare, Need
  <2>4. Sound(r, Kind[u])
    BY <2>0, <2>2 DEF Sound, Refs, Need, Live, Back, Clock, Half, Gone
  <2>5. got.up[u].inflight <= got.up[u].inflight
    BY <2>0 DEF Upstream
  <2>6. ListInv(done) /\ Tame(done, got) /\ done.up[u] = r
    BY <1>2, <2>1, <2>2, <2>4, <2>5, OneUpInv, OneUpTame
  <2> QED
    BY <2>3, <2>6 DEF Spare
<1>4. UpdateAddrs(got, u) \in {done, Promote(done, u)}
  BY DEF UpdateAddrs
<1> HIDE DEF done
<1>5. Tame(done, L)
  BY <1>2, <1>3, TameTrans
<1>6. ListInv(Promote(done, u)) /\ Tame(Promote(done, u), L) /\ Spare(Promote(done, u), u)
  <2>1. ListInv(Promote(done, u)) /\ Tame(Promote(done, u), done)
        /\ Spare(Promote(done, u), u)
    BY <1>3, PromoteInv, SMTT(30)
  <2> QED
    BY <2>1, <1>3, <1>5, TameTrans
<1>7. ListInv(B) /\ Tame(B, L) /\ Spare(B, u)
  BY <1>2, <1>3, <1>4, <1>5, <1>6, SMTT(30)
<1> HIDE DEF B
<1> QED
  BY <1>0, <1>7, UnrefTame DEF Spare

(* rspamd_upstream_srv_create_member.                                      *)
LEMMA CreateMemberInv ==
  ASSUME NEW L, ListInv(L), NEW u \in Ups, L.up[u].place = "absent",
         Kind[u] = "member", NEW t \in Targets, NEW n \in Nat
  PROVE  LET M == CreateMember(L, u, t, n)
         IN  /\ ListInv(M) /\ M.up[u].place = "listed"
             /\ \A w \in Ups : M.up[w].inflight <= L.up[w].inflight
             /\ \A w \in Ups \ {u} :
                  /\ M.up[w].place = L.up[w].place /\ M.up[w].dns = L.up[w].dns
                  /\ M.up[w].place = "drained" => M.up[w].timer = L.up[w].timer
<1> DEFINE r == [Absent EXCEPT !.place = "listed", !.target = t,
                               !.pending = TRUE, !.ref = 1]
           C == [L EXCEPT !.up[u] = r]
           S == SetActive(C, u)
           M == Resolve(S, u, n)
<1>0. CreateMember(L, u, t, n) = M
  BY Zenon DEF CreateMember
<1>1. L.up[u] \in Upstream /\ L.up[u].idx = 0
  BY UpTyped, SMTT(30) DEF Sound, Live, Upstream
<1>2. /\ r \in Upstream /\ r.idx = 0 /\ r.place = "listed" /\ r.pending
      /\ r.inflight = 0 /\ Refs(r) /\ Half(r, Kind[u])
  <2>1. Absent \in Upstream /\ Absent.idx = 0 /\ Absent.inflight = 0
        /\ Absent.dns = 0 /\ Absent.timer = "off" /\ ~Absent.half
    BY UpsAssumption DEF Absent, Upstream
  <2>2. ASSUME NEW p \in BOOLEAN
        PROVE  LET a == [Absent EXCEPT !.place = "listed", !.target = t,
                                       !.pending = p, !.ref = 1]
               IN  /\ a \in Upstream /\ a.idx = Absent.idx /\ a.place = "listed"
                   /\ a.pending = p /\ a.inflight = Absent.inflight
                   /\ a.dns = Absent.dns /\ a.timer = Absent.timer
                   /\ a.half = Absent.half /\ a.ref = 1
    BY <2>1, ZenonT(60) DEF Upstream
  <2>3. /\ r \in Upstream /\ r.idx = 0 /\ r.place = "listed" /\ r.pending = TRUE
        /\ r.inflight = 0 /\ r.dns = 0 /\ r.timer = "off" /\ ~r.half /\ r.ref = 1
    BY <2>1, <2>2, Zenon
  <2> HIDE DEF r
  <2>4. Refs(r) /\ Half(r, Kind[u])
    BY <2>3 DEF Refs, Need, Half
  <2> QED
    BY <2>3, <2>4, SMTT(30)
<1> HIDE DEF r
<1>3. Shape(C) /\ \A w \in Ups : C.up[w] = IF w = u THEN r ELSE L.up[w]
  <2>1. \A w \in Ups : [L.up EXCEPT ![u] = r][w] = IF w = u THEN r ELSE L.up[w]
    BY SMTT(30) DEF ListInv, Shape, List
  <2> QED
    BY <1>1, <1>2, <2>1, OneUp DEF ListInv
<1> HIDE DEF C
<1>4. Returning(C, u)
  BY <1>2, <1>3, SMTT(30) DEF Returning, ListInv
<1>5. /\ ListInv(S) /\ \A w \in Ups \ {u} : S.up[w] = C.up[w]
      /\ S.up[u].place = "listed" /\ S.up[u].inflight = C.up[u].inflight
  BY <1>4, SetActiveInv, SMTT(30)
<1> HIDE DEF S
<1>6. ListInv(M) /\ Tame(M, S) /\ \A w \in Ups \ {u} : M.up[w] = S.up[w]
  <2>1. Shape(S) /\ Refs(S.up[u])
    BY <1>5, UpTyped DEF ListInv, Sound
  <2> QED
    BY <1>5, <2>1, ResolveInv, ResolveRecord, SMTT(30)
<1> HIDE DEF M
<1>7. \A w \in Ups : M.up[w].inflight \in Nat /\ L.up[w].inflight \in Nat
  BY <1>6, UpTyped DEF Upstream
<1>8. \A w \in Ups \ {u} : S.up[w] = L.up[w]
  BY <1>3, <1>5
<1>9. S.up[u].inflight = 0
  BY <1>2, <1>3, <1>5
<1>10. \A w \in Ups : M.up[w].inflight <= L.up[w].inflight
  BY <1>6, <1>7, <1>8, <1>9, SMTT(30) DEF Tame
<1> QED
  BY <1>0, <1>5, <1>6, <1>8, <1>10 DEF Tame

(* rspamd_upstream_srv_drain_member: the grace timer inherits the          *)
(* reference of the list.                                                  *)
LEMMA DrainMemberInv ==
  ASSUME NEW L, ListInv(L), NEW u \in Ups, L.up[u].place = "listed",
         Kind[u] = "member"
  PROVE  LET M == DrainMember(L, u)
         IN  /\ ListInv(M) /\ M.up[u].place = "drained" /\ M.up[u].timer = "revive"
             /\ \A w \in Ups : M.up[w].inflight <= L.up[w].inflight
             /\ \A w \in Ups \ {u} :
                  /\ M.up[w].place = L.up[w].place /\ M.up[w].dns = L.up[w].dns
                  /\ M.up[w].place = "drained" => M.up[w].timer = L.up[w].timer
<1> DEFINE D == IF L.up[u].idx # 0 THEN Delist(L, u) ELSE L
           b == D.up[u]
           r == [b EXCEPT !.place = "drained", !.target = NoTarget,
                          !.half = FALSE, !.probe = "unset", !.timer = "revive"]
           M == [D EXCEPT !.up[u] = r]
<1>0. DrainMember(L, u) = M
  BY ZenonT(60) DEF DrainMember
<1>1. /\ Shape(D) /\ \A w \in Ups \ {u} : Sound(D.up[w], Kind[w])
      /\ b \in Upstream /\ Refs(b) /\ b.idx = 0 /\ b.place = "listed" /\ Tame(D, L)
      /\ \A w \in Ups : D.up[w].dns = L.up[w].dns
  <2>1. CASE L.up[u].idx # 0
    <3> DEFINE E == Delist(L, u)
    <3>1. /\ Shape(E) /\ Tame(E, L)
          /\ \A w \in Ups \ {u} : Sound(E.up[w], Kind[w])
          /\ E.up[u] \in Upstream /\ Refs(E.up[u]) /\ Keeps(E.up[u], L.up[u])
          /\ E.up[u].idx = 0 /\ \A w \in Ups : E.up[w].dns = L.up[w].dns
      BY <2>1, DelistInv
    <3>2. D = E
      BY <2>1
    <3> HIDE DEF E, D
    <3> QED
      BY <3>1, <3>2, SMTT(30) DEF Keeps
  <2>2. CASE L.up[u].idx = 0
    <3>1. D = L
      BY <2>2
    <3>2. Tame(L, L)
      BY UpTyped DEF Tame, Upstream
    <3> HIDE DEF D
    <3>3. L.up[u] \in Upstream /\ Refs(L.up[u])
      BY UpTyped, SMTT(30) DEF Sound
    <3> QED
      BY <2>2, <3>1, <3>2, <3>3 DEF ListInv
  <2> HIDE DEF D
  <2> QED
    BY <2>1, <2>2, Zenon
<1> HIDE DEF D
<1>2. /\ r \in Upstream /\ r.idx = 0 /\ r.place = "drained" /\ r.timer = "revive"
      /\ r.ref = b.ref /\ r.dns = b.dns /\ r.inflight = b.inflight /\ ~r.half
  <2>1. ASSUME NEW h \in BOOLEAN, NEW g \in Targets \cup {NoTarget}
        PROVE  LET t == [b EXCEPT !.place = "drained", !.target = g, !.half = h,
                                  !.probe = "unset", !.timer = "revive"]
               IN  /\ t \in Upstream /\ t.idx = b.idx /\ t.place = "drained"
                   /\ t.timer = "revive" /\ t.ref = b.ref /\ t.dns = b.dns
                   /\ t.inflight = b.inflight /\ t.half = h
    BY <1>1, ZenonT(60) DEF Upstream
  <2> QED
    BY <2>1, <1>1, ZenonT(60)
<1> HIDE DEF r
<1>3. Sound(r, Kind[u])
  BY <1>1, <1>2 DEF Upstream, Sound, Refs, Need, Live, Back, Clock, Half, Gone
<1>4. Shape(M) /\ \A w \in Ups : M.up[w] = IF w = u THEN r ELSE D.up[w]
  <2>1. \A w \in Ups : [D.up EXCEPT ![u] = r][w] = IF w = u THEN r ELSE D.up[w]
    BY <1>1, SMTT(30) DEF Shape, List
  <2> QED
    BY <1>1, <1>2, <2>1, OneUp, SMTT(30)
<1> HIDE DEF M
<1>5. ListInv(M)
  BY <1>1, <1>3, <1>4 DEF ListInv
<1>6. \A w \in Ups : M.up[w].inflight = D.up[w].inflight
  BY <1>2, <1>4
<1>7. \A w \in Ups : M.up[w].inflight <= L.up[w].inflight
  BY <1>1, <1>6 DEF Tame
<1>8. \A w \in Ups \ {u} : M.up[w] = D.up[w]
  BY <1>4
<1>9. M.up[u].place = "drained" /\ M.up[u].timer = "revive"
  BY <1>2, <1>4
<1> QED
  BY <1>0, <1>1, <1>5, <1>7, <1>8, <1>9 DEF Tame

-----------------------------------------------------------------------------
(* The selections.                                                         *)

(* What holds of an outcome c of a selection from list L.                  *)
Chosen(c, L) ==
  /\ ListInv(c.list)
  /\ c.up \in Ups \cup {NoUp}
  /\ c.up # NoUp => L.up[c.up].place = "listed"
  /\ \A w \in Ups :
       /\ c.list.up[w].place = L.up[w].place
       /\ c.list.up[w].timer = L.up[w].timer
       /\ c.list.up[w].inflight <= L.up[w].inflight + (IF w = c.up THEN 1 ELSE 0)

(* What is in ls->alive is in the list.                                    *)
LEMMA AliveListed ==
  ASSUME NEW L, ListInv(L)
  PROVE  /\ \A i \in 1..Len(L.alive) : L.alive[i] \in Alive(L)
         /\ \A u \in Alive(L) : u \in Ups /\ L.up[u].place = "listed"
<1>1. \A i \in 1..Len(L.alive) : L.alive[i] \in Ups
  BY SMTT(30) DEF ListInv, Shape, List
<1>2. \A i \in 1..Len(L.alive) : L.up[L.alive[i]].place = "listed"
  BY <1>1 DEF ListInv, Shape, Indexed, Sound, Live
<1> QED
  BY <1>1, <1>2 DEF Alive

(* A selection without a result.                                           *)
LEMMA NoneInv ==
  ASSUME NEW L, ListInv(L)
  PROVE  Chosen(NoneOf(L), L)
<1>1. \A w \in Ups : L.up[w].inflight \in Nat
  BY UpTyped DEF Upstream
<1> QED
  BY <1>1, UpsAssumption DEF NoneOf, Chosen

(* A selection of a listed upstream counts the request.                    *)
LEMMA TakeInv ==
  ASSUME NEW L, ListInv(L), NEW u \in Ups, L.up[u].place = "listed"
  PROVE  Chosen(Take(L, u), L)
<1> DEFINE i == L.up[u].inflight + 1
           r == [L.up[u] EXCEPT !.inflight = i]
           M == [L EXCEPT !.up[u].inflight = i]
<1>0. L.up[u] \in Upstream /\ Sound(L.up[u], Kind[u])
  BY UpTyped
<1>1. i \in Nat /\ i <= L.up[u].inflight + 1
  BY <1>0 DEF Upstream
<1>2. M = [L EXCEPT !.up[u] = r]
  OBVIOUS
<1>3. Take(L, u) = [up |-> u, list |-> M]
  BY DEF Take
<1> HIDE DEF i, M
<1>4. /\ r \in Upstream /\ r.idx = L.up[u].idx /\ r.place = L.up[u].place
      /\ r.timer = L.up[u].timer /\ r.ref = L.up[u].ref /\ r.dns = L.up[u].dns
      /\ r.pending = L.up[u].pending /\ r.half = L.up[u].half
      /\ r.probe = L.up[u].probe /\ r.inflight = i
  BY <1>0, <1>1, SMTT(30) DEF Upstream
<1> HIDE DEF r
<1>5. Sound(r, Kind[u])
  BY <1>0, <1>4 DEF Sound, Refs, Need, Live, Back, Clock, Half, Gone
<1>6. ListInv(M) /\ \A w \in Ups : M.up[w] = IF w = u THEN r ELSE L.up[w]
  BY <1>2, <1>4, <1>5, OneUpInv, SMTT(30)
<1>7. \A w \in Ups : L.up[w].inflight <= L.up[w].inflight + 0
  BY UpTyped, SMTT(30) DEF Upstream
<1>8. \A w \in Ups : /\ M.up[w].place = L.up[w].place
                     /\ M.up[w].timer = L.up[w].timer
                     /\ M.up[w].inflight <= L.up[w].inflight + (IF w = u THEN 1 ELSE 0)
  BY <1>1, <1>4, <1>6, <1>7
<1>9. Take(L, u).up = u /\ Take(L, u).list = M
  BY <1>3
<1> QED
  BY <1>6, <1>8, <1>9 DEF Chosen

(* The probe of a dead upstream.                                           *)
LEMMA ProbeInv ==
  ASSUME NEW L, ListInv(L), NEW except
  PROVE  \A c \in Probe(L, except) : Chosen(c, L)
<1>1. ASSUME NEW u \in Probeable(L, except)
      PROVE  Chosen([up |-> u, list |-> [L EXCEPT !.up[u].half = TRUE]], L)
  <2> DEFINE r == [L.up[u] EXCEPT !.half = TRUE]
             M == [L EXCEPT !.up[u].half = TRUE]
             c == [up |-> u, list |-> M]
  <2>0. /\ u \in Ups /\ L.up[u].place = "listed" /\ Kind[u] # "srv"
        /\ ~L.up[u].pending
    BY DEF Probeable, Listed
  <2>1. L.up[u] \in Upstream /\ Sound(L.up[u], Kind[u])
    BY <2>0, UpTyped
  <2>2. M = [L EXCEPT !.up[u] = r]
    OBVIOUS
  <2>3. c.up = u /\ c.list = M
    OBVIOUS
  <2>4. /\ r \in Upstream /\ r.idx = L.up[u].idx /\ r.place = L.up[u].place
        /\ r.timer = L.up[u].timer /\ r.ref = L.up[u].ref /\ r.dns = L.up[u].dns
        /\ r.pending = L.up[u].pending /\ r.probe = L.up[u].probe
        /\ r.inflight = L.up[u].inflight
    <3>1. ASSUME NEW h \in BOOLEAN
          PROVE  LET t == [L.up[u] EXCEPT !.half = h]
                 IN  /\ t \in Upstream /\ t.idx = L.up[u].idx
                     /\ t.place = L.up[u].place /\ t.timer = L.up[u].timer
                     /\ t.ref = L.up[u].ref /\ t.dns = L.up[u].dns
                     /\ t.pending = L.up[u].pending /\ t.probe = L.up[u].probe
                     /\ t.inflight = L.up[u].inflight
      BY <2>1, SMTT(30) DEF Upstream
    <3> QED
      BY <3>1, Zenon
  <2> HIDE DEF r, M
  <2>5. Sound(r, Kind[u])
    BY <2>0, <2>1, <2>4 DEF Sound, Refs, Need, Live, Back, Clock, Half, Gone
  <2>6. ListInv(M) /\ \A w \in Ups : M.up[w] = IF w = u THEN r ELSE L.up[w]
    BY <2>0, <2>2, <2>4, <2>5, OneUpInv, SMTT(30)
  <2>7. \A w \in Ups : L.up[w].inflight \in Nat
    BY UpTyped DEF Upstream
  <2>8. \A w \in Ups :
          /\ M.up[w].place = L.up[w].place /\ M.up[w].timer = L.up[w].timer
          /\ M.up[w].inflight = L.up[w].inflight
    BY <2>4, <2>6
  <2>9. \A w \in Ups : M.up[w].inflight <= L.up[w].inflight + (IF w = u THEN 1 ELSE 0)
    BY <2>7, <2>8, SMTT(30)
  <2>10. Chosen(c, L)
    BY <2>0, <2>3, <2>6, <2>8, <2>9, SMTT(30) DEF Chosen
  <2> QED
    BY <2>10 DEF M
<1> QED
  BY <1>1, NoneInv DEF Probe

(* Rebuilding the hash ring.                                               *)
LEMMA RingInv ==
  ASSUME NEW L, ListInv(L)
  PROVE  /\ ListInv(Ring(L)) /\ Ring(L).up = L.up /\ Ring(L).ring = Alive(L)
<1> DEFINE M == [L EXCEPT !.ring = Alive(L), !.dirty = FALSE]
<1>0. L \in List
  BY DEF ListInv, Shape
<1>1. CASE L.dirty \/ L.ring = {}
  <2>1. Ring(L) = M
    BY <1>1 DEF Ring
  <2>2. /\ M.up = L.up /\ M.alive = L.alive /\ M.ring = Alive(L)
    BY <1>0, SMTT(30) DEF List
  <2>3. M \in List
    <3>1. Alive(L) \in SUBSET Ups
      BY DEF Alive
    <3>2. ASSUME NEW R \in SUBSET Ups, NEW d \in BOOLEAN
          PROVE  [L EXCEPT !.ring = R, !.dirty = d] \in List
      BY <1>0, ZenonT(60) DEF List
    <3> QED
      BY <3>1, <3>2, Zenon
  <2> HIDE DEF M
  <2>4. Alive(M) = Alive(L)
    BY <2>2, SMTT(30) DEF Alive
  <2>5. Indexed(M) /\ Once(M) /\ Fresh(M)
    BY <2>2, <2>4 DEF ListInv, Shape, Indexed, Once, Fresh
  <2> QED
    BY <2>1, <2>2, <2>3, <2>5 DEF ListInv, Shape
<1>2. CASE ~(L.dirty \/ L.ring = {})
  BY <1>2 DEF Ring, ListInv, Shape, Fresh
<1> QED
  BY <1>1, <1>2, SMTT(30)

(* The rotations select what is alive.                                     *)
LEMMA RotateInv ==
  ASSUME NEW L, ListInv(L), NEW except
  PROVE  \A c \in Rotate(L, except) : Chosen(c, L)
<1> DEFINE R == Ring(L)
<1>1. ListInv(R) /\ R.up = L.up /\ R.ring = Alive(L)
  BY RingInv
<1> HIDE DEF R
<1>2. \A u \in Alive(L) : u \in Ups /\ L.up[u].place = "listed"
  BY AliveListed
<1>3. \A u \in Alive(L) : Chosen(Take(L, u), L)
  BY <1>2, TakeInv, SMTT(30)
<1>4. \A u \in Alive(L) : Chosen(Take(R, u), L)
  <2>1. \A u \in Alive(L) : Chosen(Take(R, u), R)
    BY <1>1, <1>2, TakeInv, SMTT(30)
  <2> QED
    BY <1>1, <2>1, SMTT(30) DEF Chosen
<1>5. Chosen(NoneOf(R), L) /\ Chosen(NoneOf(L), L)
  <2>1. Chosen(NoneOf(R), R) /\ Chosen(NoneOf(L), L)
    BY <1>1, NoneInv
  <2> QED
    BY <1>1, <2>1 DEF Chosen
<1>6. ASSUME NEW c \in Rotate(L, except)
      PROVE  \/ c \in {NoneOf(R), NoneOf(L)}
             \/ \E u \in Alive(L) : c = Take(R, u)
             \/ \E u \in Alive(L) : c = Take(L, u)
  <2> DEFINE pairs == {u \in Ups :
                         \E i, j \in 1..Len(L.alive) :
                           /\ i # j /\ L.alive[i] = u
                           /\ u # except \/ L.alive[j] = except}
  <2>1. pairs \subseteq Alive(L)
    BY DEF Alive
  <2>2. CASE L.rot = "hashed"
    <3>1. c \in (IF R.ring \subseteq {except} THEN {NoneOf(R)}
                 ELSE {Take(R, u) : u \in R.ring \ {except}})
      BY <2>2 DEF Rotate, R
    <3> QED
      BY <3>1, <1>1
  <2>3. CASE L.rot = "round_robin"
    <3>1. c \in {Take(L, u) : u \in Alive(L) \ {except}}
                  \cup IF except # NoUp THEN {NoneOf(L)} ELSE {}
      BY <2>3 DEF Rotate
    <3> QED
      BY <3>1
  <2>4. CASE L.rot # "hashed" /\ L.rot # "round_robin"
    <3>1. c \in {Take(L, u) : u \in pairs}
      BY <2>4 DEF Rotate
    <3> HIDE DEF pairs
    <3> QED
      BY <3>1, <2>1
  <2> QED
    BY <2>2, <2>3, <2>4
<1> QED
  BY <1>3, <1>4, <1>5, <1>6

(* rspamd_upstream_get_common.                                             *)
LEMMA GetInv ==
  ASSUME NEW L, ListInv(L), NEW except
  PROVE  \A c \in Get(L, except) : Chosen(c, L)
<1>1. CASE Len(L.alive) = 0
  BY <1>1, ProbeInv DEF Get
<1>2. CASE Len(L.alive) = 1
  <2>1. L.alive[1] \in Ups /\ L.up[L.alive[1]].place = "listed"
    BY <1>2, AliveListed
  <2> QED
    BY <1>2, <2>1, TakeInv DEF Get
<1>3. CASE Len(L.alive) # 0 /\ Len(L.alive) # 1
  BY <1>3, RotateInv DEF Get
<1> QED
  BY <1>1, <1>2, <1>3

(* The first of the positions with the least load.                         *)
LEMMA LeastLoad ==
  ASSUME NEW S, S \subseteq Nat, S # {}, NEW f \in [S -> Nat]
  PROVE  \E i \in S : \A j \in S : f[i] < f[j] \/ (f[i] = f[j] /\ i <= j)
<1> DEFINE T == {f[i] : i \in S}
<1>1. PICK x \in T : \A y \in T : x <= y
  <2>1. T \subseteq Nat /\ T # {}
    BY Zenon
  <2> HIDE DEF T
  <2> QED
    BY <2>1, LeastNat, Zenon
<1> DEFINE U == {i \in S : f[i] = x}
<1>2. PICK i \in U : \A j \in U : i <= j
  <2>1. U \subseteq Nat /\ U # {}
    BY <1>1, Zenon
  <2> HIDE DEF U
  <2> QED
    BY <2>1, LeastNat, Zenon
<1>3. i \in S /\ f[i] = x
  BY <1>2
<1>4. ASSUME NEW j \in S
      PROVE  f[i] < f[j] \/ (f[i] = f[j] /\ i <= j)
  <2>1. x <= f[j] /\ x \in Nat /\ f[j] \in Nat
    BY <1>1
  <2>2. CASE f[j] = x
    BY <1>2, <1>3, <2>2
  <2>3. CASE f[j] # x
    BY <1>3, <2>1, <2>3
  <2> QED
    BY <2>2, <2>3
<1> QED
  BY <1>3, <1>4

(* A list of which every upstream changes, and keeps its position.         *)
LEMMA ManyUp ==
  ASSUME NEW L, ListInv(L), NEW up \in [Ups -> Upstream],
         \A w \in Ups : up[w].idx = L.up[w].idx /\ Sound(up[w], Kind[w])
  PROVE  ListInv([L EXCEPT !.up = up]) /\ [L EXCEPT !.up = up].up = up
<1> DEFINE M == [L EXCEPT !.up = up]
<1>1. /\ M \in List /\ M.up = up /\ M.alive = L.alive /\ M.ring = L.ring
      /\ M.dirty = L.dirty
  BY DEF ListInv, Shape, List
<1> HIDE DEF M
<1>2. \A i \in 1..Len(L.alive) : L.alive[i] \in Ups
  BY SMTT(30) DEF ListInv, Shape, List
<1>3. Indexed(M)
  BY <1>1, <1>2, SMTT(30) DEF ListInv, Shape, Indexed
<1>4. Once(M) /\ Fresh(M)
  BY <1>1 DEF ListInv, Shape, Once, Fresh, Alive
<1> QED
  BY <1>1, <1>3, <1>4 DEF ListInv, Shape, M

(* rspamd_upstream_get_token_bucket, with any refill of the buckets.       *)
LEMMA GetTokensInv ==
  ASSUME NEW L, ListInv(L), NEW except, NEW cost \in Nat,
         NEW add \in [Alive(L) -> Nat]
  PROVE  Chosen(GetTokens(L, except, cost, add), L)
<1> DEFINE some == {i \in 1..Len(L.alive) : L.alive[i] # except}
           load(i) == L.up[L.alive[i]].taken
           rich == {i \in some :
                      Refilled(L.up[L.alive[i]].avail, add[L.alive[i]]) >= cost}
           best == IF rich = {} THEN some ELSE rich
           first == CHOOSE i \in best : \A j \in best :
                      load(i) < load(j) \/ (load(i) = load(j) /\ i <= j)
           pick == L.alive[first]
           filled == [u \in Alive(L) \ {except} |-> Refilled(L.up[u].avail, add[u])]
           rec(u) == IF u = pick
                       THEN [L.up[u] EXCEPT !.avail = Less(filled[u], cost),
                                            !.taken = @ + cost, !.inflight = @ + 1]
                     ELSE IF u \in DOMAIN filled
                       THEN [L.up[u] EXCEPT !.avail = filled[u]]
                     ELSE L.up[u]
           up == [u \in Ups |-> rec(u)]
<1>0. GetTokens(L, except, cost, add) =
        IF some = {} THEN NoneOf(L)
        ELSE [up |-> pick, list |-> [L EXCEPT !.up = up]]
  BY ZenonT(60) DEF GetTokens
<1>1. CASE some = {}
  BY <1>0, <1>1, NoneInv, ZenonT(60)
<1>2. CASE some # {}
  <2>1. best # {} /\ best \subseteq some
    BY <1>2
  <2>2. /\ \A i \in 1..Len(L.alive) : L.alive[i] \in Alive(L)
        /\ \A u \in Alive(L) : u \in Ups /\ L.up[u].place = "listed"
    BY AliveListed, SMTT(30)
  <2>3. \A u \in Ups : L.up[u] \in Upstream /\ Sound(L.up[u], Kind[u])
    BY UpTyped, SMTT(30)
  <2>4. first \in some
    <3> DEFINE f == [i \in best |-> load(i)]
    <3> HIDE DEF best
    <3>1. f \in [best -> Nat] /\ best \subseteq Nat
      <4>1. \A i \in best : load(i) \in Nat
        BY <2>1, <2>2, <2>3, SMTT(30) DEF Upstream
      <4>2. best \subseteq Nat
        BY <2>1
      <4> HIDE DEF load
      <4> QED
        BY <4>1, <4>2, SMTT(30)
    <3>2. \E i \in best : \A j \in best : f[i] < f[j] \/ (f[i] = f[j] /\ i <= j)
      <4> HIDE DEF f
      <4> QED
        BY <2>1, <3>1, LeastLoad, Zenon
    <3> HIDE DEF load
    <3>3. \E i \in best : \A j \in best :
            load(i) < load(j) \/ (load(i) = load(j) /\ i <= j)
      BY <3>2
    <3>4. first \in best
      BY <3>3
    <3> QED
      BY <2>1, <3>4
  <2> HIDE DEF first, best
  <2>5. /\ pick \in Ups /\ pick \in Alive(L) \ {except} /\ L.up[pick].place = "listed"
    BY <2>2, <2>4
  <2> HIDE DEF pick
  <2>6. \A u \in Alive(L) \ {except} : filled[u] \in 0..MaxTokens
    <3> SUFFICES ASSUME NEW u \in Alive(L) \ {except}
                 PROVE  Refilled(L.up[u].avail, add[u]) \in 0..MaxTokens
      OBVIOUS
    <3>1. L.up[u].avail \in 0..MaxTokens /\ add[u] \in Nat
      BY <2>2, <2>3 DEF Upstream
    <3> QED
      BY <3>1, UpsAssumption DEF Refilled, AtMost
  <2>7. DOMAIN filled = Alive(L) \ {except}
    OBVIOUS
  <2> HIDE DEF filled
  <2> DEFINE Same(r, o) ==
        /\ r.idx = o.idx /\ r.place = o.place /\ r.timer = o.timer /\ r.ref = o.ref
        /\ r.dns = o.dns /\ r.pending = o.pending /\ r.half = o.half
        /\ r.probe = o.probe
  <2>8. ASSUME NEW u \in Ups
        PROVE  /\ rec(u) \in Upstream /\ Same(rec(u), L.up[u])
               /\ rec(u).inflight <= L.up[u].inflight + (IF u = pick THEN 1 ELSE 0)
    <3>0. L.up[u] \in Upstream
      BY <2>3
    <3>1. CASE u = pick
      <4> DEFINE a == Less(filled[u], cost)
                 t == L.up[u].taken + cost
                 i == L.up[u].inflight + 1
                 r == [L.up[u] EXCEPT !.avail = a, !.taken = t, !.inflight = i]
      <4>1. rec(u) = r
        BY <3>1
      <4>2. a \in 0..MaxTokens /\ t \in Nat /\ i \in Nat /\ i <= L.up[u].inflight + 1
        BY <3>0, <3>1, <2>5, <2>6, UpsAssumption DEF Less, Upstream
      <4> HIDE DEF a, t, i, rec
      <4>3. r \in Upstream /\ Same(r, L.up[u]) /\ r.inflight = i
        BY <3>0, <4>2, Zenon DEF Upstream
      <4> HIDE DEF Same, r
      <4> QED
        BY <3>1, <4>1, <4>2, <4>3
    <3>2. CASE u # pick /\ u \in DOMAIN filled
      <4> DEFINE a == filled[u]
                 r == [L.up[u] EXCEPT !.avail = a]
      <4>1. rec(u) = r
        BY <3>2
      <4>2. a \in 0..MaxTokens
        BY <3>2, <2>6, <2>7
      <4> HIDE DEF a, rec
      <4>3. r \in Upstream /\ Same(r, L.up[u]) /\ r.inflight = L.up[u].inflight
        BY <3>0, <4>2 DEF Upstream
      <4>4. L.up[u].inflight <= L.up[u].inflight + 0
        BY <3>0 DEF Upstream
      <4> HIDE DEF Same, r
      <4> QED
        BY <3>2, <4>1, <4>3, <4>4
    <3>3. CASE u # pick /\ u \notin DOMAIN filled
      <4>1. rec(u) = L.up[u]
        BY <3>3
      <4>2. L.up[u].inflight <= L.up[u].inflight + 0
        BY <3>0 DEF Upstream
      <4> HIDE DEF rec
      <4> QED
        BY <3>0, <3>3, <4>1, <4>2
    <3> QED
      BY <3>1, <3>2, <3>3
  <2> HIDE DEF rec
  <2>9. \A u \in Ups : up[u] = rec(u)
    OBVIOUS
  <2>10. up \in [Ups -> Upstream]
    BY <2>8, SMTT(30)
  <2> HIDE DEF up
  <2>11. \A u \in Ups : up[u].idx = L.up[u].idx /\ Sound(up[u], Kind[u])
    BY <2>3, <2>8, <2>9 DEF Sound, Refs, Need, Live, Back, Clock, Half, Gone
  <2> DEFINE M == [L EXCEPT !.up = up]
             c == [up |-> pick, list |-> M]
  <2>12. ListInv(M) /\ M.up = up
    BY <2>10, <2>11, ManyUp
  <2>13. c = GetTokens(L, except, cost, add)
    BY <1>0, <1>2
  <2> HIDE DEF M
  <2>14. c.up = pick /\ c.list = M
    BY SMTT(30)
  <2>15. Chosen(c, L)
    BY <2>5, <2>8, <2>9, <2>12, <2>14, SMTT(30) DEF Chosen
  <2> QED
    BY <2>13, <2>15, SMTT(30)
<1> QED
  BY <1>1, <1>2

-----------------------------------------------------------------------------
(* The list that the configuration makes.                                  *)
LEMMA ConfiguredInv ==
  ASSUME NEW rot \in Rotations, NEW q \in Seq(Ups), NEW rest \in SUBSET Ups,
         \A i, j \in 1..Len(q) : q[i] = q[j] => i = j,
         \A i \in 1..Len(q) : Kind[q[i]] \in {"numeric", "named"} /\ q[i] \notin rest,
         \A u \in rest : Kind[u] \in {"named", "srv"}
  PROVE  ListInv(Configured(rot, q, rest))
<1> DEFINE M == Configured(rot, q, rest)
           at(u) == {i \in 1..Len(q) : q[i] = u}
           idx(u) == IF at(u) = {} THEN 0 ELSE CHOOSE i \in at(u) : TRUE
           pend(u) == u \in rest /\ Kind[u] # "srv"
           timer(u) == IF Kind[u] = "numeric" THEN "off" ELSE "lazy"
           avail == IF rot = "token_bucket" THEN MaxTokens ELSE 0
           rec(u) == IF u \in rest \/ at(u) # {}
                       THEN [Absent EXCEPT !.place = "listed", !.ref = 1,
                               !.pending = pend(u), !.idx = idx(u),
                               !.timer = timer(u), !.avail = avail]
                       ELSE Absent
           up == [u \in Ups |-> rec(u)]
<1>0. M = [rot |-> rot, alive |-> q, ring |-> {}, dirty |-> TRUE, up |-> up]
  BY Zenon DEF Configured
<1>1. \A u \in Ups : /\ idx(u) \in Nat
                     /\ idx(u) # 0 => idx(u) \in 1..Len(q) /\ q[idx(u)] = u
                     /\ at(u) # {} => idx(u) # 0
  OBVIOUS
<1>2. \A u \in Ups : at(u) # {} => Kind[u] \in {"numeric", "named"} /\ u \notin rest
  OBVIOUS
<1>3. \A i \in 1..Len(q) : at(q[i]) # {} /\ q[i] \in Ups
  OBVIOUS
<1>4. \A u \in Ups : idx(u) # 0 => at(u) # {}
  OBVIOUS
<1> HIDE DEF at, idx
<1>5. Absent \in Upstream /\ Absent.idx = 0 /\ Absent.dns = 0 /\ ~Absent.half
  BY UpsAssumption DEF Absent, Upstream
<1>6. avail \in 0..MaxTokens
  BY UpsAssumption
<1> HIDE DEF avail
<1>7. ASSUME NEW u \in Ups
      PROVE  /\ rec(u) \in Upstream /\ Sound(rec(u), Kind[u])
             /\ rec(u).idx = IF u \in rest \/ at(u) # {} THEN idx(u) ELSE 0
  <2>1. CASE ~(u \in rest \/ at(u) # {})
    <3>1. Sound(Absent, Kind[u])
      BY SMTT(30) DEF Absent, Sound, Refs, Need, Live, Back, Clock, Half, Gone
    <3> QED
      BY <2>1, <3>1, <1>5, SMTT(30)
  <2>2. CASE u \in rest \/ at(u) # {}
    <3>2. /\ rec(u) \in Upstream /\ rec(u).place = "listed" /\ rec(u).ref = 1
          /\ rec(u).pending = pend(u) /\ rec(u).idx = idx(u)
          /\ rec(u).timer = timer(u) /\ rec(u).dns = 0 /\ ~rec(u).half
      <4> DEFINE p == pend(u)
                 i == idx(u)
                 t == timer(u)
                 r == [Absent EXCEPT !.place = "listed", !.ref = 1, !.pending = p,
                                     !.idx = i, !.timer = t, !.avail = avail]
      <4>1. p \in BOOLEAN
        BY Zenon
      <4>2. t \in {"off", "lazy"} /\ i \in Nat
        BY <1>1
      <4>3. rec(u) = r
        BY <2>2
      <4> HIDE DEF p, i, t, rec
      <4>4. /\ r \in Upstream /\ r.place = "listed" /\ r.ref = 1
            /\ r.pending = p /\ r.idx = i /\ r.timer = t
            /\ r.dns = Absent.dns /\ r.half = Absent.half
        BY <1>5, <1>6, <4>1, <4>2, ZenonT(60) DEF Upstream
      <4> HIDE DEF r
      <4> QED
        BY <4>3, <4>4, <1>5 DEF p, i, t
    <3> HIDE DEF rec
    <3>3. Refs(rec(u)) /\ Half(rec(u), Kind[u]) /\ Gone(rec(u))
      BY <3>2 DEF Refs, Need, Half, Gone
    <3>4. Live(rec(u), Kind[u]) /\ Back(rec(u), Kind[u]) /\ Clock(rec(u), Kind[u])
      BY <2>2, <3>2, <1>1, <1>2, <1>4, ZenonT(60) DEF Live, Back, Clock
    <3> QED
      BY <2>2, <3>2, <3>3, <3>4, SMTT(30) DEF Sound
  <2> QED
    BY <2>1, <2>2
<1> HIDE DEF rec
<1>8. \A u \in Ups : up[u] = rec(u)
  OBVIOUS
<1>9. up \in [Ups -> Upstream]
  BY <1>7
<1> HIDE DEF up, M
<1>10. M \in List /\ M.up = up /\ M.alive = q /\ M.dirty = TRUE
  BY <1>0, <1>9 DEF List
<1>11. Indexed(M)
  BY <1>1, <1>3, <1>7, <1>8, <1>10 DEF Indexed
<1>12. Once(M) /\ Fresh(M)
  BY <1>10 DEF Once, Fresh
<1> QED
  BY <1>7, <1>8, <1>10, <1>11, <1>12 DEF ListInv, Shape, M
=============================================================================
