----------------------------- MODULE RedisFacts -----------------------------
(***************************************************************************)
(* The invariant of the Redis requests and the pool (RedisRequests), for   *)
(* any number of contexts, clients and commands, and the steps of scripts, *)
(* of single connections and of the timeouts, which keep it.               *)
(*                                                                         *)
(* The inductive invariant says of every connection and every request      *)
(* which of its fields go together (ConnOK, ReqOK), which client has which *)
(* context (Held), on which context the callbacks of a request are and how *)
(* many (Askers), and what the event loop may be in the middle of (LoopAt, *)
(* Marks).  Its parts take the state as parameters, so that the lemmas     *)
(* about them speak of no variable.                                        *)
(***************************************************************************)
EXTENDS RedisRequests, TLAPS

(* One connection.                                                         *)
ConnOK(x) ==
  /\ x.timer <=> x.state \in {"inactive", "finalising"}
  /\ x.list = ListOf(x.state)
  /\ x.quit => x.state = "finalising"
  /\ x.mem = "free" => x.state = "none" /\ ~x.err /\ ~x.freeing /\ NoCallbacks(x)
  /\ x.mem = "dropped" => x.state = "active" /\ NoCallbacks(x)
  /\ x.freeing <=> x.state = "none" /\ x.mem = "live"
  /\ x.state \in {"inactive", "finalising"} =>
       /\ x.mem = "live" /\ x.connected /\ x.setup = 0
       /\ \A k \in Clients : x.asked[k] = 0

(* One request.  kept: whether its timeout handler retains it.             *)
ReqOK(k, r, kept) ==
  /\ ~r.live => r = NoRequest
  /\ r.live => r.held \/ r.open > 0 \/ kept
  /\ r.ended => r.open = 0 /\ r.ans = 0 /\ r.clean = 0
  /\ r.sent = 0 => r.pending = 0
  /\ r.waits => r.pending > 0 /\ r.held /\ k \in Sync
  /\ kept => k \notin Sync /\ r.live /\ r.ctx = NoCtx /\ ~r.ended
  /\ r.ctx = NoCtx /\ r.pending > 0 => kept \/ (k \in Sync /\ ~r.ended)
  /\ k \in Sync /\ ~r.ended => r.open = r.pending + r.ans + r.clean
  /\ k \notin Sync =>
       /\ r.clean = 0 /\ r.ans = 0
       /\ r.ctx # NoCtx /\ r.pending = 0 => r.sent = 0
       /\ r.open <= r.pending
       /\ ~r.ended => r.open = r.pending \/ (kept /\ r.open = r.pending - 1)

(* Every connection and every request is well-formed.                      *)
Conns(cn) == \A c \in Ctxs : ConnOK(cn[c])

Reqs(rq, lp) == \A k \in Clients : ReqOK(k, rq[k], lp.kept = k)

(* A context is registered as active just while one client has it.         *)
Held(cn, rq) ==
  /\ \A k \in Clients :
       rq[k].ctx # NoCtx =>
         /\ cn[rq[k].ctx].state = "active"
         /\ \A l \in Clients : rq[l].ctx = rq[k].ctx => l = k
  /\ \A c \in Ctxs : cn[c].state = "active" => \E k \in Clients : rq[k].ctx = c

(* The callbacks of k to come, and the one that runs Lua now.              *)
ToCome(cn, r, lp, k) ==
  IF r.ctx # NoCtx THEN cn[r.ctx].asked[k]
  ELSE IF lp.ctx # NoCtx THEN cn[lp.ctx].asked[k] ELSE 0

(* One while a callback of k runs Lua; it still counts as pending.         *)
Running(lp, k) == IF k \notin Sync /\ lp.at = "lua" /\ lp.who = k THEN 1 ELSE 0

(* Callbacks are on the context of their client, or on the one that it has *)
(* just given up and that is being freed.                                  *)
AskedOn(c, x, r, k) ==
  x.asked[k] > 0 => r.ctx = c \/ (r.ctx = NoCtx /\ x.freeing)

(* No context has callbacks of two clients, and cmds_pending counts the    *)
(* callbacks that are still to come.                                       *)
Askers(cn, rq, lp) ==
  /\ \A c \in Ctxs, k \in Clients : AskedOn(c, cn[c], rq[k], k)
  /\ \A c \in Ctxs, k, l \in Clients :
       cn[c].asked[k] > 0 /\ cn[c].asked[l] > 0 => k = l
  /\ \A k \in Clients : rq[k].pending = ToCome(cn, rq[k], lp, k) + Running(lp, k)

(* What the event loop is in the middle of.                                *)
LoopAt(cn, rq, lp) ==
  /\ lp.at = "idle" => lp = Idle
  /\ lp.at = "expire" =>
       /\ lp.ctx = NoCtx /\ lp.kept = Nobody /\ lp.back = "idle"
       /\ lp.who \in Clients \ Sync
       /\ rq[lp.who].open > 0 /\ rq[lp.who].ctx # NoCtx
  /\ lp.at = "lua" =>
       /\ lp.ctx \in Ctxs /\ cn[lp.ctx].mem = "live"
       /\ lp.who \in Clients /\ rq[lp.who].open > 0 /\ ~rq[lp.who].ended
       /\ lp.who \in Sync => rq[lp.who].clean > 0
       /\ \/ rq[lp.who].ctx = lp.ctx
          \/ rq[lp.who].ctx = NoCtx /\ cn[lp.ctx].freeing
       /\ lp.back = "idle" => lp.kept = Nobody
  /\ lp.at = "drain" =>
       /\ lp.ctx \in Ctxs /\ cn[lp.ctx].mem = "live" /\ lp.back = "idle"
       /\ lp.who = Nobody
  /\ lp.kept # Nobody => cn[lp.ctx].freeing

(* The loop is running the callbacks of a context that is freed.           *)
Drains(lp) == "drain" \in {lp.at, lp.back}

(* A context that is marked is the one that the loop frees.                *)
Marks(cn, lp) ==
  \A c \in Ctxs :
    /\ cn[c].freeing => lp.ctx = c
    /\ cn[c].err => cn[c].mem = "dropped" \/ (lp.ctx = c /\ Drains(lp))

(* The types, and all of it together.                                      *)
Types(cn, rq, lp) ==
  cn \in [Ctxs -> Conn] /\ rq \in [Clients -> Request] /\ lp \in Loop

Inv(cn, rq, lp) ==
  /\ Types(cn, rq, lp)
  /\ Conns(cn) /\ Reqs(rq, lp) /\ Held(cn, rq) /\ Askers(cn, rq, lp)
  /\ LoopAt(cn, rq, lp) /\ Marks(cn, lp)

RedisInv == Inv(conn, req, loop)

(***************************************************************************)
(* A step of the context c, the client k and the loop, from cn, rq, lp to  *)
(* dn, sq, m.  c is NoCtx when no connection changes and k is Nobody when  *)
(* no request does.                                                        *)
(***************************************************************************)

(* From the loop state lp to m: no client but k is touched.                *)
LoopStep(c, k, cn, lp, m) ==
  /\ \A l \in Clients \ {k} :
       (m.kept = l <=> lp.kept = l) /\ Running(m, l) = Running(lp, l)
  /\ (m.ctx = lp.ctx /\ (Drains(lp) => Drains(m))) \/ lp.ctx \in {c, NoCtx}
  /\ m.ctx # lp.ctx /\ lp.ctx # NoCtx
       => \A l \in Clients \ {k} : cn[lp.ctx].asked[l] = 0

(* The connection c goes from x to y, while k goes from r to s.            *)
ConnStep(c, k, x, y, r, s, m) ==
  /\ ConnOK(y)
  /\ \A l \in Clients \ {k} :
       y.asked[l] = x.asked[l] /\ (x.freeing /\ ~y.freeing => x.asked[l] = 0)
  /\ y.freeing => m.ctx = c
  /\ y.err => y.mem = "dropped" \/ (m.ctx = c /\ Drains(m))
  /\ y.state = "active" <=>
       IF k \in Clients /\ c \in {r.ctx, s.ctx} THEN s.ctx = c
       ELSE x.state = "active"
  /\ k \in Clients /\ y.asked[k] > 0 => \A l \in Clients \ {k} : x.asked[l] = 0

(* The request k goes from r to s, while the connections go from cn to dn. *)
ReqStep(c, k, cn, dn, r, s, m) ==
  /\ ReqOK(k, s, m.kept = k)
  /\ s.ctx = r.ctx \/ (s.ctx \in {NoCtx, c} /\ r.ctx \in {NoCtx, c})
  /\ c \in Ctxs /\ s.ctx = c /\ r.ctx # c => cn[c].state # "active"
  /\ s.pending = ToCome(dn, s, m, k) + Running(m, k)
  /\ \A d \in Ctxs : AskedOn(d, dn[d], s, k)

(* No client has asked for anything more.                                  *)
LEMMA NoneAsked ==
  ~(0 > 0)
OBVIOUS

(* A step that changes one connection and one client.                      *)
LEMMA StepInv ==
  ASSUME NEW cn, NEW rq, NEW lp, Inv(cn, rq, lp),
         NEW c \in Ctxs \cup {NoCtx}, NEW k \in Clients \cup {Nobody},
         NEW dn, NEW sq, NEW m, Types(dn, sq, m),
         \A d \in Ctxs \ {c} : dn[d] = cn[d],
         \A l \in Clients \ {k} : sq[l] = rq[l],
         LoopStep(c, k, cn, lp, m),
         c \in Ctxs => ConnStep(c, k, cn[c], dn[c], rq[k], sq[k], m),
         k \in Clients => ReqStep(c, k, cn, dn, rq[k], sq[k], m),
         LoopAt(dn, sq, m)
  PROVE  Inv(dn, sq, m)
<1>1. Types(cn, rq, lp) /\ NoCtx \notin Ctxs /\ Nobody \notin Clients
  BY PoolAssumption DEF Inv
<1>2. Conns(dn)
  BY DEF Inv, Conns, ConnStep
<1>3. Reqs(sq, m)
  BY DEF Inv, Reqs, ReqStep, LoopStep
<1>4. Held(dn, sq)
  <2>1. ASSUME NEW l \in Clients, l # k, rq[l].ctx # NoCtx
        PROVE  dn[sq[l].ctx].state = "active"
    <3>1. cn[rq[l].ctx].state = "active" /\ rq[l].ctx \in Ctxs /\ sq[l] = rq[l]
      BY <1>1, <2>1 DEF Inv, Held, Types, Request
    <3>2. CASE rq[l].ctx = c
      BY <1>1, <2>1, <3>1, <3>2 DEF Inv, Held, ConnStep, ReqStep
    <3>3. CASE rq[l].ctx # c
      BY <3>1, <3>3, Zenon
    <3> QED
      BY <3>2, <3>3
  <2>2. ASSUME k \in Clients, sq[k].ctx # NoCtx
        PROVE  dn[sq[k].ctx].state = "active"
    <3>1. sq[k].ctx \in Ctxs /\ rq[k].ctx \in Ctxs \cup {NoCtx}
      BY <1>1, <2>2 DEF Types, Request
    <3> QED
      BY <1>1, <2>2, <3>1 DEF Inv, Held, ConnStep, ReqStep
  <2>3. ASSUME NEW i \in Clients, NEW j \in Clients, sq[i].ctx # NoCtx,
               sq[j].ctx = sq[i].ctx
        PROVE  i = j
    <3>1. sq[i].ctx \in Ctxs
      BY <1>1, <2>3 DEF Types, Request
    <3>2. \A a, b \in Clients : rq[a].ctx # NoCtx /\ rq[a].ctx = rq[b].ctx => a = b
      BY DEF Inv, Held
    <3>3. CASE i # k /\ j # k
      BY <2>3, <3>2, <3>3
    <3>4. \A a \in Clients : a # k /\ rq[a].ctx = sq[k].ctx /\ sq[k].ctx # NoCtx
            /\ k \in Clients => sq[k].ctx = rq[k].ctx
      BY <1>1 DEF Inv, Held, Types, Request, ReqStep
    <3> QED
      BY <2>3, <3>2, <3>3, <3>4
  <2>4. ASSUME NEW d \in Ctxs, dn[d].state = "active"
        PROVE  \E l \in Clients : sq[l].ctx = d
    <3>1. CASE d = c
      BY <1>1, <2>4, <3>1 DEF Inv, Held, ConnStep
    <3>2. CASE d # c
      <4>1. PICK l \in Clients : rq[l].ctx = d
        BY <2>4, <3>2 DEF Inv, Held
      <4> QED
        BY <1>1, <3>2, <4>1, Zenon DEF ReqStep
    <3> QED
      BY <3>1, <3>2
  <2> QED
    BY <1>1, <2>1, <2>2, <2>3, <2>4 DEF Held
<1>5. Askers(dn, sq, m)
  <2>1. ASSUME NEW d \in Ctxs, NEW l \in Clients PROVE AskedOn(d, dn[d], sq[l], l)
    BY <1>1 DEF Inv, Askers, AskedOn, ReqStep, ConnStep
  <2>2. ASSUME NEW d \in Ctxs, NEW i \in Clients, NEW j \in Clients,
               dn[d].asked[i] > 0, dn[d].asked[j] > 0
        PROVE  i = j
    <3>1. CASE d # c \/ (i # k /\ j # k)
      BY <2>2, <3>1 DEF Inv, Askers, ConnStep
    <3>2. CASE d = c /\ (i = k \/ j = k)
      BY <2>2, <3>2 DEF Inv, Askers, ConnStep
    <3> QED
      BY <3>1, <3>2, Zenon
  <2>3. ASSUME NEW l \in Clients
        PROVE  sq[l].pending = ToCome(dn, sq[l], m, l) + Running(m, l)
    <3>1. CASE l = k
      BY <3>1 DEF ReqStep
    <3>2. CASE l # k
      <4>1. /\ rq[l].pending = ToCome(cn, rq[l], lp, l) + Running(lp, l)
            /\ sq[l] = rq[l] /\ Running(m, l) = Running(lp, l)
        BY <3>2 DEF Inv, Askers, LoopStep
      <4>2. \A d \in Ctxs : dn[d].asked[l] = cn[d].asked[l]
        BY <3>2 DEF ConnStep
      <4>3. /\ rq[l].ctx \in Ctxs \cup {NoCtx} /\ lp.ctx \in Ctxs \cup {NoCtx}
            /\ m.ctx \in Ctxs \cup {NoCtx}
            /\ \A d \in Ctxs : cn[d].asked[l] \in Nat
        BY <1>1 DEF Types, Request, Loop, Conn
      <4>4. CASE rq[l].ctx # NoCtx \/ m.ctx = lp.ctx
        BY <4>1, <4>2, <4>3, <4>4, Zenon DEF ToCome
      <4>5. CASE rq[l].ctx = NoCtx /\ m.ctx # lp.ctx
        <5>1. lp.ctx # NoCtx => cn[lp.ctx].asked[l] = 0
          BY <3>2, <4>5, Zenon DEF LoopStep
        <5>2. m.ctx # NoCtx => cn[m.ctx].asked[l] = 0
          BY <4>3, <4>5, <1>1 DEF Inv, Askers, AskedOn, Marks
        <5> QED
          BY <4>1, <4>2, <4>3, <4>5, <5>1, <5>2 DEF ToCome
      <4> QED
        BY <4>4, <4>5
    <3> QED
      BY <3>1, <3>2
  <2> QED
    BY <2>1, <2>2, <2>3, Zenon DEF Askers
<1>6. Marks(dn, m)
  <2> SUFFICES ASSUME NEW d \in Ctxs
               PROVE  /\ dn[d].freeing => m.ctx = d
                      /\ dn[d].err => dn[d].mem = "dropped" \/ (m.ctx = d /\ Drains(m))
    BY Zenon DEF Marks
  <2>1. CASE d = c
    BY <2>1, Zenon DEF ConnStep
  <2>2. CASE d # c
    BY <1>1, <2>2 DEF Inv, Marks, LoopStep
  <2> QED
    BY <2>1, <2>2
<1> QED
  BY <1>2, <1>3, <1>4, <1>5, <1>6 DEF Inv

(***************************************************************************)
(* What the operations of the pool do to one connection.                   *)
(***************************************************************************)

(* A context that is not in use.                                           *)
LEMMA NoConnOK ==
  /\ NoConn \in Conn /\ ConnOK(NoConn)
  /\ NoConn.state = "none" /\ NoConn.mem = "free" /\ ~NoConn.freeing /\ ~NoConn.err
  /\ \A k \in Clients : NoConn.asked[k] = 0
<1>1. NoConn \in Conn
  BY DEF NoConn, Conn, States, Lists
<1>2. /\ NoConn.state = "none" /\ NoConn.mem = "free" /\ ~NoConn.freeing /\ ~NoConn.err
      /\ ~NoConn.timer /\ ~NoConn.quit /\ NoConn.list = "none" /\ NoConn.setup = 0
      /\ NoConn.asked = [k \in Clients |-> 0]
  BY DEF NoConn
<1> HIDE DEF NoConn
<1>3. \A k \in Clients : NoConn.asked[k] = 0
  BY <1>2
<1>4. NoCallbacks(NoConn)
  BY <1>2, <1>3 DEF NoCallbacks
<1> QED
  BY <1>1, <1>2, <1>3, <1>4 DEF ConnOK, ListOf

(* A connection is parked in the pool: its timer is armed.                 *)
LEMMA ParkOK ==
  ASSUME NEW x \in Conn, ConnOK(x), x.state = "active", x.mem = "live",
         NoCallbacks(x), x.connected
  PROVE  LET y == Park(x)
         IN  /\ y \in Conn /\ ConnOK(y) /\ y.state = "inactive" /\ y.mem = "live"
             /\ y.asked = x.asked /\ y.err = x.err /\ ~y.freeing
<1> DEFINE y == Park(x)
<1>1. ASSUME NEW t \in BOOLEAN
      PROVE  [x EXCEPT !.state = "inactive", !.list = "inactive", !.timer = t] \in Conn
  BY Zenon DEF Conn, States, Lists
<1>2. y \in Conn
  BY <1>1, Zenon DEF Park
<1>3. /\ y.state = "inactive" /\ y.list = "inactive" /\ y.timer /\ y.freeing = x.freeing
      /\ y.mem = x.mem /\ y.connected = x.connected /\ y.err = x.err
      /\ y.setup = x.setup /\ y.asked = x.asked /\ y.quit = x.quit
  BY Zenon DEF Park, Conn
<1> HIDE DEF y
<1>4. ConnOK(y)
  BY <1>3 DEF ConnOK, NoCallbacks, ListOf
<1> QED
  BY <1>2, <1>3, <1>4 DEF y, ConnOK

(* A connection is erased in a callback of its context.                    *)
LEMMA EraseInside ==
  ASSUME NEW x \in Conn, ConnOK(x), x.state = "active", x.mem = "live"
  PROVE  LET y == Erase(x, TRUE)
         IN  /\ y \in Conn /\ ConnOK(y) /\ y.state = "none" /\ y.mem = "live"
             /\ y.asked = x.asked /\ y.err = x.err /\ y.freeing
<1> DEFINE y == Erase(x, TRUE)
<1>1. ~x.freeing
  BY DEF ConnOK
<1>2. y = [[[x EXCEPT !.list = "none"] EXCEPT !.state = "none", !.timer = FALSE]
             EXCEPT !.freeing = TRUE]
  BY <1>1 DEF Erase, Destruct, RedisAsyncFree, Conn
<1>3. ASSUME NEW t \in BOOLEAN, NEW f \in BOOLEAN
      PROVE  [[[x EXCEPT !.list = "none"] EXCEPT !.state = "none", !.timer = t]
                EXCEPT !.freeing = f] \in Conn
  BY Zenon DEF Conn, States, Lists
<1>4. y \in Conn
  BY <1>2, <1>3, Zenon
<1>5. /\ y.state = "none" /\ y.list = "none" /\ ~y.timer /\ y.freeing
      /\ y.mem = x.mem /\ y.err = x.err /\ y.asked = x.asked /\ y.quit = x.quit
  BY <1>2, Zenon DEF Conn
<1> HIDE DEF y
<1>6. ConnOK(y)
  BY <1>5 DEF ConnOK, ListOf
<1> QED
  BY <1>4, <1>5, <1>6, Zenon DEF y

(* A connection is erased outside of the callbacks of its context.         *)
LEMMA EraseOutside ==
  ASSUME NEW x \in Conn, ~x.freeing
  PROVE  Erase(x, FALSE) = NoConn
<1> DEFINE y == [[x EXCEPT !.list = "none"] EXCEPT !.state = "none", !.timer = FALSE]
<1>1. y.state = "none" /\ y.list = "none" /\ y.timer = FALSE /\ y.freeing = x.freeing
  BY DEF Conn
<1>2. Erase(x, FALSE) = IF y.freeing THEN y ELSE RedisAsyncFree(y, FALSE)
  BY DEF Erase, Destruct, Conn
<1> HIDE DEF y
<1>3. Erase(x, FALSE) = [NoConn EXCEPT !.state = "none", !.list = "none", !.timer = FALSE]
  BY <1>1, <1>2, Zenon DEF RedisAsyncFree
<1> QED
  BY <1>3, ZenonT(60) DEF NoConn

(* release_connection in a callback of the context.                        *)
LEMMA ReleaseInside ==
  ASSUME NEW x \in Conn, ConnOK(x), x.state = "active", x.mem = "live", NEW how
  PROVE  LET y == ReleaseConnection(x, how, TRUE)
         IN  /\ y \in Conn /\ ConnOK(y) /\ y.mem = "live" /\ y.asked = x.asked
             /\ y.err = x.err
             /\ \/ y.state = "inactive" /\ ~y.freeing /\ ~x.err /\ NoCallbacks(x)
                \/ y.state = "none" /\ y.freeing
BY ParkOK, EraseInside, Zenon DEF ReleaseConnection

(* release_connection outside of the callbacks of the context.             *)
LEMMA ReleaseOutside ==
  ASSUME NEW x \in Conn, ConnOK(x), x.state = "active", x.mem = "live", NEW how
  PROVE  LET y == ReleaseConnection(x, how, FALSE)
         IN  /\ y \in Conn /\ ConnOK(y) /\ y.state \in {"none", "inactive"}
             /\ ~y.freeing /\ ~y.err /\ \A k \in Clients : y.asked[k] = 0
<1>1. ~x.freeing
  BY DEF ConnOK
<1>2. CASE ~x.err /\ how = "default" /\ NoCallbacks(x) /\ x.connected
  <2>1. ReleaseConnection(x, how, FALSE) = Park(x)
    BY <1>2 DEF ReleaseConnection
  <2>2. \A k \in Clients : x.asked[k] = 0
    BY <1>2 DEF NoCallbacks
  <2>3. /\ Park(x) \in Conn /\ ConnOK(Park(x)) /\ Park(x).state = "inactive"
        /\ Park(x).asked = x.asked /\ Park(x).err = x.err /\ ~Park(x).freeing
    BY <1>2, ParkOK
  <2> QED
    BY <1>2, <2>1, <2>2, <2>3, ZenonT(60)
<1>3. CASE ~(~x.err /\ how = "default" /\ NoCallbacks(x) /\ x.connected)
  BY <1>1, <1>3, EraseOutside, NoConnOK, Zenon DEF ReleaseConnection
<1> QED
  BY <1>2, <1>3, Zenon

(* A new connection.                                                       *)
LEMMA NewConnOK ==
  ASSUME NEW n \in Nat
  PROVE  /\ NewConn(n) \in Conn /\ ConnOK(NewConn(n)) /\ NewConn(n).state = "active"
         /\ NewConn(n).mem = "live" /\ ~NewConn(n).freeing /\ ~NewConn(n).err
         /\ \A k \in Clients : NewConn(n).asked[k] = 0
<1> DEFINE y == NewConn(n)
<1>1. y \in Conn
  BY NoConnOK, Zenon DEF NewConn, Conn, States, Lists
<1>2. /\ y.state = "active" /\ y.list = "active" /\ ~y.timer /\ ~y.freeing
      /\ y.mem = "live" /\ ~y.err /\ ~y.quit /\ y.asked = NoConn.asked
  BY DEF NewConn, NoConn
<1> HIDE DEF y
<1> QED
  BY <1>1, <1>2, NoConnOK DEF y, ConnOK, ListOf

(* A parked connection is taken out of the pool.                           *)
LEMMA ReuseOK ==
  ASSUME NEW x \in Conn, ConnOK(x), x.state = "inactive"
  PROVE  /\ Reuse(x) \in Conn /\ ConnOK(Reuse(x)) /\ Reuse(x).state = "active"
         /\ Reuse(x).mem = "live" /\ ~Reuse(x).freeing /\ Reuse(x).err = x.err
         /\ \A k \in Clients : Reuse(x).asked[k] = 0
<1> DEFINE y == Reuse(x)
<1>1. ASSUME NEW t \in BOOLEAN
      PROVE  [x EXCEPT !.state = "active", !.list = "active", !.timer = t] \in Conn
  BY ZenonT(60) DEF Conn, States, Lists
<1>2. y \in Conn
  BY <1>1, Zenon DEF Reuse
<1>3. /\ y.state = "active" /\ y.list = "active" /\ ~y.timer /\ y.freeing = x.freeing
      /\ y.mem = x.mem /\ y.err = x.err /\ y.asked = x.asked /\ y.quit = x.quit
  BY DEF Reuse, Conn
<1> HIDE DEF y
<1> QED
  BY <1>2, <1>3 DEF y, ConnOK, ListOf

(***************************************************************************)
(* Steps of one connection.                                                *)
(***************************************************************************)

(* The conjuncts of the invariant.                                         *)
LEMMA InvAt ==
  ASSUME RedisInv
  PROVE  /\ Types(conn, req, loop) /\ NoCtx \notin Ctxs /\ Nobody \notin Clients
         /\ \A c \in Ctxs : conn[c] \in Conn /\ ConnOK(conn[c])
         /\ \A k \in Clients : req[k] \in Request /\ ReqOK(k, req[k], loop.kept = k)
         /\ loop \in Loop /\ LoopAt(conn, req, loop)
<1>1. Types(conn, req, loop)
  BY DEF RedisInv, Inv
<1> QED
  BY <1>1, PoolAssumption DEF RedisInv, Inv, Conns, Reqs, Types

(* StepInv for the variables.                                              *)
LEMMA Step ==
  ASSUME RedisInv, NEW c \in Ctxs \cup {NoCtx}, NEW k \in Clients \cup {Nobody},
         Types(conn', req', loop'),
         \A d \in Ctxs \ {c} : conn'[d] = conn[d],
         \A l \in Clients \ {k} : req'[l] = req[l],
         LoopStep(c, k, conn, loop, loop'),
         c \in Ctxs => ConnStep(c, k, conn[c], conn'[c], req[k], req'[k], loop'),
         k \in Clients => ReqStep(c, k, conn, conn', req[k], req'[k], loop'),
         LoopAt(conn', req', loop')
  PROVE  RedisInv'
<1>1. Inv(conn, req, loop)
  BY DEF RedisInv
<1>2. Inv(conn', req', loop')
  BY <1>1, StepInv
<1> QED
  BY <1>2 DEF RedisInv

(* Between the callbacks no context is being worked on.                    *)
LEMMA IdleLoop ==
  /\ Idle \in Loop /\ Idle.at = "idle" /\ Idle.ctx = NoCtx /\ Idle.who = Nobody
  /\ Idle.back = "idle" /\ Idle.kept = Nobody /\ ~Drains(Idle)
  /\ \A k : Running(Idle, k) = 0
BY DEF Idle, Loop, Drains, Running

(* While the replies of a context are drained.                             *)
LEMMA DrainLoop ==
  ASSUME NEW c \in Ctxs, NEW k \in Clients \cup {Nobody}
  PROVE  LET m == Draining(c, k)
         IN  /\ m \in Loop /\ m.at = "drain" /\ m.ctx = c /\ m.who = Nobody
             /\ m.back = "idle" /\ m.kept = k /\ Drains(m)
             /\ \A l : Running(m, l) = 0
<1> DEFINE m == Draining(c, k)
<1>1. /\ m \in Loop /\ m.at = "drain" /\ m.ctx = c /\ m.who = Nobody
      /\ m.back = "idle" /\ m.kept = k
  BY Zenon DEF Draining, Idle, Loop
<1> HIDE DEF m
<1> QED
  BY <1>1 DEF m, Drains, Running

(* A connection changes and no request notices.                            *)
LEMMA ConnOnly ==
  ASSUME RedisInv, NEW c \in Ctxs, NEW y \in Conn, ConnOK(y),
         \A l \in Clients : y.asked[l] = conn[c].asked[l],
         y.freeing <=> conn[c].freeing, y.err => conn[c].err,
         y.state = "active" <=> conn[c].state = "active",
         y.mem = conn[c].mem \/ loop.ctx = NoCtx,
         conn[c].mem = "dropped" => y.mem = "dropped",
         conn' = [conn EXCEPT ![c] = y], UNCHANGED <<req, loop>>
  PROVE  RedisInv'
<1>1. Types(conn', req', loop') /\ conn'[c] = y /\ \A d \in Ctxs \ {c} : conn'[d] = conn[d]
  BY InvAt DEF Types
<1>2. LoopStep(c, Nobody, conn, loop, loop')
  BY InvAt, Zenon DEF LoopStep
<1>3. ConnStep(c, Nobody, conn[c], conn'[c], req[Nobody], req'[Nobody], loop')
  <2>1. y.freeing => loop'.ctx = c
    BY DEF RedisInv, Inv, Marks
  <2>2. y.err => y.mem = "dropped" \/ (loop'.ctx = c /\ Drains(loop'))
    BY Zenon DEF RedisInv, Inv, Marks
  <2> QED
    BY <1>1, <2>1, <2>2, InvAt DEF ConnStep
<1>4. LoopAt(conn', req', loop')
  BY <1>1, InvAt DEF LoopAt
<1>5. Nobody \notin Clients /\ Nobody \in Clients \cup {Nobody} /\ c \in Ctxs \cup {NoCtx}
  BY PoolAssumption
<1> QED
  BY <1>1, <1>2, <1>3, <1>4, <1>5, Step, ZenonT(60)

(* The reply to AUTH or SELECT.                                            *)
LEMMA SetupAnswerOK ==
  ASSUME RedisInv, NEW c \in Ctxs, SetupAnswer(c)
  PROVE  RedisInv'
<1> DEFINE x == conn[c]
           y == [x EXCEPT !.setup = @ - 1]
<1>1. x \in Conn /\ ConnOK(x) /\ x.setup > 0
  BY InvAt DEF SetupAnswer
<1>2. conn' = [conn EXCEPT ![c] = y] /\ UNCHANGED <<req, loop>>
  BY DEF SetupAnswer
<1> HIDE DEF x
<1>3. y \in Conn
  BY <1>1 DEF Conn
<1>4. /\ y.state = x.state /\ y.list = x.list /\ y.timer = x.timer /\ y.mem = x.mem
      /\ y.err = x.err /\ y.freeing = x.freeing /\ y.asked = x.asked /\ y.quit = x.quit
  BY <1>1 DEF Conn
<1> HIDE DEF y
<1>5. ConnOK(y)
  BY <1>1, <1>4 DEF ConnOK, NoCallbacks
<1> QED
  BY <1>2, <1>3, <1>4, <1>5, ConnOnly, Zenon DEF x

(* redis_quit_cb.                                                          *)
LEMMA QuitAnswerOK ==
  ASSUME RedisInv, NEW c \in Ctxs, QuitAnswer(c)
  PROVE  RedisInv'
<1> DEFINE x == conn[c]
           y == [x EXCEPT !.quit = FALSE]
<1>1. x \in Conn /\ ConnOK(x) /\ x.quit
  BY InvAt DEF QuitAnswer
<1>2. conn' = [conn EXCEPT ![c] = y] /\ UNCHANGED <<req, loop>>
  BY DEF QuitAnswer
<1> HIDE DEF x
<1>3. ASSUME NEW b \in BOOLEAN PROVE [x EXCEPT !.quit = b] \in Conn
  BY <1>1 DEF Conn
<1>4. y \in Conn
  BY <1>3, ZenonT(60)
<1>5. /\ y.state = x.state /\ y.list = x.list /\ y.timer = x.timer /\ y.mem = x.mem
      /\ y.err = x.err /\ y.freeing = x.freeing /\ y.asked = x.asked /\ ~y.quit
      /\ y.connected = x.connected /\ y.setup = x.setup
  BY <1>1 DEF Conn
<1> HIDE DEF y
<1>6. ConnOK(y)
  BY <1>1, <1>5 DEF ConnOK, NoCallbacks
<1> QED
  BY <1>2, <1>4, <1>5, <1>6, ConnOnly, Zenon DEF x

(* redisAsyncHandleWrite, the connection is established.                   *)
LEMMA ConnectedOK ==
  ASSUME RedisInv, NEW c \in Ctxs, Connected(c)
  PROVE  RedisInv'
<1> DEFINE x == conn[c]
           y == [x EXCEPT !.connected = TRUE]
<1>1. x \in Conn /\ ConnOK(x)
  BY InvAt
<1>2. conn' = [conn EXCEPT ![c] = y] /\ UNCHANGED <<req, loop>>
  BY DEF Connected
<1> HIDE DEF x
<1>3. ASSUME NEW b \in BOOLEAN PROVE [x EXCEPT !.connected = b] \in Conn
  BY <1>1 DEF Conn
<1>4. y \in Conn
  BY <1>3, Zenon
<1>5. /\ y.state = x.state /\ y.list = x.list /\ y.timer = x.timer /\ y.mem = x.mem
      /\ y.err = x.err /\ y.freeing = x.freeing /\ y.asked = x.asked /\ y.quit = x.quit
      /\ y.connected /\ y.setup = x.setup
  BY <1>1 DEF Conn
<1> HIDE DEF y
<1>6. ConnOK(y)
  BY <1>1, <1>5 DEF ConnOK, NoCallbacks
<1> QED
  BY <1>2, <1>4, <1>5, <1>6, ConnOnly, ZenonT(60) DEF x

(* redis_conn_timeout_cb: the pool's timer of a parked connection.         *)
LEMMA PoolTimeoutOK ==
  ASSUME RedisInv, NEW c \in Ctxs, PoolTimeout(c)
  PROVE  RedisInv'
<1> DEFINE x == conn[c]
           y == TimeoutCb(x)
<1>1. x \in Conn /\ ConnOK(x) /\ x.state \in {"inactive", "finalising"} /\ loop.ctx = NoCtx
  BY InvAt, IdleLoop, Zenon DEF PoolTimeout, ConnOK, LoopAt
<1>2. conn' = [conn EXCEPT ![c] = y] /\ UNCHANGED <<req, loop>>
  BY DEF PoolTimeout
<1>3. x.mem = "live" /\ x.connected /\ ~x.freeing /\ \A k \in Clients : x.asked[k] = 0
  BY <1>1 DEF ConnOK
<1> HIDE DEF x
<1>4. CASE x.state = "inactive"
  <2>1. y = [x EXCEPT !.state = "finalising", !.list = "terminating", !.quit = TRUE]
    BY <1>4 DEF TimeoutCb
  <2>2. ASSUME NEW b \in BOOLEAN
        PROVE  [x EXCEPT !.state = "finalising", !.list = "terminating", !.quit = b] \in Conn
    BY <1>1, Zenon DEF Conn, States, Lists
  <2>3. y \in Conn
    BY <2>1, <2>2, Zenon
  <2>4. /\ y.state = "finalising" /\ y.list = "terminating" /\ y.timer = x.timer
        /\ y.mem = x.mem /\ y.err = x.err /\ y.freeing = x.freeing /\ y.asked = x.asked
        /\ y.connected = x.connected /\ y.setup = x.setup
    BY <1>1, <2>1 DEF Conn
  <2> HIDE DEF y
  <2>5. ConnOK(y)
    BY <1>1, <1>3, <1>4, <2>4 DEF ConnOK, NoCallbacks, ListOf
  <2> QED
    BY <1>1, <1>2, <1>4, <2>3, <2>4, <2>5, ConnOnly, Zenon DEF x
<1>5. CASE x.state # "inactive"
  <2>1. y = NoConn
    BY <1>1, <1>3, <1>5, EraseOutside, Zenon DEF TimeoutCb
  <2> HIDE DEF y
  <2> QED
    BY <1>1, <1>2, <1>3, <2>1, NoConnOK, ConnOnly, ZenonT(60) DEF x
<1> QED
  BY <1>4, <1>5

(* A client with commands on a context.                                    *)
LEMMA PendingAt ==
  ASSUME RedisInv, NEW k \in Clients
  PROVE  req[k].pending = ToCome(conn, req[k], loop, k) + Running(loop, k)
BY DEF RedisInv, Inv, Askers

(* The loop is idle.                                                       *)
LEMMA IsIdle ==
  ASSUME RedisInv, loop.at = "idle"
  PROVE  loop = Idle /\ loop.ctx = NoCtx /\ loop.kept = Nobody /\ ~Drains(loop)
         /\ \A k : Running(loop, k) = 0
<1>1. loop = Idle
  BY InvAt DEF LoopAt
<1> QED
  BY <1>1, IdleLoop, Zenon

(* A peer closes the connection.                                           *)
LEMMA DisconnectOK ==
  ASSUME RedisInv, NEW c \in Ctxs, Disconnect(c)
  PROVE  RedisInv'
<1> DEFINE x == conn[c]
           y == [x EXCEPT !.err = TRUE]
<1>1. x \in Conn /\ ConnOK(x) /\ x.mem = "live" /\ loop.at = "idle"
  BY InvAt DEF Disconnect, Watched
<1>2. /\ conn' = [conn EXCEPT ![c] = y] /\ UNCHANGED req
      /\ loop' = Draining(c, Nobody)
  BY DEF Disconnect
<1> HIDE DEF x
<1>3. ASSUME NEW b \in BOOLEAN PROVE [x EXCEPT !.err = b] \in Conn
  BY <1>1 DEF Conn
<1>4. y \in Conn
  BY <1>3, ZenonT(60)
<1>5. /\ y.state = x.state /\ y.list = x.list /\ y.timer = x.timer /\ y.mem = x.mem
      /\ y.freeing = x.freeing /\ y.asked = x.asked /\ y.quit = x.quit
      /\ y.connected = x.connected /\ y.setup = x.setup
  BY <1>1 DEF Conn
<1> HIDE DEF y
<1>6. ConnOK(y)
  BY <1>1, <1>5, Zenon DEF ConnOK, NoCallbacks
<1>7. /\ loop' \in Loop /\ loop'.at = "drain" /\ loop'.ctx = c /\ loop'.who = Nobody
      /\ loop'.back = "idle" /\ loop'.kept = Nobody /\ Drains(loop')
      /\ \A l : Running(loop', l) = 0
  BY <1>2, DrainLoop
<1>8. /\ Types(conn', req', loop') /\ conn'[c] = y
      /\ \A d \in Ctxs \ {c} : conn'[d] = conn[d]
  BY <1>2, <1>4, <1>7, InvAt, Zenon DEF Types
<1>9. LoopStep(c, Nobody, conn, loop, loop')
  BY <1>1, <1>7, IsIdle, Zenon DEF LoopStep
<1>10. ConnStep(c, Nobody, conn[c], conn'[c], req[Nobody], req'[Nobody], loop')
  BY <1>5, <1>6, <1>7, <1>8, PoolAssumption, Zenon DEF ConnStep, x
<1>11. LoopAt(conn', req', loop')
  BY <1>1, <1>5, <1>7, <1>8 DEF LoopAt
<1>12. Nobody \notin Clients /\ Nobody \in Clients \cup {Nobody} /\ c \in Ctxs \cup {NoCtx}
  BY PoolAssumption
<1> QED
  BY <1>2, <1>8, <1>9, <1>10, <1>11, <1>12, Step, Zenon

(* redis_on_disconnect.                                                    *)
LEMMA OnDisconnectOK ==
  ASSUME NEW x \in Conn, ConnOK(x), x.mem = "live"
  PROVE  LET y == OnDisconnect(x)
         IN  /\ y \in Conn /\ ConnOK(y) /\ y.state \in {"none", "active"} /\ ~y.freeing
             /\ y.state = "active" <=> x.state = "active"
             /\ y.err => y.mem = "dropped"
             /\ \A k \in Clients : y.asked[k] = 0
<1>1. CASE x.state = "active"
  <2> DEFINE z(b, e) == [NoConn EXCEPT !.state = "active", !.list = x.list, !.timer = b,
                                       !.err = e, !.mem = "dropped"]
             y == z(FALSE, x.err)
  <2>1. x.timer = FALSE /\ x.list = "active" /\ x.err \in BOOLEAN
    BY <1>1 DEF ConnOK, ListOf, Conn
  <2>2. OnDisconnect(x) = y
    BY <1>1, <2>1, Zenon DEF OnDisconnect
  <2>3. ASSUME NEW b \in BOOLEAN, NEW e \in BOOLEAN PROVE z(b, e) \in Conn
    BY <2>1, NoConnOK, Zenon DEF Conn, States, Lists
  <2>4. y \in Conn
    BY <2>1, <2>3, Zenon
  <2>5. /\ y.state = "active" /\ y.list = "active" /\ ~y.timer /\ y.mem = "dropped"
        /\ ~y.freeing /\ y.asked = NoConn.asked /\ ~y.quit /\ y.setup = 0
    BY <2>1 DEF NoConn
  <2> HIDE DEF y
  <2>6. NoCallbacks(y)
    BY <2>5, NoConnOK, Zenon DEF NoCallbacks
  <2>7. ConnOK(y)
    BY <2>5, <2>6 DEF ConnOK, ListOf
  <2> QED
    BY <1>1, <2>2, <2>4, <2>5, <2>7, NoConnOK, Zenon
<1>2. CASE x.state # "active"
  <2>1. x.state = "none" \/ (x.state \in {"inactive", "finalising"} /\ x.connected /\ ~x.freeing)
    BY <1>2 DEF ConnOK, Conn, States
  <2>2. OnDisconnect(x) = NoConn
    BY <2>1, EraseOutside, ZenonT(60) DEF OnDisconnect
  <2> QED
    BY <1>2, <2>2, NoConnOK
<1> QED
  BY <1>1, <1>2

(* The record of a client without a request.                               *)
LEMMA NoRequestOK ==
  /\ NoRequest \in Request /\ \A k \in Clients : ReqOK(k, NoRequest, FALSE)
  /\ NoRequest.ctx = NoCtx /\ NoRequest.pending = 0 /\ NoRequest.open = 0
  /\ ~NoRequest.live
BY DEF NoRequest, Request, ReqOK

(* The last reply of a context is drained.                                 *)
LEMMA DrainEndOK ==
  ASSUME RedisInv, DrainEnd
  PROVE  RedisInv'
<1> DEFINE c == loop.ctx
           k == loop.kept
           x == conn[c]
           y == OnDisconnect(x)
<1>1. /\ c \in Ctxs /\ x \in Conn /\ ConnOK(x) /\ x.mem = "live" /\ loop.at = "drain"
      /\ NoCallbacks(x) /\ k \in Clients \cup {Nobody}
  BY InvAt DEF DrainEnd, LoopAt, Loop
<1>2. /\ conn' = [conn EXCEPT ![c] = y] /\ loop' = Idle
      /\ req' = IF k # Nobody /\ ~req[k].held /\ req[k].open = 0
                THEN [req EXCEPT ![k] = NoRequest] ELSE req
  BY Zenon DEF DrainEnd
<1>3. /\ y \in Conn /\ ConnOK(y) /\ ~y.freeing /\ (y.state = "active" <=> x.state = "active")
      /\ (y.err => y.mem = "dropped") /\ \A l \in Clients : y.asked[l] = 0
  BY <1>1, OnDisconnectOK, Zenon
<1> HIDE DEF y
<1>4. \A l \in Clients : x.asked[l] = 0 /\ Running(loop, l) = 0
  BY <1>1, Zenon DEF NoCallbacks, Running
<1>5. /\ Types(conn', req', loop') /\ conn'[c] = y
      /\ \A d \in Ctxs \ {c} : conn'[d] = conn[d]
      /\ \A l \in Clients \ {k} : req'[l] = req[l]
  BY <1>1, <1>2, <1>3, InvAt, IdleLoop, NoRequestOK, ZenonT(60) DEF Types
<1>6. LoopStep(c, k, conn, loop, loop')
  BY <1>1, <1>2, <1>4, IdleLoop, InvAt DEF LoopStep
<1>7. ASSUME k \in Clients
      PROVE  /\ req'[k] \in {req[k], NoRequest} /\ req'[k].ctx = NoCtx /\ req[k].ctx = NoCtx
             /\ req'[k].pending = 0 /\ ReqOK(k, req'[k], FALSE)
  <2>1. req[k].ctx = NoCtx /\ ReqOK(k, req[k], TRUE) /\ req[k] \in Request
    <3>1. ReqOK(k, req[k], loop.kept = k) /\ req[k] \in Request /\ (loop.kept = k) = TRUE
      BY <1>7, InvAt, Zenon
    <3> QED
      BY <3>1, Zenon DEF ReqOK
  <2>2. req[k].pending = 0
    BY <1>1, <1>4, <1>7, <2>1, PendingAt, InvAt DEF ToCome
  <2>3. CASE ~req[k].held /\ req[k].open = 0
    BY <1>2, <1>7, <2>1, <2>3, NoRequestOK, InvAt, Zenon DEF Types
  <2>4. CASE req[k].held \/ req[k].open # 0
    <3>1. req'[k] = req[k]
      BY <1>2, <2>4, ZenonT(60)
    <3>2. ReqOK(k, req[k], FALSE)
      BY <2>1, <2>2, <2>4 DEF ReqOK, Request
    <3> QED
      BY <2>1, <2>2, <3>1, <3>2, Zenon
  <2> QED
    BY <2>3, <2>4, ZenonT(60)
<1>8. ConnStep(c, k, conn[c], conn'[c], req[k], req'[k], loop')
  BY <1>1, <1>3, <1>4, <1>5, <1>7, InvAt, ZenonT(60) DEF ConnStep
<1>9. ASSUME k \in Clients PROVE ReqStep(c, k, conn, conn', req[k], req'[k], loop')
  <2>1. loop'.kept = Nobody /\ loop'.ctx = NoCtx /\ Running(loop', k) = 0
    BY <1>2, IdleLoop, Zenon
  <2>2. (loop'.kept = k) = FALSE
    BY <1>9, <2>1, InvAt, Zenon
  <2>3. \A d \in Ctxs : AskedOn(d, conn'[d], req'[k], k)
    <3>1. \A d \in Ctxs : AskedOn(d, conn[d], req[k], k)
      BY <1>9 DEF RedisInv, Inv, Askers
    <3>2. ASSUME NEW d \in Ctxs, d # c PROVE AskedOn(d, conn'[d], req'[k], k)
      BY <1>5, <1>7, <1>9, <3>1, <3>2, Zenon DEF AskedOn
    <3>3. AskedOn(c, conn'[c], req'[k], k)
      BY <1>3, <1>5, <1>9 DEF AskedOn
    <3> QED
      BY <3>2, <3>3, Zenon
  <2>4. ToCome(conn', req'[k], loop', k) = 0
    BY <1>7, <1>9, <2>1, Zenon DEF ToCome
  <2>5. ReqOK(k, req'[k], loop'.kept = k)
    BY <1>7, <1>9, <2>2, Zenon
  <2>6. req'[k].pending = ToCome(conn', req'[k], loop', k) + Running(loop', k)
    <3>1. 0 = 0 + 0
      OBVIOUS
    <3> QED
      BY <1>7, <1>9, <2>1, <2>4, <3>1, Zenon
  <2>7. req'[k].ctx = NoCtx /\ req[k].ctx = NoCtx /\ NoCtx \notin Ctxs
    BY <1>7, <1>9, InvAt, ZenonT(60)
  <2> QED
    BY <2>3, <2>5, <2>6, <2>7, Zenon DEF ReqStep
<1>10. LoopAt(conn', req', loop')
  BY <1>2, IdleLoop, Zenon DEF LoopAt
<1> QED
  BY <1>1, <1>5, <1>6, <1>8, <1>9, <1>10, Step, Zenon

(***************************************************************************)
(* What a script does while it runs.                                       *)
(***************************************************************************)

(* The timer of a request expires.                                         *)
LEMMA ExpireOK ==
  ASSUME RedisInv, NEW k \in Clients, Expire(k)
  PROVE  RedisInv'
<1> DEFINE m == [Idle EXCEPT !.at = "expire", !.who = k]
<1>1. /\ loop.at = "idle" /\ k \notin Sync /\ req[k].pending > 0 /\ ~req[k].ended
      /\ loop' = m /\ UNCHANGED <<conn, req>>
  BY DEF Expire, Unanswered
<1>2. /\ m \in Loop /\ m.at = "expire" /\ m.who = k /\ m.ctx = NoCtx /\ m.kept = Nobody
      /\ m.back = "idle"
  BY Zenon DEF Idle, Loop
<1> HIDE DEF m
<1>3. (loop.kept = k) = FALSE
  BY <1>1, IsIdle, InvAt
<1>4. ReqOK(k, req[k], FALSE) /\ req[k] \in Request
  BY <1>3, InvAt, ZenonT(60)
<1>5. req[k].open > 0 /\ req[k].ctx # NoCtx
  BY <1>1, <1>4, Zenon DEF ReqOK, Request
<1>6. LoopAt(conn', req', loop')
  BY <1>1, <1>2, <1>5, Zenon DEF LoopAt
<1>7. Types(conn', req', loop')
  BY <1>1, <1>2, InvAt, Zenon DEF Types
<1>8. LoopStep(NoCtx, Nobody, conn, loop, loop')
  <2>1. \A l : Running(m, l) = 0
    BY <1>2 DEF Running
  <2> QED
    BY <1>1, <1>2, <2>1, IsIdle, Zenon DEF LoopStep
<1>9. /\ Nobody \notin Clients /\ Nobody \in Clients \cup {Nobody}
      /\ NoCtx \in Ctxs \cup {NoCtx} /\ NoCtx \notin Ctxs
  BY PoolAssumption, Zenon
<1> QED
  BY <1>1, <1>6, <1>7, <1>8, <1>9, Step, Zenon

(* The loop stays where it is while a script runs.                         *)
LEMMA ScriptLoop ==
  ASSUME NEW cn, NEW rq, NEW lp \in Loop, LoopAt(cn, rq, lp),
         lp.at \in {"idle", "lua", "expire"}, NEW dn, NEW sq,
         lp.ctx \in Ctxs => /\ dn[lp.ctx].mem = cn[lp.ctx].mem
                            /\ dn[lp.ctx].freeing = cn[lp.ctx].freeing,
         lp.at # "idle" /\ lp.who \in Clients =>
           /\ sq[lp.who].ctx = rq[lp.who].ctx
           /\ sq[lp.who].ended = rq[lp.who].ended
           /\ rq[lp.who].open > 0 => sq[lp.who].open > 0
           /\ rq[lp.who].clean > 0 => sq[lp.who].clean > 0
  PROVE  LoopAt(dn, sq, lp)
BY IdleLoop, Zenon DEF LoopAt

(* The position of the loop depends on the context it works on.            *)
LEMMA LoopSame ==
  ASSUME NEW c, NEW k, NEW cn, NEW lp
  PROVE  LoopStep(c, k, cn, lp, lp)
BY DEF LoopStep

(* A request that is not allocated has nothing anywhere.                   *)
LEMMA NotLive ==
  ASSUME NEW cn, NEW rq, NEW lp, Inv(cn, rq, lp), NEW k \in Clients, ~rq[k].live
  PROVE  /\ rq[k] = NoRequest /\ lp.kept # k /\ Running(lp, k) = 0
         /\ lp.at \in {"lua", "expire"} => lp.who # k
         /\ \A d \in Ctxs : cn[d].asked[k] = 0
<1>1. /\ cn \in [Ctxs -> Conn] /\ rq \in [Clients -> Request] /\ lp \in Loop
      /\ ReqOK(k, rq[k], lp.kept = k) /\ NoCtx \notin Ctxs
  BY PoolAssumption, Zenon DEF Inv, Types, Reqs
<1>2. rq[k] = NoRequest /\ lp.kept # k
  BY <1>1 DEF ReqOK
<1>3. rq[k].open = 0 /\ rq[k].ctx = NoCtx /\ rq[k].pending = 0
  BY <1>2, NoRequestOK, Zenon
<1>4. lp.at \in {"lua", "expire"} => lp.who # k
  BY <1>3 DEF Inv, LoopAt
<1>5. Running(lp, k) = 0
  BY <1>4, Zenon DEF Running
<1>6. ASSUME NEW d \in Ctxs PROVE cn[d].asked[k] = 0
  <2>1. cn[d].asked[k] \in Nat
    BY <1>1, Zenon DEF Conn
  <2>2. AskedOn(d, cn[d], rq[k], k) /\ (cn[d].freeing => lp.ctx = d)
    BY Zenon DEF Inv, Askers, Marks
  <2>3. 0 = ToCome(cn, rq[k], lp, k) + 0
    BY <1>3, <1>5, Zenon DEF Inv, Askers
  <2> QED
    BY <1>1, <1>3, <2>1, <2>2, <2>3 DEF AskedOn, ToCome
<1> QED
  BY <1>2, <1>4, <1>5, <1>6, Zenon

(* Inactive connections are destroyed.                                     *)
LEMMA EraseSome ==
  ASSUME NEW cn, NEW rq, NEW lp, Inv(cn, rq, lp), lp.at \in {"idle", "lua", "expire"},
         NEW dn \in [Ctxs -> Conn], NEW broken,
         \A c \in Ctxs : dn[c] = IF c \in broken THEN NoConn ELSE cn[c],
         \A c \in broken : c \in Ctxs /\ cn[c].state = "inactive"
  PROVE  Inv(dn, rq, lp)
<1>1. /\ cn \in [Ctxs -> Conn] /\ rq \in [Clients -> Request] /\ lp \in Loop
      /\ NoCtx \notin Ctxs /\ \A c \in Ctxs : ConnOK(cn[c])
  BY PoolAssumption, Zenon DEF Inv, Types, Conns
<1>2. Types(dn, rq, lp) /\ Conns(dn) /\ Reqs(rq, lp)
  BY <1>1, NoConnOK, Zenon DEF Inv, Types, Conns
<1>3. ASSUME NEW c \in Ctxs
      PROVE  /\ dn[c].state = "active" <=> cn[c].state = "active"
             /\ dn[c].freeing <=> cn[c].freeing
             /\ dn[c].err => cn[c].err /\ dn[c].mem = cn[c].mem
             /\ \A k \in Clients : dn[c].asked[k] = cn[c].asked[k]
  BY <1>1, NoConnOK, ZenonT(60) DEF ConnOK
<1>4. Held(dn, rq)
  BY <1>1, <1>3 DEF Inv, Held, Request
<1>5. Askers(dn, rq, lp)
  <2>1. \A c \in Ctxs, k \in Clients : AskedOn(c, dn[c], rq[k], k)
    BY <1>3, SMTT(30) DEF Inv, Askers, AskedOn
  <2>2. \A c \in Ctxs, k, l \in Clients :
          dn[c].asked[k] > 0 /\ dn[c].asked[l] > 0 => k = l
    BY <1>3, SMTT(30) DEF Inv, Askers
  <2>3. ASSUME NEW k \in Clients PROVE ToCome(dn, rq[k], lp, k) = ToCome(cn, rq[k], lp, k)
    BY <1>1, <1>3 DEF ToCome, Request, Loop
  <2> QED
    BY ZenonT(60), <2>1, <2>2, <2>3 DEF Inv, Askers
<1>6. lp.ctx \in broken => lp.at = "expire" \/ lp.at = "idle"
  <2>1. ASSUME lp.at = "lua" PROVE cn[lp.ctx].state # "inactive"
    BY <1>1, <2>1 DEF Inv, LoopAt, Held, ConnOK
  <2> QED
    BY ZenonT(60), <1>1, <2>1
<1>7. lp.at # "lua" => lp.ctx = NoCtx
  BY IdleLoop, Zenon DEF Inv, LoopAt
<1>8. LoopAt(dn, rq, lp)
  BY <1>1, <1>6, <1>7, ScriptLoop, ZenonT(60) DEF Inv
<1>9. Marks(dn, lp)
  BY ZenonT(60), <1>3 DEF Inv, Marks
<1> QED
  BY <1>2, <1>4, <1>5, <1>8, <1>9, Zenon DEF Inv

(* A client gets a context.                                                *)
LEMMA OpenedOK ==
  ASSUME NEW how \in {"default", "enforce"}, NEW c \in Ctxs
  PROVE  LET s == Opened(how, c)
         IN  /\ s \in Request /\ s.ctx = c /\ s.pending = 0
             /\ \A k \in Clients : ReqOK(k, s, FALSE)
<1> DEFINE s == Opened(how, c)
<1>1. s \in Request
  BY Zenon DEF Opened, NoRequest, Request
<1>2. /\ s.live /\ s.ctx = c /\ s.held /\ s.open = 0 /\ s.pending = 0 /\ s.sent = 0
      /\ ~s.ended /\ ~s.waits /\ s.ans = 0 /\ s.clean = 0
  BY Zenon DEF Opened, NoRequest
<1> HIDE DEF s
<1>3. \A k \in Clients : ReqOK(k, s, FALSE)
  BY <1>2, PoolAssumption DEF ReqOK
<1> QED
  BY <1>1, <1>2, <1>3, Zenon DEF s

(* A client gets a connection.                                             *)
LEMMA LendOK ==
  ASSUME NEW cn, NEW rq, NEW lp, Inv(cn, rq, lp), lp.at \in {"idle", "lua", "expire"},
         NEW k \in Clients, ~rq[k].live, NEW how \in {"default", "enforce"},
         NEW c \in Ctxs, cn[c].state # "active", ~cn[c].freeing, lp.ctx # c,
         \A l \in Clients : cn[c].asked[l] = 0,
         NEW y \in Conn, ConnOK(y), y.state = "active", ~y.freeing, ~y.err,
         \A l \in Clients : y.asked[l] = 0
  PROVE  Inv([cn EXCEPT ![c] = y], [rq EXCEPT ![k] = Opened(how, c)], lp)
<1> DEFINE dn == [cn EXCEPT ![c] = y]
           s == Opened(how, c)
           sq == [rq EXCEPT ![k] = s]
<1>1. Types(cn, rq, lp) /\ NoCtx \notin Ctxs /\ c \in Ctxs \cup {NoCtx} /\ k \in Clients \cup {Nobody}
  BY PoolAssumption DEF Inv
<1>2. s \in Request /\ s.ctx = c /\ s.pending = 0 /\ ReqOK(k, s, FALSE)
  BY OpenedOK, ZenonT(60)
<1>3. /\ Types(dn, sq, lp) /\ dn[c] = y /\ sq[k] = s
      /\ \A d \in Ctxs \ {c} : dn[d] = cn[d]
      /\ \A l \in Clients \ {k} : sq[l] = rq[l]
  BY <1>1, <1>2, Zenon DEF Types
<1>4. /\ rq[k].ctx = NoCtx /\ (lp.kept = k) = FALSE /\ Running(lp, k) = 0
      /\ lp.at \in {"lua", "expire"} => lp.who # k
      /\ \A d \in Ctxs : cn[d].asked[k] = 0
  BY NotLive, NoRequestOK
<1> HIDE DEF dn, s, sq
<1>5. ConnStep(c, k, cn[c], dn[c], rq[k], sq[k], lp)
  BY <1>2, <1>3, <1>4, ZenonT(60) DEF ConnStep
<1>6. ReqStep(c, k, cn, dn, rq[k], sq[k], lp)
  <2>1. \A d \in Ctxs : AskedOn(d, dn[d], sq[k], k)
    <3>1. \A d \in Ctxs : dn[d].asked[k] = 0
      BY <1>3, <1>4, ZenonT(60)
    <3> QED
      BY <3>1, NoneAsked, Zenon DEF AskedOn
  <2>2. ToCome(dn, s, lp, k) = 0
    BY <1>1, <1>2, <1>3 DEF ToCome
  <2>3. ReqOK(k, sq[k], lp.kept = k)
    BY <1>2, <1>3, <1>4, ZenonT(60)
  <2>4. sq[k].pending = ToCome(dn, sq[k], lp, k) + Running(lp, k)
    BY <1>2, <1>3, <1>4, <2>2
  <2> QED
    BY <1>2, <1>3, <1>4, <2>1, <2>3, <2>4, ZenonT(60) DEF ReqStep
<1>7. LoopAt(dn, sq, lp)
  <2>1. lp \in Loop /\ LoopAt(cn, rq, lp)
    BY <1>1, Zenon DEF Inv, Types
  <2>2. lp.ctx \in Ctxs => dn[lp.ctx] = cn[lp.ctx]
    BY <1>3
  <2>3. lp.at # "idle" /\ lp.who \in Clients => sq[lp.who] = rq[lp.who]
    BY ZenonT(60), <1>3, <1>4
  <2> QED
    BY <2>1, <2>2, <2>3, ScriptLoop, Zenon
<1>8. Inv(dn, sq, lp)
  <2>1. LoopStep(c, k, cn, lp, lp)
    BY LoopSame, Zenon
  <2> QED
    BY <1>1, <1>3, <1>5, <1>6, <1>7, <2>1, StepInv, ZenonT(60)
<1> QED
  BY <1>8, Zenon DEF dn, s, sq

(* A client goes on without a context.                                     *)
LEMMA WithoutOK ==
  ASSUME RedisInv, ScriptRuns, NEW broken \in SUBSET Inactive
  PROVE  /\ Inv(Without(broken), req, loop)
         /\ \A c \in Ctxs : Without(broken)[c] = IF c \in broken THEN NoConn ELSE conn[c]
<1>1. \A c \in broken : c \in Ctxs /\ conn[c].state = "inactive"
  BY DEF Inactive
<1>2. \A c \in broken : Erase(conn[c], FALSE) = NoConn
  BY <1>1, InvAt, EraseOutside, Zenon DEF ConnOK
<1>3. \A c \in Ctxs : Without(broken)[c] = IF c \in broken THEN NoConn ELSE conn[c]
  BY <1>2, Zenon DEF Without
<1>4. Without(broken) \in [Ctxs -> Conn]
  BY <1>2, InvAt, NoConnOK, ZenonT(60) DEF Without
<1>5. Inv(conn, req, loop) /\ loop.at \in {"idle", "lua", "expire"}
  BY Zenon DEF RedisInv, ScriptRuns
<1> QED
  BY <1>1, <1>3, <1>4, <1>5, EraseSome, Zenon

(* The loop has no business with a connection that may be lent.            *)
LEMMA NotInLoop ==
  ASSUME RedisInv, ScriptRuns, NEW c \in Ctxs,
         conn[c].state = "inactive" \/ conn[c].mem = "free"
  PROVE  loop.ctx # c
<1>1. loop.at # "lua" => loop.ctx = NoCtx
  BY InvAt, IdleLoop, ZenonT(60) DEF LoopAt, ScriptRuns
<1>2. ASSUME loop.at = "lua", loop.ctx = c PROVE FALSE
  <2>1. /\ conn[c].mem = "live" /\ loop.who \in Clients /\ c # NoCtx
        /\ req[loop.who].ctx = c \/ conn[c].freeing
    BY <1>2, InvAt, ZenonT(60) DEF LoopAt
  <2>2. req[loop.who].ctx = c => conn[c].state = "active"
    BY <2>1, ZenonT(60) DEF RedisInv, Inv, Held
  <2>3. ConnOK(conn[c])
    BY InvAt
  <2> QED
    BY <2>1, <2>2, <2>3 DEF ConnOK
<1> QED
  BY <1>1, <1>2, InvAt, Zenon

(* rspamd_redis_pool_connect with a parked connection.                     *)
LEMMA ConnectReuseOK ==
  ASSUME RedisInv, NEW k \in Clients, NEW how \in Pooling[k], NEW c \in Ctxs,
         NEW broken \in SUBSET Inactive, ConnectReuse(k, how, broken, c)
  PROVE  RedisInv'
<1> DEFINE cn == Without(broken)
           y == Reuse(conn[c])
<1>1. /\ ScriptRuns /\ ~req[k].live /\ c \in Inactive \ broken
      /\ conn' = [cn EXCEPT ![c] = y]
      /\ req' = [req EXCEPT ![k] = Opened(how, c)] /\ UNCHANGED loop
  BY ZenonT(60) DEF ConnectReuse
<1>2. Inv(cn, req, loop) /\ cn[c] = conn[c]
  BY ZenonT(60), <1>1, WithoutOK
<1>3. /\ conn[c] \in Conn /\ ConnOK(conn[c]) /\ conn[c].state = "inactive"
  BY <1>1, InvAt, ZenonT(60) DEF Inactive
<1>4. loop.ctx # c /\ loop.at \in {"idle", "lua", "expire"}
  BY <1>1, <1>3, NotInLoop DEF ScriptRuns
<1>5. ~conn[c].err /\ ~conn[c].freeing /\ \A l \in Clients : conn[c].asked[l] = 0
  BY <1>3, <1>4, ZenonT(60) DEF RedisInv, Inv, Marks, ConnOK
<1>6. how \in {"default", "enforce"}
  BY RequestAssumption, Zenon
<1>7. /\ y \in Conn /\ ConnOK(y) /\ y.state = "active" /\ ~y.freeing /\ ~y.err
      /\ \A l \in Clients : y.asked[l] = 0
  BY <1>3, <1>5, ReuseOK, Zenon
<1> HIDE DEF cn, y
<1>8. Inv([cn EXCEPT ![c] = y], [req EXCEPT ![k] = Opened(how, c)], loop)
  BY <1>1, <1>2, <1>3, <1>4, <1>5, <1>6, <1>7, LendOK, ZenonT(60)
<1> QED
  BY <1>1, <1>8, Zenon DEF RedisInv

(* rspamd_redis_pool_connect with a new connection.                        *)
LEMMA ConnectNewOK ==
  ASSUME RedisInv, NEW k \in Clients, NEW how \in Pooling[k], NEW c \in Ctxs,
         NEW n \in Setups, ConnectNew(k, how, c, n)
  PROVE  RedisInv'
<1> DEFINE cn == Without(Inactive)
           y == NewConn(n)
<1>1. /\ ScriptRuns /\ ~req[k].live /\ conn[c].mem = "free"
      /\ conn' = [cn EXCEPT ![c] = y]
      /\ req' = [req EXCEPT ![k] = Opened(how, c)] /\ UNCHANGED loop
  BY Zenon DEF ConnectNew
<1>2. Inv(cn, req, loop) /\ cn[c] \in {conn[c], NoConn}
  BY <1>1, WithoutOK, Zenon
<1>3. conn[c] \in Conn /\ ConnOK(conn[c])
  BY InvAt, Zenon
<1>4. loop.ctx # c /\ loop.at \in {"idle", "lua", "expire"}
  BY <1>1, NotInLoop, Zenon DEF ScriptRuns
<1>5. cn[c].state # "active" /\ ~cn[c].freeing /\ \A l \in Clients : cn[c].asked[l] = 0
  BY <1>1, <1>2, <1>3, NoConnOK, Zenon DEF ConnOK, NoCallbacks
<1>6. how \in {"default", "enforce"} /\ n \in Nat
  BY RequestAssumption, Zenon
<1>7. /\ y \in Conn /\ ConnOK(y) /\ y.state = "active" /\ ~y.freeing /\ ~y.err
      /\ \A l \in Clients : y.asked[l] = 0
  BY <1>6, NewConnOK
<1> HIDE DEF cn, y
<1>8. Inv([cn EXCEPT ![c] = y], [req EXCEPT ![k] = Opened(how, c)], loop)
  BY <1>1, <1>2, <1>4, <1>5, <1>6, <1>7, LendOK, Zenon
<1> QED
  BY <1>1, <1>8, Zenon DEF RedisInv

(* rspamd_redis_pool_connect fails.                                        *)
LEMMA ConnectFailsOK ==
  ASSUME RedisInv, NEW k \in Clients, ConnectFails(k)
  PROVE  RedisInv'
<1>1. ScriptRuns /\ conn' = Without(Inactive) /\ UNCHANGED <<req, loop>>
  BY Zenon DEF ConnectFails
<1>2. Inv(Without(Inactive), req, loop)
  BY <1>1, WithoutOK
<1> QED
  BY <1>1, <1>2 DEF RedisInv

(* The request of k changes and its context does not.                      *)
LEMMA ReqOnly ==
  ASSUME RedisInv, ScriptRuns, NEW k \in Clients, NEW s \in Request,
         ReqOK(k, s, loop.kept = k), s.ctx = req[k].ctx, s.pending = req[k].pending,
         loop.at # "idle" => /\ s.ended = req[k].ended
                             /\ req[k].open > 0 => s.open > 0
                             /\ req[k].clean > 0 => s.clean > 0,
         req' = [req EXCEPT ![k] = s], UNCHANGED <<conn, loop>>
  PROVE  RedisInv'
<1>1. Types(conn', req', loop') /\ req'[k] = s /\ \A l \in Clients \ {k} : req'[l] = req[l]
  BY ZenonT(60), InvAt DEF Types
<1>2. ReqStep(NoCtx, k, conn, conn', req[k], req'[k], loop')
  <2>1. \A d \in Ctxs : AskedOn(d, conn[d], req[k], k)
    BY Zenon DEF RedisInv, Inv, Askers
  <2>2. \A d \in Ctxs : AskedOn(d, conn'[d], req'[k], k)
    BY <1>1, <2>1, ZenonT(60) DEF AskedOn
  <2>3. req'[k].pending = ToCome(conn', req'[k], loop', k) + Running(loop', k)
    BY <1>1, PendingAt DEF ToCome
  <2> QED
    BY <1>1, <2>2, <2>3, InvAt, Zenon DEF ReqStep
<1>3. LoopAt(conn', req', loop')
  <2>1. loop.at # "idle" /\ loop.who \in Clients =>
          /\ req'[loop.who].ctx = req[loop.who].ctx
          /\ req'[loop.who].ended = req[loop.who].ended
          /\ req[loop.who].open > 0 => req'[loop.who].open > 0
          /\ req[loop.who].clean > 0 => req'[loop.who].clean > 0
    BY <1>1, Zenon
  <2>2. loop \in Loop /\ LoopAt(conn, req, loop) /\ loop.at \in {"idle", "lua", "expire"}
    BY InvAt DEF ScriptRuns
  <2> QED
    BY <2>1, <2>2, ScriptLoop, Zenon
<1>4. NoCtx \in Ctxs \cup {NoCtx} /\ NoCtx \notin Ctxs /\ k \in Clients \cup {Nobody}
  BY ZenonT(60), PoolAssumption
<1> QED
  BY <1>1, <1>2, <1>3, <1>4, LoopSame, Step, ZenonT(60)

(* The connection of a client.                                             *)
LEMMA HeldConn ==
  ASSUME RedisInv, NEW k \in Clients, req[k].ctx # NoCtx
  PROVE  LET c == req[k].ctx
         IN  /\ c \in Ctxs /\ conn[c] \in Conn /\ ConnOK(conn[c])
             /\ conn[c].state = "active" /\ ~conn[c].freeing /\ conn[c].mem # "free"
             /\ \A l \in Clients \ {k} : req[l].ctx # c /\ conn[c].asked[l] = 0
             /\ loop.at = "lua" /\ loop.ctx = c => loop.who = k
             /\ loop.kept # k /\ req[k].live
             /\ conn[c].asked[k] \in Nat
             /\ req[k].pending = conn[c].asked[k] + Running(loop, k)
<1> DEFINE c == req[k].ctx
<1>1. c \in Ctxs
  BY ZenonT(60), InvAt DEF Request
<1>2. /\ conn[c] \in Conn /\ ConnOK(conn[c]) /\ conn[c].state = "active"
      /\ \A l \in Clients : conn[c].asked[l] \in Nat
  BY ZenonT(60), <1>1, InvAt DEF RedisInv, Inv, Held, Conn
<1>3. ~conn[c].freeing /\ conn[c].mem # "free"
  BY <1>2 DEF ConnOK
<1>4. \A l \in Clients \ {k} : req[l].ctx # c
  BY DEF RedisInv, Inv, Held
<1>5. \A l \in Clients : AskedOn(c, conn[c], req[l], l)
  BY <1>1 DEF RedisInv, Inv, Askers
<1>6. \A l \in Clients \ {k} : conn[c].asked[l] = 0
  BY <1>2, <1>3, <1>4, <1>5 DEF AskedOn
<1>7. loop.at = "lua" /\ loop.ctx = c => loop.who = k
  BY <1>3, <1>4, InvAt, ZenonT(60) DEF LoopAt
<1>8. loop.kept # k /\ req[k].live
  BY InvAt, NoRequestOK, ZenonT(60) DEF ReqOK
<1>9. req[k].pending = conn[c].asked[k] + Running(loop, k)
  BY PendingAt, ZenonT(60) DEF ToCome
<1> QED
  BY ZenonT(60), <1>1, <1>2, <1>3, <1>4, <1>6, <1>7, <1>8, <1>9

(* lua_redis_add_cmd.                                                      *)
LEMMA AddCmdOK ==
  ASSUME RedisInv, NEW k \in Clients, AddCmd(k)
  PROVE  RedisInv'
<1> DEFINE r == req[k]
           c == r.ctx
           x == conn[c]
<1>1. /\ ScriptRuns /\ r.held /\ ~r.waits /\ c # NoCtx /\ UNCHANGED loop
  BY ZenonT(60) DEF AddCmd
<1>2. /\ c \in Ctxs /\ x \in Conn /\ ConnOK(x) /\ x.state = "active" /\ ~x.freeing
      /\ x.mem # "free" /\ \A l \in Clients \ {k} : x.asked[l] = 0
      /\ loop.kept # k /\ x.asked[k] \in Nat /\ r.live
      /\ r.pending = x.asked[k] + Running(loop, k)
  BY ZenonT(60), <1>1, HeldConn
<1>3. r \in Request /\ ReqOK(k, r, FALSE)
  <2>1. (loop.kept = k) = FALSE
    BY <1>2
  <2> QED
    BY <2>1, InvAt, Zenon
<1>4. CASE Refused(r) /\ req' = [req EXCEPT ![k].bad = TRUE] /\ UNCHANGED conn
  <2> DEFINE s == [r EXCEPT !.bad = TRUE]
  <2>1. ASSUME NEW b \in BOOLEAN PROVE [r EXCEPT !.bad = b] \in Request
    BY <1>3 DEF Request
  <2>2. s \in Request
    BY <2>1, Zenon
  <2>3. /\ s.live = r.live /\ s.ctx = r.ctx /\ s.held = r.held /\ s.open = r.open
        /\ s.pending = r.pending /\ s.sent = r.sent /\ s.ended = r.ended
        /\ s.waits = r.waits /\ s.ans = r.ans /\ s.clean = r.clean
    BY <1>3 DEF Request
  <2>4. req' = [req EXCEPT ![k] = s]
    BY <1>4
  <2> HIDE DEF s, r
  <2>5. ReqOK(k, s, FALSE)
    BY <1>2, <1>3, <2>3, ZenonT(60) DEF ReqOK
  <2>6. ReqOK(k, s, loop.kept = k)
    <3>1. (loop.kept = k) = FALSE
      BY <1>2
    <3> QED
      BY <2>5, <3>1, ZenonT(60)
  <2> QED
    BY <1>1, <1>4, <2>2, <2>3, <2>4, <2>6, ReqOnly, Zenon DEF r
<1>5. CASE /\ ~Refused(r) /\ conn' = [conn EXCEPT ![c].asked[k] = @ + 1]
           /\ req' = [req EXCEPT ![k].open = @ + 1, ![k].pending = @ + 1, ![k].sent = @ + 1]
  <2> DEFINE s == [r EXCEPT !.open = @ + 1, !.pending = @ + 1, !.sent = @ + 1]
             y == [x EXCEPT !.asked[k] = @ + 1]
  <2>1. conn' = [conn EXCEPT ![c] = y] /\ req' = [req EXCEPT ![k] = s] /\ ~x.err /\ ~r.ended
    BY <1>5, Zenon DEF Refused
  <2>0. x.mem = "live"
    BY <1>1, <1>2, <1>5, Zenon DEF Refused, Stale, Conn
  <2> HIDE DEF r, x
  <2>2. s \in Request
    <3>1. ASSUME NEW i \in Nat, NEW j \in Nat, NEW n \in Nat
          PROVE  [r EXCEPT !.open = i, !.pending = j, !.sent = n] \in Request
      BY <1>3, Zenon DEF Request
    <3>2. r.open + 1 \in Nat /\ r.pending + 1 \in Nat /\ r.sent + 1 \in Nat
      BY <1>3 DEF Request
    <3> QED
      BY <3>1, <3>2, Zenon
  <2>3. /\ s.live = r.live /\ s.ctx = c /\ s.held = r.held /\ s.open = r.open + 1
        /\ s.pending = r.pending + 1 /\ s.sent = r.sent + 1 /\ s.ended = r.ended
        /\ s.waits = r.waits /\ s.ans = r.ans /\ s.clean = r.clean
    BY <1>3 DEF Request
  <2>4. y \in Conn
    BY <1>2 DEF Conn
  <2>5. /\ y.state = x.state /\ y.list = x.list /\ y.timer = x.timer /\ y.mem = x.mem
        /\ y.err = x.err /\ y.freeing = x.freeing /\ y.quit = x.quit
        /\ y.asked = [x.asked EXCEPT ![k] = @ + 1]
    BY <1>2 DEF Conn
  <2>6. y.asked[k] = x.asked[k] + 1 /\ \A l \in Clients \ {k} : y.asked[l] = x.asked[l]
    BY <1>2, <2>5 DEF Conn
  <2> HIDE DEF s, y, c
  <2>7. ConnOK(y)
    BY <1>2, <2>0, <2>5, ZenonT(60) DEF ConnOK
  <2>8. ReqOK(k, s, FALSE)
    BY <1>1, <1>2, <1>3, <2>1, <2>3 DEF ReqOK, Request
  <2>9. ReqOK(k, s, loop'.kept = k)
    <3>1. (loop'.kept = k) = FALSE
      BY <1>1, <1>2
    <3> QED
      BY <2>8, <3>1, Zenon
  <2>10. /\ Types(conn', req', loop') /\ conn'[c] = y /\ req'[k] = s
         /\ \A d \in Ctxs \ {c} : conn'[d] = conn[d]
         /\ \A l \in Clients \ {k} : req'[l] = req[l]
    BY <1>1, <1>2, <2>1, <2>2, <2>4, InvAt, ZenonT(60) DEF Types
  <2>11. ConnStep(c, k, conn[c], conn'[c], req[k], req'[k], loop')
    <3>1. req[k].ctx = c /\ conn[c] = x
      BY DEF c, r, x
    <3>2. ~y.err /\ ~y.freeing /\ y.state = "active"
      BY <1>2, <2>1, <2>5
    <3>3. \A l \in Clients \ {k} : y.asked[l] = x.asked[l] /\ x.asked[l] = 0
      BY <1>2, <2>6
    <3> QED
      BY <1>2, <2>3, <2>7, <2>10, <3>1, <3>2, <3>3, ZenonT(60) DEF ConnStep
  <2>12. ReqStep(c, k, conn, conn', req[k], req'[k], loop')
    <3>1. \A d \in Ctxs : AskedOn(d, conn[d], req[k], k)
      BY ZenonT(60) DEF RedisInv, Inv, Askers
    <3>2. \A d \in Ctxs : AskedOn(d, conn'[d], req'[k], k)
      BY <1>1, <2>3, <2>10, <3>1, ZenonT(60) DEF AskedOn, c, r
    <3>3. ToCome(conn', s, loop', k) = x.asked[k] + 1
      BY <1>1, <2>3, <2>6, <2>10, Zenon DEF ToCome
    <3>4. s.pending = ToCome(conn', s, loop', k) + Running(loop', k)
      BY <1>1, <1>2, <2>3, <3>3 DEF Running
    <3> QED
      BY <2>3, <2>9, <2>10, <3>2, <3>4, ZenonT(60) DEF ReqStep, c, r
  <2>13. LoopAt(conn', req', loop')
    <3>1. loop.ctx \in Ctxs => /\ conn'[loop.ctx].mem = conn[loop.ctx].mem
                               /\ conn'[loop.ctx].freeing = conn[loop.ctx].freeing
      BY ZenonT(60), <2>5, <2>10 DEF x
    <3>2. loop.who \in Clients =>
            /\ req'[loop.who].ctx = req[loop.who].ctx
            /\ req'[loop.who].ended = req[loop.who].ended
            /\ req[loop.who].open > 0 => req'[loop.who].open > 0
            /\ req[loop.who].clean > 0 => req'[loop.who].clean > 0
      BY <1>3, <2>3, <2>10 DEF r, c, Request
    <3>3. loop \in Loop /\ LoopAt(conn, req, loop) /\ loop.at \in {"idle", "lua", "expire"}
      BY <1>1, InvAt, ZenonT(60) DEF ScriptRuns
    <3> QED
      BY ZenonT(60), <1>1, <3>1, <3>2, <3>3, ScriptLoop
  <2>14. LoopStep(c, k, conn, loop, loop')
    BY <1>1, LoopSame
  <2> QED
    BY <1>2, <2>10, <2>11, <2>12, <2>13, <2>14, Step, ZenonT(60)
<1> QED
  BY <1>4, <1>5 DEF AddCmd

(* lua_redis_exec.                                                         *)
LEMMA ExecOK ==
  ASSUME RedisInv, NEW k \in Clients, Exec(k)
  PROVE  RedisInv'
<1> DEFINE r == req[k]
<1>1. /\ ScriptRuns /\ k \in Sync /\ r.held /\ ~r.waits /\ UNCHANGED <<conn, loop>>
      /\ r \in Request /\ ReqOK(k, r, loop.kept = k)
  BY InvAt DEF Exec
<1>2. (loop.kept = k) = FALSE /\ ReqOK(k, r, FALSE)
  <2>1. loop.kept # k
    BY <1>1 DEF ReqOK
  <2>2. (loop.kept = k) = FALSE
    BY <2>1
  <2> QED
    BY <1>1, <2>2, ZenonT(60)
<1>3. CASE r.pending = 0 /\ r.ans > 0 /\ req' = [req EXCEPT ![k].ans = 0, ![k].clean = @ + r.ans]
  <2> DEFINE s == [r EXCEPT !.ans = 0, !.clean = @ + r.ans]
  <2>1. req' = [req EXCEPT ![k] = s]
    BY <1>3, Zenon
  <2> HIDE DEF r
  <2>2. s \in Request
    <3>1. ASSUME NEW i \in Nat, NEW j \in Nat PROVE [r EXCEPT !.ans = i, !.clean = j] \in Request
      BY <1>1, Zenon DEF Request
    <3>2. 0 \in Nat /\ r.clean + r.ans \in Nat
      BY <1>1 DEF Request
    <3> QED
      BY <3>1, <3>2, Zenon
  <2>3. /\ s.live = r.live /\ s.ctx = r.ctx /\ s.held = r.held /\ s.open = r.open
        /\ s.pending = r.pending /\ s.sent = r.sent /\ s.ended = r.ended
        /\ s.waits = r.waits /\ s.ans = 0 /\ s.clean = r.clean + r.ans
    BY <1>1, ZenonT(60) DEF Request
  <2> HIDE DEF s
  <2>4. ReqOK(k, s, FALSE)
    <3>1. r.live
      BY <1>1, <1>2, NoRequestOK, SMTT(30) DEF ReqOK, NoRequest
    <3> QED
      BY <1>1, <1>2, <1>3, <2>3, <3>1, SMTT(30) DEF ReqOK, Request
  <2>5. ReqOK(k, s, loop.kept = k)
    BY <1>2, <2>4, ZenonT(60)
  <2>6. r.clean > 0 => s.clean > 0
    BY <1>1, <2>3 DEF Request
  <2> QED
    BY <1>1, <2>1, <2>2, <2>3, <2>5, <2>6, ReqOnly, Zenon DEF r
<1>4. CASE r.pending > 0 /\ req' = [req EXCEPT ![k].waits = TRUE]
  <2> DEFINE s == [r EXCEPT !.waits = TRUE]
  <2>1. req' = [req EXCEPT ![k] = s]
    BY <1>4
  <2> HIDE DEF r
  <2>2. ASSUME NEW b \in BOOLEAN PROVE [r EXCEPT !.waits = b] \in Request
    BY <1>1 DEF Request
  <2>3. s \in Request
    BY <2>2, Zenon
  <2>4. /\ s.live = r.live /\ s.ctx = r.ctx /\ s.held = r.held /\ s.open = r.open
        /\ s.pending = r.pending /\ s.sent = r.sent /\ s.ended = r.ended
        /\ s.ans = r.ans /\ s.clean = r.clean
    BY <1>1, ZenonT(60) DEF Request
  <2> HIDE DEF s
  <2>5. ReqOK(k, s, FALSE)
    <3>1. r.live
      BY <1>1, <1>2 DEF ReqOK, NoRequest
    <3> QED
      BY ZenonT(60), <1>1, <1>2, <1>4, <2>4, <3>1 DEF ReqOK
  <2>6. ReqOK(k, s, loop.kept = k)
    BY ZenonT(60), <1>2, <2>5
  <2> QED
    BY <1>1, <2>1, <2>3, <2>4, <2>6, ReqOnly, Zenon DEF r
<1> QED
  BY <1>3, <1>4 DEF Exec

(* A request is freed outside the callbacks of its context.                *)
LEMMA FreedOK ==
  ASSUME RedisInv, ScriptRuns, NEW k \in Clients, NEW how, ~Stale(req[k]),
         loop.kept # k, loop.at # "idle" => req[k].open = 0,
         req[k].ctx = NoCtx => req[k].pending = 0,
         req' = [req EXCEPT ![k] = NoRequest],
         conn' = IF req[k].ctx = NoCtx THEN conn
                 ELSE [conn EXCEPT ![req[k].ctx] = ReleaseConnection(@, how, FALSE)],
         UNCHANGED loop
  PROVE  RedisInv'
<1> DEFINE c == req[k].ctx
           x == conn[c]
           y == ReleaseConnection(x, how, FALSE)
<1>1. /\ loop \in Loop /\ LoopAt(conn, req, loop) /\ loop.at \in {"idle", "lua", "expire"}
      /\ NoCtx \notin Ctxs /\ c \in Ctxs \cup {NoCtx} /\ k \in Clients \cup {Nobody}
  BY InvAt, ZenonT(60) DEF ScriptRuns, Request
<1>2. loop.at # "idle" => loop.who # k
  BY <1>1, SMTT(30) DEF LoopAt
<1>3. Running(loop, k) = 0
  BY <1>2 DEF Running
<1>4. ASSUME c # NoCtx
      PROVE  /\ c \in Ctxs /\ x \in Conn /\ ConnOK(x) /\ x.state = "active" /\ x.mem = "live"
             /\ ~x.freeing /\ loop.ctx # c
             /\ \A l \in Clients \ {k} : x.asked[l] = 0
             /\ y \in Conn /\ ConnOK(y) /\ y.state # "active" /\ ~y.freeing /\ ~y.err
             /\ \A l \in Clients : y.asked[l] = 0
  <2>1. /\ c \in Ctxs /\ x \in Conn /\ ConnOK(x) /\ x.state = "active" /\ x.mem # "free"
        /\ ~x.freeing /\ (loop.at = "lua" /\ loop.ctx = c => loop.who = k)
        /\ \A l \in Clients \ {k} : x.asked[l] = 0
    BY <1>4, HeldConn, ZenonT(60)
  <2>2. x.mem = "live"
    BY <1>4, <2>1, Zenon DEF Stale, Conn
  <2>3. loop.ctx # c
    <3>1. loop.at # "lua" => loop.ctx = NoCtx
      BY <1>1, IdleLoop, Zenon DEF LoopAt
    <3> QED
      BY ZenonT(60), <1>2, <1>4, <2>1, <3>1
  <2>4. /\ y \in Conn /\ ConnOK(y) /\ y.state # "active" /\ ~y.freeing /\ ~y.err
        /\ \A l \in Clients : y.asked[l] = 0
    BY <2>1, <2>2, ReleaseOutside, ZenonT(60)
  <2> QED
    BY <2>1, <2>2, <2>3, <2>4, ZenonT(60)
<1>5. /\ Types(conn', req', loop') /\ req'[k] = NoRequest
      /\ (c # NoCtx => conn'[c] = y) /\ (c = NoCtx => conn' = conn)
      /\ \A d \in Ctxs \ {c} : conn'[d] = conn[d]
      /\ \A l \in Clients \ {k} : req'[l] = req[l]
  BY <1>1, <1>4, InvAt, NoRequestOK, ZenonT(60) DEF Types
<1> HIDE DEF y, x
<1>6. c \in Ctxs => ConnStep(c, k, conn[c], conn'[c], req[k], req'[k], loop')
  <2> SUFFICES ASSUME c \in Ctxs PROVE ConnStep(c, k, x, y, req[k], NoRequest, loop')
    BY <1>1, <1>5, ZenonT(60) DEF x
  <2>1. NoRequest.ctx # c /\ c # NoCtx
    BY <1>1, NoRequestOK, ZenonT(60)
  <2>2. \A l \in Clients : ~(y.asked[l] > 0)
    BY <1>4, <2>1
  <2> QED
    BY <1>4, <2>1, <2>2, ZenonT(60) DEF ConnStep
<1>7. ReqStep(c, k, conn, conn', req[k], req'[k], loop')
  <2>1. \A d \in Ctxs : AskedOn(d, conn[d], req[k], k) /\ conn[d].asked[k] \in Nat
    BY InvAt DEF RedisInv, Inv, Askers, Conn
  <2>2. ASSUME NEW d \in Ctxs PROVE AskedOn(d, conn'[d], NoRequest, k)
    <3>1. CASE d = c
      <4>1. c # NoCtx
        BY <1>1, <3>1, ZenonT(60)
      <4>2. y.asked[k] = 0
        BY <1>4, <4>1, Zenon
      <4>3. conn'[d] = y
        BY <1>5, <3>1, <4>1, ZenonT(60)
      <4>4. ~(conn'[d].asked[k] > 0)
        BY <4>2, <4>3, NoneAsked, Zenon
      <4> QED
        BY <4>4, Zenon DEF AskedOn
    <3>2. CASE d # c
      BY <1>5, <2>1, <3>2, NoRequestOK, ZenonT(60) DEF AskedOn
    <3> QED
      BY <3>1, <3>2, ZenonT(60)
  <2>3. ToCome(conn', NoRequest, loop', k) = 0
    <3>1. CASE c = NoCtx
      BY <1>3, <1>5, <3>1, PendingAt, NoRequestOK, InvAt, SMTT(30) DEF ToCome, Loop, Conn
    <3>2. CASE c # NoCtx /\ loop.ctx # NoCtx
      <4>1. loop.ctx \in Ctxs /\ conn'[loop.ctx] = conn[loop.ctx]
        BY <1>1, <1>4, <1>5, <3>2, ZenonT(60) DEF Loop
      <4>2. AskedOn(loop.ctx, conn[loop.ctx], req[k], k) /\ conn[loop.ctx].asked[k] \in Nat
        BY <2>1, <4>1, ZenonT(60)
      <4>3. ~(conn[loop.ctx].asked[k] > 0)
        BY <1>4, <3>2, <4>2, ZenonT(60) DEF AskedOn
      <4>4. conn[loop.ctx].asked[k] = 0
        BY <4>2, <4>3, SMTT(30)
      <4> QED
        BY <3>2, <4>1, <4>4, NoRequestOK, ZenonT(60) DEF ToCome
    <3>3. CASE c # NoCtx /\ loop.ctx = NoCtx
      BY <3>3, NoRequestOK, Zenon DEF ToCome
    <3> QED
      BY ZenonT(60), <3>1, <3>2, <3>3
  <2>4. NoRequest.pending = ToCome(conn', NoRequest, loop', k) + Running(loop', k)
    BY <1>3, <2>3, NoRequestOK
  <2>5. ReqOK(k, NoRequest, loop'.kept = k)
    <3>1. (loop'.kept = k) = FALSE
      OBVIOUS
    <3> QED
      BY <3>1, NoRequestOK, Zenon
  <2> QED
    BY <1>1, <1>5, <2>2, <2>4, <2>5, NoRequestOK, ZenonT(60) DEF ReqStep
<1>8. LoopAt(conn', req', loop')
  <2>1. loop.ctx \in Ctxs => conn'[loop.ctx] = conn[loop.ctx]
    BY <1>4, <1>5, ZenonT(60)
  <2>2. loop.at # "idle" /\ loop.who \in Clients => req'[loop.who] = req[loop.who]
    BY <1>2, <1>5, ZenonT(60)
  <2> QED
    BY <1>1, <2>1, <2>2, ScriptLoop, ZenonT(60)
<1>9. LoopStep(c, k, conn, loop, loop')
  BY LoopSame
<1> QED
  BY <1>1, <1>5, <1>6, <1>7, <1>8, <1>9, Step, ZenonT(60)

(* lua_redis_gc.                                                           *)
LEMMA GcOK ==
  ASSUME RedisInv, NEW k \in Clients, Gc(k)
  PROVE  RedisInv'
<1> DEFINE r == req[k]
           s == [r EXCEPT !.held = FALSE]
           kept == loop.kept = k
<1>1. /\ ScriptRuns /\ r.held /\ ~r.waits /\ Dropped(k, s, FALSE)
      /\ UNCHANGED loop /\ r \in Request /\ ReqOK(k, r, kept)
  BY InvAt, Zenon DEF Gc
<1> HIDE DEF r
<1>2. ASSUME NEW b \in BOOLEAN PROVE [r EXCEPT !.held = b] \in Request
  BY <1>1 DEF Request
<1>3. s \in Request
  BY ZenonT(60), <1>2
<1>4. /\ s.live = r.live /\ s.ctx = r.ctx /\ ~s.held /\ s.open = r.open
      /\ s.pending = r.pending /\ s.sent = r.sent /\ s.ended = r.ended
      /\ s.waits = r.waits /\ s.ans = r.ans /\ s.clean = r.clean
  BY <1>1 DEF Request
<1> HIDE DEF s
<1>5. CASE Unused(k, s)
  <2>1. loop.kept # k /\ r.open = 0
    BY <1>4, <1>5, Zenon DEF Unused
  <2>2. r.ctx = NoCtx => r.pending = 0
    BY <1>1, <2>1 DEF ReqOK, Request
  <2>3. /\ req' = [req EXCEPT ![k] = NoRequest] /\ ~Stale(r)
        /\ conn' = IF r.ctx = NoCtx THEN conn
                   ELSE [conn EXCEPT ![r.ctx] = ReleaseConnection(@, HowDone(s), FALSE)]
    BY ZenonT(60), <1>1, <1>4, <1>5 DEF Dropped, Stale
  <2> QED
    BY <1>1, <2>1, <2>2, <2>3, FreedOK, Zenon DEF r
<1>6. CASE ~Unused(k, s)
  <2>1. req' = [req EXCEPT ![k] = s] /\ UNCHANGED conn
    BY <1>1, <1>6, Zenon DEF Dropped
  <2>2. r.open # 0 \/ kept
    BY <1>4, <1>6, Zenon DEF Unused
  <2>3. r.live
    BY <1>1, SMTT(30) DEF ReqOK, NoRequest
  <2> HIDE DEF kept
  <2>4. ReqOK(k, s, kept)
    BY <1>1, <1>4, <2>2, <2>3, SMTT(30) DEF ReqOK, Request
  <2> QED
    BY ZenonT(60), <1>1, <1>3, <1>4, <2>1, <2>4, ReqOnly DEF r, kept
<1> QED
  BY <1>5, <1>6

(* The session of the task ends: the finalizers of its events run.         *)
LEMMA SessionEndOK ==
  ASSUME RedisInv, NEW k \in Clients, SessionEnd(k)
  PROVE  RedisInv'
<1> DEFINE r == req[k]
           s == [r EXCEPT !.ended = TRUE, !.open = 0, !.ans = 0, !.clean = 0]
<1>1. /\ loop.at = "idle" /\ ScriptRuns /\ r.live /\ ~r.ended
      /\ Dropped(k, s, FALSE) /\ UNCHANGED loop /\ r \in Request
  BY ZenonT(60), InvAt DEF SessionEnd, ScriptRuns
<1>2. (loop.kept = k) = FALSE /\ loop.ctx = NoCtx /\ Running(loop, k) = 0
  BY <1>1, IsIdle, InvAt
<1>3. ReqOK(k, r, FALSE)
  BY ZenonT(60), <1>2, InvAt
<1>4. r.ctx = NoCtx => r.pending = 0
  BY <1>2, PendingAt DEF ToCome
<1> HIDE DEF r
<1>5. ASSUME NEW b \in BOOLEAN, NEW i \in Nat, NEW j \in Nat, NEW n \in Nat
      PROVE  [r EXCEPT !.ended = b, !.open = i, !.ans = j, !.clean = n] \in Request
  BY ZenonT(60), <1>1 DEF Request
<1>6. s \in Request
  <2>1. TRUE \in BOOLEAN /\ 0 \in Nat
    OBVIOUS
  <2> QED
    BY <1>5, <2>1, Zenon
<1>7. /\ s.live = r.live /\ s.ctx = r.ctx /\ s.held = r.held /\ s.open = 0
      /\ s.pending = r.pending /\ s.sent = r.sent /\ s.ended
      /\ s.waits = r.waits /\ s.ans = 0 /\ s.clean = 0
  BY ZenonT(60), <1>1 DEF Request
<1> HIDE DEF s
<1>8. CASE Unused(k, s)
  <2>1. /\ req' = [req EXCEPT ![k] = NoRequest] /\ ~Stale(r)
        /\ conn' = IF r.ctx = NoCtx THEN conn
                   ELSE [conn EXCEPT ![r.ctx] = ReleaseConnection(@, HowDone(s), FALSE)]
    BY ZenonT(60), <1>1, <1>7, <1>8 DEF Dropped, Stale
  <2> QED
    BY ZenonT(60), <1>1, <1>2, <1>4, <2>1, FreedOK DEF r
<1>9. CASE ~Unused(k, s)
  <2>1. req' = [req EXCEPT ![k] = s] /\ UNCHANGED conn
    BY <1>1, <1>9 DEF Dropped
  <2>2. r.held
    BY ZenonT(60), <1>2, <1>7, <1>9 DEF Unused
  <2>3. ReqOK(k, s, FALSE)
    BY <1>1, <1>3, <1>4, <1>7, <2>2 DEF ReqOK, Request
  <2>4. ReqOK(k, s, loop.kept = k)
    BY ZenonT(60), <1>2, <2>3
  <2> QED
    BY ZenonT(60), <1>1, <1>6, <1>7, <2>1, <2>4, ReqOnly DEF r
<1> QED
  BY <1>8, <1>9

(***************************************************************************)
(* The timeouts of the commands.                                           *)
(***************************************************************************)

(* The connection of a client is marked as failed.                         *)
LEMMA FailedOK ==
  ASSUME NEW x \in Conn, ConnOK(x), x.state = "active", x.mem = "live"
  PROVE  LET y == ReleaseConnection([x EXCEPT !.err = TRUE], "fatal", TRUE)
         IN  /\ y \in Conn /\ ConnOK(y) /\ y.state = "none" /\ y.freeing /\ y.mem = "live"
             /\ y.asked = x.asked /\ y.err
<1> DEFINE z == [x EXCEPT !.err = TRUE]
<1>1. ASSUME NEW b \in BOOLEAN PROVE [x EXCEPT !.err = b] \in Conn
  BY DEF Conn
<1>2. z \in Conn
  BY <1>1, Zenon
<1>3. /\ z.state = x.state /\ z.list = x.list /\ z.timer = x.timer /\ z.mem = x.mem
      /\ z.freeing = x.freeing /\ z.asked = x.asked /\ z.quit = x.quit
      /\ z.connected = x.connected /\ z.setup = x.setup /\ z.err
  BY SMTT(30) DEF Conn
<1> HIDE DEF z
<1>4. ConnOK(z)
  BY <1>3, SMTT(30) DEF ConnOK, NoCallbacks
<1>5. ReleaseConnection(z, "fatal", TRUE) = Erase(z, TRUE)
  BY DEF ReleaseConnection
<1> QED
  BY <1>2, <1>3, <1>4, <1>5, EraseInside, Zenon DEF z

(* A context is given up with its commands.                                *)
LEMMA AbandonOK ==
  ASSUME RedisInv, NEW k \in Clients, NEW r \in Request, r.ctx = req[k].ctx, r.ctx # NoCtx,
         r.pending = req[k].pending, NEW kept \in Clients \cup {Nobody}, kept \in {k, Nobody},
         conn[r.ctx].mem # "dropped", loop.ctx = NoCtx, loop.kept = Nobody,
         loop.at # "lua", ReqOK(k, [r EXCEPT !.ctx = NoCtx], kept = k),
         Abandon(k, r, kept)
  PROVE  RedisInv'
<1> DEFINE c == r.ctx
           x == conn[c]
           y == ReleaseConnection([x EXCEPT !.err = TRUE], "fatal", TRUE)
           s == [r EXCEPT !.ctx = NoCtx]
<1>1. /\ conn' = [conn EXCEPT ![c] = y] /\ req' = [req EXCEPT ![k] = s]
      /\ loop' = Draining(c, kept)
  BY Zenon DEF Abandon
<1>2. /\ c \in Ctxs /\ x \in Conn /\ ConnOK(x) /\ x.state = "active" /\ x.mem # "free"
      /\ ~x.freeing /\ \A l \in Clients \ {k} : x.asked[l] = 0
      /\ x.asked[k] \in Nat /\ r.pending = x.asked[k] + Running(loop, k)
  BY HeldConn
<1>3. x.mem = "live" /\ Running(loop, k) = 0
  BY <1>2, Zenon DEF Conn, Running
<1>4. /\ y \in Conn /\ ConnOK(y) /\ y.state = "none" /\ y.freeing /\ y.mem = "live"
      /\ y.asked = x.asked /\ y.err
  BY <1>2, <1>3, FailedOK, Zenon
<1>5. s \in Request /\ s.ctx = NoCtx /\ s.pending = r.pending
  BY SMTT(30) DEF Request
<1>6. /\ loop' \in Loop /\ loop'.at = "drain" /\ loop'.ctx = c /\ loop'.who = Nobody
      /\ loop'.back = "idle" /\ loop'.kept = kept /\ Drains(loop')
      /\ \A l : Running(loop', l) = 0
  BY <1>1, <1>2, DrainLoop
<1> HIDE DEF y, s, x
<1>7. /\ Types(conn', req', loop') /\ conn'[c] = y /\ req'[k] = s
      /\ \A d \in Ctxs \ {c} : conn'[d] = conn[d]
      /\ \A l \in Clients \ {k} : req'[l] = req[l]
  BY <1>1, <1>2, <1>4, <1>5, <1>6, InvAt, Zenon DEF Types
<1>8. LoopStep(c, k, conn, loop, loop')
  <2>1. \A l \in Clients \ {k} : loop'.kept # l /\ loop.kept # l
    BY <1>6, InvAt, ZenonT(60)
  <2>2. \A l : Running(loop, l) = 0
    BY Zenon DEF Running
  <2> QED
    BY <1>6, <2>1, <2>2, Zenon DEF LoopStep
<1>9. ConnStep(c, k, conn[c], conn'[c], req[k], req'[k], loop')
  <2> SUFFICES ConnStep(c, k, x, y, req[k], s, loop')
    BY <1>7 DEF x
  <2>1. s.ctx # c /\ req[k].ctx = c
    BY <1>2, <1>5, InvAt, Zenon
  <2> QED
    BY <1>2, <1>4, <1>6, <2>1, Zenon DEF ConnStep
<1>10. ReqStep(c, k, conn, conn', req[k], req'[k], loop')
  <2>1. \A d \in Ctxs : AskedOn(d, conn[d], req[k], k)
    BY DEF RedisInv, Inv, Askers
  <2>2. ASSUME NEW d \in Ctxs PROVE AskedOn(d, conn'[d], s, k)
    BY <1>2, <1>4, <1>5, <1>7, <2>1, Zenon DEF AskedOn
  <2>3. ToCome(conn', s, loop', k) = x.asked[k]
    BY <1>2, <1>4, <1>5, <1>6, <1>7, InvAt, Zenon DEF ToCome
  <2>4. s.pending = ToCome(conn', s, loop', k) + Running(loop', k)
    BY <1>2, <1>3, <1>5, <1>6, <2>3, Zenon
  <2>5. ReqOK(k, s, loop'.kept = k)
    BY <1>6 DEF s
  <2> QED
    BY <1>2, <1>5, <1>7, <2>2, <2>4, <2>5, InvAt, Zenon DEF ReqStep
<1>11. LoopAt(conn', req', loop')
  BY <1>2, <1>4, <1>6, <1>7, Zenon DEF LoopAt
<1>12. c \in Ctxs \cup {NoCtx} /\ k \in Clients \cup {Nobody}
  BY <1>2, ZenonT(60)
<1> QED
  BY <1>7, <1>8, <1>9, <1>10, <1>11, <1>12, Step, Zenon

(* A context on which an answer is awaited has not been freed.             *)
LEMMA AwaitedLive ==
  ASSUME RedisInv, NEW k \in Clients, req[k].ctx # NoCtx, req[k].pending > 0,
         loop.at # "lua"
  PROVE  conn[req[k].ctx].mem # "dropped"
<1>1. Running(loop, k) = 0
  BY DEF Running
<1>2. /\ ConnOK(conn[req[k].ctx]) /\ conn[req[k].ctx].asked[k] \in Nat
      /\ req[k].pending = conn[req[k].ctx].asked[k] + Running(loop, k)
  BY HeldConn, ZenonT(60)
<1>3. conn[req[k].ctx].asked[k] # 0
  BY <1>1, <1>2, SMTT(30)
<1> QED
  BY <1>2, <1>3, ZenonT(60) DEF ConnOK, NoCallbacks

(* lua_redis_timeout of an asynchronous request.                           *)
LEMMA ExpireEndOK ==
  ASSUME RedisInv, NEW k \in Clients, ExpireEnd(k)
  PROVE  RedisInv'
<1> DEFINE q == req[k]
           r == [q EXCEPT !.open = @ - 1]
           s == [r EXCEPT !.ctx = NoCtx]
<1>1. loop.at = "expire" /\ loop.who = k /\ Abandon(k, r, k)
  BY DEF ExpireEnd
<1>2. /\ loop.ctx = NoCtx /\ loop.kept = Nobody /\ k \notin Sync /\ q.open > 0
      /\ q.ctx # NoCtx /\ q \in Request
  BY <1>1, InvAt DEF LoopAt
<1>3. ReqOK(k, q, FALSE)
  <2>1. (loop.kept = k) = FALSE
    BY <1>2, InvAt, SMTT(30)
  <2> QED
    BY <2>1, InvAt, Zenon
<1>4. /\ q.live /\ ~q.ended /\ q.pending > 0 /\ q.open = q.pending /\ ~q.waits
      /\ q.ans = 0 /\ q.clean = 0 /\ q.sent # 0
  BY <1>2, <1>3 DEF ReqOK, NoRequest, Request
<1>5. conn[q.ctx].mem # "dropped"
  BY <1>1, <1>2, <1>4, AwaitedLive
<1> HIDE DEF q
<1>6. r \in Request
  <2>1. ASSUME NEW i \in Nat PROVE [q EXCEPT !.open = i] \in Request
    BY <1>2 DEF Request
  <2>2. q.open - 1 \in Nat
    BY <1>2 DEF Request
  <2> QED
    BY <2>1, <2>2, Zenon
<1>7. /\ r.live = q.live /\ r.ctx = q.ctx /\ r.held = q.held /\ r.open = q.open - 1
      /\ r.pending = q.pending /\ r.sent = q.sent /\ r.ended = q.ended
      /\ r.waits = q.waits /\ r.ans = q.ans /\ r.clean = q.clean
  BY <1>2 DEF Request
<1> HIDE DEF r
<1>8. /\ s.live = r.live /\ s.ctx = NoCtx /\ s.held = r.held /\ s.open = r.open
      /\ s.pending = r.pending /\ s.sent = r.sent /\ s.ended = r.ended
      /\ s.waits = r.waits /\ s.ans = r.ans /\ s.clean = r.clean
  BY <1>6, Zenon DEF Request
<1> HIDE DEF s
<1>9. ReqOK(k, s, TRUE)
  BY <1>2, <1>4, <1>7, <1>8 DEF ReqOK, Request
<1>10. ReqOK(k, s, k = k)
  <2>1. (k = k) = TRUE
    OBVIOUS
  <2> QED
    BY <1>9, <2>1, Zenon
<1> QED
  BY <1>1, <1>2, <1>5, <1>6, <1>7, <1>10, AbandonOK, ZenonT(60) DEF q, s

(* lua_redis_timeout_sync.                                                 *)
LEMMA ExpireSyncOK ==
  ASSUME RedisInv, NEW k \in Clients, ExpireSync(k)
  PROVE  RedisInv'
<1> DEFINE r == req[k]
           s == [r EXCEPT !.ctx = NoCtx]
<1>1. /\ loop.at = "idle" /\ k \in Sync /\ r.pending > 0 /\ ~r.ended
      /\ Abandon(k, r, Nobody) /\ r \in Request
  BY InvAt DEF ExpireSync, Unanswered
<1>2. /\ loop.ctx = NoCtx /\ loop.kept = Nobody /\ Running(loop, k) = 0
      /\ Nobody \notin Clients
  BY <1>1, IsIdle, InvAt, Zenon
<1>3. ReqOK(k, r, FALSE)
  <2>1. (loop.kept = k) = FALSE
    BY <1>2
  <2> QED
    BY <2>1, InvAt, Zenon
<1>4. r.ctx # NoCtx
  BY <1>1, <1>2, PendingAt DEF ToCome
<1>5. conn[r.ctx].mem # "dropped"
  BY <1>1, <1>4, AwaitedLive, Zenon
<1> HIDE DEF r
<1>6. /\ s.live = r.live /\ s.ctx = NoCtx /\ s.held = r.held /\ s.open = r.open
      /\ s.pending = r.pending /\ s.sent = r.sent /\ s.ended = r.ended
      /\ s.waits = r.waits /\ s.ans = r.ans /\ s.clean = r.clean
  BY <1>1 DEF Request
<1> HIDE DEF s
<1>7. r.live
  BY <1>1, <1>3 DEF ReqOK, NoRequest
<1>8. ReqOK(k, s, FALSE)
  BY <1>1, <1>3, <1>6, <1>7, Zenon DEF ReqOK
<1>9. ReqOK(k, s, Nobody = k)
  <2>1. (Nobody = k) = FALSE
    BY <1>2
  <2> QED
    BY <1>8, <2>1, Zenon
<1> QED
  BY <1>1, <1>2, <1>4, <1>5, <1>9, AbandonOK, SMTT(30) DEF r, s

=============================================================================
