---------------------------- MODULE RedisProofs -----------------------------
(***************************************************************************)
(* The callbacks of hiredis keep the invariant of RedisFacts too, so it    *)
(* holds of the Redis requests and the pool, and their properties follow;  *)
(* and they implement RedisLease.                                          *)
(***************************************************************************)
EXTENDS RedisFacts

(***************************************************************************)
(* The callbacks of hiredis.                                               *)
(***************************************************************************)

(* Where the loop goes on after a callback.                                *)
LEMMA AfterLoop ==
  ASSUME NEW c \in Ctxs, NEW y, loop \in Loop,
         ~Drains(loop) => loop.kept = Nobody
  PROVE  LET m == After(c, y)
         IN  /\ m \in Loop /\ m.at \in {"idle", "drain"} /\ m.kept = loop.kept
             /\ m.who = Nobody /\ m.back = "idle" /\ \A l : Running(m, l) = 0
             /\ (m.at = "idle" => m = Idle) /\ m.ctx = IF m.at = "idle" THEN NoCtx ELSE c
             /\ (Drains(loop) \/ y.freeing <=> m.at = "drain")
             /\ (Drains(m) <=> m.at = "drain")
<1>1. loop.kept \in Clients \cup {Nobody} /\ Nobody \in Clients \cup {Nobody}
  BY DEF Loop
<1>2. CASE Drains(loop)
  <2>1. After(c, y) = Draining(c, loop.kept)
    BY <1>2, Zenon DEF After, Drains
  <2> QED
    BY <1>1, <1>2, <2>1, DrainLoop
<1>3. CASE ~Drains(loop) /\ y.freeing
  <2>1. After(c, y) = Draining(c, Nobody)
    BY <1>3 DEF After, Drains
  <2> QED
    BY <1>1, <1>3, <2>1, DrainLoop
<1>4. CASE ~Drains(loop) /\ ~y.freeing
  <2>1. After(c, y) = Idle
    BY <1>4, Zenon DEF After, Drains
  <2> QED
    BY <1>4, <2>1, IdleLoop, Zenon
<1> QED
  BY <1>2, <1>3, <1>4

(* A step of a callback of c for k: c becomes y and the request s, and     *)
(* either Lua code runs next or hiredis goes on.                           *)
LEMMA CallbackOK ==
  ASSUME RedisInv, NEW c \in Ctxs, NEW k \in Clients, loop.ctx \in {NoCtx, c},
         loop.at # "expire", loop.at = "lua" => loop.who = k,
         NEW y \in Conn, ConnOK(y), y.mem = "live", conn[c].mem = "live",
         y.err <=> conn[c].err, conn[c].freeing => y.freeing,
         \A l \in Clients \ {k} : y.asked[l] = conn[c].asked[l],
         y.asked[k] > 0 => conn[c].asked[k] > 0,
         y.freeing \/ \A l \in Clients \ {k} : conn[c].asked[l] = 0,
         NEW s \in Request, ReqOK(k, s, loop.kept = k), req[k].ctx \in {NoCtx, c},
         req[k].ctx = NoCtx => conn[c].freeing,
         s.ctx \in {NoCtx, req[k].ctx}, y.state = "active" <=> s.ctx = c,
         AskedOn(c, y, s, k),
         \/ loop' = After(c, y) /\ s.pending = y.asked[k]
         \/ /\ loop' = InLua(c, k) /\ loop.at # "lua" /\ s.open > 0 /\ ~s.ended
            /\ s.pending = y.asked[k] + IF k \in Sync THEN 0 ELSE 1
            /\ k \in Sync => s.clean > 0
            /\ s.ctx = c \/ (s.ctx = NoCtx /\ y.freeing),
         conn' = [conn EXCEPT ![c] = y], req' = [req EXCEPT ![k] = s]
  PROVE  RedisInv'
<1> DEFINE x == conn[c]
<1>1. /\ loop \in Loop /\ LoopAt(conn, req, loop) /\ x \in Conn /\ ConnOK(x)
      /\ NoCtx \notin Ctxs /\ Nobody \notin Clients /\ c # NoCtx
      /\ loop.at \in {"idle", "lua", "drain"}
  BY InvAt, SMTT(30) DEF Loop
<1>2. /\ ~Drains(loop) => loop.kept = Nobody
      /\ loop.kept # Nobody => x.freeing
      /\ loop.at # "lua" => loop.back = "idle"
      /\ loop.at = "idle" => ~Drains(loop) /\ loop = Idle /\ loop.kept = Nobody
  <2>1. loop.kept # Nobody => x.freeing
    <3>1. loop.kept # Nobody => loop.at # "idle"
      BY <1>1, IdleLoop, Zenon DEF LoopAt
    <3> QED
      BY <1>1, <3>1, Zenon DEF LoopAt
  <2>2. loop.at = "idle" => ~Drains(loop) /\ loop = Idle /\ loop.kept = Nobody
    BY IsIdle, Zenon
  <2> QED
    BY <1>1, <2>1, <2>2, IdleLoop DEF LoopAt, Drains, Loop
<1>3. /\ loop' \in Loop /\ loop'.kept = loop.kept
      /\ loop'.ctx = IF loop'.at = "idle" THEN NoCtx ELSE c
      /\ (Drains(loop) => Drains(loop') /\ loop'.ctx = c)
      /\ (y.freeing => loop'.ctx = c)
      /\ \A l \in Clients \ {k} : Running(loop', l) = 0
      /\ s.pending = y.asked[k] + Running(loop', k)
      /\ y.asked[k] \in Nat
      /\ loop'.at # "expire"
  <2>1. y.asked[k] \in Nat
    BY Zenon DEF Conn
  <2>2. CASE loop' = After(c, y) /\ s.pending = y.asked[k]
    BY <1>1, <1>2, <2>1, <2>2, AfterLoop, SMTT(30)
  <2>3. CASE loop' = InLua(c, k) /\ s.pending = y.asked[k] + (IF k \in Sync THEN 0 ELSE 1)
             /\ loop.at # "lua"
    <3>1. /\ loop' \in Loop /\ loop'.kept = loop.kept /\ loop'.ctx = c /\ loop'.at = "lua"
          /\ loop'.who = k /\ loop'.back = loop.at
      BY <1>1, <2>3, Zenon DEF InLua, Loop
    <3>2. Drains(loop) => Drains(loop')
      BY <1>2, <2>3, <3>1, Zenon DEF Drains
    <3>3. \A l \in Clients : Running(loop', l) = IF l \notin Sync /\ l = k THEN 1 ELSE 0
      BY <3>1, Zenon DEF Running
    <3> QED
      BY <2>1, <2>3, <3>1, <3>2, <3>3, ZenonT(60)
  <2> QED
    BY <2>2, <2>3, Zenon
<1>4. /\ Types(conn', req', loop') /\ conn'[c] = y /\ req'[k] = s
      /\ \A d \in Ctxs \ {c} : conn'[d] = conn[d]
      /\ \A l \in Clients \ {k} : req'[l] = req[l]
  BY <1>3, InvAt, ZenonT(60) DEF Types
<1>5. \A l \in Clients \ {k} : Running(loop, l) = 0
  BY Zenon DEF Running
<1>6. LoopStep(c, k, conn, loop, loop')
  <2>1. \A l \in Clients \ {k} :
          (loop'.kept = l <=> loop.kept = l) /\ Running(loop', l) = Running(loop, l)
    BY <1>3, <1>5, Zenon
  <2>2. loop'.ctx # loop.ctx /\ loop.ctx # NoCtx
          => \A l \in Clients \ {k} : conn[loop.ctx].asked[l] = 0
    BY <1>3, Zenon
  <2> QED
    BY <2>1, <2>2, Zenon DEF LoopStep
<1>7. ConnStep(c, k, conn[c], conn'[c], req[k], req'[k], loop')
  <2>1. y.err => loop'.ctx = c /\ Drains(loop')
    BY <1>3, Zenon DEF RedisInv, Inv, Marks
  <2>2. y.asked[k] > 0 => \A l \in Clients \ {k} : x.asked[l] = 0
    <3>1. \A l \in Clients : x.asked[l] \in Nat
      BY <1>1, Zenon DEF Conn
    <3>2. \A l \in Clients : x.asked[k] > 0 /\ x.asked[l] > 0 => k = l
      BY Zenon DEF RedisInv, Inv, Askers
    <3> QED
      BY <3>1, <3>2
  <2>3. y.state = "active" <=>
          IF k \in Clients /\ c \in {req[k].ctx, s.ctx} THEN s.ctx = c ELSE x.state = "active"
    BY <1>1, Zenon DEF ConnOK
  <2> QED
    BY <1>3, <1>4, <2>1, <2>2, <2>3 DEF ConnStep
<1>8. ReqStep(c, k, conn, conn', req[k], req'[k], loop')
  <2>1. ReqOK(k, s, loop'.kept = k)
    BY <1>3, Zenon
  <2>2. ASSUME NEW d \in Ctxs, d # c PROVE AskedOn(d, conn'[d], s, k)
    <3>1. AskedOn(d, conn[d], req[k], k) /\ (conn[d].freeing => loop.ctx = d)
      BY Zenon DEF RedisInv, Inv, Askers, Marks
    <3> QED
      BY <1>1, <1>4, <2>2, <3>1, Zenon DEF AskedOn
  <2>3. ToCome(conn', s, loop', k) = y.asked[k]
    <3>1. CASE s.ctx # NoCtx
      BY <1>4, <3>1, Zenon DEF ToCome
    <3>2. CASE s.ctx = NoCtx /\ loop'.ctx = c
      BY <1>1, <1>4, <3>2, Zenon DEF ToCome
    <3>3. CASE s.ctx = NoCtx /\ loop'.ctx # c
      BY <1>1, <1>3, <3>3 DEF ToCome, AskedOn
    <3> QED
      BY <3>1, <3>2, <3>3, Zenon
  <2>4. s.pending = ToCome(conn', s, loop', k) + Running(loop', k)
    BY <1>3, <2>3, Zenon
  <2>5. \A d \in Ctxs : AskedOn(d, conn'[d], s, k)
    BY <1>4, <2>2, ZenonT(60)
  <2> QED
    BY <1>1, <1>4, <2>1, <2>4, <2>5, SMTT(30) DEF ReqStep
<1>9. LoopAt(conn', req', loop')
  <2>1. CASE loop' = After(c, y)
    <3>1. /\ loop'.at \in {"idle", "drain"} /\ (loop'.at = "idle" => loop' = Idle)
          /\ loop'.who = Nobody /\ loop'.back = "idle"
      BY <1>1, <1>2, <2>1, AfterLoop, Zenon
    <3>2. loop'.kept # Nobody => loop'.ctx = c /\ conn'[c].freeing
      BY <1>2, <1>3, <1>4, Zenon
    <3>3. loop'.at = "drain" => loop'.ctx = c /\ conn'[c].mem = "live"
      BY <1>3, <1>4, ZenonT(60)
    <3> QED
      BY <3>1, <3>2, <3>3, Zenon DEF LoopAt
  <2>2. CASE /\ loop' = InLua(c, k) /\ loop.at # "lua" /\ s.open > 0 /\ ~s.ended
             /\ k \in Sync => s.clean > 0
             /\ s.ctx = c \/ (s.ctx = NoCtx /\ y.freeing)
    <3>1. /\ loop'.kept = loop.kept /\ loop'.ctx = c /\ loop'.at = "lua"
          /\ loop'.who = k /\ loop'.back = loop.at
      BY <2>2, Zenon DEF InLua
    <3> QED
      BY <1>1, <1>2, <1>4, <2>2, <3>1 DEF LoopAt
  <2> QED
    BY <2>1, <2>2, Zenon
<1>10. c \in Ctxs \cup {NoCtx} /\ k \in Clients \cup {Nobody}
  BY Zenon
<1> QED
  BY <1>4, <1>6, <1>7, <1>8, <1>9, <1>10, Step, Zenon

(* When hiredis serves a callback of k on c.                               *)
LEMMA ServedAt ==
  ASSUME RedisInv, NEW c \in Ctxs, NEW k \in Clients, ServesClient(c, k)
  PROVE  LET x == conn[c]
             r == req[k]
             y == Shifted(c, k)
         IN  /\ loop.ctx \in {NoCtx, c} /\ loop.at \in {"idle", "drain"}
             /\ x \in Conn /\ x.mem = "live" /\ x.asked[k] > 0
             /\ \A l \in Clients \ {k} : x.asked[l] = 0
             /\ r \in Request /\ ReqOK(k, r, loop.kept = k) /\ r.ctx \in {NoCtx, c}
             /\ (r.ctx = NoCtx => x.freeing) /\ r.pending = x.asked[k]
             /\ r.pending > 0 /\ r.live /\ (r.ctx = c <=> x.state = "active")
             /\ y \in Conn /\ ConnOK(y) /\ y.mem = "live" /\ (y.err <=> x.err)
             /\ (y.freeing <=> x.freeing) /\ y.state = x.state
             /\ (\A l \in Clients \ {k} : y.asked[l] = x.asked[l])
             /\ y.asked[k] = x.asked[k] - 1
<1> DEFINE x == conn[c]
           r == req[k]
           y == Shifted(c, k)
<1>1. /\ x \in Conn /\ ConnOK(x) /\ r \in Request /\ ReqOK(k, r, loop.kept = k)
      /\ loop \in Loop /\ LoopAt(conn, req, loop) /\ NoCtx \notin Ctxs /\ x.asked[k] > 0
  BY InvAt, Zenon DEF ServesClient
<1>2. loop.ctx \in {NoCtx, c} /\ loop.at \in {"idle", "drain"} /\ x.mem = "live"
  BY <1>1, IsIdle, Zenon DEF ServesClient, Serves, LoopAt
<1>3. \A l \in Clients : x.asked[l] \in Nat
  BY <1>1, Zenon DEF Conn
<1>4. \A l \in Clients \ {k} : x.asked[l] = 0
  BY <1>1, <1>3 DEF RedisInv, Inv, Askers
<1>5. AskedOn(c, x, r, k) /\ (x.freeing => loop.ctx = c)
  BY Zenon DEF RedisInv, Inv, Askers, Marks
<1>6. r.ctx \in {NoCtx, c} /\ (r.ctx = NoCtx => x.freeing)
  BY <1>1, <1>5, Zenon DEF AskedOn
<1>7. r.pending = x.asked[k]
  <2>1. Running(loop, k) = 0
    BY <1>2, Zenon DEF Running
  <2>2. ToCome(conn, r, loop, k) = x.asked[k]
    BY <1>1, <1>5, <1>6, Zenon DEF ToCome
  <2> QED
    BY <1>3, <2>1, <2>2, PendingAt
<1>8. r.ctx = c <=> x.state = "active"
  <2>1. r.ctx = c => x.state = "active"
    BY <1>1 DEF RedisInv, Inv, Held
  <2>2. x.freeing => x.state = "none"
    BY <1>1, Zenon DEF ConnOK
  <2> QED
    BY <1>6, <2>1, <2>2, Zenon
<1>9. r.live
  BY <1>1, <1>7, NoRequestOK DEF ReqOK
<1>10. y = [x EXCEPT !.asked = [x.asked EXCEPT ![k] = x.asked[k] - 1]]
  BY <1>1 DEF Shifted, Conn
<1> HIDE DEF x, y
<1>11. y \in Conn
  <2>1. [x.asked EXCEPT ![k] = x.asked[k] - 1] \in [Clients -> Nat]
    BY <1>1, <1>3 DEF Conn
  <2> QED
    BY <1>1, <1>10, <2>1, Zenon DEF Conn
<1>12. /\ y.state = x.state /\ y.list = x.list /\ y.timer = x.timer /\ y.mem = x.mem
       /\ y.err = x.err /\ y.freeing = x.freeing /\ y.quit = x.quit
       /\ y.asked = [x.asked EXCEPT ![k] = x.asked[k] - 1]
  BY <1>1, <1>10, Zenon DEF Conn
<1>13. /\ \A l \in Clients \ {k} : y.asked[l] = x.asked[l]
       /\ y.asked[k] = x.asked[k] - 1
  BY <1>1, <1>12, Zenon DEF Conn
<1>14. ConnOK(y)
  <2>1. x.state \notin {"inactive", "finalising"}
    BY <1>1 DEF ConnOK
  <2> QED
    BY <1>1, <1>2, <1>12, <2>1, Zenon DEF ConnOK
<1> QED
  BY <1>1, <1>2, <1>4, <1>6, <1>7, <1>8, <1>9, <1>11, <1>12, <1>13, <1>14, Zenon DEF x, y

(* lua_redis_callback runs the user's callback.                            *)
LEMMA CallbackLuaOK ==
  ASSUME RedisInv, NEW c \in Ctxs, NEW k \in Clients, CallbackLua(c, k)
  PROVE  RedisInv'
<1> DEFINE x == conn[c]
           r == req[k]
           y == Shifted(c, k)
<1>1. /\ k \notin Sync /\ ServesClient(c, k) /\ r.open > 0 /\ loop' = InLua(c, k)
      /\ conn' = [conn EXCEPT ![c] = y] /\ req' = req
  BY SMTT(30) DEF CallbackLua
<1>2. /\ loop.ctx \in {NoCtx, c} /\ loop.at \in {"idle", "drain"}
      /\ x \in Conn /\ x.mem = "live" /\ x.asked[k] > 0
      /\ \A l \in Clients \ {k} : x.asked[l] = 0
      /\ r \in Request /\ ReqOK(k, r, loop.kept = k) /\ r.ctx \in {NoCtx, c}
      /\ (r.ctx = NoCtx => x.freeing) /\ r.pending = x.asked[k]
      /\ (r.ctx = c <=> x.state = "active")
      /\ y \in Conn /\ ConnOK(y) /\ y.mem = "live" /\ (y.err <=> x.err)
      /\ (y.freeing <=> x.freeing) /\ y.state = x.state
      /\ (\A l \in Clients \ {k} : y.asked[l] = x.asked[l])
      /\ y.asked[k] = x.asked[k] - 1
  BY <1>1, ServedAt
<1>3. req' = [req EXCEPT ![k] = r]
  BY <1>1, InvAt, ZenonT(60) DEF Types
<1>4. ~r.ended
  BY <1>1, <1>2, SMTT(30) DEF ReqOK
<1>5. r.pending = y.asked[k] + IF k \in Sync THEN 0 ELSE 1
  BY <1>1, <1>2 DEF Request
<1> HIDE DEF x, y, r
<1>6. AskedOn(c, y, r, k)
  BY <1>2, Zenon DEF AskedOn
<1> QED
  BY <1>1, <1>2, <1>3, <1>4, <1>5, <1>6, CallbackOK, Zenon DEF x, r

(* The rest of lua_redis_callback.                                         *)
LEMMA SettleOK ==
  ASSUME RedisInv, NEW c \in Ctxs, NEW k \in Clients, k \notin Sync,
         loop.ctx \in {NoCtx, c}, loop.at # "expire", loop.at = "lua" => loop.who = k,
         NEW x \in Conn, ConnOK(x), x.mem = "live", conn[c].mem = "live",
         x.err <=> conn[c].err, conn[c].freeing <=> x.freeing,
         \A l \in Clients \ {k} : x.asked[l] = conn[c].asked[l],
         x.asked[k] > 0 => conn[c].asked[k] > 0,
         x.freeing \/ \A l \in Clients \ {k} : conn[c].asked[l] = 0,
         NEW r \in Request, r.ctx = req[k].ctx, r.ctx \in {NoCtx, c},
         x.state = "active" <=> r.ctx = c,
         r.ctx = NoCtx => x.freeing /\ loop.kept = k,
         r.pending = x.asked[k] + 1, r.live, ~r.waits, r.ans = 0, r.clean = 0, r.sent # 0,
         r.ended => r.open = 0, r.open < r.pending,
         ~r.ended => r.open = r.pending - 1 \/ (loop.kept = k /\ r.open = r.pending - 2),
         loop.kept = k => r.ctx = NoCtx /\ ~r.ended,
         r.pending = 1 \/ r.held \/ r.open > 0 \/ loop.kept = k,
         Settle(c, k, x, r)
  PROVE  RedisInv'
<1> DEFINE last == r.pending = 1
           s == [r EXCEPT !.pending = @ - 1, !.ctx = IF last THEN NoCtx ELSE @]
           t == IF Unused(k, s) THEN NoRequest ELSE s
           y == IF last /\ r.ctx # NoCtx THEN ReleaseConnection(x, r.how, TRUE) ELSE x
<1>1. /\ req' = [req EXCEPT ![k] = t] /\ conn' = [conn EXCEPT ![c] = y]
      /\ loop' = After(c, y)
  BY Zenon DEF Settle
<1>2. /\ NoCtx \notin Ctxs /\ c # NoCtx /\ x.asked[k] \in Nat /\ r.pending \in Nat
      /\ r.open \in Nat
  BY InvAt DEF Conn, Request
<1>3. s \in Request
  <2>1. ASSUME NEW i \in Nat, NEW d \in Ctxs \cup {NoCtx}
        PROVE  [r EXCEPT !.pending = i, !.ctx = d] \in Request
    BY Zenon DEF Request
  <2>2. r.pending - 1 \in Nat /\ (IF last THEN NoCtx ELSE r.ctx) \in Ctxs \cup {NoCtx}
    BY <1>2 DEF Request
  <2> QED
    BY <2>1, <2>2, Zenon
<1>4. /\ s.live = r.live /\ s.ctx = (IF last THEN NoCtx ELSE r.ctx) /\ s.held = r.held
      /\ s.open = r.open /\ s.pending = r.pending - 1 /\ s.sent = r.sent
      /\ s.ended = r.ended /\ s.waits = r.waits /\ s.ans = r.ans /\ s.clean = r.clean
  BY Zenon DEF Request
<1> HIDE DEF s
<1>5. /\ y \in Conn /\ ConnOK(y) /\ y.mem = "live" /\ (y.err <=> x.err)
      /\ (x.freeing => y.freeing) /\ y.asked = x.asked
      /\ (y.state = "active" <=> s.ctx = c)
  <2>1. CASE last /\ r.ctx # NoCtx
    <3>1. y = ReleaseConnection(x, r.how, TRUE) /\ r.ctx = c /\ s.ctx = NoCtx
      BY <1>4, <2>1, Zenon
    <3>2. /\ y \in Conn /\ ConnOK(y) /\ y.mem = "live" /\ y.asked = x.asked
          /\ y.err = x.err /\ y.state # "active"
      BY <3>1, ReleaseInside, ZenonT(60)
    <3>3. ~x.freeing
      BY <3>1, Zenon DEF ConnOK
    <3> QED
      BY <1>2, <3>1, <3>2, <3>3, Zenon
  <2>2. CASE ~last \/ r.ctx = NoCtx
    <3>1. y = x /\ s.ctx = r.ctx
      BY <1>4, <2>2, ZenonT(60)
    <3> QED
      BY <3>1, Zenon
  <2> QED
    BY <2>1, <2>2, Zenon
<1>6. Unused(k, s) => last /\ (loop.kept = k) = FALSE
  BY <1>4, SMTT(30) DEF Unused
<1>7. t \in Request /\ t.ctx = s.ctx /\ t.pending = s.pending
  <2>1. CASE Unused(k, s)
    BY <1>4, <1>6, <2>1, NoRequestOK
  <2>2. CASE ~Unused(k, s)
    BY <1>3, <2>2, Zenon
  <2> QED
    BY <2>1, <2>2, SMTT(30)
<1>8. ReqOK(k, t, loop.kept = k)
  <2>1. CASE Unused(k, s)
    BY <1>6, <2>1, NoRequestOK, Zenon
  <2>2. CASE ~Unused(k, s)
    <3>1. CASE loop.kept = k
      <4>1. ReqOK(k, s, TRUE)
        BY <1>2, <1>4, <3>1 DEF ReqOK
      <4>2. (loop.kept = k) = TRUE /\ t = s
        BY <2>2, <3>1, Zenon
      <4> QED
        BY <4>1, <4>2, ZenonT(60)
    <3>2. CASE loop.kept # k
      <4>1. s.held \/ s.open # 0
        BY <2>2, <3>2, SMTT(30) DEF Unused
      <4>2. ReqOK(k, s, FALSE)
        BY <1>2, <1>4, <3>2, <4>1, SMTT(30) DEF ReqOK
      <4>3. (loop.kept = k) = FALSE /\ t = s
        BY <2>2, <3>2, SMTT(30)
      <4> QED
        BY <4>2, <4>3, Zenon
    <3> QED
      BY <3>1, <3>2
  <2> QED
    BY <2>1, <2>2, Zenon
<1> HIDE DEF t, y
<1>9. t.pending = y.asked[k]
  BY <1>2, <1>4, <1>5, <1>7, SMTT(30)
<1>10. AskedOn(c, y, t, k)
  BY <1>2, <1>4, <1>5, <1>7, <1>9, SMTT(30) DEF AskedOn
<1>11. /\ y.asked[k] > 0 => conn[c].asked[k] > 0
       /\ \A l \in Clients \ {k} : y.asked[l] = conn[c].asked[l]
       /\ y.freeing \/ \A l \in Clients \ {k} : conn[c].asked[l] = 0
       /\ conn[c].freeing => y.freeing
       /\ y.err <=> conn[c].err
  BY <1>5, ZenonT(60)
<1>12. /\ t.ctx \in {NoCtx, req[k].ctx} /\ (req[k].ctx = NoCtx => conn[c].freeing)
       /\ (y.state = "active" <=> t.ctx = c) /\ req[k].ctx \in {NoCtx, c}
  BY <1>4, <1>5, <1>7, ZenonT(60)
<1> QED
  BY <1>1, <1>5, <1>7, <1>8, <1>9, <1>10, <1>11, <1>12, CallbackOK, Zenon

(* lua_redis_callback of a request that is finished.                       *)
LEMMA CallbackFinishedOK ==
  ASSUME RedisInv, NEW c \in Ctxs, NEW k \in Clients, CallbackFinished(c, k)
  PROVE  RedisInv'
<1> DEFINE x == conn[c]
           r == req[k]
           y == Shifted(c, k)
<1>1. k \notin Sync /\ ServesClient(c, k) /\ r.pending > r.open /\ Settle(c, k, y, r)
  BY DEF CallbackFinished
<1>2. /\ loop.ctx \in {NoCtx, c} /\ loop.at \in {"idle", "drain"}
      /\ x \in Conn /\ x.mem = "live" /\ x.asked[k] > 0
      /\ \A l \in Clients \ {k} : x.asked[l] = 0
      /\ r \in Request /\ ReqOK(k, r, loop.kept = k) /\ r.ctx \in {NoCtx, c}
      /\ (r.ctx = NoCtx => x.freeing) /\ r.pending = x.asked[k]
      /\ (r.ctx = c <=> x.state = "active") /\ r.live
      /\ y \in Conn /\ ConnOK(y) /\ y.mem = "live" /\ (y.err <=> x.err)
      /\ (y.freeing <=> x.freeing) /\ y.state = x.state
      /\ (\A l \in Clients \ {k} : y.asked[l] = x.asked[l])
      /\ y.asked[k] = x.asked[k] - 1
  BY <1>1, ServedAt
<1> HIDE DEF y, x, r
<1>3. /\ r.pending \in Nat /\ r.open \in Nat /\ x.asked[k] \in Nat
  BY <1>2, Zenon DEF Request, Conn
<1>4. /\ r.ctx = NoCtx => loop.kept = k
      /\ ~r.waits /\ r.ans = 0 /\ r.clean = 0 /\ r.sent # 0
      /\ r.ended => r.open = 0
      /\ ~r.ended => loop.kept = k /\ r.open = r.pending - 1
      /\ loop.kept = k => r.ctx = NoCtx /\ ~r.ended
      /\ r.held \/ r.open > 0 \/ loop.kept = k
  BY <1>1, <1>2, <1>3, SMTT(30) DEF ReqOK
<1>5. /\ r.pending = y.asked[k] + 1 /\ r.open < r.pending
      /\ (y.asked[k] > 0 => x.asked[k] > 0)
  BY <1>1, <1>2, <1>3
<1> QED
  BY <1>1, <1>2, <1>4, <1>5, SettleOK, ZenonT(60) DEF x, r

(* When the script that an answer was given to has returned.               *)
LEMMA LuaAt ==
  ASSUME RedisInv, NEW k \in Clients, loop.at = "lua", loop.who = k
  PROVE  LET c == loop.ctx
             x == conn[c]
             r == req[k]
         IN  /\ c \in Ctxs /\ x \in Conn /\ ConnOK(x) /\ x.mem = "live"
             /\ r \in Request /\ ReqOK(k, r, loop.kept = k) /\ r.live /\ ~r.ended
             /\ r.open > 0 /\ (k \in Sync => r.clean > 0)
             /\ r.ctx \in {NoCtx, c} /\ (r.ctx = NoCtx => x.freeing)
             /\ (x.state = "active" <=> r.ctx = c) /\ AskedOn(c, x, r, k)
             /\ r.pending = x.asked[k] + IF k \in Sync THEN 0 ELSE 1
             /\ x.freeing \/ \A l \in Clients \ {k} : x.asked[l] = 0
<1> DEFINE c == loop.ctx
           x == conn[c]
           r == req[k]
<1>1. /\ c \in Ctxs /\ x \in Conn /\ ConnOK(x) /\ x.mem = "live" /\ c # NoCtx
      /\ r \in Request /\ ReqOK(k, r, loop.kept = k) /\ ~r.ended /\ r.open > 0
      /\ (k \in Sync => r.clean > 0) /\ (r.ctx = c \/ (r.ctx = NoCtx /\ x.freeing))
  BY InvAt, Zenon DEF LoopAt
<1>2. x.state = "active" <=> r.ctx = c
  BY <1>1, Zenon DEF RedisInv, Inv, Held, ConnOK
<1>3. r.pending = x.asked[k] + IF k \in Sync THEN 0 ELSE 1
  <2>1. Running(loop, k) = IF k \in Sync THEN 0 ELSE 1
    BY Zenon DEF Running
  <2>2. ToCome(conn, r, loop, k) = x.asked[k]
    BY <1>1, Zenon DEF ToCome
  <2> QED
    BY <2>1, <2>2, PendingAt, Zenon
<1>4. AskedOn(c, x, r, k)
  BY <1>1, ZenonT(60) DEF RedisInv, Inv, Askers
<1>5. r.ctx = c => \A l \in Clients \ {k} : x.asked[l] = 0
  BY <1>1, HeldConn, SMTT(30)
<1>6. r.live
  BY <1>1, NoRequestOK, SMTT(30) DEF ReqOK
<1> QED
  BY <1>1, <1>2, <1>3, <1>4, <1>5, <1>6, ZenonT(60)

(* lua_redis_callback, after the user's callback.                          *)
LEMMA CallbackEndOK ==
  ASSUME RedisInv, NEW k \in Clients, CallbackEnd(k)
  PROVE  RedisInv'
<1> DEFINE c == loop.ctx
           x == conn[c]
           q == req[k]
           r == [q EXCEPT !.open = @ - 1]
<1>1. loop.at = "lua" /\ loop.who = k /\ k \notin Sync /\ Settle(c, k, x, r)
  BY Zenon DEF CallbackEnd
<1>2. /\ c \in Ctxs /\ x \in Conn /\ ConnOK(x) /\ x.mem = "live"
      /\ q \in Request /\ ReqOK(k, q, loop.kept = k) /\ q.live /\ ~q.ended /\ q.open > 0
      /\ q.ctx \in {NoCtx, c} /\ (q.ctx = NoCtx => x.freeing)
      /\ (x.state = "active" <=> q.ctx = c)
      /\ q.pending = x.asked[k] + 1
      /\ x.freeing \/ \A l \in Clients \ {k} : x.asked[l] = 0
  BY <1>1, LuaAt, Zenon
<1> HIDE DEF q
<1>3. r \in Request
  <2>1. ASSUME NEW i \in Nat PROVE [q EXCEPT !.open = i] \in Request
    BY <1>2, Zenon DEF Request
  <2>2. q.open - 1 \in Nat
    BY <1>2 DEF Request
  <2> QED
    BY <2>1, <2>2, Zenon
<1>4. /\ r.live = q.live /\ r.ctx = q.ctx /\ r.held = q.held /\ r.open = q.open - 1
      /\ r.pending = q.pending /\ r.sent = q.sent /\ r.ended = q.ended
      /\ r.waits = q.waits /\ r.ans = q.ans /\ r.clean = q.clean
  BY <1>2, Zenon DEF Request
<1> HIDE DEF r
<1>5. q.pending \in Nat /\ q.open \in Nat
  BY <1>2, SMTT(30) DEF Request
<1>6. /\ q.ctx = NoCtx => loop.kept = k
      /\ ~q.waits /\ q.ans = 0 /\ q.clean = 0 /\ q.sent # 0
      /\ q.open = q.pending \/ (loop.kept = k /\ q.open = q.pending - 1)
      /\ loop.kept = k => q.ctx = NoCtx
  BY <1>1, <1>2, <1>5, SMTT(30) DEF ReqOK
<1>7. /\ r.open < r.pending
      /\ r.open = r.pending - 1 \/ (loop.kept = k /\ r.open = r.pending - 2)
      /\ r.pending = 1 \/ r.open > 0 \/ loop.kept = k
  BY <1>2, <1>4, <1>5, <1>6
<1>8. /\ r.ctx = req[k].ctx /\ r.ctx \in {NoCtx, c} /\ (x.state = "active" <=> r.ctx = c)
      /\ (r.ctx = NoCtx => x.freeing /\ loop.kept = k)
      /\ r.pending = x.asked[k] + 1 /\ r.live /\ ~r.waits /\ r.ans = 0 /\ r.clean = 0
      /\ r.sent # 0 /\ ~r.ended /\ (loop.kept = k => r.ctx = NoCtx)
  BY <1>2, <1>4, <1>6, Zenon DEF q
<1> QED
  BY <1>1, <1>2, <1>3, <1>7, <1>8, SettleOK, Zenon

(* lua_redis_callback_sync.                                                *)
LEMMA CallbackSyncOK ==
  ASSUME RedisInv, NEW c \in Ctxs, NEW k \in Clients, NEW failed \in BOOLEAN,
         CallbackSync(c, k, failed)
  PROVE  RedisInv'
<1> DEFINE w == conn[c]
           r == req[k]
           lost == failed /\ r.ctx # NoCtx
           y == Shifted(c, k)
           x == IF lost THEN ReleaseConnection(y, "fatal", TRUE) ELSE y
           s == [r EXCEPT !.pending = @ - 1, !.ans = @ + 1,
                          !.ctx = IF lost THEN NoCtx ELSE @]
           t == [s EXCEPT !.waits = FALSE, !.ans = 0, !.clean = @ + s.ans]
<1>1. /\ k \in Sync /\ ServesClient(c, k) /\ ~r.ended /\ conn' = [conn EXCEPT ![c] = x]
      /\ IF s.pending = 0 /\ s.waits
         THEN req' = [req EXCEPT ![k] = t] /\ loop' = InLua(c, k)
         ELSE req' = [req EXCEPT ![k] = s] /\ loop' = After(c, x)
  BY Zenon DEF CallbackSync
<1>2. /\ loop.ctx \in {NoCtx, c} /\ loop.at \in {"idle", "drain"}
      /\ w \in Conn /\ w.mem = "live" /\ w.asked[k] > 0
      /\ \A l \in Clients \ {k} : w.asked[l] = 0
      /\ r \in Request /\ ReqOK(k, r, loop.kept = k) /\ r.ctx \in {NoCtx, c}
      /\ (r.ctx = NoCtx => w.freeing) /\ r.pending = w.asked[k] /\ r.pending > 0
      /\ (r.ctx = c <=> w.state = "active") /\ r.live
      /\ y \in Conn /\ ConnOK(y) /\ y.mem = "live" /\ (y.err <=> w.err)
      /\ (y.freeing <=> w.freeing) /\ y.state = w.state
      /\ (\A l \in Clients \ {k} : y.asked[l] = w.asked[l])
      /\ y.asked[k] = w.asked[k] - 1
  BY <1>1, ServedAt, SMTT(30)
<1>3. (loop.kept = k) = FALSE
  BY <1>1, <1>2, SMTT(30) DEF ReqOK
<1>4. NoCtx \notin Ctxs /\ c # NoCtx
  BY InvAt
<1> HIDE DEF w, y, r
<1>5. /\ x \in Conn /\ ConnOK(x) /\ x.mem = "live" /\ (x.err <=> w.err)
      /\ (w.freeing => x.freeing) /\ x.asked = y.asked /\ (lost => x.freeing)
      /\ (x.state = "active" <=> r.ctx = c /\ ~lost)
  <2>1. CASE lost
    <3>1. x = Erase(y, TRUE) /\ y.state = "active"
      BY <1>2, <2>1, Zenon DEF ReleaseConnection
    <3>2. /\ x \in Conn /\ ConnOK(x) /\ x.state = "none" /\ x.mem = "live"
          /\ x.asked = y.asked /\ x.err = y.err /\ x.freeing
      BY <1>2, <3>1, EraseInside, ZenonT(60)
    <3> QED
      BY <1>2, <2>1, <3>2, ZenonT(60)
  <2>2. CASE ~lost
    BY <1>2, <2>2, Zenon
  <2> QED
    BY <2>1, <2>2, Zenon
<1>6. s \in Request
  <2>1. ASSUME NEW i \in Nat, NEW j \in Nat, NEW d \in Ctxs \cup {NoCtx}
        PROVE  [r EXCEPT !.pending = i, !.ans = j, !.ctx = d] \in Request
    BY <1>2, Zenon DEF Request
  <2>2. /\ r.pending - 1 \in Nat /\ r.ans + 1 \in Nat
        /\ (IF lost THEN NoCtx ELSE r.ctx) \in Ctxs \cup {NoCtx}
    BY <1>2, SMTT(30) DEF Request
  <2> QED
    BY <2>1, <2>2, Zenon
<1>7. /\ s.live = r.live /\ s.ctx = (IF lost THEN NoCtx ELSE r.ctx) /\ s.held = r.held
      /\ s.open = r.open /\ s.pending = r.pending - 1 /\ s.sent = r.sent
      /\ s.ended = r.ended /\ s.waits = r.waits /\ s.ans = r.ans + 1 /\ s.clean = r.clean
  BY <1>2, Zenon DEF Request
<1>8. /\ r.open \in Nat /\ r.pending \in Nat /\ r.ans \in Nat /\ r.clean \in Nat
      /\ r.sent \in Nat /\ w.asked[k] \in Nat
  BY <1>2, Zenon DEF Request, Conn
<1>9. /\ r.open = r.pending + r.ans + r.clean /\ r.sent # 0
      /\ (r.waits => r.held)
  BY <1>1, <1>2, <1>8, SMTT(30) DEF ReqOK
<1> HIDE DEF s, x
<1>10. /\ x.asked[k] > 0 => w.asked[k] > 0
       /\ \A l \in Clients \ {k} : x.asked[l] = w.asked[l]
       /\ s.ctx \in {NoCtx, r.ctx} /\ (x.state = "active" <=> s.ctx = c)
       /\ AskedOn(c, x, s, k) /\ s.pending = x.asked[k]
       /\ s.ctx = c \/ (s.ctx = NoCtx /\ x.freeing)
  <2>1. s.ctx = c \/ (s.ctx = NoCtx /\ x.freeing)
    BY <1>2, <1>5, <1>7
  <2> QED
    BY <1>2, <1>4, <1>5, <1>7, <1>8, <2>1, SMTT(30) DEF AskedOn
<1>11. CASE s.pending = 0 /\ s.waits
  <2>1. req' = [req EXCEPT ![k] = t] /\ loop' = InLua(c, k)
    BY <1>1, <1>11, Zenon
  <2>2. t \in Request
    <3>1. ASSUME NEW b \in BOOLEAN, NEW i \in Nat, NEW j \in Nat
          PROVE  [s EXCEPT !.waits = b, !.ans = i, !.clean = j] \in Request
      BY <1>6, Zenon DEF Request
    <3>2. FALSE \in BOOLEAN /\ 0 \in Nat /\ s.clean + s.ans \in Nat
      BY <1>7, <1>8
    <3> QED
      BY <3>1, <3>2, Zenon
  <2>3. /\ t.live = s.live /\ t.ctx = s.ctx /\ t.held = s.held
        /\ t.open = s.open /\ t.pending = s.pending /\ t.sent = s.sent
        /\ t.ended = s.ended /\ ~t.waits /\ t.ans = 0 /\ t.clean = s.clean + s.ans
    BY <1>6, Zenon DEF Request
  <2> HIDE DEF t
  <2>4. t.open > 0 /\ t.clean > 0 /\ ~t.ended /\ t.live /\ t.pending = 0
        /\ t.open = t.pending + t.ans + t.clean
    BY <1>1, <1>2, <1>7, <1>8, <1>9, <1>11, <2>3, SMTT(30)
  <2>5. ReqOK(k, t, FALSE)
    BY <1>1, <1>7, <1>9, <2>3, <2>4, Zenon DEF ReqOK
  <2>6. ReqOK(k, t, loop.kept = k)
    BY <1>3, <2>5, Zenon
  <2>7. t.pending = x.asked[k] + IF k \in Sync THEN 0 ELSE 1
    BY <1>1, <1>10, <1>11, <2>3, SMTT(30)
  <2>8. AskedOn(c, x, t, k) /\ t.ctx \in {NoCtx, r.ctx} /\ (x.state = "active" <=> t.ctx = c)
        /\ (t.ctx = c \/ (t.ctx = NoCtx /\ x.freeing))
    BY <1>10, <2>3, Zenon DEF AskedOn
  <2> QED
    BY <1>1, <1>2, <1>5, <1>10, <2>1, <2>2, <2>4, <2>6, <2>7, <2>8, CallbackOK, ZenonT(60) DEF w, r
<1>12. CASE ~(s.pending = 0 /\ s.waits)
  <2>1. req' = [req EXCEPT ![k] = s] /\ loop' = After(c, x)
    BY <1>1, <1>12
  <2>2. ReqOK(k, s, FALSE)
    <3>1. s.open > 0 /\ s.open = s.pending + s.ans + s.clean
      BY <1>7, <1>8, <1>9, <1>2, SMTT(30)
    <3>2. s.waits => s.pending > 0 /\ s.held
      BY <1>7, <1>8, <1>9, <1>2, <1>12, SMTT(30)
    <3>3. s.sent # 0 /\ s.live /\ ~s.ended
      BY <1>1, <1>2, <1>7, <1>9, Zenon
    <3> QED
      BY <1>1, <3>1, <3>2, <3>3, SMTT(30) DEF ReqOK
  <2>3. ReqOK(k, s, loop.kept = k)
    BY <1>3, <2>2, Zenon
  <2> QED
    BY <1>1, <1>2, <1>5, <1>6, <1>10, <2>1, <2>3, CallbackOK, ZenonT(60) DEF w, r
<1> QED
  BY <1>11, <1>12

(* lua_redis_callback_sync of a request that is finished.                  *)
LEMMA CallbackSyncFinishedOK ==
  ASSUME RedisInv, NEW c \in Ctxs, NEW k \in Clients, CallbackSyncFinished(c, k)
  PROVE  RedisInv'
<1> DEFINE w == conn[c]
           r == req[k]
           y == Shifted(c, k)
           s == [r EXCEPT !.pending = @ - 1, !.waits = @ /\ r.pending > 1]
<1>1. /\ k \in Sync /\ ServesClient(c, k) /\ r.ended /\ conn' = [conn EXCEPT ![c] = y]
      /\ req' = [req EXCEPT ![k] = s] /\ loop' = After(c, w)
  BY Zenon DEF CallbackSyncFinished
<1>2. /\ loop.ctx \in {NoCtx, c} /\ loop.at \in {"idle", "drain"}
      /\ w \in Conn /\ w.mem = "live" /\ w.asked[k] > 0
      /\ \A l \in Clients \ {k} : w.asked[l] = 0
      /\ r \in Request /\ ReqOK(k, r, loop.kept = k) /\ r.ctx \in {NoCtx, c}
      /\ (r.ctx = NoCtx => w.freeing) /\ r.pending = w.asked[k] /\ r.pending > 0
      /\ (r.ctx = c <=> w.state = "active") /\ r.live
      /\ y \in Conn /\ ConnOK(y) /\ y.mem = "live" /\ (y.err <=> w.err)
      /\ (y.freeing <=> w.freeing) /\ y.state = w.state
      /\ (\A l \in Clients \ {k} : y.asked[l] = w.asked[l])
      /\ y.asked[k] = w.asked[k] - 1
  BY <1>1, ServedAt, SMTT(30)
<1>3. loop' = After(c, y)
  BY <1>1, <1>2 DEF After
<1>4. (loop.kept = k) = FALSE
  BY <1>1, <1>2, Zenon DEF ReqOK
<1> HIDE DEF w, y, r
<1>5. s \in Request
  <2>1. ASSUME NEW i \in Nat, NEW b \in BOOLEAN
        PROVE  [r EXCEPT !.pending = i, !.waits = b] \in Request
    BY <1>2, Zenon DEF Request
  <2>2. r.pending - 1 \in Nat /\ (r.waits /\ r.pending > 1) \in BOOLEAN
    BY <1>2, SMTT(30) DEF Request
  <2> QED
    BY <2>1, <2>2, Zenon
<1>6. /\ s.live = r.live /\ s.ctx = r.ctx /\ s.held = r.held
      /\ s.open = r.open /\ s.pending = r.pending - 1 /\ s.sent = r.sent
      /\ s.ended = r.ended /\ s.ans = r.ans /\ s.clean = r.clean
  BY <1>2, Zenon DEF Request
<1>7. s.waits <=> r.waits /\ r.pending > 1
  BY <1>2, Zenon DEF Request
<1> HIDE DEF s
<1>8. /\ r.pending \in Nat /\ w.asked[k] \in Nat /\ r.open = 0 /\ r.ans = 0 /\ r.clean = 0
      /\ r.ctx = c /\ r.held /\ r.sent # 0
  <2>1. r.pending \in Nat /\ w.asked[k] \in Nat
    BY <1>2 DEF Request, Conn
  <2> QED
    BY <1>1, <1>2, <1>4, <2>1, SMTT(30) DEF ReqOK
<1>9. ReqOK(k, s, FALSE)
  <2>1. s.waits => s.pending > 0
    BY <1>6, <1>7, <1>8, SMTT(30)
  <2>2. s.ctx # NoCtx
    BY <1>6, <1>8, InvAt, ZenonT(60)
  <2> QED
    BY <1>1, <1>2, <1>6, <1>8, <2>1, <2>2, ZenonT(60) DEF ReqOK
<1>10. ReqOK(k, s, loop.kept = k)
  BY <1>4, <1>9, ZenonT(60)
<1>11. /\ s.pending = y.asked[k] /\ AskedOn(c, y, s, k) /\ s.ctx \in {NoCtx, r.ctx}
       /\ (y.state = "active" <=> s.ctx = c) /\ (y.asked[k] > 0 => w.asked[k] > 0)
  BY <1>2, <1>6, <1>8, SMTT(30) DEF AskedOn
<1> QED
  BY <1>1, <1>2, <1>3, <1>5, <1>10, <1>11, CallbackOK, Zenon DEF w, r

(* The coroutine of a synchronous request returns.                         *)
LEMMA ResumeEndOK ==
  ASSUME RedisInv, NEW k \in Clients, ResumeEnd(k)
  PROVE  RedisInv'
<1> DEFINE c == loop.ctx
           x == conn[c]
           r == req[k]
           s == [r EXCEPT !.open = @ - r.clean, !.clean = 0]
<1>1. /\ loop.at = "lua" /\ loop.who = k /\ k \in Sync /\ Dropped(k, s, TRUE)
      /\ loop' = After(c, conn'[c])
  BY ZenonT(60) DEF ResumeEnd
<1>2. /\ c \in Ctxs /\ x \in Conn /\ ConnOK(x) /\ x.mem = "live"
      /\ r \in Request /\ ReqOK(k, r, loop.kept = k) /\ r.live /\ ~r.ended /\ r.open > 0
      /\ r.ctx \in {NoCtx, c} /\ (r.ctx = NoCtx => x.freeing)
      /\ (x.state = "active" <=> r.ctx = c) /\ AskedOn(c, x, r, k)
      /\ r.pending = x.asked[k] + 0
      /\ x.freeing \/ \A l \in Clients \ {k} : x.asked[l] = 0
  BY <1>1, LuaAt, SMTT(30)
<1>3. NoCtx \notin Ctxs /\ c # NoCtx /\ conn \in [Ctxs -> Conn]
  BY <1>2, InvAt, Zenon DEF Types
<1> HIDE DEF r
<1>4. /\ r.open \in Nat /\ r.pending \in Nat /\ r.ans \in Nat /\ r.clean \in Nat
      /\ x.asked[k] \in Nat
  BY <1>2, ZenonT(60) DEF Request, Conn
<1>5. r.open = r.pending + r.ans + r.clean /\ (loop.kept = k) = FALSE /\ r.pending = x.asked[k]
  BY <1>1, <1>2, <1>4, SMTT(30) DEF ReqOK
<1>6. s \in Request
  <2>1. ASSUME NEW i \in Nat, NEW j \in Nat PROVE [r EXCEPT !.open = i, !.clean = j] \in Request
    BY <1>2, ZenonT(60) DEF Request
  <2>2. r.open - r.clean \in Nat /\ 0 \in Nat
    BY <1>4, <1>5, SMTT(30)
  <2> QED
    BY <2>1, <2>2, Zenon
<1>7. /\ s.live = r.live /\ s.ctx = r.ctx /\ s.held = r.held
      /\ s.open = r.open - r.clean /\ s.pending = r.pending /\ s.sent = r.sent
      /\ s.ended = r.ended /\ s.waits = r.waits /\ s.ans = r.ans /\ s.clean = 0
  BY <1>2, Zenon DEF Request
<1> HIDE DEF s
<1>8. CASE Unused(k, s)
  <2> DEFINE y == IF s.ctx = NoCtx THEN x ELSE ReleaseConnection(x, HowDone(s), TRUE)
  <2>1. /\ req' = [req EXCEPT ![k] = NoRequest]
        /\ conn' = IF s.ctx = NoCtx THEN conn
                   ELSE [conn EXCEPT ![s.ctx] = ReleaseConnection(@, HowDone(s), TRUE)]
    BY <1>1, <1>8, Zenon DEF Dropped
  <2>2. conn' = [conn EXCEPT ![c] = y]
    BY <1>2, <1>3, <1>7, <2>1, Zenon
  <2>3. /\ y \in Conn /\ ConnOK(y) /\ y.mem = "live" /\ (y.err <=> x.err)
        /\ (x.freeing => y.freeing) /\ y.asked = x.asked /\ y.state # "active"
    <3>1. CASE s.ctx = NoCtx
      BY <1>2, <1>3, <1>7, <3>1, Zenon
    <3>2. CASE s.ctx # NoCtx
      <4>1. y = ReleaseConnection(x, HowDone(s), TRUE) /\ x.state = "active"
        BY <1>2, <1>7, <3>2, Zenon
      <4>2. /\ y \in Conn /\ ConnOK(y) /\ y.mem = "live" /\ y.asked = x.asked
            /\ y.err = x.err /\ y.state # "active"
        BY <1>2, <4>1, ReleaseInside, Zenon
      <4>3. ~x.freeing
        BY <1>2, <4>1, Zenon DEF ConnOK
      <4> QED
        BY <4>2, <4>3, Zenon
    <3> QED
      BY <3>1, <3>2, Zenon
  <2> HIDE DEF y
  <2>4. y.asked[k] = 0
    <3>1. s.open = 0
      BY <1>8, Zenon DEF Unused
    <3>2. r.open - r.clean = 0 /\ r.open = r.pending + r.ans + r.clean
      BY <1>5, <1>7, <3>1, Zenon
    <3>3. r.pending = 0
      BY <1>4, <3>2
    <3>4. y.asked[k] = r.pending
      BY <1>5, <2>3, Zenon
    <3> QED
      BY <3>3, <3>4, Zenon
  <2>5. loop' = After(c, y)
    BY <1>1, <1>2, <1>3, <2>2, Zenon
  <2>6. ReqOK(k, NoRequest, loop.kept = k)
    BY <1>5, NoRequestOK, Zenon
  <2>7. /\ NoRequest.pending = y.asked[k] /\ AskedOn(c, y, NoRequest, k)
        /\ NoRequest.ctx \in {NoCtx, r.ctx} /\ (y.state = "active" <=> NoRequest.ctx = c)
        /\ (y.asked[k] > 0 => x.asked[k] > 0) /\ NoRequest \in Request
        /\ \A l \in Clients \ {k} : y.asked[l] = x.asked[l]
        /\ y.freeing \/ \A l \in Clients \ {k} : x.asked[l] = 0
    BY <1>2, <1>3, <2>3, <2>4, NoRequestOK, SMTT(30) DEF AskedOn
  <2> QED
    BY <1>1, <1>2, <2>1, <2>2, <2>3, <2>5, <2>6, <2>7, CallbackOK, ZenonT(60) DEF r
<1>9. CASE ~Unused(k, s)
  <2>1. req' = [req EXCEPT ![k] = s] /\ conn' = conn
    BY <1>1, <1>9, Zenon DEF Dropped
  <2>2. conn' = [conn EXCEPT ![c] = x] /\ loop' = After(c, x)
    BY <1>1, <1>3, <2>1, ZenonT(60)
  <2>3. s.open = s.pending + s.ans + s.clean /\ (s.held \/ s.open > 0)
    BY <1>4, <1>5, <1>7, <1>9, SMTT(30) DEF Unused
  <2>4. ReqOK(k, s, FALSE)
    <3>1. ReqOK(k, r, FALSE)
      BY <1>2, <1>5, Zenon
    <3> QED
      BY <1>1, <1>2, <1>7, <2>3, <3>1, ZenonT(60) DEF ReqOK
  <2>5. ReqOK(k, s, loop.kept = k)
    BY <1>5, <2>4, Zenon
  <2>6. /\ s.pending = x.asked[k] /\ AskedOn(c, x, s, k) /\ s.ctx \in {NoCtx, r.ctx}
        /\ (x.state = "active" <=> s.ctx = c)
    BY <1>2, <1>5, <1>7, ZenonT(60) DEF AskedOn
  <2> QED
    BY <1>1, <1>2, <1>6, <2>1, <2>2, <2>5, <2>6, CallbackOK, Zenon DEF r
<1> QED
  BY <1>8, <1>9, Zenon

(***************************************************************************)
(* The invariant and what follows from it.                                 *)
(***************************************************************************)

(* The invariant holds at first.                                           *)
LEMMA InitOK == Init => RedisInv
<1> SUFFICES ASSUME Init PROVE RedisInv
  BY Zenon
<1>1. conn = [c \in Ctxs |-> NoConn] /\ req = [k \in Clients |-> NoRequest] /\ loop = Idle
  BY Zenon DEF Init
<1>2. /\ \A c \in Ctxs : conn[c] = NoConn
      /\ \A k \in Clients : req[k] = NoRequest
  BY <1>1, Zenon
<1>3. Types(conn, req, loop)
  BY <1>1, NoConnOK, NoRequestOK, IdleLoop, ZenonT(60) DEF Types
<1>4. \A k \in Clients : (loop.kept = k) = FALSE
  BY <1>1, IdleLoop, PoolAssumption, Zenon
<1>5. Conns(conn) /\ Reqs(req, loop) /\ Held(conn, req) /\ Marks(conn, loop)
  <2>1. \A k \in Clients : ReqOK(k, req[k], loop.kept = k)
    BY <1>2, <1>4, NoRequestOK, ZenonT(60)
  <2> QED
    BY <1>2, <2>1, NoConnOK, NoRequestOK, Zenon DEF Conns, Reqs, Held, Marks
<1>6. Askers(conn, req, loop)
  <2>1. \A c \in Ctxs, k \in Clients : conn[c].asked[k] = 0
    BY <1>2, NoConnOK, ZenonT(60)
  <2>2. \A c \in Ctxs, k \in Clients : AskedOn(c, conn[c], req[k], k)
    BY <2>1, SMTT(30) DEF AskedOn
  <2>3. ASSUME NEW k \in Clients
        PROVE  req[k].pending = ToCome(conn, req[k], loop, k) + Running(loop, k)
    <3>1. req[k].pending = 0 /\ ToCome(conn, req[k], loop, k) = 0 /\ Running(loop, k) = 0
      BY <1>1, <1>2, NoRequestOK, IdleLoop, ZenonT(60) DEF ToCome
    <3> QED
      BY <3>1
  <2> QED
    BY <2>1, <2>2, <2>3, SMTT(30) DEF Askers
<1>7. LoopAt(conn, req, loop)
  BY <1>1, IdleLoop, Zenon DEF LoopAt
<1> QED
  BY <1>3, <1>5, <1>6, <1>7, ZenonT(60) DEF RedisInv, Inv

(* Every step keeps the invariant.                                         *)
LEMMA NextOK ==
  ASSUME RedisInv, [Next]_vars
  PROVE  RedisInv'
<1>1. CASE UNCHANGED vars
  BY <1>1, Zenon DEF vars, RedisInv
<1>2. ASSUME NEW k \in Clients, Script(k) PROVE RedisInv'
  BY <1>2, ConnectReuseOK, ConnectNewOK, ConnectFailsOK, AddCmdOK, ExecOK, GcOK, ZenonT(60) DEF Script
<1>3. ASSUME NEW k \in Clients, SessionEnd(k) \/ LuaEnd(k) \/ Timeout(k) PROVE RedisInv'
  BY <1>3, SessionEndOK, CallbackEndOK, ResumeEndOK, ExpireEndOK, ExpireOK, ExpireSyncOK, ZenonT(60)
     DEF LuaEnd, Timeout
<1>4. ASSUME NEW c \in Ctxs, Callback(c) PROVE RedisInv'
  BY <1>4, SetupAnswerOK, QuitAnswerOK, CallbackLuaOK, CallbackFinishedOK, CallbackSyncOK,
     CallbackSyncFinishedOK, Zenon DEF Callback
<1>5. ASSUME NEW c \in Ctxs, Connected(c) \/ Disconnect(c) \/ PoolTimeout(c) PROVE RedisInv'
  BY <1>5, ConnectedOK, DisconnectOK, PoolTimeoutOK, Zenon
<1>6. CASE DrainEnd
  BY <1>6, DrainEndOK, Zenon
<1>7. CASE Undefined
  BY <1>7, Zenon DEF Undefined, RedisInv
<1> QED
  BY <1>1, <1>2, <1>3, <1>4, <1>5, <1>6, <1>7, ZenonT(60) DEF Next, Defined

(* RedisInv holds in every state of the requests and the pool.             *)
THEOREM RedisInvariant == Spec => []RedisInv
<1>1. Init => RedisInv
  BY InitOK, Zenon
<1>2. RedisInv /\ [Next]_vars => RedisInv'
  BY NextOK, Zenon
<1> QED
  BY <1>1, <1>2, PTL DEF Spec

(* The mark of undefined behaviour is a truth value.                       *)
LEMMA UndefinedType == Spec => [](undefined \in BOOLEAN)
<1>1. Init => undefined \in BOOLEAN
  BY Zenon DEF Init
<1>2. undefined \in BOOLEAN /\ [Next]_vars => (undefined \in BOOLEAN)'
  BY Zenon DEF Next, Undefined, vars
<1> QED
  BY <1>1, <1>2, PTL DEF Spec

(* Every connection has the owner its state says.                          *)
LEMMA Owned == RedisInv /\ undefined \in BOOLEAN => TypeOK /\ OneOwner
<1> SUFFICES ASSUME RedisInv, undefined \in BOOLEAN PROVE TypeOK /\ OneOwner
  BY Zenon
<1>1. TypeOK
  BY InvAt, Zenon DEF TypeOK, Types
<1>2. HeldByOne
  BY HeldConn, Zenon DEF HeldByOne
<1>3. IdleQuiet
  <2> SUFFICES ASSUME NEW c \in Ctxs, conn[c].state = "inactive"
               PROVE  /\ conn[c].mem = "live" /\ conn[c].connected /\ ~conn[c].freeing
                      /\ NoCallbacks(conn[c])
                      /\ \A k \in Clients : req[k].ctx # c
    BY Zenon DEF IdleQuiet
  <2>1. ConnOK(conn[c]) /\ NoCtx \notin Ctxs
    BY InvAt, Zenon
  <2>2. \A k \in Clients : req[k].ctx # c
    BY <2>1, HeldConn
  <2> QED
    BY <2>1, <2>2, Zenon DEF ConnOK, NoCallbacks
<1> QED
  BY <1>1, <1>2, <1>3, Zenon DEF OneOwner

(* Every timer of the pool finds its connection.                           *)
LEMMA Timed == RedisInv => PoolTimers
BY InvAt, Zenon DEF PoolTimers, TimerAndList, QuitOwned, ConnOK

(* Every command of a client is accounted for.                             *)
LEMMA Accounted == RedisInv => CommandsOwned
<1> SUFFICES ASSUME RedisInv PROVE CommandsOwned
  BY Zenon
<1>1. NoOrphanCallback
  <2> SUFFICES ASSUME NEW c \in Ctxs, NEW k \in Clients, conn[c].asked[k] > 0
               PROVE  /\ req[k].live
                      /\ req[k].ctx = c \/ (loop.ctx = c /\ req[k].ctx = NoCtx)
                      /\ req[k].pending = conn[c].asked[k] + Running(loop, k)
                      /\ \A l \in Clients \ {k} : conn[c].asked[l] = 0
    BY Zenon DEF NoOrphanCallback, Running
  <2>1. AskedOn(c, conn[c], req[k], k) /\ (conn[c].freeing => loop.ctx = c)
    BY Zenon DEF RedisInv, Inv, Askers, Marks
  <2>2. req[k].ctx = c \/ (loop.ctx = c /\ req[k].ctx = NoCtx)
    BY <2>1, Zenon DEF AskedOn
  <2>3. ToCome(conn, req[k], loop, k) = conn[c].asked[k]
    BY <2>2, InvAt, ZenonT(60) DEF ToCome
  <2>4. \A l \in Clients \ {k} : conn[c].asked[l] = 0
    <3>1. \A l \in Clients : conn[c].asked[l] \in Nat
      BY InvAt, Zenon DEF Conn
    <3> QED
      BY <3>1 DEF RedisInv, Inv, Askers
  <2>5. req[k].live
    <3>1. Inv(conn, req, loop)
      BY Zenon DEF RedisInv
    <3> QED
      BY <3>1, NotLive
  <2> QED
    BY <2>2, <2>3, <2>4, <2>5, PendingAt, ZenonT(60)
<1>2. DroppedUnused
  <2> SUFFICES ASSUME NEW c \in Ctxs, conn[c].mem = "dropped"
               PROVE  \E k \in Clients :
                        /\ req[k].ctx = c /\ req[k].pending = 0 /\ ~req[k].waits
                        /\ k \notin Sync => req[k].sent = 0
    BY Zenon DEF DroppedUnused
  <2>1. /\ conn[c].state = "active" /\ NoCallbacks(conn[c]) /\ NoCtx \notin Ctxs
    BY InvAt, Zenon DEF ConnOK
  <2>2. PICK k \in Clients : req[k].ctx = c
    BY <2>1, Zenon DEF RedisInv, Inv, Held
  <2>3. Running(loop, k) = 0
    BY <2>1, <2>2, InvAt, Zenon DEF Running, LoopAt
  <2>4. req[k].pending = 0
    BY <2>1, <2>2, <2>3, HeldConn, SMTT(30) DEF NoCallbacks
  <2>5. ReqOK(k, req[k], loop.kept = k)
    BY InvAt, Zenon
  <2>6. ~req[k].waits /\ (k \notin Sync => req[k].sent = 0)
    BY <2>1, <2>2, <2>4, <2>5, SMTT(30) DEF ReqOK
  <2> QED
    BY <2>2, <2>4, <2>6, Zenon
<1>3. CommandsCovered
  BY InvAt DEF CommandsCovered, ReqOK
<1> QED
  BY <1>1, <1>2, <1>3, Zenon DEF CommandsOwned

(* For any number of contexts, clients and commands, and in any order of   *)
(* answers, timeouts, disconnects and calls from Lua: a context that a     *)
(* client has is registered, allocated and with no other client, and one   *)
(* that waits for a client is connected, with no callback left.  Nothing   *)
(* is said of the time after a dropped context was used or reissued.       *)
THEOREM ConnectionsOwned == Spec => [](TypeOK /\ OneOwner)
BY RedisInvariant, UndefinedType, Owned, PTL

(* The timer of the pool runs for just the connections that wait or quit,  *)
(* each connection is in the list of its state, and QUIT was sent on none  *)
(* that has been destroyed.                                                *)
THEOREM TimersFindConnections == Spec => []PoolTimers
BY RedisInvariant, Timed, PTL

(* hiredis runs no callback of a request that is freed, the open commands  *)
(* of a request are those with a callback to come or a result for the      *)
(* thread, and hiredis drops a context only under a client that waits for  *)
(* nothing on it.  Nothing is said of the time after such a context was    *)
(* used or reissued.                                                       *)
THEOREM CommandsAccounted == Spec => []CommandsOwned
BY RedisInvariant, Accounted, PTL

(***************************************************************************)
(* The refinement: what a state of the requests shows of the lease.        *)
(***************************************************************************)

(* The client that has the context, if there is one.                       *)
HolderIn(rq, c) ==
  IF \E k \in Clients : rq[k].ctx = c
  THEN CHOOSE k \in Clients : rq[k].ctx = c
  ELSE Nobody

(* The commands its holder has on the context.                             *)
AskedIn(cn, rq, c) ==
  IF HolderIn(rq, c) = Nobody THEN 0 ELSE cn[c].asked[HolderIn(rq, c)]

(* The mapping of lent.                                                    *)
LentOf(rq) == [c \in Ctxs |-> HolderIn(rq, c)]

(* The mapping of idle.                                                    *)
IdleOf(cn) == {c \in Ctxs : cn[c].state = "inactive"}

(* The mapping of asked.                                                   *)
AskedOf(cn, rq) == [c \in Ctxs |-> AskedIn(cn, rq, c)]

(* The mapping of failed.                                                  *)
FailedOf(cn) == {c \in Ctxs : cn[c].err}

(* The holder of a context is the only one.                                *)
LEMMA HolderAt ==
  ASSUME NEW cn, NEW rq, Held(cn, rq), NEW c \in Ctxs, NoCtx \notin Ctxs
  PROVE  /\ \A k \in Clients : rq[k].ctx = c => HolderIn(rq, c) = k
         /\ cn[c].state # "active" => HolderIn(rq, c) = Nobody
         /\ (\A k \in Clients : rq[k].ctx # c) => HolderIn(rq, c) = Nobody
<1>1. ASSUME NEW k \in Clients, rq[k].ctx = c PROVE HolderIn(rq, c) = k
  <2>1. \A l \in Clients : rq[l].ctx = c => l = k
    BY <1>1 DEF Held
  <2> QED
    BY <1>1, <2>1 DEF HolderIn
<1>2. (\A k \in Clients : rq[k].ctx # c) => HolderIn(rq, c) = Nobody
  BY DEF HolderIn
<1>3. cn[c].state # "active" => \A k \in Clients : rq[k].ctx # c
  BY DEF Held
<1> QED
  BY <1>1, <1>2, <1>3, Zenon

(* The refinement mapping of LeaseSpec, in these terms.                    *)
Shown ==
  /\ [c \in Ctxs |-> Holder(c)] = LentOf(req)
  /\ [c \in Ctxs |-> IF Holder(c) = Nobody THEN 0 ELSE conn[c].asked[Holder(c)]]
       = AskedOf(conn, req)
  /\ Inactive = IdleOf(conn)
  /\ {c \in Ctxs : conn[c].err} = FailedOf(conn)

(* The mapped state.                                                       *)
LEMMA ShownNow == Shown
<1>1. \A c : Holder(c) = HolderIn(req, c)
  BY DEF Holder, HolderIn
<1> QED
  BY <1>1 DEF Shown, LentOf, AskedOf, AskedIn, Inactive, IdleOf, FailedOf

(* The mapped state after a step.                                          *)
LEMMA ShownNext == Shown'
BY ShownNow, PTL

(* What one context shows, before and after a step: its holder, how much   *)
(* is asked, whether it waits for a client and whether it failed.          *)
LeaseMove(h, a, i, f, g, b, j, e) ==
  \/ g = h /\ b = a /\ (j <=> i) /\ (e <=> f)
  \/ h \in Clients /\ ~f /\ g = h /\ b = a + 1 /\ (j <=> i) /\ ~e
  \/ h \in Clients /\ a > 0 /\ g = h /\ b = a - 1 /\ (j <=> i) /\ (e <=> f)
  \/ h \in Clients /\ a \in {0, 1} /\ ~f /\ g = Nobody /\ b = 0 /\ j /\ ~e
  \/ h \in Clients /\ g = Nobody /\ b = 0 /\ (j <=> i) /\ (f => e)
  \/ g = h /\ b = a /\ (j <=> i) /\ e
  \/ h = Nobody /\ g = Nobody /\ b = a /\ ~j /\ ~e
  \/ g = h /\ b = a /\ ~j /\ (e <=> f)

(* A step that moves one context is a step of the lease.                   *)
LEMMA LeaseAt ==
  ASSUME NEW c \in Ctxs,
         \A d \in Ctxs \ {c} :
           conn'[d] = conn[d] /\ HolderIn(req', d) = HolderIn(req, d),
         LeaseMove(HolderIn(req, c), AskedIn(conn, req, c),
                   conn[c].state = "inactive", conn[c].err,
                   HolderIn(req', c), AskedIn(conn', req', c),
                   conn'[c].state = "inactive", conn'[c].err)
  PROVE  [Lease!Next]_(Lease!lvars)
<1> DEFINE h == HolderIn(req, c)
           a == AskedIn(conn, req, c)
           i == conn[c].state = "inactive"
           f == conn[c].err
           g == HolderIn(req', c)
           b == AskedIn(conn', req', c)
           j == conn'[c].state = "inactive"
           e == conn'[c].err
<1>1. \A d \in Ctxs \ {c} : AskedIn(conn', req', d) = AskedIn(conn, req, d)
  BY DEF AskedIn
<1>2. LentOf(req)[c] = h /\ AskedOf(conn, req)[c] = a
  BY DEF LentOf, AskedOf
<1>3. LentOf(req') = [LentOf(req) EXCEPT ![c] = g]
  BY Zenon DEF LentOf
<1>4. AskedOf(conn', req') = [AskedOf(conn, req) EXCEPT ![c] = b]
  BY <1>1, Zenon DEF AskedOf
<1>5. IdleOf(conn') = IF j THEN IdleOf(conn) \cup {c} ELSE IdleOf(conn) \ {c}
  BY DEF IdleOf
<1>6. FailedOf(conn') = IF e THEN FailedOf(conn) \cup {c} ELSE FailedOf(conn) \ {c}
  BY Zenon DEF FailedOf
<1>7. (c \in IdleOf(conn) <=> i) /\ (c \in FailedOf(conn) <=> f)
  BY Zenon DEF IdleOf, FailedOf
<1>8. LentOf(req) = [LentOf(req) EXCEPT ![c] = h] /\ AskedOf(conn, req) = [AskedOf(conn, req) EXCEPT ![c] = a]
  BY Zenon DEF LentOf, AskedOf
<1>9. LeaseMove(h, a, i, f, g, b, j, e)
  OBVIOUS
<1> HIDE DEF h, a, i, f, g, b, j, e
<1>10. /\ g = h => LentOf(req') = LentOf(req)
       /\ b = a => AskedOf(conn', req') = AskedOf(conn, req)
       /\ (j <=> i) => IdleOf(conn') = IdleOf(conn)
       /\ (e <=> f) => FailedOf(conn') = FailedOf(conn)
  BY <1>3, <1>4, <1>5, <1>6, <1>7, <1>8, SMTT(30)
<1>11. CASE g = h /\ b = a /\ (j <=> i) /\ (e <=> f)
  <2>1. UNCHANGED Lease!lvars
    BY <1>10, <1>11, ShownNow, ShownNext, Zenon DEF Lease!lvars, Shown
  <2> QED
    BY <2>1, Zenon
<1>12. CASE h \in Clients /\ ~f /\ g = h /\ b = a + 1 /\ (j <=> i) /\ ~e
  <2>1. Lease!Ask(c)
    BY <1>2, <1>4, <1>7, <1>10, <1>12, ShownNow, ShownNext, Zenon DEF Lease!Ask, Shown
  <2> QED
    BY <2>1, Zenon DEF Lease!Next
<1>13. CASE h \in Clients /\ a > 0 /\ g = h /\ b = a - 1 /\ (j <=> i) /\ (e <=> f)
  <2>1. Lease!Answer(c)
    BY <1>2, <1>4, <1>10, <1>13, ShownNow, ShownNext, Zenon DEF Lease!Answer, Shown
  <2> QED
    BY <2>1, Zenon DEF Lease!Next
<1>14. CASE h \in Clients /\ a \in {0, 1} /\ ~f /\ g = Nobody /\ b = 0 /\ j /\ ~e
  <2>1. PICK n \in {0, 1} : a = n
    BY <1>14, Zenon
  <2>2. Lease!Return(c, n)
    BY <1>2, <1>3, <1>4, <1>5, <1>7, <1>10, <1>14, <2>1, ShownNow, ShownNext, ZenonT(60)
       DEF Lease!Return, Shown
  <2> QED
    BY <2>2, Zenon DEF Lease!Next
<1>15. CASE h \in Clients /\ g = Nobody /\ b = 0 /\ (j <=> i) /\ (f => e)
  <2>1. FailedOf(conn') \in {FailedOf(conn), FailedOf(conn) \cup {c}}
    BY <1>6, <1>7, <1>15, Zenon
  <2>2. Lease!Close(c)
    BY <1>2, <1>3, <1>4, <1>10, <1>15, <2>1, ShownNow, ShownNext, ZenonT(60) DEF Lease!Close, Shown
  <2> QED
    BY <2>2 DEF Lease!Next
<1>16. CASE g = h /\ b = a /\ (j <=> i) /\ e
  <2>1. Lease!Fail(c)
    BY <1>6, <1>10, <1>16, ShownNow, ShownNext, Zenon DEF Lease!Fail, Shown
  <2> QED
    BY <2>1 DEF Lease!Next
<1>17. CASE h = Nobody /\ g = Nobody /\ b = a /\ ~j /\ ~e
  <2>1. Lease!Forget(c)
    BY <1>2, <1>5, <1>6, <1>10, <1>17, ShownNow, ShownNext, ZenonT(60) DEF Lease!Forget, Shown
  <2> QED
    BY <2>1, Zenon DEF Lease!Next
<1>18. CASE g = h /\ b = a /\ ~j /\ (e <=> f)
  <2>1. Lease!CloseIdle
    BY <1>5, <1>10, <1>18, ShownNow, ShownNext, Zenon DEF Lease!CloseIdle, Shown
  <2> QED
    BY <2>1, Zenon DEF Lease!Next
<1> QED
  BY <1>9, <1>11, <1>12, <1>13, <1>14, <1>15, <1>16, <1>17, <1>18, ZenonT(60) DEF LeaseMove

(* Who has a context.                                                      *)
LEMMA HolderNow ==
  ASSUME RedisInv, NEW c \in Ctxs
  PROVE  /\ \A k \in Clients : req[k].ctx = c => HolderIn(req, c) = k
         /\ conn[c].state # "active" => HolderIn(req, c) = Nobody
         /\ (\A k \in Clients : req[k].ctx # c) => HolderIn(req, c) = Nobody
BY HolderAt, PoolAssumption, Zenon DEF RedisInv, Inv

(* Who has a context after a step.                                         *)
LEMMA HolderNext ==
  ASSUME RedisInv', NEW c \in Ctxs
  PROVE  /\ \A k \in Clients : req'[k].ctx = c => HolderIn(req', c) = k
         /\ conn'[c].state # "active" => HolderIn(req', c) = Nobody
         /\ (\A k \in Clients : req'[k].ctx # c) => HolderIn(req', c) = Nobody
<1>1. Held(conn', req')
  BY DEF RedisInv, Inv
<1> QED
  BY <1>1, HolderAt, PoolAssumption, Zenon

(* A context that keeps its client keeps its holder.                       *)
LEMMA SameHolder ==
  ASSUME RedisInv, RedisInv', NEW d \in Ctxs,
         \A l \in Clients : req'[l].ctx = d <=> req[l].ctx = d
  PROVE  HolderIn(req', d) = HolderIn(req, d)
BY HolderNow, HolderNext, Zenon

(* A step that moves no context is a stuttering step of the lease.         *)
LEMMA LeaseStutters ==
  ASSUME RedisInv, RedisInv', conn' = conn, \A l \in Clients : req'[l].ctx = req[l].ctx
  PROVE  [Lease!Next]_(Lease!lvars)
<1>1. \A d \in Ctxs : HolderIn(req', d) = HolderIn(req, d)
  BY SameHolder
<1>2. LentOf(req') = LentOf(req) /\ AskedOf(conn', req') = AskedOf(conn, req)
  BY <1>1, Zenon DEF LentOf, AskedOf, AskedIn
<1>3. UNCHANGED Lease!lvars
  BY <1>2, ShownNow, ShownNext, Zenon DEF Lease!lvars, Shown
<1> QED
  BY <1>3

(* The context c changes and no client gets or loses one.                  *)
LEMMA LeaseKeeps ==
  ASSUME RedisInv, RedisInv', NEW c \in Ctxs, \A d \in Ctxs \ {c} : conn'[d] = conn[d],
         \A l \in Clients : req'[l].ctx = req[l].ctx,
         \A l \in Clients : req[l].ctx = c => conn'[c].asked[l] = conn[c].asked[l],
         \/ /\ conn'[c].state = "inactive" <=> conn[c].state = "inactive"
            /\ conn'[c].err <=> conn[c].err
         \/ /\ conn'[c].state = "inactive" <=> conn[c].state = "inactive"
            /\ conn'[c].err
         \/ conn[c].state # "active" /\ conn'[c].state # "inactive" /\ ~conn'[c].err
         \/ conn'[c].state # "inactive" /\ (conn'[c].err <=> conn[c].err)
  PROVE  [Lease!Next]_(Lease!lvars)
<1>1. \A d \in Ctxs : HolderIn(req', d) = HolderIn(req, d)
  BY SameHolder, Zenon
<1>2. AskedIn(conn', req', c) = AskedIn(conn, req, c)
  BY <1>1, HolderNow DEF AskedIn
<1>3. conn[c].state # "active" => HolderIn(req, c) = Nobody
  BY HolderNow, Zenon
<1>4. LeaseMove(HolderIn(req, c), AskedIn(conn, req, c),
                conn[c].state = "inactive", conn[c].err,
                HolderIn(req', c), AskedIn(conn', req', c),
                conn'[c].state = "inactive", conn'[c].err)
  BY <1>1, <1>2, <1>3, Zenon DEF LeaseMove
<1> QED
  BY <1>1, <1>4, LeaseAt, Zenon

(* The context c of k changes.                                             *)
LEMMA LeaseMoves ==
  ASSUME RedisInv, RedisInv', NEW c \in Ctxs, NEW k \in Clients,
         \A d \in Ctxs \ {c} : conn'[d] = conn[d],
         \A l \in Clients \ {k} : req'[l].ctx = req[l].ctx, req[k].ctx = c,
         \/ /\ req'[k].ctx = c /\ (conn'[c].err <=> conn[c].err)
            /\ \/ conn'[c].asked[k] = conn[c].asked[k]
               \/ conn[c].asked[k] > 0 /\ conn'[c].asked[k] = conn[c].asked[k] - 1
               \/ ~conn[c].err /\ conn'[c].asked[k] = conn[c].asked[k] + 1
         \/ /\ req'[k].ctx = NoCtx
            /\ IF conn'[c].state = "inactive"
               THEN conn[c].asked[k] \in {0, 1} /\ ~conn[c].err /\ ~conn'[c].err
               ELSE conn[c].err => conn'[c].err
  PROVE  [Lease!Next]_(Lease!lvars)
<1> DEFINE h == HolderIn(req, c)
           a == AskedIn(conn, req, c)
           i == conn[c].state = "inactive"
           f == conn[c].err
           g == HolderIn(req', c)
           b == AskedIn(conn', req', c)
           j == conn'[c].state = "inactive"
           e == conn'[c].err
<1>1. /\ NoCtx \notin Ctxs /\ Nobody \notin Clients /\ conn[c].state = "active"
      /\ \A l \in Clients \ {k} : req[l].ctx # c
  BY HeldConn, PoolAssumption, Zenon
<1>2. \A d \in Ctxs \ {c} : HolderIn(req', d) = HolderIn(req, d)
  <2> SUFFICES ASSUME NEW d \in Ctxs \ {c}
               PROVE  \A l \in Clients : req'[l].ctx = d <=> req[l].ctx = d
    BY SameHolder, Zenon
  <2> QED
    BY <1>1, Zenon
<1>3. h = k /\ a = conn[c].asked[k] /\ ~i
  BY <1>1, HolderNow, Zenon DEF AskedIn
<1>4. CASE req'[k].ctx = c
  <2>1. g = k
    BY <1>4, HolderNext, Zenon
  <2>2. b = conn'[c].asked[k]
    BY <1>1, <2>1, ZenonT(60) DEF AskedIn
  <2>3. conn'[c].state = "active"
    BY <1>1, <1>4, SMTT(30) DEF RedisInv, Inv, Held
  <2> QED
    <3>1. /\ g = h /\ h \in Clients /\ ~j /\ ~i /\ (e <=> f)
          /\ b = a \/ (a > 0 /\ b = a - 1) \/ (~f /\ b = a + 1)
      BY <1>1, <1>3, <1>4, <2>1, <2>2, <2>3, Zenon
    <3> HIDE DEF h, a, i, f, g, b, j, e
    <3>2. LeaseMove(h, a, i, f, g, b, j, e)
      BY <3>1, Zenon DEF LeaseMove
    <3> QED
      BY <1>2, <3>2, LeaseAt, Zenon DEF h, a, i, f, g, b, j, e
<1>5. CASE req'[k].ctx = NoCtx
  <2>1. \A l \in Clients : req'[l].ctx # c
    BY <1>1, <1>5, Zenon
  <2>2. g = Nobody /\ b = 0
    BY <2>1, HolderNext, Zenon DEF AskedIn
  <2>3. /\ h \in Clients /\ g = Nobody /\ b = 0 /\ ~i
        /\ j => a \in {0, 1} /\ ~f /\ ~e
        /\ ~j => (f => e)
    BY <1>1, <1>3, <1>5, <2>2, Zenon
  <2> HIDE DEF h, a, i, f, g, b, j, e
  <2>4. LeaseMove(h, a, i, f, g, b, j, e)
    BY <2>3, Zenon DEF LeaseMove
  <2> QED
    BY <1>2, <2>4, LeaseAt DEF h, a, i, f, g, b, j, e
<1> QED
  BY <1>4, <1>5, Zenon

(* An answer to what the pool itself sent, and the end of the connecting.  *)
LEMMA PoolAnswerLease ==
  ASSUME RedisInv, RedisInv', NEW c \in Ctxs,
         SetupAnswer(c) \/ QuitAnswer(c) \/ Connected(c)
  PROVE  [Lease!Next]_(Lease!lvars)
<1>1. conn \in [Ctxs -> Conn] /\ conn[c] \in Conn
  BY InvAt DEF Types
<1>2. UNCHANGED req /\ \A d \in Ctxs \ {c} : conn'[d] = conn[d]
  BY <1>1, Zenon DEF SetupAnswer, QuitAnswer, Connected
<1>3. /\ conn'[c].asked = conn[c].asked /\ conn'[c].state = conn[c].state
      /\ conn'[c].err = conn[c].err
  BY <1>1 DEF SetupAnswer, QuitAnswer, Connected, Conn
<1> QED
  BY <1>2, <1>3, LeaseKeeps, Zenon

(* A peer closes the connection.                                           *)
LEMMA DisconnectLease ==
  ASSUME RedisInv, RedisInv', NEW c \in Ctxs, Disconnect(c)
  PROVE  [Lease!Next]_(Lease!lvars)
<1>1. conn \in [Ctxs -> Conn] /\ conn[c] \in Conn
  BY InvAt DEF Types
<1>2. UNCHANGED req /\ \A d \in Ctxs \ {c} : conn'[d] = conn[d]
  BY <1>1 DEF Disconnect
<1>3. /\ conn'[c].asked = conn[c].asked /\ conn'[c].state = conn[c].state
      /\ conn'[c].err
  BY <1>1, Zenon DEF Disconnect, Conn
<1> QED
  BY <1>2, <1>3, LeaseKeeps, Zenon

(* redis_conn_timeout_cb.                                                  *)
LEMMA PoolTimeoutLease ==
  ASSUME RedisInv, RedisInv', NEW c \in Ctxs, PoolTimeout(c)
  PROVE  [Lease!Next]_(Lease!lvars)
<1> DEFINE x == conn[c]
<1>1. conn \in [Ctxs -> Conn] /\ x \in Conn /\ ConnOK(x) /\ x.timer
  BY InvAt, Zenon DEF Types, PoolTimeout
<1>2. /\ UNCHANGED req /\ \A d \in Ctxs \ {c} : conn'[d] = conn[d]
      /\ conn'[c] = TimeoutCb(x)
  BY <1>1, Zenon DEF PoolTimeout
<1>3. x.state \in {"inactive", "finalising"} /\ ~x.freeing
  BY <1>1, Zenon DEF ConnOK
<1>4. CASE x.state = "inactive"
  <2>1. /\ conn'[c].asked = x.asked /\ conn'[c].state = "finalising"
        /\ conn'[c].err = x.err
    BY <1>1, <1>2, <1>4, ZenonT(60) DEF TimeoutCb, Conn
  <2> QED
    BY <1>2, <2>1, LeaseKeeps, Zenon
<1>5. CASE x.state # "inactive"
  <2>1. conn'[c] = NoConn
    BY <1>1, <1>2, <1>3, <1>5, EraseOutside, Zenon DEF TimeoutCb
  <2>2. conn'[c].state # "inactive" /\ ~conn'[c].err /\ x.state # "active"
    BY <1>3, <2>1, SMTT(30) DEF NoConn
  <2>3. \A l \in Clients : req[l].ctx # c
    BY <2>2, HeldConn, InvAt
  <2> QED
    BY <1>2, <2>2, <2>3, LeaseKeeps, Zenon
<1> QED
  BY <1>4, <1>5, Zenon

(* The last reply of a context is drained.                                 *)
LEMMA DrainEndLease ==
  ASSUME RedisInv, RedisInv', DrainEnd
  PROVE  [Lease!Next]_(Lease!lvars)
<1> DEFINE c == loop.ctx
           k == loop.kept
           x == conn[c]
           y == OnDisconnect(x)
<1>1. /\ loop.at = "drain" /\ NoCallbacks(x) /\ conn' = [conn EXCEPT ![c] = y]
      /\ req' = IF k # Nobody /\ ~req[k].held /\ req[k].open = 0
                THEN [req EXCEPT ![k] = NoRequest] ELSE req
  BY Zenon DEF DrainEnd
<1>2. /\ c \in Ctxs /\ x \in Conn /\ ConnOK(x) /\ x.mem = "live"
      /\ conn \in [Ctxs -> Conn] /\ req \in [Clients -> Request]
  BY <1>1, InvAt, Zenon DEF LoopAt, Types
<1>3. \A l \in Clients : req'[l].ctx = req[l].ctx
  <2>1. \A l \in Clients : loop.kept = l => req[l].ctx = NoCtx
    BY HeldConn, Zenon
  <2> QED
    BY <1>1, <1>2, <2>1, NoRequestOK, Zenon
<1>4. /\ y \in Conn /\ ConnOK(y) /\ y.state \in {"none", "active"}
      /\ (y.state = "active" <=> x.state = "active")
      /\ (y.err => y.mem = "dropped") /\ \A l \in Clients : y.asked[l] = 0
  BY <1>2, OnDisconnectOK, Zenon
<1>5. /\ \A d \in Ctxs \ {c} : conn'[d] = conn[d]
      /\ conn'[c] = y
  BY <1>1, <1>2, Zenon
<1>6. x.state = "active" => (y.err <=> x.err)
  BY <1>2, Zenon DEF OnDisconnect, NoConn
<1> HIDE DEF y, c
<1>7. \A l \in Clients : conn'[c].asked[l] = conn[c].asked[l]
  BY <1>1, <1>4, <1>5, Zenon DEF NoCallbacks
<1>8. x.state # "active" => ~y.err
  BY <1>4, Zenon DEF ConnOK
<1> QED
  BY <1>2, <1>3, <1>4, <1>5, <1>6, <1>7, <1>8, LeaseKeeps, ZenonT(60)

(* Closing the connections broken, which wait for a client.                *)
LEMMA BrokenClosed ==
  ASSUME RedisInv, ScriptRuns, NEW broken \in SUBSET Inactive
  PROVE  \A d \in Ctxs :
           /\ d \notin broken => Without(broken)[d] = conn[d]
           /\ d \in broken =>
                /\ conn[d].state = "inactive" /\ ~conn[d].err
                /\ Without(broken)[d].state = "none" /\ ~Without(broken)[d].err
<1> SUFFICES ASSUME NEW d \in Ctxs
             PROVE  /\ d \notin broken => Without(broken)[d] = conn[d]
                    /\ d \in broken =>
                         /\ conn[d].state = "inactive" /\ ~conn[d].err
                         /\ Without(broken)[d].state = "none" /\ ~Without(broken)[d].err
  OBVIOUS
<1>1. Without(broken)[d] = IF d \in broken THEN NoConn ELSE conn[d]
  BY WithoutOK
<1>2. d \in broken => conn[d].state = "inactive"
  BY Zenon DEF Inactive
<1>3. d \in broken => ~conn[d].err
  BY <1>2, NotInLoop, InvAt, Zenon DEF RedisInv, Inv, Marks, ConnOK
<1> QED
  BY <1>1, <1>2, <1>3, SMTT(30) DEF NoConn

(* rspamd_redis_pool_connect fails.                                        *)
LEMMA ConnectFailsLease ==
  ASSUME RedisInv, RedisInv', NEW k \in Clients, ConnectFails(k)
  PROVE  [Lease!Next]_(Lease!lvars)
<1>1. ScriptRuns /\ conn' = Without(Inactive) /\ req' = req
  BY Zenon DEF ConnectFails
<1>2. \A d \in Ctxs :
        /\ d \notin Inactive => conn'[d] = conn[d]
        /\ d \in Inactive =>
             /\ conn[d].state = "inactive" /\ ~conn[d].err
             /\ conn'[d].state = "none" /\ ~conn'[d].err
  BY <1>1, BrokenClosed, Zenon
<1>3. \A d \in Ctxs : HolderIn(req', d) = HolderIn(req, d)
  BY <1>1, Zenon
<1>4. \A d \in Ctxs : AskedIn(conn', req', d) = AskedIn(conn, req, d)
  BY <1>2, <1>3, HolderNow, Zenon DEF AskedIn
<1>5. LentOf(req') = LentOf(req) /\ AskedOf(conn', req') = AskedOf(conn, req)
  BY <1>3, <1>4, Zenon DEF LentOf, AskedOf
<1>6. IdleOf(conn') \in SUBSET IdleOf(conn) /\ FailedOf(conn') = FailedOf(conn)
  BY <1>2, Zenon DEF IdleOf, FailedOf
<1>7. Lease!CloseIdle
  BY <1>5, <1>6, ShownNow, ShownNext, Zenon DEF Lease!CloseIdle, Shown
<1> QED
  BY <1>7 DEF Lease!Next

(* A context is lent.                                                      *)
LEMMA LendLease ==
  ASSUME RedisInv, RedisInv', ScriptRuns, NEW broken \in SUBSET Inactive,
         NEW c \in Ctxs, NEW k \in Clients, ~req[k].live, NEW y, NEW s,
         conn' = [Without(broken) EXCEPT ![c] = y], req' = [req EXCEPT ![k] = s],
         conn[c].state # "active", ~conn[c].err, y.state = "active", ~y.err,
         \A l \in Clients : y.asked[l] = 0, s.ctx = c
  PROVE  [Lease!Next]_(Lease!lvars)
<1>1. /\ conn'[c] = y /\ req'[k].ctx = c
      /\ \A d \in Ctxs \ {c} : conn'[d] = Without(broken)[d]
      /\ \A l \in Clients \ {k} : req'[l] = req[l]
      /\ NoCtx \notin Ctxs /\ Nobody \notin Clients
  BY InvAt, Zenon DEF Types, Without
<1>2. req[k].ctx = NoCtx
  <2>1. req[k] = NoRequest
    BY NotLive DEF RedisInv
  <2> QED
    BY <2>1, NoRequestOK
<1>3. \A d \in Ctxs \ {c} :
        /\ d \notin broken => conn'[d] = conn[d]
        /\ d \in broken =>
             /\ conn[d].state = "inactive" /\ ~conn[d].err
             /\ conn'[d].state = "none" /\ ~conn'[d].err
  BY <1>1, BrokenClosed
<1>4. HolderIn(req, c) = Nobody /\ HolderIn(req', c) = k
  BY <1>1, HolderNow, HolderNext, Zenon
<1>5. \A d \in Ctxs \ {c} : HolderIn(req', d) = HolderIn(req, d)
  <2> SUFFICES ASSUME NEW d \in Ctxs \ {c}
               PROVE  \A l \in Clients : req'[l].ctx = d <=> req[l].ctx = d
    BY SameHolder, Zenon
  <2> QED
    BY <1>1, <1>2
<1>6. \A d \in Ctxs \ {c} : AskedIn(conn', req', d) = AskedIn(conn, req, d)
  <2> SUFFICES ASSUME NEW d \in Ctxs \ {c}
               PROVE  AskedIn(conn', req', d) = AskedIn(conn, req, d)
    BY Zenon
  <2>1. CASE d \in broken
    <3>1. HolderIn(req, d) = Nobody /\ HolderIn(req', d) = Nobody
      BY <1>3, <1>5, <2>1, HolderNow, ZenonT(60)
    <3> QED
      BY <3>1 DEF AskedIn
  <2>2. CASE d \notin broken
    <3>1. conn'[d] = conn[d] /\ HolderIn(req', d) = HolderIn(req, d)
      BY <1>3, <1>5, <2>2, Zenon
    <3> QED
      BY <3>1 DEF AskedIn
  <2> QED
    BY <2>1, <2>2
<1>7. AskedIn(conn', req', c) = 0 /\ AskedIn(conn, req, c) = 0
  BY <1>1, <1>4 DEF AskedIn
<1>8. LentOf(req)[c] = Nobody /\ LentOf(req') = [LentOf(req) EXCEPT ![c] = k]
  BY <1>4, <1>5, Zenon DEF LentOf
<1>9. AskedOf(conn', req') = AskedOf(conn, req)
  BY <1>6, <1>7, Zenon DEF AskedOf
<1>10. /\ IdleOf(conn') \in SUBSET (IdleOf(conn) \ {c})
       /\ FailedOf(conn') = FailedOf(conn) /\ c \notin FailedOf(conn)
  BY <1>1, <1>3 DEF IdleOf, FailedOf
<1>11. Lease!Lend(c, k)
  BY <1>8, <1>9, <1>10, ShownNow, ShownNext, Zenon DEF Lease!Lend, Shown
<1> QED
  BY <1>11, Zenon DEF Lease!Next

(* rspamd_redis_pool_connect with a parked connection.                     *)
LEMMA ConnectReuseLease ==
  ASSUME RedisInv, RedisInv', NEW k \in Clients, NEW how \in Pooling[k], NEW c \in Ctxs,
         NEW broken \in SUBSET Inactive, ConnectReuse(k, how, broken, c)
  PROVE  [Lease!Next]_(Lease!lvars)
<1> DEFINE y == Reuse(conn[c])
<1>1. /\ ScriptRuns /\ ~req[k].live /\ c \in Inactive
      /\ conn' = [Without(broken) EXCEPT ![c] = y]
      /\ req' = [req EXCEPT ![k] = Opened(how, c)]
  BY DEF ConnectReuse
<1>2. conn[c] \in Conn /\ ConnOK(conn[c]) /\ conn[c].state = "inactive"
  BY <1>1, InvAt, Zenon DEF Inactive
<1>3. ~conn[c].err
  BY <1>1, <1>2, NotInLoop, Zenon DEF RedisInv, Inv, Marks, ConnOK
<1>4. y.state = "active" /\ ~y.err /\ \A l \in Clients : y.asked[l] = 0
  BY <1>2, <1>3, ReuseOK, Zenon
<1>5. Opened(how, c).ctx = c
  BY RequestAssumption, OpenedOK, Zenon
<1> HIDE DEF y
<1> QED
  BY <1>1, <1>2, <1>3, <1>4, <1>5, LendLease, ZenonT(60)

(* rspamd_redis_pool_connect with a new connection.                        *)
LEMMA ConnectNewLease ==
  ASSUME RedisInv, RedisInv', NEW k \in Clients, NEW how \in Pooling[k], NEW c \in Ctxs,
         NEW n \in Setups, ConnectNew(k, how, c, n)
  PROVE  [Lease!Next]_(Lease!lvars)
<1> DEFINE y == NewConn(n)
<1>1. /\ ScriptRuns /\ ~req[k].live /\ conn[c].mem = "free"
      /\ conn' = [Without(Inactive) EXCEPT ![c] = y]
      /\ req' = [req EXCEPT ![k] = Opened(how, c)]
  BY Zenon DEF ConnectNew
<1>2. conn[c].state # "active" /\ ~conn[c].err
  BY <1>1, InvAt, Zenon DEF ConnOK
<1>3. y.state = "active" /\ ~y.err /\ \A l \in Clients : y.asked[l] = 0
  BY NewConnOK, RequestAssumption, Zenon
<1>4. Opened(how, c).ctx = c
  BY RequestAssumption, OpenedOK, Zenon
<1> HIDE DEF y
<1> QED
  BY <1>1, <1>2, <1>3, <1>4, LendLease, Zenon

(* lua_redis_add_cmd.                                                      *)
LEMMA AddCmdLease ==
  ASSUME RedisInv, RedisInv', NEW k \in Clients, AddCmd(k)
  PROVE  [Lease!Next]_(Lease!lvars)
<1> DEFINE r == req[k]
           c == r.ctx
<1>1. /\ conn \in [Ctxs -> Conn] /\ req \in [Clients -> Request]
      /\ c \in Ctxs /\ conn[c] \in Conn /\ r \in Request
  BY InvAt, HeldConn, Zenon DEF AddCmd, Types
<1>2. CASE Refused(r) /\ req' = [req EXCEPT ![k].bad = TRUE] /\ UNCHANGED conn
  <2>1. \A l \in Clients : req'[l].ctx = req[l].ctx
    BY <1>1, <1>2, Zenon DEF Request
  <2> QED
    BY <1>2, <2>1, LeaseStutters, Zenon
<1>3. CASE /\ ~Refused(r) /\ conn' = [conn EXCEPT ![c].asked[k] = @ + 1]
           /\ req' = [req EXCEPT ![k].open = @ + 1, ![k].pending = @ + 1,
                                 ![k].sent = @ + 1]
  <2>1. \A l \in Clients : req'[l].ctx = req[l].ctx
    BY <1>1, <1>3, Zenon DEF Request
  <2>2. /\ \A d \in Ctxs \ {c} : conn'[d] = conn[d]
        /\ conn'[c] = [conn[c] EXCEPT !.asked[k] = @ + 1]
    BY <1>1, <1>3, Zenon
  <2>3. conn'[c].err = conn[c].err /\ conn'[c].asked[k] = conn[c].asked[k] + 1
    BY <1>1, <2>2, Zenon DEF Conn
  <2>4. ~conn[c].err
    BY <1>3, Zenon DEF Refused
  <2> QED
    BY <1>1, <2>1, <2>2, <2>3, <2>4, LeaseMoves, ZenonT(60)
<1> QED
  BY <1>2, <1>3, Zenon DEF AddCmd

(* lua_redis_exec.                                                         *)
LEMMA ExecLease ==
  ASSUME RedisInv, RedisInv', NEW k \in Clients, Exec(k) \/ Expire(k)
  PROVE  [Lease!Next]_(Lease!lvars)
<1>1. req \in [Clients -> Request] /\ conn' = conn
  BY InvAt, Zenon DEF Types, Exec, Expire
<1>2. \A l \in Clients : req'[l].ctx = req[l].ctx
  BY <1>1 DEF Exec, Expire, Request
<1> QED
  BY <1>1, <1>2, LeaseStutters, Zenon

(* The request is freed outside of the callbacks of its context.           *)
LEMMA FreedLease ==
  ASSUME RedisInv, RedisInv', ScriptRuns, NEW k \in Clients, NEW how, ~Stale(req[k]),
         loop.at # "idle" => req[k].open = 0,
         req' = [req EXCEPT ![k] = NoRequest],
         conn' = IF req[k].ctx = NoCtx THEN conn
                 ELSE [conn EXCEPT ![req[k].ctx] = ReleaseConnection(@, how, FALSE)]
  PROVE  [Lease!Next]_(Lease!lvars)
<1> DEFINE c == req[k].ctx
           x == conn[c]
           y == ReleaseConnection(x, how, FALSE)
<1>1. /\ conn \in [Ctxs -> Conn] /\ req \in [Clients -> Request]
      /\ req'[k].ctx = NoCtx /\ \A l \in Clients \ {k} : req'[l].ctx = req[l].ctx
  BY InvAt, NoRequestOK, Zenon DEF Types
<1>2. CASE c = NoCtx
  BY <1>1, <1>2, LeaseStutters, Zenon
<1>3. CASE c # NoCtx
  <2>1. /\ c \in Ctxs /\ x \in Conn /\ ConnOK(x) /\ x.state = "active" /\ ~x.freeing
        /\ x.mem = "live"
    BY <1>3, HeldConn, Zenon DEF Stale, Conn
  <2>2. conn'[c] = y /\ \A d \in Ctxs \ {c} : conn'[d] = conn[d]
    BY <1>1, <1>3, <2>1, Zenon
  <2>3. ~x.err
    <3>1. loop.at \in {"idle", "lua", "expire"} /\ LoopAt(conn, req, loop)
      BY InvAt, Zenon DEF ScriptRuns
    <3>2. loop.at # "lua" => loop.ctx # c
      BY <2>1, <3>1, InvAt, IdleLoop, ZenonT(60) DEF LoopAt
    <3>3. loop.at = "lua" => loop.ctx # c
      BY <1>3, <3>1, HeldConn, SMTT(30) DEF LoopAt
    <3> QED
      BY <2>1, <3>2, <3>3, Zenon DEF RedisInv, Inv, Marks
  <2>4. ~y.err
    BY <2>1, ReleaseOutside, Zenon
  <2>5. y.state = "inactive" => x.asked[k] = 0
    <3>1. NoCallbacks(x) \/ y = Erase(x, FALSE)
      BY Zenon DEF ReleaseConnection
    <3>2. Erase(x, FALSE) = NoConn
      BY <2>1, EraseOutside, Zenon
    <3>3. NoConn.state # "inactive"
      BY DEF NoConn
    <3> QED
      BY <3>1, <3>2, <3>3, Zenon DEF NoCallbacks
  <2> HIDE DEF y
  <2> QED
    BY <1>1, <2>1, <2>2, <2>3, <2>4, <2>5, LeaseMoves, ZenonT(60)
<1> QED
  BY <1>2, <1>3, Zenon

(* lua_redis_gc.                                                           *)
LEMMA GcLease ==
  ASSUME RedisInv, RedisInv', NEW k \in Clients, Gc(k)
  PROVE  [Lease!Next]_(Lease!lvars)
<1> DEFINE r == req[k]
           s == [r EXCEPT !.held = FALSE]
<1>1. /\ ScriptRuns /\ Dropped(k, s, FALSE) /\ r \in Request
      /\ req \in [Clients -> Request]
  BY InvAt, Zenon DEF Gc, Types
<1>2. s.ctx = r.ctx /\ s.open = r.open
  BY <1>1 DEF Request
<1> HIDE DEF s
<1>3. CASE Unused(k, s)
  <2>1. /\ req' = [req EXCEPT ![k] = NoRequest] /\ ~Stale(r)
        /\ conn' = IF r.ctx = NoCtx THEN conn
                   ELSE [conn EXCEPT ![r.ctx] = ReleaseConnection(@, HowDone(s), FALSE)]
    BY <1>1, <1>2, <1>3, Zenon DEF Dropped, Stale
  <2>2. r.open = 0
    BY <1>2, <1>3, Zenon DEF Unused
  <2> QED
    BY <1>1, <2>1, <2>2, FreedLease, ZenonT(60)
<1>4. CASE ~Unused(k, s)
  <2>1. req' = [req EXCEPT ![k] = s] /\ UNCHANGED conn
    BY <1>1, <1>4, Zenon DEF Dropped
  <2>2. \A l \in Clients : req'[l].ctx = req[l].ctx
    BY <1>1, <1>2, <2>1, Zenon
  <2> QED
    BY <2>1, <2>2, LeaseStutters, Zenon
<1> QED
  BY <1>3, <1>4, Zenon

(* The session of the task ends.                                           *)
LEMMA SessionEndLease ==
  ASSUME RedisInv, RedisInv', NEW k \in Clients, SessionEnd(k)
  PROVE  [Lease!Next]_(Lease!lvars)
<1> DEFINE r == req[k]
           s == [r EXCEPT !.ended = TRUE, !.open = 0, !.ans = 0, !.clean = 0]
<1>1. /\ ScriptRuns /\ loop.at = "idle" /\ Dropped(k, s, FALSE) /\ r \in Request
      /\ req \in [Clients -> Request]
  BY InvAt, Zenon DEF SessionEnd, Types, ScriptRuns
<1>2. s.ctx = r.ctx
  BY <1>1 DEF Request
<1> HIDE DEF s
<1>3. CASE Unused(k, s)
  <2>1. /\ req' = [req EXCEPT ![k] = NoRequest] /\ ~Stale(r)
        /\ conn' = IF r.ctx = NoCtx THEN conn
                   ELSE [conn EXCEPT ![r.ctx] = ReleaseConnection(@, HowDone(s), FALSE)]
    BY <1>1, <1>2, <1>3, Zenon DEF Dropped, Stale
  <2> QED
    BY <1>1, <2>1, FreedLease, Zenon
<1>4. CASE ~Unused(k, s)
  <2>1. req' = [req EXCEPT ![k] = s] /\ UNCHANGED conn
    BY <1>1, <1>4, Zenon DEF Dropped
  <2>2. \A l \in Clients : req'[l].ctx = req[l].ctx
    BY <1>1, <1>2, <2>1, Zenon
  <2> QED
    BY <2>1, <2>2, LeaseStutters, SMTT(30)
<1> QED
  BY <1>3, <1>4

(* A context is given up with its commands.                                *)
LEMMA AbandonLease ==
  ASSUME RedisInv, RedisInv', NEW k \in Clients, NEW r \in Request, r.ctx = req[k].ctx,
         r.ctx # NoCtx, conn[r.ctx].mem # "dropped", NEW kept, Abandon(k, r, kept)
  PROVE  [Lease!Next]_(Lease!lvars)
<1> DEFINE c == r.ctx
           x == conn[c]
           y == ReleaseConnection([x EXCEPT !.err = TRUE], "fatal", TRUE)
           s == [r EXCEPT !.ctx = NoCtx]
<1>1. /\ conn \in [Ctxs -> Conn] /\ req \in [Clients -> Request]
      /\ conn' = [conn EXCEPT ![c] = y] /\ req' = [req EXCEPT ![k] = s]
  BY InvAt, ZenonT(60) DEF Types, Abandon
<1>2. /\ c \in Ctxs /\ x \in Conn /\ ConnOK(x) /\ x.state = "active" /\ x.mem = "live"
  BY HeldConn, SMTT(30) DEF Conn
<1>3. y.state = "none" /\ y.err
  BY <1>2, FailedOK, Zenon
<1>4. s.ctx = NoCtx
  BY Zenon DEF Request
<1> HIDE DEF y, s
<1>5. /\ conn'[c] = y /\ \A d \in Ctxs \ {c} : conn'[d] = conn[d]
      /\ req'[k].ctx = NoCtx /\ \A l \in Clients \ {k} : req'[l].ctx = req[l].ctx
  BY <1>1, <1>2, <1>4, Zenon
<1> QED
  BY <1>2, <1>3, <1>5, LeaseMoves, Zenon

(* lua_redis_timeout of an asynchronous request.                           *)
LEMMA ExpireEndLease ==
  ASSUME RedisInv, RedisInv', NEW k \in Clients, ExpireEnd(k)
  PROVE  [Lease!Next]_(Lease!lvars)
<1> DEFINE q == req[k]
           r == [q EXCEPT !.open = @ - 1]
<1>1. /\ loop.at = "expire" /\ loop.who = k /\ Abandon(k, r, k)
      /\ q \in Request /\ ReqOK(k, q, loop.kept = k)
  BY InvAt, Zenon DEF ExpireEnd
<1>2. q.open > 0 /\ q.ctx # NoCtx /\ k \notin Sync
  BY <1>1, InvAt, Zenon DEF LoopAt
<1>3. r \in Request /\ r.ctx = q.ctx
  <2>1. q.open - 1 \in Nat
    BY <1>1, <1>2 DEF Request
  <2>2. ASSUME NEW i \in Nat
        PROVE  [q EXCEPT !.open = i] \in Request /\ [q EXCEPT !.open = i].ctx = q.ctx
    BY <1>1, Zenon DEF Request
  <2> QED
    BY <2>1, <2>2, Zenon
<1>4. q.pending > 0
  BY <1>1, <1>2 DEF ReqOK, Request
<1>5. conn[q.ctx].mem # "dropped"
  BY <1>1, <1>2, <1>4, AwaitedLive, Zenon
<1> HIDE DEF r
<1> QED
  BY <1>1, <1>2, <1>3, <1>5, AbandonLease, Zenon

(* lua_redis_timeout_sync.                                                 *)
LEMMA ExpireSyncLease ==
  ASSUME RedisInv, RedisInv', NEW k \in Clients, ExpireSync(k)
  PROVE  [Lease!Next]_(Lease!lvars)
<1> DEFINE r == req[k]
<1>1. /\ loop.at = "idle" /\ r.pending > 0 /\ Abandon(k, r, Nobody) /\ r \in Request
  BY InvAt, Zenon DEF ExpireSync, Unanswered
<1>2. r.ctx # NoCtx
  <2>1. loop.ctx = NoCtx /\ Running(loop, k) = 0
    BY <1>1, IsIdle, Zenon
  <2> QED
    BY <1>1, <2>1, PendingAt DEF ToCome
<1>3. conn[r.ctx].mem # "dropped"
  BY <1>1, <1>2, AwaitedLive, Zenon
<1> QED
  BY <1>1, <1>2, <1>3, AbandonLease, Zenon

(* After a callback of k, on the context c that k had or has given up.     *)
LEMMA CallbackLease ==
  ASSUME RedisInv, RedisInv', NEW c \in Ctxs, NEW k \in Clients, NEW y, NEW t,
         conn' = [conn EXCEPT ![c] = y], req' = [req EXCEPT ![k] = t],
         y.err <=> conn[c].err, t.ctx \in {NoCtx, req[k].ctx},
         req[k].ctx \in {NoCtx, c}, req[k].ctx = NoCtx => conn[c].state = "none",
         req[k].ctx = NoCtx => y.state = "none",
         t.ctx = c => \/ y.asked[k] = conn[c].asked[k]
                      \/ conn[c].asked[k] > 0 /\ y.asked[k] = conn[c].asked[k] - 1,
         t.ctx = NoCtx /\ y.state = "inactive" => conn[c].asked[k] \in {0, 1} /\ ~y.err
  PROVE  [Lease!Next]_(Lease!lvars)
<1>1. /\ conn \in [Ctxs -> Conn] /\ req \in [Clients -> Request] /\ NoCtx \notin Ctxs
  BY InvAt, Zenon DEF Types
<1>2. /\ conn'[c] = y /\ \A d \in Ctxs \ {c} : conn'[d] = conn[d]
      /\ req'[k] = t /\ \A l \in Clients \ {k} : req'[l] = req[l]
  BY <1>1, Zenon
<1>3. CASE req[k].ctx = c
  BY <1>1, <1>2, <1>3, LeaseMoves, SMTT(30)
<1>4. CASE req[k].ctx = NoCtx
  <2>1. \A l \in Clients : req[l].ctx # c
    BY <1>1, <1>4, HeldConn, SMTT(30)
  <2>2. \A l \in Clients : req'[l].ctx = req[l].ctx
    BY <1>2, <1>4
  <2> QED
    BY <1>2, <1>4, <2>1, <2>2, LeaseKeeps, ZenonT(60)
<1> QED
  BY <1>3, <1>4, Zenon

(* lua_redis_callback runs the user's callback.                            *)
LEMMA CallbackLuaLease ==
  ASSUME RedisInv, RedisInv', NEW c \in Ctxs, NEW k \in Clients, CallbackLua(c, k)
  PROVE  [Lease!Next]_(Lease!lvars)
<1> DEFINE x == conn[c]
           r == req[k]
           y == Shifted(c, k)
<1>1. ServesClient(c, k) /\ conn' = [conn EXCEPT ![c] = y] /\ req' = req
  BY ZenonT(60) DEF CallbackLua
<1>2. /\ x.asked[k] > 0 /\ r.ctx \in {NoCtx, c} /\ (r.ctx = NoCtx => x.freeing)
      /\ (y.err <=> x.err) /\ y.state = x.state /\ y.asked[k] = x.asked[k] - 1
  BY <1>1, ServedAt, SMTT(30)
<1>3. /\ NoCtx \notin Ctxs /\ req \in [Clients -> Request]
      /\ x.freeing => x.state = "none"
  BY InvAt, Zenon DEF ConnOK, Types
<1>4. req' = [req EXCEPT ![k] = r]
  BY <1>1, <1>3, Zenon
<1>5. r.ctx = NoCtx => x.state = "none" /\ y.state = "none"
  BY <1>2, <1>3, Zenon
<1> HIDE DEF y
<1>6. /\ y.err <=> conn[c].err
      /\ r.ctx \in {NoCtx, req[k].ctx} /\ req[k].ctx \in {NoCtx, c}
      /\ req[k].ctx = NoCtx => conn[c].state = "none"
      /\ req[k].ctx = NoCtx => y.state = "none"
      /\ conn[c].asked[k] > 0 /\ y.asked[k] = conn[c].asked[k] - 1
      /\ r.ctx = NoCtx => y.state # "inactive"
  BY <1>2, <1>5, Zenon
<1> QED
  BY <1>1, <1>4, <1>6, CallbackLease, Zenon

(* A callback ends with the context held, parked or erased.                *)
LEMMA SettleLease ==
  ASSUME RedisInv, RedisInv', NEW c \in Ctxs, NEW k \in Clients,
         NEW x \in Conn, ConnOK(x), x.mem = "live", x.err <=> conn[c].err,
         NEW r \in Request, r.ctx = req[k].ctx, r.ctx \in {NoCtx, c},
         x.state = conn[c].state, x.state = "active" <=> r.ctx = c,
         r.ctx = NoCtx => x.freeing, r.pending = x.asked[k] + 1,
         \/ x.asked[k] = conn[c].asked[k]
         \/ conn[c].asked[k] > 0 /\ x.asked[k] = conn[c].asked[k] - 1,
         Settle(c, k, x, r)
  PROVE  [Lease!Next]_(Lease!lvars)
<1> DEFINE last == r.pending = 1
           s == [r EXCEPT !.pending = @ - 1, !.ctx = IF last THEN NoCtx ELSE @]
           t == IF Unused(k, s) THEN NoRequest ELSE s
           y == IF last /\ r.ctx # NoCtx THEN ReleaseConnection(x, r.how, TRUE) ELSE x
<1>1. req' = [req EXCEPT ![k] = t] /\ conn' = [conn EXCEPT ![c] = y]
  BY Zenon DEF Settle
<1>2. /\ NoCtx \notin Ctxs /\ c # NoCtx /\ x.asked[k] \in Nat /\ conn[c].asked[k] \in Nat
  BY InvAt, ZenonT(60) DEF Conn
<1>3. s.ctx = IF last THEN NoCtx ELSE r.ctx
  BY Zenon DEF Request
<1> HIDE DEF s
<1>4. t.ctx \in {NoCtx, s.ctx}
  BY NoRequestOK, Zenon
<1>5. /\ y.err <=> x.err
      /\ r.ctx = NoCtx => y = x
      /\ y.asked[k] = x.asked[k]
      /\ y.state = "inactive" => last /\ ~x.err
  <2>1. CASE last /\ r.ctx # NoCtx
    <3>1. y = ReleaseConnection(x, r.how, TRUE) /\ x.state = "active"
      BY <2>1, Zenon
    <3>2. /\ y.asked = x.asked /\ y.err = x.err
          /\ y.state = "inactive" => ~x.err
      BY <3>1, ReleaseInside, Zenon
    <3> QED
      BY <2>1, <3>2, Zenon
  <2>2. CASE ~(last /\ r.ctx # NoCtx)
    <3>1. y = x /\ x.state # "inactive"
      BY <2>2, Zenon DEF ConnOK
    <3> QED
      BY <3>1, Zenon
  <2> QED
    BY <2>1, <2>2, Zenon
<1> HIDE DEF t, y
<1>6. /\ y.err <=> conn[c].err
      /\ t.ctx \in {NoCtx, req[k].ctx}
      /\ req[k].ctx = NoCtx => conn[c].state = "none" /\ y.state = "none"
  BY <1>3, <1>4, <1>5, Zenon DEF ConnOK
<1>7. t.ctx = c => \/ y.asked[k] = conn[c].asked[k]
                   \/ conn[c].asked[k] > 0 /\ y.asked[k] = conn[c].asked[k] - 1
  BY <1>5, ZenonT(60)
<1>8. y.state = "inactive" => conn[c].asked[k] \in {0, 1} /\ ~y.err
  <2>1. y.state = "inactive" => x.asked[k] = 0
    BY <1>2, <1>5
  <2> QED
    BY <1>2, <1>5, <2>1, SMTT(30)
<1> QED
  BY <1>1, <1>6, <1>7, <1>8, CallbackLease, ZenonT(60)

(* lua_redis_callback of a request that is finished.                       *)
LEMMA CallbackFinishedLease ==
  ASSUME RedisInv, RedisInv', NEW c \in Ctxs, NEW k \in Clients, CallbackFinished(c, k)
  PROVE  [Lease!Next]_(Lease!lvars)
<1> DEFINE x == conn[c]
           r == req[k]
           y == Shifted(c, k)
<1>1. ServesClient(c, k) /\ Settle(c, k, y, r)
  BY SMTT(30) DEF CallbackFinished
<1>2. /\ x \in Conn /\ x.asked[k] > 0 /\ r \in Request /\ r.ctx \in {NoCtx, c}
      /\ (r.ctx = NoCtx => x.freeing) /\ r.pending = x.asked[k]
      /\ (r.ctx = c <=> x.state = "active")
      /\ y \in Conn /\ ConnOK(y) /\ y.mem = "live" /\ (y.err <=> x.err)
      /\ (y.freeing <=> x.freeing) /\ y.state = x.state
      /\ y.asked[k] = x.asked[k] - 1
  BY <1>1, ServedAt
<1> HIDE DEF x, r, y
<1>3. r.pending = y.asked[k] + 1
  BY <1>2 DEF Conn
<1> QED
  BY <1>1, <1>2, <1>3, SettleLease, Zenon DEF x, r

(* lua_redis_callback, after the user's callback.                          *)
LEMMA CallbackEndLease ==
  ASSUME RedisInv, RedisInv', NEW k \in Clients, CallbackEnd(k)
  PROVE  [Lease!Next]_(Lease!lvars)
<1> DEFINE c == loop.ctx
           x == conn[c]
           q == req[k]
           r == [q EXCEPT !.open = @ - 1]
<1>1. loop.at = "lua" /\ loop.who = k /\ k \notin Sync /\ Settle(c, k, x, r)
  BY Zenon DEF CallbackEnd
<1>2. /\ c \in Ctxs /\ x \in Conn /\ ConnOK(x) /\ x.mem = "live"
      /\ q \in Request /\ q.open > 0 /\ q.ctx \in {NoCtx, c} /\ (q.ctx = NoCtx => x.freeing)
      /\ (x.state = "active" <=> q.ctx = c) /\ q.pending = x.asked[k] + 1
  BY <1>1, LuaAt, Zenon
<1>3. r \in Request
  <2>1. ASSUME NEW i \in Nat PROVE [q EXCEPT !.open = i] \in Request
    BY <1>2, ZenonT(60) DEF Request
  <2>2. q.open - 1 \in Nat
    BY <1>2 DEF Request
  <2> QED
    BY <2>1, <2>2, Zenon
<1>4. r.ctx = q.ctx /\ r.pending = q.pending
  BY <1>2, Zenon DEF Request
<1> HIDE DEF r
<1>5. /\ r.ctx = req[k].ctx /\ r.ctx \in {NoCtx, c} /\ (x.state = "active" <=> r.ctx = c)
      /\ (r.ctx = NoCtx => x.freeing) /\ r.pending = x.asked[k] + 1
  BY <1>2, <1>4, Zenon
<1> QED
  BY <1>1, <1>2, <1>3, <1>5, SettleLease, Zenon

(* lua_redis_callback_sync.                                                *)
LEMMA CallbackSyncLease ==
  ASSUME RedisInv, RedisInv', NEW c \in Ctxs, NEW k \in Clients, NEW failed \in BOOLEAN,
         CallbackSync(c, k, failed)
  PROVE  [Lease!Next]_(Lease!lvars)
<1> DEFINE w == conn[c]
           r == req[k]
           lost == failed /\ r.ctx # NoCtx
           y == Shifted(c, k)
           x == IF lost THEN ReleaseConnection(y, "fatal", TRUE) ELSE y
           s == [r EXCEPT !.pending = @ - 1, !.ans = @ + 1,
                          !.ctx = IF lost THEN NoCtx ELSE @]
           t == [s EXCEPT !.waits = FALSE, !.ans = 0, !.clean = @ + s.ans]
           u == IF s.pending = 0 /\ s.waits THEN t ELSE s
<1>1. /\ ServesClient(c, k) /\ conn' = [conn EXCEPT ![c] = x]
      /\ req' = [req EXCEPT ![k] = u]
  BY Zenon DEF CallbackSync
<1>2. /\ w.asked[k] > 0 /\ r \in Request /\ r.ctx \in {NoCtx, c}
      /\ (r.ctx = NoCtx => w.freeing) /\ (r.ctx = c <=> w.state = "active")
      /\ y \in Conn /\ ConnOK(y) /\ y.mem = "live" /\ (y.err <=> w.err)
      /\ y.state = w.state /\ y.asked[k] = w.asked[k] - 1
  BY <1>1, ServedAt, SMTT(30)
<1>3. NoCtx \notin Ctxs /\ (w.freeing => w.state = "none")
  BY InvAt DEF ConnOK
<1>4. s.ctx = (IF lost THEN NoCtx ELSE r.ctx) /\ t.ctx = s.ctx
  BY <1>2, Zenon DEF Request
<1> HIDE DEF w, y, r, s, t
<1>5. /\ (x.err <=> w.err) /\ x.asked[k] = w.asked[k] - 1
      /\ IF lost THEN x.state = "none" ELSE x.state = w.state
  <2>1. CASE lost
    <3>1. x = Erase(y, TRUE) /\ y.state = "active"
      BY <1>2, <2>1 DEF ReleaseConnection
    <3>2. x.state = "none" /\ x.asked = y.asked /\ x.err = y.err
      BY <1>2, <3>1, EraseInside, Zenon
    <3> QED
      BY <1>2, <2>1, <3>2, ZenonT(60)
  <2>2. CASE ~lost
    BY <1>2, <2>2, Zenon
  <2> QED
    BY <2>1, <2>2, Zenon
<1>6. u.ctx = IF lost THEN NoCtx ELSE r.ctx
  BY <1>4
<1> HIDE DEF x, u
<1>7. /\ x.err <=> conn[c].err
      /\ u.ctx \in {NoCtx, req[k].ctx} /\ req[k].ctx \in {NoCtx, c}
      /\ req[k].ctx = NoCtx => conn[c].state = "none"
      /\ req[k].ctx = NoCtx => x.state = "none"
      /\ conn[c].asked[k] > 0 /\ x.asked[k] = conn[c].asked[k] - 1
      /\ u.ctx = NoCtx => x.state # "inactive"
  <2>1. r.ctx = NoCtx => ~lost
    OBVIOUS
  <2> HIDE DEF lost
  <2> QED
    BY <1>2, <1>3, <1>5, <1>6, <2>1, ZenonT(60) DEF w, r
<1> QED
  BY <1>1, <1>7, CallbackLease, Zenon

(* lua_redis_callback_sync of a request that is finished.                  *)
LEMMA CallbackSyncFinishedLease ==
  ASSUME RedisInv, RedisInv', NEW c \in Ctxs, NEW k \in Clients, CallbackSyncFinished(c, k)
  PROVE  [Lease!Next]_(Lease!lvars)
<1> DEFINE w == conn[c]
           r == req[k]
           y == Shifted(c, k)
           s == [r EXCEPT !.pending = @ - 1, !.waits = @ /\ r.pending > 1]
<1>1. /\ ServesClient(c, k) /\ conn' = [conn EXCEPT ![c] = y]
      /\ req' = [req EXCEPT ![k] = s]
  BY Zenon DEF CallbackSyncFinished
<1>2. /\ w.asked[k] > 0 /\ r \in Request /\ r.ctx \in {NoCtx, c}
      /\ (r.ctx = NoCtx => w.freeing) /\ (y.err <=> w.err)
      /\ y.state = w.state /\ y.asked[k] = w.asked[k] - 1
  BY <1>1, ServedAt, SMTT(30)
<1>3. w.freeing => w.state = "none"
  BY InvAt, Zenon DEF ConnOK
<1>4. s.ctx = r.ctx
  BY <1>2, Zenon DEF Request
<1> HIDE DEF y, s
<1>5. /\ y.err <=> conn[c].err
      /\ s.ctx \in {NoCtx, req[k].ctx} /\ req[k].ctx \in {NoCtx, c}
      /\ req[k].ctx = NoCtx => conn[c].state = "none"
      /\ req[k].ctx = NoCtx => y.state = "none"
      /\ conn[c].asked[k] > 0 /\ y.asked[k] = conn[c].asked[k] - 1
      /\ s.ctx = NoCtx => y.state # "inactive"
  BY <1>2, <1>3, <1>4, ZenonT(60)
<1> QED
  BY <1>1, <1>5, CallbackLease, Zenon

(* A request without open events has no command pending.                   *)
LEMMA NoneLeft ==
  ASSUME NEW o \in Nat, NEW p \in Nat, NEW a \in Nat, NEW c \in Nat, o = p + a + c, o - c = 0
  PROVE  p = 0
OBVIOUS

(* The coroutine of a synchronous request returns.                         *)
LEMMA ResumeEndLease ==
  ASSUME RedisInv, RedisInv', NEW k \in Clients, ResumeEnd(k)
  PROVE  [Lease!Next]_(Lease!lvars)
<1> DEFINE c == loop.ctx
           x == conn[c]
           r == req[k]
           s == [r EXCEPT !.open = @ - r.clean, !.clean = 0]
<1>1. loop.at = "lua" /\ loop.who = k /\ k \in Sync /\ Dropped(k, s, TRUE)
  BY Zenon DEF ResumeEnd
<1>2. /\ c \in Ctxs /\ x \in Conn /\ ConnOK(x) /\ x.mem = "live"
      /\ r \in Request /\ ReqOK(k, r, loop.kept = k) /\ ~r.ended
      /\ r.ctx \in {NoCtx, c} /\ (r.ctx = NoCtx => x.freeing)
      /\ (x.state = "active" <=> r.ctx = c)
      /\ r.pending = x.asked[k] + 0
  BY <1>1, LuaAt, SMTT(30)
<1>3. NoCtx \notin Ctxs /\ c # NoCtx /\ conn \in [Ctxs -> Conn] /\ req \in [Clients -> Request]
  BY <1>2, InvAt DEF Types
<1> HIDE DEF r
<1>4. /\ r.open \in Nat /\ r.pending \in Nat /\ r.ans \in Nat /\ r.clean \in Nat
      /\ x.asked[k] \in Nat
  BY <1>2, Zenon DEF Request, Conn
<1>5. r.open = r.pending + r.ans + r.clean /\ r.pending = x.asked[k]
  <2>1. r.open = r.pending + r.ans + r.clean
    BY <1>1, <1>2, Zenon DEF ReqOK
  <2>2. \A i, j \in Nat : i = j + 0 => i = j
    OBVIOUS
  <2> QED
    BY <1>2, <1>4, <2>1, <2>2, Zenon
<1>6. s.ctx = r.ctx /\ s.open = r.open - r.clean
  BY <1>2 DEF Request
<1> HIDE DEF s
<1>7. CASE Unused(k, s)
  <2> DEFINE y == IF s.ctx = NoCtx THEN x ELSE ReleaseConnection(x, HowDone(s), TRUE)
  <2>1. /\ req' = [req EXCEPT ![k] = NoRequest]
        /\ conn' = IF s.ctx = NoCtx THEN conn
                   ELSE [conn EXCEPT ![s.ctx] = ReleaseConnection(@, HowDone(s), TRUE)]
    BY <1>1, <1>7, Zenon DEF Dropped
  <2>2. conn' = [conn EXCEPT ![c] = y]
    BY <1>2, <1>3, <1>6, <2>1, Zenon
  <2>3. /\ (y.err <=> x.err) /\ (y.state = "inactive" => ~y.err)
        /\ (s.ctx = NoCtx => x.state = "none" /\ y.state = "none")
    <3>1. CASE s.ctx = NoCtx
      BY <1>2, <1>6, <3>1, Zenon DEF ConnOK
    <3>2. CASE s.ctx # NoCtx
      <4>1. y = ReleaseConnection(x, HowDone(s), TRUE) /\ x.state = "active"
        BY <1>2, <1>6, <3>2, SMTT(30)
      <4>2. y.err = x.err /\ (y.state = "inactive" => ~x.err)
        BY <1>2, <4>1, ReleaseInside, Zenon
      <4> QED
        BY <3>2, <4>2, ZenonT(60)
    <3> QED
      BY <3>1, <3>2, Zenon
  <2> HIDE DEF y
  <2>4. x.asked[k] = 0
    <3>1. r.open - r.clean = 0
      BY <1>6, <1>7, Zenon DEF Unused
    <3> QED
      BY <1>4, <1>5, <3>1, NoneLeft, ZenonT(60)
  <2>5. NoRequest.ctx = NoCtx
    BY NoRequestOK, Zenon
  <2>6. /\ y.err <=> conn[c].err
        /\ NoRequest.ctx \in {NoCtx, req[k].ctx} /\ req[k].ctx \in {NoCtx, c}
        /\ req[k].ctx = NoCtx => conn[c].state = "none"
        /\ req[k].ctx = NoCtx => y.state = "none"
        /\ NoRequest.ctx # c
        /\ NoRequest.ctx = NoCtx /\ y.state = "inactive" => conn[c].asked[k] \in {0, 1} /\ ~y.err
    BY <1>2, <1>3, <1>6, <2>3, <2>4, <2>5, ZenonT(60) DEF r
  <2> QED
    BY <1>2, <2>1, <2>2, <2>6, CallbackLease, ZenonT(60)
<1>8. CASE ~Unused(k, s)
  <2>1. req' = [req EXCEPT ![k] = s] /\ conn' = conn
    BY <1>1, <1>8, Zenon DEF Dropped
  <2>2. \A l \in Clients : req'[l].ctx = req[l].ctx
    BY <1>3, <1>6, <2>1, Zenon DEF r
  <2> QED
    BY <2>1, <2>2, LeaseStutters, Zenon
<1> QED
  BY <1>7, <1>8

(* Every step is a step of the lease or stutters.                          *)
LEMMA NextLease ==
  ASSUME RedisInv, [Next]_vars
  PROVE  [Lease!Next]_(Lease!lvars)
<1>1. RedisInv'
  BY NextOK, Zenon
<1>2. CASE UNCHANGED vars
  BY <1>1, <1>2, LeaseStutters, Zenon DEF vars
<1>3. ASSUME NEW k \in Clients, Script(k) PROVE [Lease!Next]_(Lease!lvars)
  BY <1>1, <1>3, ConnectReuseLease, ConnectNewLease, ConnectFailsLease, AddCmdLease,
     ExecLease, GcLease, ZenonT(60) DEF Script
<1>4. ASSUME NEW k \in Clients, SessionEnd(k) \/ LuaEnd(k) \/ Timeout(k)
      PROVE  [Lease!Next]_(Lease!lvars)
  BY <1>1, <1>4, SessionEndLease, CallbackEndLease, ResumeEndLease, ExpireEndLease,
     ExecLease, ExpireSyncLease, ZenonT(60) DEF LuaEnd, Timeout
<1>5. ASSUME NEW c \in Ctxs, Callback(c) PROVE [Lease!Next]_(Lease!lvars)
  BY <1>1, <1>5, PoolAnswerLease, CallbackLuaLease, CallbackFinishedLease,
     CallbackSyncLease, CallbackSyncFinishedLease, ZenonT(60) DEF Callback
<1>6. ASSUME NEW c \in Ctxs, Connected(c) \/ Disconnect(c) \/ PoolTimeout(c)
      PROVE  [Lease!Next]_(Lease!lvars)
  BY <1>1, <1>6, PoolAnswerLease, DisconnectLease, PoolTimeoutLease, ZenonT(60)
<1>7. CASE DrainEnd
  BY <1>1, <1>7, DrainEndLease, Zenon
<1>8. CASE Undefined
  BY <1>1, <1>8, LeaseStutters, Zenon DEF Undefined
<1> QED
  BY <1>2, <1>3, <1>4, <1>5, <1>6, <1>7, <1>8, ZenonT(60) DEF Next, Defined

(* The initial states are initial states of the lease.                     *)
LEMMA InitLease == Init => Lease!Init
<1> SUFFICES ASSUME Init PROVE Lease!Init
  OBVIOUS
<1>1. /\ \A c \in Ctxs : conn[c] = NoConn
      /\ \A k \in Clients : req[k] = NoRequest
  BY DEF Init
<1>2. NoCtx \notin Ctxs
  BY PoolAssumption, Zenon
<1>3. \A c \in Ctxs : HolderIn(req, c) = Nobody
  BY <1>1, <1>2, NoRequestOK, Zenon DEF HolderIn
<1>4. /\ LentOf(req) = [c \in Ctxs |-> Nobody] /\ AskedOf(conn, req) = [c \in Ctxs |-> 0]
  BY <1>3, Zenon DEF LentOf, AskedOf, AskedIn
<1>5. IdleOf(conn) = {} /\ FailedOf(conn) = {}
  BY <1>1, NoConnOK, Zenon DEF IdleOf, FailedOf
<1> QED
  BY <1>4, <1>5, ShownNow, Zenon DEF Lease!Init, Shown

(* The requests on the pool implement RedisLease: whatever callbacks,      *)
(* timeouts, ends of sessions and drains of hiredis interleave, a          *)
(* connection is lent to one client at a time, is asked and answers only   *)
(* while it is lent, and goes back to the idle ones without an error and   *)
(* with nothing left to answer.                                            *)
THEOREM LeaseImplemented == Spec => LeaseSpec
<1>1. Init => Lease!Init
  BY InitLease, Zenon
<1>2. RedisInv /\ [Next]_vars => [Lease!Next]_(Lease!lvars)
  BY NextLease
<1> QED
  BY <1>1, <1>2, RedisInvariant, PTL DEF Spec, LeaseSpec, Lease!Spec
=============================================================================
