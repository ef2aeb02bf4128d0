---------------------------- MODULE ProxyProofs ----------------------------
(***************************************************************************)
(* Proofs about ProxySession, for every number of sessions, sources and    *)
(* upstreams and every configuration: the counters of a worker count its   *)
(* sessions, the lists of the upstreams stay consistent, no session passes *)
(* a freed upstream on, and the sessions implement ProxyService.           *)
(*                                                                         *)
(* A handler changes one session and, through upstream.c, the list.  What  *)
(* the functions of upstream.c keep is proved in UpstreamProofs; here      *)
(* every handler is shown to keep its session (Kept) or to end it          *)
(* (Closed), and to hold only what the list has (Moved).                   *)
(***************************************************************************)
EXTENDS ProxySession, UpstreamProofs, FiniteSetTheorems

(* What a session looks like at its stages.  The references of a session   *)
(* are needed for the counters: a session whose count could reach zero     *)
(* twice would give its slots back twice.                                  *)
SessionShape ==
  \A s \in Sessions :
    /\ sess[s].stage = "free" => sess[s] = NewSession
    /\ sess[s].stage = "reading" => sess[s].mirror = "none"
    /\ sess[s].stage = "lingering" => sess[s].mirror # "none"
    /\ sess[s].stage # "free" => sess[s].src \in Sources
    /\ sess[s].stage = "waiting" => sess[s].up \in Ups
    /\ running = s => sess[s].stage = "select"

(* The part of the invariant that is about the sessions alone.             *)
SessionInv ==
  /\ conf \in Configs
  /\ sess \in [Sessions -> Session]
  /\ nconns \in Nat
  /\ bySrc \in [Sources -> Nat]
  /\ running \in Sessions \cup {NoSession}
  /\ SessionShape
  /\ SessionRefs
  /\ SlotsAccounted

-----------------------------------------------------------------------------
(* The sessions of a source, as ProxyService counts them.                  *)
From(a) == {s \in Open : sess[s].src = a}

(* The instance of ProxyService has a Cardinality of its own.              *)
LEMMA SameCount == \A S : Service!Cardinality(S) = Cardinality(S)
BY Zenon DEF Service!Cardinality, Cardinality

(* The places that are taken are the sessions that are open.               *)
LEMMA TakenIsOpen ==
  ASSUME sess \in [Sessions -> Session]
  PROVE  /\ Service!Taken = Open
         /\ \A a : Service!TakenBy(a) = From(a)
BY DEF Service!Taken, Service!TakenBy, Open, From, ClientOf, Session, Stages

(* Adding a session to a finite set, or taking one out.                    *)
LEMMA CountOne ==
  ASSUME NEW S, IsFiniteSet(S), NEW x
  PROVE  /\ Cardinality(S) \in Nat
         /\ x \notin S => Cardinality(S \cup {x}) = Cardinality(S) + 1
         /\ x \in S => Cardinality(S \ {x}) = Cardinality(S) - 1
BY FS_CardinalityType, FS_AddElement, FS_RemoveElement, Zenon

(* There are finitely many sessions.                                       *)
LEMMA OpenFinite == IsFiniteSet(Open) /\ \A a : IsFiniteSet(From(a))
BY SessionAssumption, FS_Subset DEF Open, From

-----------------------------------------------------------------------------
(* The counters still count when no session is opened or closed ...        *)
LEMMA SlotsKept ==
  ASSUME SessionInv,
         \A s \in Sessions : /\ sess'[s].stage = "free" <=> sess[s].stage = "free"
                             /\ sess'[s].src = sess[s].src,
         nconns' = nconns, bySrc' = bySrc
  PROVE  SlotsAccounted'
<1>1. Open' = Open
  BY DEF Open
<1>2. \A a \in Sources : {s \in Open' : sess'[s].src = a} = {s \in Open : sess[s].src = a}
  BY <1>1 DEF Open
<1> QED
  BY <1>1, <1>2 DEF SessionInv, SlotsAccounted

(* ... when one is opened for source a ...                                 *)
LEMMA SlotsAdded ==
  ASSUME SessionInv, NEW s \in Sessions, NEW a \in Sources, NEW r \in Session,
         sess[s].stage = "free", r.stage # "free", r.src = a,
         sess' = [sess EXCEPT ![s] = r],
         nconns' = nconns + 1, bySrc' = [bySrc EXCEPT ![a] = @ + 1]
  PROVE  SlotsAccounted'
<1>1. Open' = Open \cup {s} /\ s \notin Open
  BY DEF Open, SessionInv
<1>2. ASSUME NEW b \in Sources
      PROVE  {w \in Open' : sess'[w].src = b} =
               IF b = a THEN From(b) \cup {s} ELSE From(b)
  BY <1>1 DEF Open, From, SessionInv
<1>3. \A b \in Sources : s \notin From(b)
  BY <1>1 DEF From
<1>4. Cardinality(Open') = Cardinality(Open) + 1
  BY <1>1, OpenFinite, CountOne, Zenon
<1>5. \A b \in Sources : Cardinality({w \in Open' : sess'[w].src = b}) =
        IF b = a THEN Cardinality(From(b)) + 1 ELSE Cardinality(From(b))
  BY <1>2, <1>3, OpenFinite, CountOne, ZenonT(60)
<1> QED
  BY <1>4, <1>5, Zenon DEF SessionInv, SlotsAccounted, From

(* ... and when one is closed.                                             *)
LEMMA SlotsRemoved ==
  ASSUME SessionInv, NEW s \in Sessions, sess[s].stage # "free",
         sess' = [sess EXCEPT ![s] = NewSession], ReleaseSlots(s)
  PROVE  SlotsAccounted' /\ nconns' \in Nat /\ bySrc' \in [Sources -> Nat]
<1> DEFINE a == sess[s].src
<1>0. a \in Sources
  BY DEF SessionInv, SessionShape
<1>1. Open' = Open \ {s} /\ s \in Open
  BY DEF Open, SessionInv, NewSession
<1>2. ASSUME NEW b \in Sources
      PROVE  {w \in Open' : sess'[w].src = b} =
               IF b = a THEN From(b) \ {s} ELSE From(b)
  BY <1>1 DEF Open, From, SessionInv
<1>3. s \in From(a)
  BY <1>1 DEF From
<1>4. Cardinality(Open') = Cardinality(Open) - 1 /\ Cardinality(Open') \in Nat
  <2>1. IsFiniteSet(Open \ {s})
    BY OpenFinite, FS_Subset
  <2> QED
    BY <1>1, <2>1, OpenFinite, CountOne, Zenon
<1>5. \A b \in Sources : Cardinality({w \in Open' : sess'[w].src = b}) =
        IF b = a THEN Cardinality(From(b)) - 1 ELSE Cardinality(From(b))
  BY <1>2, <1>3, OpenFinite, CountOne, ZenonT(60)
<1>6. Cardinality(From(a)) - 1 \in Nat
  <2>1. IsFiniteSet(From(a) \ {s})
    BY OpenFinite, FS_Subset
  <2> QED
    BY <1>3, <2>1, OpenFinite, CountOne, Zenon
<1>7. bySrc[a] - 1 \in Nat
  BY <1>0, <1>6, ZenonT(60) DEF SessionInv, SlotsAccounted, From
<1> QED
  BY <1>0, <1>4, <1>5, <1>7, ZenonT(60) DEF SessionInv, SlotsAccounted, From,
     ReleaseSlots

-----------------------------------------------------------------------------
(* The sessions at the start.                                              *)
LEMMA InitInv == Init => SessionInv
<1> SUFFICES ASSUME Init PROVE SessionInv
  OBVIOUS
<1>1. sess \in [Sessions -> Session]
  BY DEF Init, NewSession, Session, Stages, MirrorKinds
<1>2. Open = {} /\ \A a \in Sources : {s \in Open : sess[s].src = a} = {}
  BY DEF Init, Open, NewSession
<1>3. SlotsAccounted
  BY <1>2, FS_EmptySet, Zenon DEF Init, SlotsAccounted
<1>4. SessionRefs
  BY <1>2, Zenon DEF SessionRefs
<1>5. SessionShape
  BY SessionAssumption, Zenon DEF Init, SessionShape, NewSession
<1> QED
  BY <1>1, <1>3, <1>4, <1>5, ZenonT(60) DEF Init, SessionInv

(* The stages at which the client waits for its answer.                    *)
Asks == {"reading", "select", "waiting"}

(* A handler keeps its session s open and gives it the record r ...        *)
Kept(s, r) ==
  /\ r \in Session
  /\ sess[s].stage # "free" /\ r.stage # "free" /\ r.src = sess[s].src
  /\ r.stage = "reading" => r.mirror = "none"
  /\ r.stage = "lingering" => r.mirror # "none"
  /\ r.stage = "waiting" => r.up \in Ups
  /\ r.ref = (IF r.stage = "lingering" THEN 0 ELSE 1)
             + (IF r.mirror = "none" THEN 0 ELSE 1)
  /\ \/ r.stage = sess[s].stage
     \/ r.stage \in Asks \cup {"reply"} /\ sess[s].stage \in Asks
     \/ r.stage = "lingering" /\ sess[s].stage = "reply"
  /\ sess' = [sess EXCEPT ![s] = r]
  /\ running' \in Sessions \cup {NoSession}
  /\ \A w \in Sessions : running' = w => sess'[w].stage = "select"
  /\ UNCHANGED <<conf, nconns, bySrc>>

(* ... or releases its last reference.                                     *)
Closed(s) ==
  /\ sess[s].stage # "free"
  /\ sess' = [sess EXCEPT ![s] = NewSession]
  /\ ReleaseSlots(s)
  /\ running = NoSession
  /\ UNCHANGED <<conf, running>>

(* Handlers that keep their session keep the invariant of the sessions ... *)
LEMMA KeptInv ==
  ASSUME SessionInv, NEW s \in Sessions, NEW r, Kept(s, r)
  PROVE  SessionInv'
<1>1. sess' \in [Sessions -> Session]
  BY DEF SessionInv, Kept
<1>2. SlotsAccounted'
  BY SlotsKept, Zenon DEF SessionInv, Kept
<1>3. SessionShape'
  BY DEF SessionInv, SessionShape, Kept
<1>4. SessionRefs'
  BY DEF SessionInv, SessionRefs, Open, Kept
<1> QED
  BY <1>1, <1>2, <1>3, <1>4, Zenon DEF SessionInv, Kept

(* ... and so do those that end it.                                        *)
LEMMA ClosedInv ==
  ASSUME SessionInv, NEW s \in Sessions, Closed(s)
  PROVE  SessionInv'
<1>1. sess' \in [Sessions -> Session]
  BY DEF SessionInv, NewSession, Session, Stages, MirrorKinds, Closed
<1>2. SlotsAccounted' /\ nconns' \in Nat /\ bySrc' \in [Sources -> Nat]
  BY SlotsRemoved, ZenonT(60) DEF Closed
<1>3. SessionShape'
  BY SessionAssumption, SMTT(30) DEF SessionInv, SessionShape, NewSession, Closed
<1>4. SessionRefs'
  BY DEF SessionInv, SessionRefs, Open, NewSession, Closed
<1> QED
  BY <1>1, <1>2, <1>3, <1>4, Zenon DEF SessionInv, Closed

(* What these handlers are to the service.                                 *)
LEMMA KeptService ==
  ASSUME SessionInv, NEW s \in Sessions, NEW r, Kept(s, r)
  PROVE  [Service!Next]_(Service!svars)
<1>0. \A w \in Sessions : /\ sess[w] \in Session
                          /\ sess'[w] = IF w = s THEN r ELSE sess[w]
  BY DEF SessionInv, Kept
<1>1. /\ conf' = conf
      /\ [w \in Sessions |-> sess[w].src]' = [w \in Sessions |-> sess[w].src]
  BY <1>0 DEF Kept
<1>2. \A w \in Sessions \ {s} : ClientOf(w)' = ClientOf(w)
  BY <1>0, Zenon DEF ClientOf
<1>3. CASE ClientOf(s)' = ClientOf(s)
  <2>1. [w \in Sessions |-> ClientOf(w)]' = [w \in Sessions |-> ClientOf(w)]
    BY <1>2, <1>3, Zenon
  <2> QED
    BY <1>1, <2>1, Zenon DEF Service!svars
<1>4. CASE ClientOf(s) = "asking" /\ ClientOf(s)' = "answered"
  <2>1. Service!Answer(s)
    BY <1>1, <1>2, <1>4, ZenonT(60) DEF Service!Answer
  <2> QED
    BY <2>1 DEF Service!Next
<1>5. CASE ClientOf(s) = "answered" /\ ClientOf(s)' = "gone"
  <2>1. Service!Leave(s)
    BY <1>1, <1>2, <1>5, ZenonT(60) DEF Service!Leave
  <2> QED
    BY <2>1 DEF Service!Next
<1>6. \/ ClientOf(s)' = ClientOf(s)
      \/ ClientOf(s) = "asking" /\ ClientOf(s)' = "answered"
      \/ ClientOf(s) = "answered" /\ ClientOf(s)' = "gone"
  BY <1>0 DEF ClientOf, Kept, Session, Stages, Asks
<1> QED
  BY <1>3, <1>4, <1>5, <1>6, ZenonT(60)

(* The end of a session gives its place back.                              *)
LEMMA ClosedService ==
  ASSUME SessionInv, NEW s \in Sessions, Closed(s)
  PROVE  [Service!Next]_(Service!svars)
<1>0. /\ s \in DOMAIN sess /\ conf' = conf
      /\ \A w \in Sessions : sess'[w] = IF w = s THEN NewSession ELSE sess[w]
  BY DEF SessionInv, Closed
<1>1. \A w \in Sessions \ {s} : ClientOf(w)' = ClientOf(w)
  BY <1>0, Zenon DEF ClientOf
<1>2. ClientOf(s) # "none" /\ ClientOf(s)' = "none"
  BY <1>0 DEF ClientOf, Closed, NewSession
<1>3. [w \in Sessions |-> sess[w].src]'
        = [[w \in Sessions |-> sess[w].src] EXCEPT ![s] = NoSession]
  <2>1. NewSession.src = NoSession
    BY DEF NewSession
  <2>2. \A w \in Sessions : sess'[w].src = IF w = s THEN NoSession ELSE sess[w].src
    BY <1>0, <2>1, Zenon
  <2> QED
    BY <2>2, Zenon
<1>4. [w \in Sessions |-> ClientOf(w)]'
        = [[w \in Sessions |-> ClientOf(w)] EXCEPT ![s] = "none"]
  BY <1>1, <1>2, ZenonT(60)
<1>5. Service!End(s)
  BY <1>0, <1>2, <1>3, <1>4, Zenon DEF Service!End
<1> QED
  BY <1>5 DEF Service!Next

-----------------------------------------------------------------------------
(* The rest of the inductive invariant: what the list of upstreams         *)
(* promises (ListInv), how much load each upstream has, and the SRV reply  *)
(* that is being applied.                                                  *)
(*                                                                         *)
(* inflight counts no more than the sessions that ask the upstream.        *)
LoadInv == \A u \in Ups : list.up[u].inflight <= Cardinality(Asking(u))

(* The type of the SRV reply that is being applied.                        *)
SrvType ==
  srv \in [on : BOOLEAN, parent : Ups \cup {NoUp},
           todo : SUBSET Targets, seen : SUBSET Targets]

(* An SRV reply is applied with no session in between.                     *)
SrvInv ==
  /\ SrvType
  /\ srv.on => /\ running = NoSession
               /\ srv.parent \in Ups
               /\ Kind[srv.parent] = "srv"
               /\ list.up[srv.parent].dns > 0

(* The inductive invariant.                                                *)
ProxyInv == SessionInv /\ ListInv(list) /\ LoadInv /\ SrvInv

(* The number of sessions that ask u when one session changes.             *)
LEMMA AskingOne ==
  ASSUME SessionInv, NEW s \in Sessions, NEW r \in Session, NEW u \in Ups,
         sess' = [sess EXCEPT ![s] = r],
         NEW a \in {0, 1}, NEW b \in {0, 1},
         a = 1 <=> (r.stage = "waiting" /\ r.up = u),
         b = 1 <=> (sess[s].stage = "waiting" /\ sess[s].up = u)
  PROVE  /\ Cardinality(Asking(u)) \in Nat /\ Cardinality(Asking(u)') \in Nat
         /\ Cardinality(Asking(u)') = Cardinality(Asking(u)) + a - b
<1>0. sess \in [Sessions -> Session]
  BY Zenon DEF SessionInv
<1>1. IsFiniteSet(Asking(u)) /\ IsFiniteSet(Asking(u)')
  BY SessionAssumption, FS_Subset, Zenon DEF Asking
<1>2. Cardinality(Asking(u)) \in Nat /\ Cardinality(Asking(u)') \in Nat
  BY <1>1, FS_CardinalityType, Zenon
<1>3. CASE a = b
  <2>1. Asking(u)' = Asking(u)
    BY <1>0, <1>3, Zenon DEF Asking
  <2> QED
    BY <1>2, <1>3, <2>1, SMTT(30)
<1>4. CASE a = 1 /\ b = 0
  <2>1. Asking(u)' = Asking(u) \cup {s} /\ s \notin Asking(u)
    BY <1>0, <1>4, SMTT(30) DEF Asking
  <2> QED
    BY <1>1, <1>2, <1>4, <2>1, CountOne, SMTT(30)
<1>5. CASE a = 0 /\ b = 1
  <2>1. Asking(u)' = Asking(u) \ {s} /\ s \in Asking(u)
    BY <1>0, <1>5, SMTT(30) DEF Asking
  <2> QED
    BY <1>1, <1>2, <1>5, <2>1, CountOne, SMTT(30)
<1> QED
  BY <1>3, <1>4, <1>5, Zenon

(* What a session r adds to the load of u.                                 *)
Loaded(r, u) == IF r.stage = "waiting" /\ r.up = u THEN 1 ELSE 0

(* What a handler that turns a session from old to r does to the list: the *)
(* load grows by the request that is made, and falls by the one that is    *)
(* over.                                                                   *)
Moved(old, r) ==
  /\ ListInv(list')
  /\ \A u \in Ups : list'.up[u].inflight
                      <= Less(list.up[u].inflight + Loaded(r, u), Loaded(old, u))

(* The rest of the invariant, for a handler that changes one session.      *)
LEMMA MovedInv ==
  ASSUME ProxyInv, NEW s \in Sessions, NEW r \in Session,
         sess' = [sess EXCEPT ![s] = r], Moved(sess[s], r), UNCHANGED srv, ~srv.on
  PROVE  LoadInv' /\ SrvInv'
<1>0. sess \in [Sessions -> Session] /\ SessionInv /\ NoUp \notin Ups
  BY UpsAssumption, Zenon DEF ProxyInv, SessionInv
<1>2. LoadInv'
  <2> SUFFICES ASSUME NEW u \in Ups
               PROVE  list'.up[u].inflight <= Cardinality(Asking(u)')
    BY DEF LoadInv
  <2> DEFINE a == Loaded(r, u)
             b == Loaded(sess[s], u)
             i == list.up[u].inflight
             j == list'.up[u].inflight
             n == Cardinality(Asking(u))
             m == Cardinality(Asking(u)')
  <2>1. a \in {0, 1} /\ b \in {0, 1}
    BY DEF Loaded
  <2>2. n \in Nat /\ m \in Nat /\ m = n + a - b
    <3>1. a = 1 <=> (r.stage = "waiting" /\ r.up = u)
      BY DEF Loaded
    <3>2. b = 1 <=> (sess[s].stage = "waiting" /\ sess[s].up = u)
      BY DEF Loaded
    <3> HIDE DEF a, b
    <3> QED
      BY <1>0, <2>1, <3>1, <3>2, AskingOne, ZenonT(60)
  <2>3. i \in Nat /\ j \in Nat /\ i <= n
    <3>1. list.up[u] \in Upstream /\ list'.up[u] \in Upstream
      BY UpTyped, Zenon DEF ProxyInv, Moved, ListInv
    <3> QED
      BY <3>1, Zenon DEF Upstream, ProxyInv, LoadInv
  <2>4. j <= Less(i + a, b)
    BY Zenon DEF Moved
  <2> HIDE DEF a, b, i, j, n, m
  <2>5. j <= m
    BY <2>1, <2>2, <2>3, <2>4, SMTT(30) DEF Less
  <2> QED
    BY <2>5, Zenon DEF j, m
<1>3. SrvInv'
  BY Zenon DEF ProxyInv, SrvInv, SrvType
<1> QED
  BY <1>2, <1>3, Zenon

(* The step lemmas of a session's handler.                                 *)
LEMMA KeptStep ==
  ASSUME ProxyInv, NEW s \in Sessions, NEW r, Kept(s, r), Moved(sess[s], r),
         UNCHANGED srv, ~srv.on
  PROVE  ProxyInv' /\ [Service!Next]_(Service!svars)
<1>1. SessionInv /\ r \in Session /\ sess' = [sess EXCEPT ![s] = r]
  BY DEF ProxyInv, Kept
<1>2. LoadInv' /\ SrvInv'
  BY <1>1, MovedInv, Zenon
<1>3. SessionInv' /\ [Service!Next]_(Service!svars)
  BY <1>1, KeptInv, KeptService, ZenonT(60)
<1>4. ListInv(list)'
  BY DEF Moved, ListInv, Shape, Indexed, Once, Fresh
<1> QED
  BY <1>2, <1>3, <1>4, ZenonT(60) DEF ProxyInv

(* The same for the end of a session.                                      *)
LEMMA ClosedStep ==
  ASSUME ProxyInv, NEW s \in Sessions, Closed(s), Moved(sess[s], NewSession),
         UNCHANGED srv, ~srv.on
  PROVE  ProxyInv' /\ [Service!Next]_(Service!svars)
<1>1. SessionInv /\ sess' = [sess EXCEPT ![s] = NewSession]
  BY Zenon DEF ProxyInv, Closed
<1>2. NewSession \in Session
  BY DEF NewSession, Session, Stages, MirrorKinds
<1>3. LoadInv' /\ SrvInv'
  BY <1>1, <1>2, MovedInv, ZenonT(60)
<1>4. SessionInv' /\ [Service!Next]_(Service!svars)
  BY <1>1, ClosedInv, ClosedService, ZenonT(60)
<1>5. ListInv(list)'
  BY Zenon DEF Moved, ListInv, Shape, Indexed, Once, Fresh
<1> QED
  BY <1>3, <1>4, <1>5, ZenonT(60) DEF ProxyInv

-----------------------------------------------------------------------------
(* The handlers that leave the list alone.                                 *)
LEMMA StayPut ==
  ASSUME ProxyInv, NEW old \in Session, NEW r \in Session, list' = list,
         \A u \in Ups : Loaded(r, u) = Loaded(old, u)
  PROVE  Moved(old, r)
<1>1. \A u \in Ups : list.up[u].inflight \in Nat /\ Loaded(old, u) \in {0, 1}
  BY UpTyped, ZenonT(60) DEF ProxyInv, ListInv, Upstream, Loaded
<1>2. \A u \in Ups : list'.up[u].inflight
                       <= Less(list.up[u].inflight + Loaded(r, u), Loaded(old, u))
  BY <1>1, SMTT(30) DEF Less
<1> QED
  BY <1>2, Zenon DEF Moved, ProxyInv

(* proxy_accept_socket admits a client: the counters are the numbers of    *)
(* places that are taken.                                                  *)
LEMMA AcceptStep ==
  ASSUME ProxyInv, NEW s \in Sessions, NEW a \in Sources, Accept(s, a)
  PROVE  ProxyInv' /\ [Service!Next]_(Service!svars)
<1> DEFINE r == [NewSession EXCEPT !.stage = "reading", !.ref = 1, !.src = a]
<1>0. SessionInv /\ sess \in [Sessions -> Session] /\ sess[s] = NewSession
  BY DEF ProxyInv, SessionInv, SessionShape, Accept
<1>1. /\ r \in Session /\ r.stage = "reading" /\ r.ref = 1 /\ r.src = a
      /\ r.mirror = "none" /\ r.tokens = 0
  BY Zenon DEF NewSession, Session, Stages, MirrorKinds
<1>2. /\ sess' = [sess EXCEPT ![s] = r] /\ sess[s].stage = "free"
      /\ nconns' = nconns + 1 /\ bySrc' = [bySrc EXCEPT ![a] = @ + 1]
      /\ UNCHANGED <<conf, list, running, srv>> /\ ~srv.on /\ running = NoSession
      /\ nconns < conf.conns /\ bySrc[a] < conf.per_source
  BY DEF Accept, Idle
<1> HIDE DEF r
<1>3. SlotsAccounted'
  BY <1>0, <1>1, <1>2, SlotsAdded, ZenonT(60)
<1>4. SessionInv'
  <2>1. sess' \in [Sessions -> Session] /\ nconns' \in Nat /\ bySrc' \in [Sources -> Nat]
    BY <1>0, <1>1, <1>2, SMTT(30) DEF SessionInv
  <2>2. SessionShape'
    BY <1>0, <1>1, <1>2, SessionAssumption, ZenonT(60) DEF SessionInv, SessionShape
  <2>3. SessionRefs'
    BY <1>0, <1>1, <1>2, SMTT(30) DEF SessionInv, SessionRefs, Open
  <2> QED
    BY <1>0, <1>2, <1>3, <2>1, <2>2, <2>3, ZenonT(60) DEF SessionInv
<1>5. Moved(sess[s], r)
  <2>1. \A u \in Ups : Loaded(r, u) = Loaded(sess[s], u)
    BY <1>1, <1>2, SMTT(30) DEF Loaded
  <2> QED
    BY <1>0, <1>1, <1>2, <2>1, StayPut, Zenon
<1>6. LoadInv' /\ SrvInv'
  BY <1>1, <1>2, <1>5, MovedInv, ZenonT(60)
<1>7. ListInv(list)'
  BY <1>2, Zenon DEF ProxyInv, ListInv, Shape, Indexed, Once, Fresh
<1>8. Service!Admit(s, a)
  <2>1. /\ Cardinality(Service!Taken) < conf.conns
        /\ Cardinality(Service!TakenBy(a)) < conf.per_source
    BY <1>0, <1>2, TakenIsOpen, Zenon DEF SessionInv, SlotsAccounted, From
  <2>2. \A w \in Sessions : sess'[w] = IF w = s THEN r ELSE sess[w]
    BY <1>0, <1>2, Zenon
  <2>3. [w \in Sessions |-> sess[w].src]'
          = [[w \in Sessions |-> sess[w].src] EXCEPT ![s] = a]
    <3>1. \A w \in Sessions : sess'[w].src = IF w = s THEN a ELSE sess[w].src
      BY <1>1, <2>2, ZenonT(60)
    <3> QED
      BY <3>1, Zenon
  <2>4. [w \in Sessions |-> ClientOf(w)]'
          = [[w \in Sessions |-> ClientOf(w)] EXCEPT ![s] = "asking"]
    <3>1. \A w \in Sessions : ClientOf(w)' = IF w = s THEN "asking" ELSE ClientOf(w)
      BY <1>1, <2>2, Zenon DEF ClientOf
    <3> QED
      BY <3>1, ZenonT(60)
  <2>5. ClientOf(s) = "none"
    BY <1>2, Zenon DEF ClientOf
  <2> QED
    BY <1>2, <2>1, <2>3, <2>4, <2>5, SameCount, ZenonT(60) DEF Service!Admit
<1> QED
  BY <1>4, <1>6, <1>7, <1>8, ZenonT(60) DEF ProxyInv, Service!Next

(* The client breaks off: its session has no mirror yet.                   *)
LEMMA ClientErrorStep ==
  ASSUME ProxyInv, NEW s \in Sessions, ClientError(s)
  PROVE  ProxyInv' /\ [Service!Next]_(Service!svars)
<1>0. SessionInv /\ sess \in [Sessions -> Session]
  BY Zenon DEF ProxyInv, SessionInv
<1>1. sess[s].stage = "reading" /\ sess[s].mirror = "none" /\ sess[s].ref = 1
  BY <1>0 DEF SessionInv, SessionShape, SessionRefs, Open, ClientError
<1>2. Closed(s) /\ list' = list /\ ~srv.on /\ UNCHANGED srv
  BY <1>1, Zenon DEF ClientError, UnrefSession, Closed, Idle
<1>3. Moved(sess[s], NewSession)
  <2>1. NewSession \in Session /\ NewSession.stage = "free"
    BY DEF NewSession, Session, Stages, MirrorKinds
  <2>2. \A u \in Ups : Loaded(NewSession, u) = Loaded(sess[s], u)
    BY <1>1, <2>1, Zenon DEF Loaded
  <2> QED
    BY <1>0, <1>2, <2>1, <2>2, StayPut, ZenonT(60)
<1> QED
  BY <1>2, <1>3, ClosedStep, ZenonT(60)

(* An answer without a backend.                                            *)
LEMMA BadRequestStep ==
  ASSUME ProxyInv, NEW s \in Sessions, BadRequest(s)
  PROVE  ProxyInv' /\ [Service!Next]_(Service!svars)
<1> DEFINE r == [sess[s] EXCEPT !.stage = "reply"]
<1>0. SessionInv /\ sess \in [Sessions -> Session] /\ sess[s] \in Session
  BY Zenon DEF ProxyInv, SessionInv
<1>1. sess[s].stage = "reading" /\ sess[s].mirror = "none" /\ sess[s].ref = 1
  BY <1>0 DEF SessionInv, SessionShape, SessionRefs, Open, BadRequest
<1>2. /\ r \in Session /\ r.stage = "reply" /\ r.ref = 1 /\ r.src = sess[s].src
      /\ r.mirror = "none" /\ r.up = sess[s].up
      /\ r.tokens = sess[s].tokens /\ r.closed = sess[s].closed
  BY <1>0, <1>1, Zenon DEF Session, Stages
<1>3. sess' = [sess EXCEPT ![s] = r] /\ running = NoSession
      /\ UNCHANGED <<conf, list, nconns, bySrc, running, srv>> /\ ~srv.on
  BY Zenon DEF BadRequest, Idle
<1> HIDE DEF r
<1>4. Kept(s, r)
  BY <1>0, <1>1, <1>2, <1>3, SessionAssumption, SMTT(30) DEF Kept, Asks
<1>5. Moved(sess[s], r)
  <2>1. \A u \in Ups : Loaded(r, u) = Loaded(sess[s], u)
    BY <1>1, <1>2, Zenon DEF Loaded
  <2> QED
    BY <1>0, <1>2, <1>3, <2>1, StayPut, ZenonT(60)
<1> QED
  BY <1>3, <1>4, <1>5, KeptStep, Zenon

(* The mirror has its reference before the master is asked.                *)
LEMMA RequestStep ==
  ASSUME ProxyInv, NEW s \in Sessions, NEW m \in MirrorKinds, Request(s, m)
  PROVE  ProxyInv' /\ [Service!Next]_(Service!svars)
<1> DEFINE k == IF m = "none" THEN sess[s].ref ELSE sess[s].ref + 1
           q == OpenMirrors(sess[s], m)
           r == [q EXCEPT !.stage = "select"]
<1>0. SessionInv /\ sess \in [Sessions -> Session] /\ sess[s] \in Session
  BY Zenon DEF ProxyInv, SessionInv
<1>1. sess[s].stage = "reading" /\ sess[s].mirror = "none" /\ sess[s].ref = 1
  BY <1>0 DEF SessionInv, SessionShape, SessionRefs, Open, Request
<1>2. k \in Nat /\ k = 1 + (IF m = "none" THEN 0 ELSE 1)
  BY <1>1
<1>3. sess' = [sess EXCEPT ![s] = r] /\ running' = s
      /\ UNCHANGED <<conf, list, nconns, bySrc, srv>> /\ ~srv.on
  BY Zenon DEF Request, Idle
<1> HIDE DEF k
<1>4. /\ q \in Session /\ q.ref = k /\ q.src = sess[s].src
      /\ q.mirror = m /\ q.up = sess[s].up
      /\ q.tokens = sess[s].tokens /\ q.closed = sess[s].closed
  <2>1. q = [sess[s] EXCEPT !.mirror = m, !.ref = k]
    BY Zenon DEF OpenMirrors, k
  <2> HIDE DEF q
  <2> QED
    BY <1>0, <1>2, <2>1, ZenonT(60) DEF Session
<1> HIDE DEF q
<1>5. /\ r \in Session /\ r.stage = "select" /\ r.ref = k /\ r.src = sess[s].src
      /\ r.mirror = m /\ r.up = sess[s].up
      /\ r.tokens = sess[s].tokens /\ r.closed = sess[s].closed
  BY <1>4, ZenonT(60) DEF Session, Stages
<1> HIDE DEF r
<1>6. Kept(s, r)
  BY <1>0, <1>1, <1>2, <1>3, <1>5, ZenonT(60) DEF Kept, Asks
<1>7. Moved(sess[s], r)
  <2>1. \A u \in Ups : Loaded(r, u) = Loaded(sess[s], u)
    BY <1>1, <1>5, Zenon DEF Loaded
  <2> QED
    BY <1>0, <1>3, <1>5, <2>1, StayPut, ZenonT(60)
<1> QED
  BY <1>3, <1>6, <1>7, KeptStep, ZenonT(60)

(* The end of a mirror is the end of a session that lingers for it.        *)
LEMMA MirrorDoneStep ==
  ASSUME ProxyInv, NEW s \in Sessions, MirrorDone(s)
  PROVE  ProxyInv' /\ [Service!Next]_(Service!svars)
<1> DEFINE q == [sess[s] EXCEPT !.mirror = "none"]
           r == [q EXCEPT !.ref = @ - 1]
<1>0. SessionInv /\ sess \in [Sessions -> Session] /\ sess[s] \in Session
  BY DEF ProxyInv, SessionInv
<1>1. /\ sess[s].mirror # "none" /\ sess[s].stage \notin {"free", "reading"}
      /\ sess[s].ref = IF sess[s].stage = "lingering" THEN 1 ELSE 2
  BY <1>0 DEF SessionInv, SessionShape, SessionRefs, Open, MirrorDone, NewSession
<1>2. /\ UNCHANGED <<conf, list, running, srv>> /\ ~srv.on /\ running = NoSession
      /\ UnrefSession(s, q) /\ q.ref = sess[s].ref
  BY <1>0, Zenon DEF MirrorDone, Idle, Session
<1>3. CASE sess[s].stage = "lingering"
  <2>1. Closed(s)
    BY <1>1, <1>2, <1>3, Zenon DEF UnrefSession, Closed
  <2>2. Moved(sess[s], NewSession)
    <3>1. NewSession \in Session /\ NewSession.stage = "free"
      BY DEF NewSession, Session, Stages, MirrorKinds
    <3>2. \A u \in Ups : Loaded(NewSession, u) = Loaded(sess[s], u)
      BY <1>3, <3>1, Zenon DEF Loaded
    <3> QED
      BY <1>0, <1>2, <3>1, <3>2, StayPut, ZenonT(60)
  <2> QED
    BY <1>2, <2>1, <2>2, ClosedStep, ZenonT(60)
<1>4. CASE sess[s].stage # "lingering"
  <2>1. sess' = [sess EXCEPT ![s] = r] /\ UNCHANGED <<nconns, bySrc>>
    BY <1>1, <1>2, <1>4, SMTT(30) DEF UnrefSession
  <2>2. /\ r \in Session /\ r.stage = sess[s].stage /\ r.ref = 1
        /\ r.src = sess[s].src /\ r.mirror = "none" /\ r.up = sess[s].up
        /\ r.tokens = sess[s].tokens /\ r.closed = sess[s].closed
    <3>1. /\ q \in Session /\ q.stage = sess[s].stage /\ q.ref = 2
          /\ q.src = sess[s].src /\ q.mirror = "none" /\ q.up = sess[s].up
          /\ q.tokens = sess[s].tokens /\ q.closed = sess[s].closed
      BY <1>0, <1>1, <1>4, ZenonT(60) DEF Session, MirrorKinds
    <3> HIDE DEF q
    <3> QED
      BY <3>1 DEF Session
  <2> HIDE DEF r
  <2>3. Kept(s, r)
    BY <1>0, <1>1, <1>2, <1>4, <2>1, <2>2, SessionAssumption, SMTT(30)
       DEF Kept, SessionInv, SessionShape
  <2>4. Moved(sess[s], r)
    <3>1. \A u \in Ups : Loaded(r, u) = Loaded(sess[s], u)
      BY <2>2, Zenon DEF Loaded
    <3> QED
      BY <1>0, <1>2, <2>2, <3>1, StayPut, ZenonT(60)
  <2> QED
    BY <1>2, <2>3, <2>4, KeptStep, ZenonT(60)
<1> QED
  BY <1>3, <1>4, Zenon

-----------------------------------------------------------------------------
(* The loop of proxy_send_master_message.                                  *)
LEMMA ConfType ==
  ASSUME SessionInv
  PROVE  conf.refills \subseteq Nat /\ conf.dns \subseteq Nat
         /\ conf.conns \in Nat /\ conf.per_source \in Nat
<1>1. conf \in Config
  BY SessionAssumption, Zenon DEF SessionInv
<1> QED
  BY <1>1 DEF Config

(* Every upstream that a handler can be given is one of the list.          *)
LEMMA SelectionInv ==
  ASSUME ProxyInv, NEW s \in Sessions
  PROVE  \A c \in Selection(sess[s]) : Chosen(c, list)
<1>0. ListInv(list) /\ conf.refills \subseteq Nat /\ TokenCost \in Nat
  BY ConfType, SessionAssumption, Zenon DEF ProxyInv
<1>1. CASE list.rot = "token_bucket"
  <2> SUFFICES ASSUME NEW add \in [Alive(list) -> conf.refills]
               PROVE  Chosen(GetTokens(list, Except(sess[s]), TokenCost, add), list)
    BY <1>1, Zenon DEF Selection
  <2>1. add \in [Alive(list) -> Nat]
    BY <1>0, Zenon
  <2> QED
    BY <1>0, <2>1, GetTokensInv, Zenon
<1>2. CASE list.rot # "token_bucket"
  BY <1>0, <1>2, GetInv, ZenonT(60) DEF Selection
<1> QED
  BY <1>1, <1>2, Zenon

(* A session that is being answered keeps its references.                  *)
LEMMA AnsweredFacts ==
  ASSUME NEW r \in Session
  PROVE  /\ Answered(r) \in Session /\ Answered(r).stage = "reply"
         /\ Answered(r).ref = r.ref /\ Answered(r).src = r.src
         /\ Answered(r).mirror = r.mirror
<1> DEFINE owes == r.tokens > 0 /\ ~r.closed
           p == IF owes THEN r.up ELSE NoUp
           t == IF owes THEN r.tokens ELSE 0
           a == [r EXCEPT !.stage = "reply", !.retries = 0, !.up = p, !.tokens = t]
<1>1. Answered(r) = a
  BY Zenon DEF Answered
<1>2. p \in Ups \cup {NoUp} /\ t \in Nat
  BY DEF Session
<1> HIDE DEF p, t
<1>3. /\ a \in Session /\ a.stage = "reply" /\ a.ref = r.ref /\ a.src = r.src
      /\ a.mirror = r.mirror
  BY <1>2, Zenon DEF Session, Stages
<1> HIDE DEF a
<1> QED
  BY <1>1, <1>3, Zenon

(* A session whose handler is choosing a backend.                          *)
LEMMA Selecting ==
  ASSUME ProxyInv, NEW s \in Sessions, running = s
  PROVE  /\ SessionInv /\ sess \in [Sessions -> Session] /\ sess[s] \in Session
         /\ sess[s].stage = "select" /\ ~srv.on
         /\ sess[s].ref = 1 + (IF sess[s].mirror = "none" THEN 0 ELSE 1)
         /\ \A u : Loaded(sess[s], u) = 0
<1>1. SessionInv /\ sess \in [Sessions -> Session] /\ sess[s] \in Session
  BY Zenon DEF ProxyInv, SessionInv
<1>2. sess[s].stage = "select"
  BY <1>1, Zenon DEF SessionInv, SessionShape
<1>3. ~srv.on
  BY SessionAssumption, Zenon DEF ProxyInv, SrvInv
<1> QED
  BY <1>1, <1>2, <1>3, Zenon DEF SessionInv, SessionRefs, Open, Loaded

(* It answers with an error ...                                            *)
LEMMA GiveUpKept ==
  ASSUME ProxyInv, NEW s \in Sessions, running = s, NEW q \in Session,
         q.ref = sess[s].ref, q.src = sess[s].src, q.mirror = sess[s].mirror,
         GiveUp(s, q), UNCHANGED <<conf, nconns, bySrc>>
  PROVE  Kept(s, Answered(q))
<1>1. /\ sess' = [sess EXCEPT ![s] = Answered(q)] /\ running' = NoSession
      /\ NoSession \notin Sessions
  BY SessionAssumption, Zenon DEF GiveUp
<1> QED
  BY <1>1, Selecting, AnsweredFacts, SMTT(30) DEF Kept, Asks

(* The retries are used up.                                                *)
LEMMA TooManyRetriesStep ==
  ASSUME ProxyInv, NEW s \in Sessions, TooManyRetries(s)
  PROVE  ProxyInv' /\ [Service!Next]_(Service!svars)
<1> DEFINE r == Answered(sess[s])
<1>0. running = s /\ GiveUp(s, sess[s]) /\ UNCHANGED <<conf, list, nconns, bySrc, srv>>
  BY Zenon DEF TooManyRetries
<1>1. Kept(s, r)
  BY <1>0, Selecting, GiveUpKept, Zenon
<1>2. Moved(sess[s], r)
  <2>2. \A u \in Ups : Loaded(r, u) = Loaded(sess[s], u)
    BY <1>0, Selecting, AnsweredFacts, Zenon DEF Loaded
  <2> QED
    BY <1>0, <2>2, StayPut, Selecting, AnsweredFacts, ZenonT(60)
<1> QED
  BY <1>0, <1>1, <1>2, Selecting, KeptStep, ZenonT(60)

(* ... or with what the selection and the library made of the list.        *)
LEMMA ChosenMoved ==
  ASSUME ProxyInv, NEW s \in Sessions, running = s, NEW r \in Session,
         NEW c, Chosen(c, list), ListInv(list'),
         \A u \in Ups : list'.up[u].inflight
           <= IF u = c.up /\ r.stage # "waiting" THEN Less(c.list.up[u].inflight, 1)
              ELSE c.list.up[u].inflight,
         r.stage = "waiting" => r.up = c.up
  PROVE  Moved(sess[s], r)
<1>1. \A u \in Ups : /\ list.up[u].inflight \in Nat /\ list'.up[u].inflight \in Nat
                     /\ c.list.up[u].inflight \in Nat
  BY UpTyped, Zenon DEF ProxyInv, Upstream, Chosen
<1>2. ASSUME NEW u \in Ups
      PROVE  list'.up[u].inflight
               <= Less(list.up[u].inflight + Loaded(r, u), Loaded(sess[s], u))
  <2>1. Loaded(sess[s], u) = 0
    BY Selecting, Zenon
  <2>2. Loaded(r, u) = IF r.stage = "waiting" /\ u = c.up THEN 1 ELSE 0
    BY Zenon DEF Loaded
  <2>3. c.list.up[u].inflight
          <= IF u = c.up THEN list.up[u].inflight + 1 ELSE list.up[u].inflight
    BY <1>1 DEF Chosen
  <2> DEFINE i == list.up[u].inflight
             j == list'.up[u].inflight
             k == c.list.up[u].inflight
             asks == r.stage = "waiting"
             it == u = c.up
  <2>4. i \in Nat /\ j \in Nat /\ k \in Nat
    BY <1>1, Zenon
  <2>5. k <= IF it THEN i + 1 ELSE i
    BY <2>3, Zenon
  <2>6. j <= IF it /\ ~asks THEN Less(k, 1) ELSE k
    BY Zenon
  <2> HIDE DEF i, j, k, asks, it
  <2>7. j <= Less(i + (IF asks /\ it THEN 1 ELSE 0), 0)
    BY <2>4, <2>5, <2>6, SMTT(30) DEF Less
  <2> QED
    BY <2>1, <2>2, <2>7, ZenonT(60) DEF i, j, asks, it
<1> QED
  BY <1>2, Zenon DEF Moved

(* There is no upstream.                                                   *)
LEMMA NoUpstreamStep ==
  ASSUME ProxyInv, NEW s \in Sessions, NoUpstream(s)
  PROVE  ProxyInv' /\ [Service!Next]_(Service!svars)
<1> DEFINE q == [sess[s] EXCEPT !.up = NoUp, !.tokens = 0]
           r == Answered(q)
<1>0. running = s /\ GiveUp(s, q) /\ UNCHANGED <<conf, nconns, bySrc, srv>>
  BY DEF NoUpstream
<1>1. PICK c \in Selection(sess[s]) : c.up = NoUp /\ list' = c.list
  BY DEF NoUpstream
<1>2. /\ q \in Session /\ q.tokens = 0 /\ q.ref = sess[s].ref
      /\ q.src = sess[s].src /\ q.mirror = sess[s].mirror
  BY <1>0, Selecting, ZenonT(60) DEF Session
<1> HIDE DEF q
<1>3. Kept(s, r)
  BY <1>0, <1>2, GiveUpKept, ZenonT(60)
<1>4. r \in Session /\ r.stage = "reply"
  BY <1>2, AnsweredFacts, SMTT(30)
<1> HIDE DEF r
<1>5. Moved(sess[s], r)
  <2>1. Chosen(c, list)
    BY SelectionInv, Zenon
  <2>2. /\ ListInv(list')
        /\ \A u \in Ups : u # c.up /\ list'.up[u].inflight \in Nat
    BY <1>1, <2>1, UpTyped, UpsAssumption, ZenonT(60) DEF Chosen, Upstream
  <2>3. \A u \in Ups : list'.up[u].inflight
           <= IF u = c.up /\ r.stage # "waiting" THEN Less(c.list.up[u].inflight, 1)
              ELSE c.list.up[u].inflight
    BY <1>1, <2>2, SMTT(30)
  <2> QED
    BY <1>0, <1>4, <2>1, <2>2, <2>3, ChosenMoved, ZenonT(60)
<1> QED
  BY <1>0, <1>3, <1>5, Selecting, KeptStep, ZenonT(60)

(* The message cannot be sent: the request is taken back.                  *)
LEMMA CannotSendStep ==
  ASSUME ProxyInv, NEW s \in Sessions, CannotSend(s)
  PROVE  ProxyInv' /\ [Service!Next]_(Service!svars)
<1>0. running = s /\ UNCHANGED <<conf, nconns, bySrc, srv>>
  BY Zenon DEF CannotSend
<1>1. PICK c \in Selection(sess[s]) :
        /\ c.up # NoUp /\ list' = Release(c.list, c.up)
        /\ GiveUp(s, [sess[s] EXCEPT !.up = c.up, !.tokens = Reserved])
  BY ZenonT(60) DEF CannotSend
<1> DEFINE q == [sess[s] EXCEPT !.up = c.up, !.tokens = Reserved]
           r == Answered(q)
<1>2. Chosen(c, list) /\ c.up \in Ups /\ Reserved \in Nat /\ ListInv(c.list)
  BY <1>1, SelectionInv, SessionAssumption, ZenonT(60) DEF Chosen, Reserved
<1>3. /\ q \in Session /\ q.up = c.up /\ q.ref = sess[s].ref
      /\ q.src = sess[s].src /\ q.mirror = sess[s].mirror
  BY <1>0, <1>2, Selecting, ZenonT(60) DEF Session
<1>4. GiveUp(s, q)
  BY <1>1, Zenon
<1> HIDE DEF q
<1>5. Kept(s, r)
  BY <1>0, <1>3, <1>4, GiveUpKept, ZenonT(60)
<1>6. r \in Session /\ r.stage = "reply"
  BY <1>3, AnsweredFacts, ZenonT(60)
<1> HIDE DEF r
<1>7. Moved(sess[s], r)
  <2>1. ListInv(list') /\ Tame(list', c.list)
        /\ list'.up[c.up] = [c.list.up[c.up] EXCEPT !.inflight = Less(@, 1)]
    BY <1>1, <1>2, ReleaseInv, ZenonT(60)
  <2>3. \A u \in Ups : list'.up[u].inflight \in Nat /\ c.list.up[u] \in Upstream
    BY <1>2, <2>1, UpTyped, ZenonT(60) DEF Upstream
  <2>4. list'.up[c.up].inflight <= Less(c.list.up[c.up].inflight, 1)
    BY <1>2, <2>1, <2>3, SMTT(30) DEF Upstream
  <2>5. \A u \in Ups : list'.up[u].inflight
           <= IF u = c.up /\ r.stage # "waiting" THEN Less(c.list.up[u].inflight, 1)
              ELSE c.list.up[u].inflight
    BY <2>1, <2>4, ZenonT(60) DEF Tame
  <2> QED
    BY <1>0, <1>2, <1>6, <2>1, <2>5, ChosenMoved, ZenonT(60)
<1> QED
  BY <1>0, <1>5, <1>7, Selecting, KeptStep, ZenonT(60)

(* connect fails: the failure takes the request back.                      *)
LEMMA CannotConnectStep ==
  ASSUME ProxyInv, NEW s \in Sessions, CannotConnect(s)
  PROVE  ProxyInv' /\ [Service!Next]_(Service!svars)
<1>0. running = s /\ UNCHANGED <<conf, nconns, bySrc, running, srv>>
  BY Zenon DEF CannotConnect
<1>1. PICK c \in Selection(sess[s]), v \in Verdicts, n \in conf.dns :
        /\ c.up # NoUp /\ list' = Fail(c.list, c.up, v, n)
        /\ sess' = [sess EXCEPT ![s].up = c.up, ![s].tokens = Reserved,
                                ![s].retries = @ + 1]
  BY ZenonT(60) DEF CannotConnect
<1> DEFINE r == [sess[s] EXCEPT !.up = c.up, !.tokens = Reserved, !.retries = @ + 1]
<1>2. Chosen(c, list) /\ c.up \in Ups /\ Reserved \in Nat /\ ListInv(c.list)
  BY <1>1, SelectionInv, SessionAssumption, Zenon DEF Chosen, Reserved
<1>3. sess' = [sess EXCEPT ![s] = r]
  BY <1>1, <1>0, Selecting, ZenonT(60)
<1>4. /\ r \in Session /\ r.stage = "select" /\ r.ref = sess[s].ref
      /\ r.src = sess[s].src /\ r.mirror = sess[s].mirror /\ r.up = c.up
  <2> DEFINE k == sess[s].retries + 1
  <2>1. k \in Nat /\ sess[s] \in Session /\ sess[s].stage = "select"
    BY <1>0, Selecting, SMTT(30) DEF Session
  <2>2. r = [sess[s] EXCEPT !.up = c.up, !.tokens = Reserved, !.retries = k]
    BY Zenon
  <2> HIDE DEF k, r
  <2> QED
    BY <1>2, <2>1, <2>2, ZenonT(60) DEF Session
<1> HIDE DEF r
<1>5. Kept(s, r)
  BY <1>0, <1>3, <1>4, Selecting, ZenonT(60) DEF Kept, Asks
<1>6. Moved(sess[s], r)
  <2>1. n \in Nat
    BY ConfType, Zenon DEF ProxyInv
  <2>2. ListInv(list') /\ Tame(list', c.list)
        /\ list'.up[c.up].inflight <= Less(c.list.up[c.up].inflight, 1)
    BY <1>1, <1>2, <2>1, FailInv, ZenonT(60)
  <2>4. \A u \in Ups : list'.up[u].inflight
           <= IF u = c.up /\ r.stage # "waiting" THEN Less(c.list.up[u].inflight, 1)
              ELSE c.list.up[u].inflight
    BY <2>2, Zenon DEF Tame
  <2> QED
    BY <1>0, <1>2, <1>4, <2>2, <2>4, ChosenMoved, ZenonT(60)
<1> QED
  BY <1>0, <1>5, <1>6, Selecting, KeptStep, ZenonT(60)

(* The request is out, and counted.                                        *)
LEMMA SentStep ==
  ASSUME ProxyInv, NEW s \in Sessions, Sent(s)
  PROVE  ProxyInv' /\ [Service!Next]_(Service!svars)
<1>0. running = s /\ running' = NoSession /\ UNCHANGED <<conf, nconns, bySrc, srv>>
  BY Zenon DEF Sent
<1>1. PICK c \in Selection(sess[s]) :
        /\ c.up # NoUp /\ list' = c.list
        /\ sess' = [sess EXCEPT ![s].stage = "waiting", ![s].up = c.up,
                                ![s].tokens = Reserved, ![s].closed = FALSE]
  BY ZenonT(60) DEF Sent
<1> DEFINE r == [sess[s] EXCEPT !.stage = "waiting", !.up = c.up,
                                !.tokens = Reserved, !.closed = FALSE]
<1>2. Chosen(c, list) /\ c.up \in Ups /\ Reserved \in Nat /\ ListInv(c.list)
  BY <1>1, SelectionInv, SessionAssumption, ZenonT(60) DEF Chosen, Reserved
<1>3. sess' = [sess EXCEPT ![s] = r]
  BY <1>1, <1>0, Selecting, ZenonT(60)
<1>4. /\ r \in Session /\ r.stage = "waiting" /\ r.ref = sess[s].ref
      /\ r.src = sess[s].src /\ r.mirror = sess[s].mirror /\ r.up = c.up
  BY <1>0, <1>2, Selecting, ZenonT(60) DEF Session, Stages
<1> HIDE DEF r
<1>5. Kept(s, r)
  BY <1>0, <1>2, <1>3, <1>4, Selecting, SessionAssumption, ZenonT(60) DEF Kept, Asks
<1>6. Moved(sess[s], r)
  <2>1. /\ ListInv(list')
        /\ \A u \in Ups : list'.up[u].inflight \in Nat
    BY <1>1, <1>2, UpTyped, ZenonT(60) DEF Upstream
  <2>2. \A u \in Ups : list'.up[u].inflight
           <= IF u = c.up /\ r.stage # "waiting" THEN Less(c.list.up[u].inflight, 1)
              ELSE c.list.up[u].inflight
    BY <1>1, <1>4, <2>1, SMTT(30)
  <2> QED
    BY <1>0, <1>2, <1>4, <2>1, <2>2, ChosenMoved, ZenonT(60)
<1> QED
  BY <1>0, <1>5, <1>6, Selecting, KeptStep, ZenonT(60)

-----------------------------------------------------------------------------
(* The answers of the backends.                                            *)
LEMMA Waiting ==
  ASSUME ProxyInv, NEW s \in Sessions, sess[s].stage = "waiting", Idle
  PROVE  /\ SessionInv /\ sess \in [Sessions -> Session] /\ sess[s] \in Session
         /\ sess[s].up \in Ups /\ ~srv.on /\ running = NoSession
         /\ NoSession \notin Sessions
         /\ sess[s].ref = 1 + (IF sess[s].mirror = "none" THEN 0 ELSE 1)
         /\ \A u : Loaded(sess[s], u) = IF u = sess[s].up THEN 1 ELSE 0
<1>1. SessionInv /\ sess \in [Sessions -> Session] /\ sess[s] \in Session
  BY Zenon DEF ProxyInv, SessionInv
<1>2. ~srv.on /\ running = NoSession /\ NoSession \notin Sessions
  BY SessionAssumption, Zenon DEF Idle
<1> QED
  BY <1>1, <1>2, Zenon DEF SessionInv, SessionShape, SessionRefs, Open, Loaded

(* An answer, or an error, of the backend ends the request.                *)
LEMMA ServedMoved ==
  ASSUME ProxyInv, NEW s \in Sessions, sess[s].stage = "waiting", Idle,
         NEW r \in Session, r.stage # "waiting", r.tokens = 0,
         NEW M, ListInv(M), Tame(M, list), ListInv(list'), Tame(list', M),
         list'.up[sess[s].up].inflight <= Less(M.up[sess[s].up].inflight, 1)
  PROVE  Moved(sess[s], r)
<1>1. \A u \in Ups : /\ list.up[u].inflight \in Nat /\ list'.up[u].inflight \in Nat
                     /\ M.up[u].inflight \in Nat
  BY UpTyped, ZenonT(60) DEF ProxyInv, Upstream
<1>2. ASSUME NEW u \in Ups
      PROVE  list'.up[u].inflight
               <= Less(list.up[u].inflight + Loaded(r, u), Loaded(sess[s], u))
  <2>1. Loaded(r, u) = 0
    BY Zenon DEF Loaded
  <2> DEFINE i == list.up[u].inflight
             j == list'.up[u].inflight
             k == M.up[u].inflight
             it == u = sess[s].up
  <2>2. i \in Nat /\ j \in Nat /\ k \in Nat
    BY <1>1, Zenon
  <2>3. k <= i /\ j <= k /\ (it => j <= Less(k, 1))
    BY Zenon DEF Tame
  <2>4. Loaded(sess[s], u) = IF it THEN 1 ELSE 0
    BY Waiting, ZenonT(60)
  <2> HIDE DEF i, j, k, it
  <2>5. j <= Less(i + 0, IF it THEN 1 ELSE 0)
    BY <2>2, <2>3, SMTT(30) DEF Less
  <2> QED
    BY <2>1, <2>4, <2>5, ZenonT(60) DEF i, j
<1> QED
  BY <1>2, Zenon DEF Moved

(* Closing the follow_master mirrors gives back their reference.           *)
LEMMA CloseFollowersFacts ==
  ASSUME NEW q \in Session, q.ref = 1 + (IF q.mirror = "none" THEN 0 ELSE 1)
  PROVE  LET r == CloseFollowers(q)
         IN  /\ r \in Session /\ r.src = q.src /\ r.tokens = q.tokens
             /\ r.ref = 1 + (IF r.mirror = "none" THEN 0 ELSE 1)
<1>1. CASE q.mirror = "follow"
  <2> DEFINE r == [q EXCEPT !.mirror = "none", !.ref = 1]
  <2>1. CloseFollowers(q) = r
    BY <1>1, SMTT(30) DEF CloseFollowers, Session
  <2>2. r \in Session /\ r.src = q.src /\ r.tokens = q.tokens
        /\ r.ref = 1 /\ r.mirror = "none"
    BY ZenonT(60) DEF Session, MirrorKinds
  <2> QED
    BY <2>1, <2>2, SMTT(30)
<1>2. CASE q.mirror # "follow"
  BY <1>2, Zenon DEF CloseFollowers
<1> QED
  BY <1>1, <1>2, Zenon

(* The answer of the backend is passed on.                                 *)
LEMMA AnsweredKept ==
  ASSUME ProxyInv, NEW s \in Sessions, sess[s].stage = "waiting", Idle,
         NEW q \in Session, q.ref = sess[s].ref, q.src = sess[s].src,
         q.mirror = sess[s].mirror, q.tokens = 0,
         sess' = [sess EXCEPT ![s] = Answered(CloseFollowers(q))],
         UNCHANGED <<conf, nconns, bySrc, running>>
  PROVE  /\ Kept(s, Answered(CloseFollowers(q)))
         /\ Answered(CloseFollowers(q)) \in Session
         /\ Answered(CloseFollowers(q)).stage = "reply"
         /\ Answered(CloseFollowers(q)).tokens = 0
<1> DEFINE f == CloseFollowers(q)
<1>1. /\ f \in Session /\ f.src = sess[s].src /\ f.tokens = 0
      /\ f.ref = 1 + (IF f.mirror = "none" THEN 0 ELSE 1)
  BY Waiting, CloseFollowersFacts, ZenonT(60)
<1> HIDE DEF f
<1>2. Answered(f).tokens = 0
  BY <1>1, Zenon DEF Answered, Session
<1>3. Kept(s, Answered(f))
  <2>1. sess' = [sess EXCEPT ![s] = Answered(f)]
    BY Zenon DEF f
  <2> QED
    BY <1>1, <2>1, Waiting, AnsweredFacts, ZenonT(60) DEF Kept, Asks
<1> QED
  BY <1>1, <1>2, <1>3, AnsweredFacts, ZenonT(60) DEF f

(* The master request fails: it is retried, or the error is the answer.    *)
LEMMA BackendErrorStep ==
  ASSUME ProxyInv, NEW s \in Sessions, NEW v \in Verdicts, NEW n \in conf.dns,
         NEW add \in conf.refills, BackendError(s, v, n, add)
  PROVE  ProxyInv' /\ [Service!Next]_(Service!svars)
<1> DEFINE q == [sess[s] EXCEPT !.retries = @ + 1, !.tokens = 0, !.closed = TRUE]
           M == ReturnTokens(list, sess[s].up, sess[s].tokens, FALSE, add)
<1>0. Idle /\ sess[s].stage = "waiting" /\ UNCHANGED <<conf, nconns, bySrc, srv>>
  BY DEF BackendError
<1>1. /\ q \in Session /\ q.stage = "waiting" /\ q.ref = sess[s].ref
      /\ q.src = sess[s].src /\ q.mirror = sess[s].mirror /\ q.up = sess[s].up
      /\ q.tokens = 0
  <2> DEFINE k == sess[s].retries + 1
  <2>1. k \in Nat /\ sess[s] \in Session
    BY <1>0, Waiting, SMTT(30) DEF Session
  <2>2. q = [sess[s] EXCEPT !.retries = k, !.tokens = 0, !.closed = TRUE]
    BY Zenon
  <2> HIDE DEF k, q
  <2> QED
    BY <1>0, <2>1, <2>2, ZenonT(60) DEF Session
<1>2. /\ list' = Fail(M, sess[s].up, v, n)
      /\ \/ /\ sess' = [sess EXCEPT ![s] = Answered(CloseFollowers(q))]
            /\ UNCHANGED running
         \/ /\ sess' = [sess EXCEPT ![s] = [q EXCEPT !.stage = "select"]]
            /\ running' = s
  BY <1>1, Zenon DEF BackendError
<1> HIDE DEF q
<1>3. /\ ListInv(M) /\ Tame(M, list) /\ ListInv(list') /\ Tame(list', M)
      /\ list'.up[sess[s].up].inflight <= Less(M.up[sess[s].up].inflight, 1)
  <2>1. sess[s].up \in Ups /\ sess[s].tokens \in Nat /\ add \in Nat /\ n \in Nat
        /\ ListInv(list)
    BY <1>0, Waiting, ConfType, ZenonT(60) DEF Session, ProxyInv
  <2>2. ListInv(M) /\ Tame(M, list)
    BY <2>1, ReturnTokensInv, ZenonT(60)
  <2> HIDE DEF M
  <2> QED
    BY <1>2, <2>1, <2>2, FailInv, ZenonT(60)
<1> HIDE DEF M
<1>4. CASE sess' = [sess EXCEPT ![s] = Answered(CloseFollowers(q))]
           /\ UNCHANGED running
  <2> DEFINE r == Answered(CloseFollowers(q))
  <2>1. Kept(s, r) /\ r \in Session /\ r.stage = "reply" /\ r.tokens = 0
    BY <1>0, <1>1, <1>4, AnsweredKept, ZenonT(60)
  <2> HIDE DEF r
  <2>2. Moved(sess[s], r)
    BY <1>0, <1>3, <2>1, ServedMoved, ZenonT(60)
  <2> QED
    BY <1>0, <2>1, <2>2, Waiting, KeptStep, ZenonT(60)
<1>5. CASE sess' = [sess EXCEPT ![s] = [q EXCEPT !.stage = "select"]] /\ running' = s
  <2> DEFINE r == [q EXCEPT !.stage = "select"]
  <2>1. /\ r \in Session /\ r.stage = "select" /\ r.tokens = 0 /\ r.ref = sess[s].ref
        /\ r.src = sess[s].src /\ r.mirror = sess[s].mirror
    BY <1>1, Zenon DEF Session, Stages
  <2>2. sess' = [sess EXCEPT ![s] = r]
    BY <1>5, Zenon
  <2> HIDE DEF r
  <2>3. Kept(s, r)
    BY <1>0, <1>5, <2>1, <2>2, Waiting, ZenonT(60) DEF Kept, Asks
  <2>4. Moved(sess[s], r)
    BY <1>0, <1>3, <2>1, ServedMoved, ZenonT(60)
  <2> QED
    BY <1>0, <2>3, <2>4, Waiting, KeptStep, ZenonT(60)
<1> QED
  BY <1>2, <1>4, <1>5, ZenonT(60)

(* The master request is answered.                                         *)
LEMMA BackendReplyStep ==
  ASSUME ProxyInv, NEW s \in Sessions, NEW add \in conf.refills, BackendReply(s, add)
  PROVE  ProxyInv' /\ [Service!Next]_(Service!svars)
<1> DEFINE q == [sess[s] EXCEPT !.tokens = 0]
           M == ReturnTokens(list, sess[s].up, sess[s].tokens, TRUE, add)
           r == Answered(CloseFollowers(q))
<1>0. /\ Idle /\ sess[s].stage = "waiting"
      /\ UNCHANGED <<conf, nconns, bySrc, running, srv>>
      /\ list' = Ok(M, sess[s].up) /\ sess' = [sess EXCEPT ![s] = r]
  BY Zenon DEF BackendReply
<1>1. /\ q \in Session /\ q.ref = sess[s].ref /\ q.src = sess[s].src
      /\ q.mirror = sess[s].mirror /\ q.tokens = 0
  BY <1>0, Waiting, ZenonT(60) DEF Session
<1> HIDE DEF q
<1>2. Kept(s, r) /\ r \in Session /\ r.stage = "reply" /\ r.tokens = 0
  BY <1>0, <1>1, AnsweredKept, ZenonT(60)
<1> HIDE DEF r
<1>3. sess[s].up \in Ups /\ sess[s].tokens \in Nat /\ add \in Nat /\ ListInv(list)
  BY <1>0, Waiting, ConfType, Zenon DEF Session, ProxyInv
<1>4. ListInv(M) /\ Tame(M, list)
  BY <1>3, ReturnTokensInv, Zenon
<1> HIDE DEF M
<1>5. /\ ListInv(list') /\ Tame(list', M)
      /\ list'.up[sess[s].up].inflight <= Less(M.up[sess[s].up].inflight, 1)
  <2>1. sess[s].up \in Ups /\ ListInv(M) /\ list' = Ok(M, sess[s].up)
    BY <1>0, <1>3, <1>4, ZenonT(60)
  <2> QED
    BY <2>1, OkInv, Zenon
<1>6. Moved(sess[s], r)
  BY <1>0, <1>2, <1>4, <1>5, ServedMoved, ZenonT(60)
<1> QED
  BY <1>0, <1>2, <1>6, Waiting, KeptStep, ZenonT(60)

(* The client has its answer.                                              *)
LEMMA ReplyDoneStep ==
  ASSUME ProxyInv, NEW s \in Sessions, NEW add \in conf.refills, ReplyDone(s, add)
  PROVE  ProxyInv' /\ [Service!Next]_(Service!svars)
<1> DEFINE q == [CloseMaster(sess[s]) EXCEPT !.stage = "lingering"]
           r == [q EXCEPT !.ref = @ - 1]
<1>0. /\ Idle /\ sess[s].stage = "reply" /\ UNCHANGED <<conf, running, srv>>
      /\ list' = CloseList(list, sess[s], add) /\ UnrefSession(s, q)
      /\ ~srv.on /\ running = NoSession /\ NoSession \notin Sessions
  BY SessionAssumption, Zenon DEF ReplyDone, Idle
<1>1. /\ SessionInv /\ ListInv(list) /\ sess[s] \in Session
      /\ sess \in [Sessions -> Session] /\ add \in Nat
      /\ sess[s].ref = 1 + (IF sess[s].mirror = "none" THEN 0 ELSE 1)
  BY <1>0, ConfType, Zenon DEF ProxyInv, SessionInv, SessionRefs, Open
<1>2. /\ q \in Session /\ q.stage = "lingering" /\ q.tokens = 0
      /\ q.ref = sess[s].ref /\ q.src = sess[s].src /\ q.mirror = sess[s].mirror
  BY <1>1, ZenonT(60) DEF CloseMaster, Session, Stages
<1> HIDE DEF q
<1>3. ListInv(list') /\ Tame(list', list)
  <2>1. CASE sess[s].closed \/ sess[s].up = NoUp
    <3>1. list' = list /\ \A u \in Ups : list.up[u].inflight \in Nat
      BY <1>0, <1>1, <2>1, UpTyped, ZenonT(60) DEF CloseList, Upstream
    <3> QED
      BY <1>1, <3>1, SMTT(30) DEF Tame
  <2>2. CASE ~(sess[s].closed \/ sess[s].up = NoUp)
    <3>1. sess[s].up \in Ups /\ sess[s].tokens \in Nat
      BY <1>1, <2>2, ZenonT(60) DEF Session
    <3>2. list' = ReturnTokens(list, sess[s].up, sess[s].tokens, FALSE, add)
      BY <1>0, <2>2, ZenonT(60) DEF CloseList
    <3> QED
      BY <1>1, <3>1, <3>2, ReturnTokensInv, ZenonT(60)
  <2> QED
    BY <2>1, <2>2, Zenon
<1>4. ASSUME NEW t \in Session, t.stage # "waiting", t.tokens = 0
      PROVE  Moved(sess[s], t)
  <2>1. \A u \in Ups : Loaded(t, u) = 0 /\ Loaded(sess[s], u) = 0
    BY <1>0, <1>4, SMTT(30) DEF Loaded
  <2>3. \A u \in Ups : list'.up[u].inflight <= Less(list.up[u].inflight + 0, 0)
    <3>1. \A u \in Ups : list.up[u].inflight \in Nat /\ list'.up[u].inflight \in Nat
      BY <1>1, <1>3, UpTyped, Zenon DEF Upstream
    <3> QED
      BY <1>3, <3>1, SMTT(30) DEF Tame, Less
  <2> QED
    BY <1>3, <2>1, <2>3, ZenonT(60) DEF Moved
<1>5. CASE sess[s].mirror = "none"
  <2>1. Closed(s)
    BY <1>0, <1>1, <1>2, <1>5, SMTT(30) DEF UnrefSession, Closed
  <2>2. NewSession \in Session /\ NewSession.stage = "free" /\ NewSession.tokens = 0
    BY Zenon DEF NewSession, Session, Stages, MirrorKinds
  <2> QED
    BY <1>0, <1>4, <2>1, <2>2, ClosedStep, ZenonT(60)
<1>6. CASE sess[s].mirror # "none"
  <2>1. sess' = [sess EXCEPT ![s] = r] /\ UNCHANGED <<nconns, bySrc>>
    BY <1>0, <1>1, <1>2, <1>6, SMTT(30) DEF UnrefSession
  <2>2. /\ r \in Session /\ r.stage = "lingering" /\ r.ref = 1
        /\ r.src = sess[s].src /\ r.mirror = sess[s].mirror /\ r.tokens = 0
    BY <1>1, <1>2, <1>6, SMTT(30) DEF Session
  <2> HIDE DEF r
  <2>3. Kept(s, r)
    BY <1>0, <1>1, <1>6, <2>1, <2>2, SMTT(30) DEF Kept
  <2> QED
    BY <1>0, <1>4, <2>2, <2>3, KeptStep, ZenonT(60)
<1> QED
  BY <1>5, <1>6, Zenon

-----------------------------------------------------------------------------
(* The callbacks of the upstreams leave the sessions alone, and add no     *)
(* load.                                                                   *)
LEMMA ListStep ==
  ASSUME ProxyInv, UNCHANGED <<conf, sess, nconns, bySrc, running>>,
         ListInv(list'),
         \A u \in Ups : list'.up[u].inflight <= list.up[u].inflight,
         SrvInv'
  PROVE  ProxyInv' /\ [Service!Next]_(Service!svars)
<1>1. SessionInv'
  <2>1. SessionInv
    BY DEF ProxyInv
  <2>2. SessionShape'
    BY <2>1, Zenon DEF SessionInv, SessionShape
  <2>3. SessionRefs'
    BY <2>1, Zenon DEF SessionInv, SessionRefs, Open
  <2>4. SlotsAccounted'
    BY <2>1, Zenon DEF SessionInv, SlotsAccounted, Open
  <2> QED
    BY <2>1, <2>2, <2>3, <2>4, ZenonT(60) DEF SessionInv
<1>3. LoadInv'
  <2> SUFFICES ASSUME NEW u \in Ups
               PROVE  list'.up[u].inflight <= Cardinality(Asking(u)')
    BY Zenon DEF LoadInv
  <2>1. list.up[u].inflight \in Nat /\ list'.up[u].inflight \in Nat
    BY UpTyped, Zenon DEF ProxyInv, Upstream
  <2>2. Cardinality(Asking(u)) \in Nat /\ Asking(u)' = Asking(u)
    BY SessionAssumption, FS_Subset, FS_CardinalityType, ZenonT(60) DEF Asking
  <2> QED
    BY <2>1, <2>2, SMTT(30) DEF ProxyInv, LoadInv
<1>4. ListInv(list)'
  BY ZenonT(60) DEF ListInv, Shape, Indexed, Once, Fresh
<1>5. UNCHANGED Service!svars
  <2>1. \A s \in Sessions : ClientOf(s)' = ClientOf(s)
    BY Zenon DEF ClientOf
  <2> QED
    BY <2>1, Zenon DEF Service!svars
<1> QED
  BY <1>1, <1>3, <1>4, <1>5, ZenonT(60) DEF ProxyInv

(* While no SRV reply is applied, or none of the parent's DNS requests     *)
(* ends.                                                                   *)
LEMMA SrvKept ==
  ASSUME ProxyInv, UNCHANGED <<srv, running>>, ~srv.on
  PROVE  SrvInv'
BY Zenon DEF ProxyInv, SrvInv, SrvType

(* The revive timer of an upstream.                                        *)
LEMMA ReviveStep ==
  ASSUME ProxyInv, NEW u \in Ups, Revive(u)
  PROVE  ProxyInv' /\ [Service!Next]_(Service!svars)
<1>0. /\ list.up[u].timer = "revive" /\ list' = ReviveCb(list, u)
      /\ UNCHANGED <<conf, sess, nconns, bySrc, running, srv>> /\ ~srv.on
  BY Zenon DEF Revive, Idle
<1>1. /\ ListInv(list')
      /\ \A w \in Ups : list'.up[w].inflight <= list.up[w].inflight
  BY <1>0, ReviveCbInv, Zenon DEF ProxyInv
<1> QED
  BY <1>0, <1>1, SrvKept, ListStep, ZenonT(60)

(* A DNS callback, which may have the last reference to a drained member.  *)
LEMMA FreedStep ==
  ASSUME ProxyInv, NEW u \in Ups, ListInv(list'), Freed(list', list, u),
         UNCHANGED <<conf, sess, nconns, bySrc, running>>, SrvInv'
  PROVE  ProxyInv' /\ [Service!Next]_(Service!svars)
BY ListStep, Zenon DEF Freed

(* The reply of a name resolution.                                         *)
LEMMA DnsReplyStep ==
  ASSUME ProxyInv, NEW u \in Ups, NEW found \in BOOLEAN, DnsReply(u, found)
  PROVE  ProxyInv' /\ [Service!Next]_(Service!svars)
<1>0. /\ Kind[u] # "srv" /\ list.up[u].dns > 0 /\ list' = DnsCb(list, u, found)
      /\ UNCHANGED <<conf, sess, nconns, bySrc, running, srv>> /\ ~srv.on
  BY Zenon DEF DnsReply, Idle
<1>1. ListInv(list') /\ Freed(list', list, u)
  BY <1>0, DnsCbInv, Zenon DEF ProxyInv
<1> QED
  BY <1>0, <1>1, SrvKept, FreedStep, ZenonT(60)

(* An SRV lookup that fails.                                               *)
LEMMA SrvErrorStep ==
  ASSUME ProxyInv, NEW p \in Ups, SrvError(p)
  PROVE  ProxyInv' /\ [Service!Next]_(Service!svars)
<1>0. /\ list.up[p].dns > 0 /\ list' = Unref([list EXCEPT !.up[p].dns = @ - 1], p)
      /\ UNCHANGED <<conf, sess, nconns, bySrc, running, srv>> /\ ~srv.on
  BY Zenon DEF SrvError, Idle
<1>1. ListInv(list') /\ Freed(list', list, p)
  BY <1>0, SrvEndInv, Zenon DEF ProxyInv
<1> QED
  BY <1>0, <1>1, SrvKept, FreedStep, ZenonT(60)

(* The end of an SRV reply.                                                *)
LEMMA SrvDoneStep ==
  ASSUME ProxyInv, SrvDone
  PROVE  ProxyInv' /\ [Service!Next]_(Service!svars)
<1> DEFINE p == srv.parent
<1>0. /\ srv.on /\ list' = Unref([list EXCEPT !.up[p].dns = @ - 1], p)
      /\ UNCHANGED <<conf, sess, nconns, bySrc, running>> /\ srv' = Quiet
  BY Zenon DEF SrvDone
<1>1. p \in Ups /\ list.up[p].dns > 0
  BY <1>0, Zenon DEF ProxyInv, SrvInv
<1>2. ListInv(list') /\ Freed(list', list, p)
  BY <1>0, <1>1, SrvEndInv, ZenonT(60) DEF ProxyInv
<1>3. SrvInv'
  BY <1>0, Zenon DEF SrvInv, SrvType, Quiet
<1> QED
  BY <1>0, <1>1, <1>2, <1>3, FreedStep, ZenonT(60)

(* The lazy timer of an upstream.                                          *)
LEMMA LazyResolveStep ==
  ASSUME ProxyInv, NEW u \in Ups, NEW n \in conf.dns, LazyResolve(u, n)
  PROVE  ProxyInv' /\ [Service!Next]_(Service!svars)
<1> DEFINE m == IF Kind[u] = "srv" THEN AtMost(n, 1) ELSE n
<1>0. /\ list.up[u].timer = "lazy" /\ list' = Resolve(list, u, m)
      /\ UNCHANGED <<conf, sess, nconns, bySrc, running, srv>> /\ ~srv.on
  BY Zenon DEF LazyResolve, LazyResolveCb, Idle
<1>1. m \in Nat
  BY ConfType, Zenon DEF ProxyInv, AtMost
<1> HIDE DEF m
<1>2. ListInv(list) /\ list.up[u].place # "absent"
  BY <1>0, UpTyped, ZenonT(60) DEF ProxyInv, Sound, Gone
<1>3. ListInv(list') /\ Tame(list', list)
  BY <1>0, <1>1, <1>2, ResolveInv, ZenonT(60)
<1> QED
  BY <1>0, <1>3, SrvKept, ListStep, ZenonT(60) DEF Tame

(* The time of a probe comes.                                              *)
LEMMA ProbeDueStep ==
  ASSUME ProxyInv, NEW u \in Ups, ProbeDue(u)
  PROVE  ProxyInv' /\ [Service!Next]_(Service!svars)
<1> DEFINE r == [list.up[u] EXCEPT !.probe = "due"]
<1>0. /\ list' = [list EXCEPT !.up[u].probe = "due"]
      /\ UNCHANGED <<conf, sess, nconns, bySrc, running, srv>> /\ ~srv.on
  BY Zenon DEF ProbeDue, Idle
<1>1. ListInv(list) /\ list.up[u] \in Upstream /\ Sound(list.up[u], Kind[u])
  BY UpTyped, Zenon DEF ProxyInv
<1>2. /\ r \in Upstream /\ r.idx = list.up[u].idx /\ r.place = list.up[u].place
      /\ r.timer = list.up[u].timer /\ r.inflight <= list.up[u].inflight
  BY <1>1, SMTT(30) DEF Upstream
<1>3. Sound(r, Kind[u])
  BY <1>1, Zenon DEF Upstream, Sound, Refs, Need, Live, Back, Clock, Half, Gone
<1>4. list' = [list EXCEPT !.up[u] = r]
  BY <1>0, Zenon
<1> HIDE DEF r
<1>5. ListInv(list') /\ Tame(list', list)
  BY <1>1, <1>2, <1>3, <1>4, OneUpInv, OneUpTame, ZenonT(60)
<1> QED
  BY <1>0, <1>5, SrvKept, ListStep, ZenonT(60) DEF Tame

(* An SRV reply arrives.                                                   *)
LEMMA SrvReplyStep ==
  ASSUME ProxyInv, NEW p \in Ups, NEW T \in SUBSET Targets, SrvReply(p, T)
  PROVE  ProxyInv' /\ [Service!Next]_(Service!svars)
<1>0. /\ srv' = [on |-> TRUE, parent |-> p, todo |-> T, seen |-> T]
      /\ UNCHANGED <<conf, list, sess, nconns, bySrc, running>>
      /\ Kind[p] = "srv" /\ list.up[p].dns > 0 /\ running = NoSession
  BY Zenon DEF SrvReply, Idle
<1>1. SrvInv'
  BY <1>0, ZenonT(60) DEF SrvInv, SrvType
<1>2. ListInv(list') /\ \A u \in Ups : list'.up[u].inflight <= list.up[u].inflight
  BY <1>0, UpTyped, SMTT(30) DEF ProxyInv, Upstream
<1> QED
  BY <1>0, <1>1, <1>2, ListStep, Zenon

(* The records of an SRV reply are applied to members, and leave the DNS   *)
(* request of the parent alone.                                            *)
LEMMA SrvGoesOn ==
  ASSUME ProxyInv, srv.on, NEW u \in Ups, Kind[u] = "member",
         \A w \in Ups \ {u} : list'.up[w].dns = list.up[w].dns,
         NEW t, srv' = srv \/ srv' = [srv EXCEPT !.todo = @ \ {t}],
         UNCHANGED running
  PROVE  SrvInv'
<1>1. /\ srv.parent \in Ups /\ Kind[srv.parent] = "srv" /\ running = NoSession
      /\ list.up[srv.parent].dns > 0 /\ SrvType
  BY Zenon DEF ProxyInv, SrvInv
<1>2. list'.up[srv.parent].dns > 0
  BY <1>1, Zenon
<1>3. srv'.on = srv.on /\ srv'.parent = srv.parent /\ SrvType'
  BY <1>1, ZenonT(60) DEF SrvType
<1> QED
  BY <1>1, <1>2, <1>3, SMTT(30) DEF SrvInv

(* A record of a known member.                                             *)
LEMMA SrvKnownStep ==
  ASSUME ProxyInv, NEW t \in Targets, NEW u \in Ups, NEW n \in conf.dns,
         SrvKnown(t, u, n)
  PROVE  ProxyInv' /\ [Service!Next]_(Service!svars)
<1>0. /\ srv.on /\ list' = Resolve(list, u, n) /\ srv' = [srv EXCEPT !.todo = @ \ {t}]
      /\ UNCHANGED <<conf, sess, nconns, bySrc, running>>
      /\ list.up[u].place = "listed" /\ Kind[u] = "member"
  BY Zenon DEF SrvKnown, Members, Listed
<1>1. /\ ListInv(list) /\ n \in Nat /\ Shape(list) /\ Refs(list.up[u])
  BY ConfType, UpTyped, ZenonT(60) DEF ProxyInv, ListInv, Sound
<1>2. ListInv(list') /\ Tame(list', list)
  BY <1>0, <1>1, ResolveInv, Zenon
<1>3. \A w \in Ups \ {u} : list'.up[w] = list.up[w]
  BY <1>0, <1>1, ResolveRecord, SMTT(30)
<1>4. SrvInv'
  BY <1>0, <1>3, SrvGoesOn, Zenon
<1> QED
  BY <1>0, <1>2, <1>4, ListStep, Zenon DEF Tame

(* A record of a new member.                                               *)
LEMMA SrvNewStep ==
  ASSUME ProxyInv, NEW t \in Targets, NEW n \in conf.dns, SrvNew(t, n)
  PROVE  ProxyInv' /\ [Service!Next]_(Service!svars)
<1> DEFINE u == CHOOSE x \in FreeMembers : TRUE
<1>0. /\ srv.on /\ list' = CreateMember(list, u, t, n)
      /\ srv' = [srv EXCEPT !.todo = @ \ {t}]
      /\ UNCHANGED <<conf, sess, nconns, bySrc, running>>
  BY Zenon DEF SrvNew
<1>1. u \in Ups /\ list.up[u].place = "absent" /\ Kind[u] = "member"
  BY Zenon DEF SrvNew, FreeMembers
<1> HIDE DEF u
<1>2. ListInv(list) /\ n \in Nat
  BY ConfType, Zenon DEF ProxyInv
<1>3. /\ ListInv(list') /\ list'.up[u].place = "listed"
      /\ \A w \in Ups : list'.up[w].inflight <= list.up[w].inflight
      /\ \A w \in Ups \ {u} :
           /\ list'.up[w].place = list.up[w].place /\ list'.up[w].dns = list.up[w].dns
           /\ list'.up[w].place = "drained" => list'.up[w].timer = list.up[w].timer
  BY <1>0, <1>1, <1>2, CreateMemberInv, SMTT(30)
<1>4. SrvInv'
  BY <1>0, <1>1, <1>3, SrvGoesOn, ZenonT(60)
<1> QED
  BY <1>0, <1>3, <1>4, ListStep, ZenonT(60)

(* A member without a record.                                              *)
LEMMA SrvDrainStep ==
  ASSUME ProxyInv, NEW u \in Ups, SrvDrain(u)
  PROVE  ProxyInv' /\ [Service!Next]_(Service!svars)
<1>0. /\ srv.on /\ list' = DrainMember(list, u)
      /\ UNCHANGED <<conf, sess, nconns, bySrc, running, srv>>
      /\ list.up[u].place = "listed" /\ Kind[u] = "member"
  BY ZenonT(60) DEF SrvDrain, Members, Listed
<1>1. /\ ListInv(list')
      /\ list'.up[u].place = "drained" /\ list'.up[u].timer = "revive"
      /\ \A w \in Ups : list'.up[w].inflight <= list.up[w].inflight
      /\ \A w \in Ups \ {u} :
           /\ list'.up[w].place = list.up[w].place /\ list'.up[w].dns = list.up[w].dns
           /\ list'.up[w].place = "drained" => list'.up[w].timer = list.up[w].timer
  BY <1>0, DrainMemberInv, SMTT(30) DEF ProxyInv
<1>2. SrvInv'
  <2>1. /\ srv.on /\ Kind[u] = "member" /\ running' = running /\ srv' = srv
        /\ \A w \in Ups \ {u} : list'.up[w].dns = list.up[w].dns
    BY <1>0, <1>1, Zenon
  <2> QED
    BY <2>1, SrvGoesOn, Zenon
<1> QED
  BY <1>0, <1>1, <1>2, ListStep, ZenonT(60)

-----------------------------------------------------------------------------
(* The invariant holds at the start ...                                    *)
LEMMA ProxyInit == Init => ProxyInv /\ Service!Init
<1> SUFFICES ASSUME Init PROVE ProxyInv /\ Service!Init
  BY Zenon
<1>1. SessionInv /\ conf \in Config
  BY InitInv, SessionAssumption, ZenonT(60) DEF SessionInv
<1>2. ListInv(list)
  <2>1. /\ list = Configured(conf.rot, conf.alive, conf.rest)
        /\ conf.rot \in Rotations /\ conf.alive \in Seq(Ups) /\ conf.rest \in SUBSET Ups
        /\ conf \in Configs
    BY <1>1, Zenon DEF Init, Config
  <2> QED
    BY <2>1, SessionAssumption, ConfiguredInv, ZenonT(60)
<1>3. \A s \in Sessions : sess[s].stage = "free" /\ sess[s].tokens = 0
                          /\ sess[s].src = NoSession
  BY Zenon DEF Init, NewSession
<1>5. LoadInv
  <2> SUFFICES ASSUME NEW u \in Ups PROVE list.up[u].inflight <= Cardinality(Asking(u))
    BY Zenon DEF LoadInv
  <2>1. Asking(u) = {}
    BY <1>3, Zenon DEF Asking
  <2>2. list.up[u].inflight = 0
    BY ZenonT(60) DEF Init, Configured, Absent
  <2> QED
    BY <2>1, <2>2, FS_EmptySet, SMTT(30)
<1>6. SrvInv
  BY Zenon DEF Init, SrvInv, SrvType, Quiet
<1>7. Service!Init
  <2>1. /\ conf.conns \in Nat /\ conf.per_source \in Nat
        /\ [s \in Sessions |-> ClientOf(s)] = [s \in Sessions |-> "none"]
        /\ [s \in Sessions |-> sess[s].src] = [s \in Sessions |-> NoSession]
    BY <1>1, <1>3, ConfType, ZenonT(60) DEF ClientOf
  <2> QED
    BY <2>1, Zenon DEF Service!Init
<1> QED
  BY <1>1, <1>2, <1>5, <1>6, <1>7, ZenonT(60) DEF ProxyInv

(* ... and every step keeps it and is a step of the service or none.       *)
LEMMA ProxyNext ==
  ASSUME ProxyInv, [Next]_vars
  PROVE  ProxyInv' /\ [Service!Next]_(Service!svars)
<1>1. CASE \E s \in Sessions, a \in Sources : Accept(s, a)
  BY <1>1, AcceptStep, ZenonT(60)
<1>2. ASSUME NEW s \in Sessions, SessionEvent(s)
      PROVE  ProxyInv' /\ [Service!Next]_(Service!svars)
  BY <1>2, ClientErrorStep, BadRequestStep, RequestStep, BackendErrorStep,
     BackendReplyStep, ReplyDoneStep, MirrorDoneStep, ZenonT(60) DEF
     SessionEvent
<1>3. CASE UpstreamEvent
  BY <1>3, ReviveStep, LazyResolveStep, DnsReplyStep, ProbeDueStep,
     SrvErrorStep, SrvReplyStep, ZenonT(60) DEF UpstreamEvent
<1>4. CASE SrvStep
  BY <1>4, SrvNewStep, SrvKnownStep, SrvDrainStep, SrvDoneStep, ZenonT(60) DEF SrvStep
<1>5. ASSUME NEW s \in Sessions, Step(s)
      PROVE  ProxyInv' /\ [Service!Next]_(Service!svars)
  BY <1>5, TooManyRetriesStep, NoUpstreamStep, CannotSendStep, CannotConnectStep,
     SentStep, ZenonT(60) DEF Step
<1>6. CASE UNCHANGED vars
  <2>1. /\ UNCHANGED <<conf, sess, nconns, bySrc, running>> /\ list' = list
        /\ srv' = srv
    BY <1>6, ZenonT(60) DEF vars
  <2>2. SrvInv' /\ ListInv(list')
        /\ \A u \in Ups : list'.up[u].inflight <= list.up[u].inflight
    BY <2>1, UpTyped, SMTT(30) DEF ProxyInv, SrvInv, SrvType, Upstream
  <2> QED
    BY <2>1, <2>2, ListStep, ZenonT(60)
<1> QED
  BY <1>1, <1>2, <1>3, <1>4, <1>5, <1>6, ZenonT(60) DEF Next, Continue

(* The inductive invariant is one of the specification.                    *)
THEOREM ProxyInvariant == Spec => []ProxyInv
<1>1. Init => ProxyInv
  BY ProxyInit, Zenon
<1>2. ProxyInv /\ [Next]_vars => ProxyInv'
  BY ProxyNext, Zenon
<1> QED
  BY <1>1, <1>2, PTL DEF Spec

(* The alive list follows from the invariant of the upstreams.             *)
LEMMA ListConsistent == ProxyInv => AliveList /\ UpstreamsKept
<1> SUFFICES ASSUME ProxyInv PROVE AliveList /\ UpstreamsKept
  BY Zenon
<1>0. Shape(list) /\ \A u \in Ups : list.up[u] \in Upstream /\ Sound(list.up[u], Kind[u])
  BY UpTyped, Zenon DEF ProxyInv, ListInv
<1>1. AliveIndexed /\ NamedOnce /\ RingFresh
  BY <1>0, ZenonT(60)
     DEF Shape, Indexed, Once, Fresh, AliveIndexed, NamedOnce, RingFresh
<1>2. RefCovers
  BY <1>0, Zenon DEF Sound, Refs, Need, RefCovers
<1>3. ReviveArmed
  BY <1>0, Zenon DEF Sound, Back, ReviveArmed, Probeable, Listed
<1>4. Selectable
  <2> SUFFICES ASSUME NEW u \in Alive(list)
               PROVE  list.up[u].place = "listed" /\ Kind[u] # "srv"
                      /\ ~list.up[u].pending
    BY Zenon DEF Selectable
  <2>1. PICK i \in 1..Len(list.alive) : list.alive[i] = u
    BY Zenon DEF Alive
  <2>2. u \in Ups /\ list.up[u].idx # 0
    BY <1>0, <2>1, SMTT(30) DEF Shape, Indexed, List
  <2> QED
    BY <1>0, <2>2, ZenonT(60) DEF Sound, Live
<1> QED
  BY <1>1, <1>2, <1>3, <1>4, ZenonT(60) DEF AliveList, UpstreamsKept

(* The counters of the sessions follow from the invariant.                 *)
LEMMA SessionsRight == ProxyInv => TypeOK /\ SessionsCounted /\ InflightRetired
<1> SUFFICES ASSUME ProxyInv PROVE TypeOK /\ SessionsCounted /\ InflightRetired
  BY Zenon
<1>1. SessionsCounted
  BY Zenon DEF ProxyInv, SessionInv, SessionsCounted
<1>2. TypeOK
  BY Zenon DEF ProxyInv, SessionInv, ListInv, Shape, SrvInv, SrvType, TypeOK
<1>3. InflightRetired
  BY Zenon DEF ProxyInv, LoadInv, InflightRetired
<1> QED
  BY <1>1, <1>2, <1>3, Zenon

(* Every variable keeps its type.                                          *)
THEOREM ProxyTypes == Spec => []TypeOK
BY ProxyInvariant, SessionsRight, PTL

(* Whatever requests, failures, DNS replies and timers follow one another, *)
(* the array of alive upstreams of upstream.c stays consistent: active_idx *)
(* is right, only what can be asked is selectable, and the ring is that of *)
(* the alive.                                                              *)
THEOREM AliveListConsistent == Spec => []AliveList
BY ProxyInvariant, ListConsistent, PTL

(* An upstream that is dead has a timer that brings it back and a time for *)
(* its probe, and the references of every upstream cover the list, its     *)
(* timer and the DNS callbacks in flight: none of these meets it freed.    *)
(* That no request does is not so (HeldUpstream).                          *)
THEOREM UpstreamsStay == Spec => []UpstreamsKept
BY ProxyInvariant, ListConsistent, PTL

(* The limits of the worker count its sessions, and a session is released  *)
(* when its client and its mirror are done with it.                        *)
THEOREM SessionsAccounted == Spec => []SessionsCounted
BY ProxyInvariant, SessionsRight, PTL

(* When no handler is in the middle of its work, an upstream counts no     *)
(* more requests in flight than there are sessions waiting for it.         *)
THEOREM InflightAccounted == Spec => []InflightRetired
BY ProxyInvariant, SessionsRight, PTL

(* The sessions of rspamd_proxy.c implement the service: within the limits *)
(* every client is admitted once, answered at most once, and keeps its     *)
(* place until all that was started for it has ended.                      *)
THEOREM ProxyImplementsService == Spec => ServiceSpec
<1>1. Init => Service!Init
  BY ProxyInit, Zenon
<1>2. ProxyInv /\ [Next]_vars => [Service!Next]_(Service!svars)
  BY ProxyNext
<1> QED
  BY <1>1, <1>2, ProxyInvariant, PTL DEF Spec, ServiceSpec, Service!Spec
=============================================================================
