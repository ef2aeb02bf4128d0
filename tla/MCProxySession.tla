--------------------------- MODULE MCProxySession ---------------------------
(***************************************************************************)
(* ProxySession for TLC.                                                   *)
(***************************************************************************)
EXTENDS ProxySession

CONSTANTS n1, h1, p1, m1, m2

KindOf ==
  [u \in {n1, h1, p1, m1, m2} |->
     CASE u = n1 -> "numeric"
       [] u = h1 -> "named"
       [] u = p1 -> "srv"
       [] u \in {m1, m2} -> "member"]

Start(rot, q, rest, conns, per_source, retries, dns) ==
  [rot |-> rot, alive |-> q, rest |-> rest, conns |-> conns,
   per_source |-> per_source, retries |-> retries, mirrors |-> {"none"},
   dns |-> dns, refills |-> {0}]

Lists ==
  {Start("p2c", <<n1>>, {h1}, 2, 2, 1, {0}),
   Start("p2c", <<h1>>, {p1}, 2, 2, 2, {0}),
   Start("p2c", <<>>, {h1}, 2, 1, 1, {0, 2}),
   Start("hashed", <<n1, h1>>, {}, 1, 2, 2, {0, 1}),
   Start("token_bucket", <<n1, h1>>, {}, 1, 2, 2, {0}),
   [Start("token_bucket", <<n1>>, {h1}, 2, 2, 2, {0}) EXCEPT !.refills = {0, 1}],
   [Start("round_robin", <<n1>>, {}, 2, 2, 2, {0}) EXCEPT !.mirrors = MirrorKinds],
   Start("round_robin", <<>>, {p1}, 1, 2, 1, {0, 1})}
=============================================================================
