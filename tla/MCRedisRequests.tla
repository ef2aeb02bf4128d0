--------------------------- MODULE MCRedisRequests ---------------------------
(***************************************************************************)
(* RedisRequests for TLC.                                                  *)
(***************************************************************************)
EXTENDS RedisRequests, TLC

CONSTANTS a1, s1

PoolingOf == a1 :> {"default"} @@ s1 :> {"default", "enforce"}
=============================================================================
