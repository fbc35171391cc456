------------------------------- MODULE Redis --------------------------------
(***************************************************************************)
(* The Redis that the API process and the worker process share: it can be  *)
(* out of reach for a while.  A command sent meanwhile waits, as           *)
(* lib/redis.js sets maxRetriesPerRequest to null.  With it, what both     *)
(* processes are started with.                                             *)
(***************************************************************************)
EXTENDS Naturals

CONSTANTS Signal,      \* SIGTERM and SIGINT, each delivered at most once
          PoolMax,     \* DB_POOL_MAX, of each process
          MaxOutages   \* bound: times Redis goes away

ASSUME PoolAssumption == PoolMax \in Nat \ {0}
ASSUME OutagesAssumption == MaxOutages \in Nat

VARIABLES redisAway,  \* whether Redis is out of reach
          outages

redis == <<redisAway, outages>>

RedisInit == redisAway = FALSE /\ outages = 0

RedisFails == /\ ~redisAway /\ outages < MaxOutages
              /\ redisAway' = TRUE
              /\ outages' = outages + 1

RedisReturns == redisAway /\ redisAway' = FALSE /\ UNCHANGED outages
=============================================================================
