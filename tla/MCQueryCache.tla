---------------------------- MODULE MCQueryCache ----------------------------
(***************************************************************************)
(* The query cache for TLC, from both sides: the store, and the protocol   *)
(* sequences the relay withholds so that the store can answer them.  A     *)
(* behaviour runs one of them and leaves the other at rest.                *)
(***************************************************************************)
EXTENDS ExtendedQuery, CacheStore, TLC

VARIABLE running   \* which of them this behaviour runs

QueryCacheInit == running \in {"protocol", "store"} /\ Init /\ CacheInit

QueryCacheNext ==
    /\ UNCHANGED running
    /\ \/ running = "protocol" /\ Next /\ UNCHANGED cacheVars
       \/ running = "store" /\ CacheNext /\ UNCHANGED vars

QueryCacheSpec == QueryCacheInit /\ [][QueryCacheNext]_<<running, vars, cacheVars>>

\* Sessions are interchangeable: no action or property compares them.
SessionsAlike == Permutations(Sessions)

\* What drivers send for one statement: a prepare of its own; a prepare, a
\* look at the columns and an execution of it; everything at once; an
\* execution of what is prepared; a close; a DISCARD ALL.
OneStatement ==
    UNION {
      {<<Parse(n, q), Sync>> : n \in Names, q \in Sqls \ Discards},
      {<<Parse(n, q), DescribeS(n), Flush, Bind(n), Execute, Sync>> : n \in Names \ {Unnamed}, q \in Sqls \ Discards},
      {<<Parse(n, q), Bind(n), DescribeP, Execute, Sync>> : n \in {Unnamed}, q \in Sqls \ Discards},
      {<<Bind(n), Execute, Sync>> : n \in Names},
      {<<Close(n), Sync>> : n \in Names \ {Unnamed}},
      {<<Query(q)>> : q \in Discards} }

\* Two keys of one tenant and one of another; a configuration that serves both
\* tenants, and a smaller one that serves the first only.
ThreeKeys == [k \in CacheKeys |-> IF k = "k3" THEN "t2" ELSE "t1"]
CacheGrowsAndShrinks ==
    {[ttl |-> [t \in {"t1", "t2"} |-> 1], max |-> 3], [ttl |-> [t \in {"t1"} |-> 1], max |-> 2]}
=============================================================================
