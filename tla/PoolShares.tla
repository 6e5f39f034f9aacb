----------------------------- MODULE PoolShares -----------------------------
(***************************************************************************)
(* How a node's allowance for one server reaches the pools it holds there: *)
(* the quota pass of the ticker (bin/pgprox/src/run.rs, apply_quota) over  *)
(* the pools of every database and user, which clients use, and the reaper *)
(* forgets, while the pass is under way.                                   *)
(*                                                                         *)
(* A pool is its counts; what happens inside one is LivePool's subject.    *)
(* The allowance is the cluster's, and moves when it pleases.              *)
(***************************************************************************)
EXTENDS Integers, Sequences, FiniteSets, FiniteSetsExt

CONSTANTS
  Pools,         \* pool keys of the server, numbered in their sorted order
  PoolMax,       \* PoolConfig::max_size
  Entitlements,  \* what the cluster may allow this node
  Undeclared,    \* whether a reload may leave the server without a cap
  MaxWaiting     \* bound: callers waiting at a pool

ASSUME SharesAssumption ==
  /\ Pools \subseteq Nat /\ IsFiniteSet(Pools)
  /\ PoolMax \in Nat \ {0} /\ Undeclared \in BOOLEAN
  /\ Entitlements \subseteq Nat /\ \E most \in Entitlements : \A n \in Entitlements : most >= n

VARIABLES
  pools,     \* the pools there are: key -> its limit and its counts
  entitled,  \* guaranteed + leased, as the coordinator has it now
  declared,  \* whether the loaded document gives the server a cap
  pass,      \* the quota pass: where it is and what it goes by
  applied    \* the allowance the last `shares_across_pools` divided

shareVars == <<pools, entitled, declared, pass, applied>>

\* `Pool::new`: empty, its limit the configured one.
NewPool == [limit |-> PoolMax, active |-> 0, idle |-> 0, opening |-> 0, waiting |-> 0, fresh |-> TRUE]

\* Between passes; awaiting the leader's answer; setting limits one by one.
Resting == [at |-> "rest", keys |-> <<>>, demand |-> <<>>, allowance |-> 0, shares |-> <<>>]

PoolTotal(p) == p.active + p.idle + p.opening

\* A map's values, added: how many units there are, `f[k]` of them at each `k`.
Units(f, keys) == UNION {{k} \X (1..f[k]) : k \in keys}
SumOf(f, keys) == Cardinality(Units(f, keys))

\* Keys in their sorted order: each comes after as many as are below it.
Below(S, k) == {j \in S : j < k}
Sorted(S) == [i \in 1..Cardinality(S) |-> CHOOSE k \in S : Cardinality(Below(S, k)) = i - 1]

SharesTypeOK ==
  /\ DOMAIN pools \subseteq Pools
  /\ \A k \in DOMAIN pools :
       pools[k] \in [limit : 0..PoolMax, active : Nat, idle : Nat, opening : Nat, waiting : Nat, fresh : BOOLEAN]
  /\ entitled \in Entitlements /\ declared \in BOOLEAN /\ applied \in Nat
  /\ pass.at \in {"rest", "asking", "setting"}

SharesInit ==
  /\ pools = <<>> /\ entitled = Max(Entitlements) /\ declared = TRUE
  /\ pass = Resting /\ applied = 0

-----------------------------------------------------------------------------
(* The pools in use.                                                       *)

\* The pools once `k` is certainly among them (`with_pool` makes it).
With(k) == [j \in DOMAIN pools \cup {k} |-> IF j \in DOMAIN pools THEN pools[j] ELSE NewPool]

\* `Pool::acquire`: an idle connection whatever the limit, else a slot if the
\* pool answers for less than its limit, else the caller waits.
AcquireFrom(k) ==
  LET p == With(k)[k]
      answer == IF p.idle > 0 THEN [p EXCEPT !.idle = @ - 1, !.active = @ + 1]
                ELSE IF PoolTotal(p) < p.limit THEN [p EXCEPT !.opening = @ + 1]
                ELSE [p EXCEPT !.waiting = @ + 1]
  IN  /\ answer.waiting <= MaxWaiting
      /\ pools' = [With(k) EXCEPT ![k] = answer]
      /\ UNCHANGED <<entitled, declared, pass, applied>>

\* A waiter that was woken asks again.
WaiterServed(k) ==
  LET p == pools[k]
  IN  /\ p.waiting > 0
      /\ \/ p.idle > 0 /\ pools' = [pools EXCEPT ![k] = [p EXCEPT !.waiting = @ - 1, !.idle = @ - 1, !.active = @ + 1]]
         \/ /\ p.idle = 0 /\ PoolTotal(p) < p.limit
            /\ pools' = [pools EXCEPT ![k] = [p EXCEPT !.waiting = @ - 1, !.opening = @ + 1]]
      /\ UNCHANGED <<entitled, declared, pass, applied>>

\* A waiter gives up.
WaiterLeaves(k) ==
  /\ pools[k].waiting > 0
  /\ pools' = [pools EXCEPT ![k].waiting = @ - 1]
  /\ UNCHANGED <<entitled, declared, pass, applied>>

\* A connect succeeds or fails.
ConnectEnds(k, ok) ==
  /\ pools[k].opening > 0
  /\ pools' = [pools EXCEPT ![k].opening = @ - 1, ![k].active = IF ok THEN @ + 1 ELSE @]
  /\ UNCHANGED <<entitled, declared, pass, applied>>

\* `Pool::release`: kept only while the pool retains less than its limit.
ReleaseTo(k) ==
  LET p == pools[k]
  IN  /\ p.active > 0
      /\ pools' = [pools EXCEPT ![k].active = @ - 1,
                                ![k].idle = IF p.idle + p.opening < p.limit THEN @ + 1 ELSE @]
      /\ UNCHANGED <<entitled, declared, pass, applied>>

\* The reaper closes a pool's idle connections and forgets the pool if nothing
\* is left of it.
ReapPool(k) ==
  LET left == [pools[k] EXCEPT !.idle = 0]
      unused == PoolTotal(left) = 0 /\ left.waiting = 0
  IN  /\ pools' = [j \in DOMAIN pools \ (IF unused THEN {k} ELSE {}) |-> IF j = k THEN left ELSE pools[j]]
      /\ UNCHANGED <<entitled, declared, pass, applied>>

-----------------------------------------------------------------------------
(* The cluster's side, and a reload.                                       *)

\* A lease is granted to, or runs out on, this node; the membership changes.
EntitlementMoves(n) ==
  /\ entitled' = n
  /\ UNCHANGED <<pools, declared, pass, applied>>

\* A reload takes the server's entry out of the document, or puts it back.
Reloaded ==
  /\ Undeclared /\ declared' = ~declared
  /\ UNCHANGED <<pools, entitled, pass, applied>>

-----------------------------------------------------------------------------
(* The pass.                                                               *)

\* Mistake: the division there used to be, with a floor of one under it.
SharesFlooredAtOne(total, demand) ==
  [i \in DOMAIN demand |-> Max({1, total \div Len(demand)})]

\* `shares_across_pools`: the floor to each, and what is left over one at a
\* time in the order of demand, ties by position.
SharesAcrossPools(total, demand) ==
  LET count == Len(demand)
      before(j, i) == demand[j] > demand[i] \/ (demand[j] = demand[i] /\ j < i)
      rank(i) == Cardinality({j \in DOMAIN demand : before(j, i)})
  IN  [i \in DOMAIN demand |-> total \div count + (IF rank(i) < total % count THEN 1 ELSE 0)]

\* What `pools_for` counts: a slot still being opened is not among it.
Demand(p) == p.active + p.idle + p.waiting

\* `wants_more_quota`.
WantsMore(held, allowance) == held >= allowance

\* The shares are worked out and the setting of limits begins.
Divide(keys, demand, allowance) ==
  /\ pass' = [at |-> "setting", keys |-> keys, demand |-> <<>>, allowance |-> 0,
              shares |-> SharesAcrossPools(allowance, demand)]
  /\ applied' = allowance

\* A pass begins: the pools are read once, and a server nothing declares a cap
\* for has each held at nothing.  Otherwise the allowance is read, and the
\* leader asked for more if what is held has reached it.
PassBegins ==
  LET keys == Sorted(DOMAIN pools)
      demand == [i \in DOMAIN keys |-> Demand(pools[keys[i]])]
      held == SumOf(demand, DOMAIN demand)
  IN  /\ pass.at = "rest" /\ keys # <<>>
      /\ IF ~declared THEN Divide(keys, demand, 0)
         ELSE IF WantsMore(held, entitled)
         THEN /\ pass' = [at |-> "asking", keys |-> keys, demand |-> demand,
                          allowance |-> entitled, shares |-> <<>>]
              /\ UNCHANGED applied
         ELSE Divide(keys, demand, entitled)
      /\ UNCHANGED <<pools, entitled, declared>>

\* The leader answers.  A grant has the allowance read again; a refusal leaves
\* the pass on the one it read before it asked.
LeaderAnswers(granted) ==
  /\ pass.at = "asking"
  /\ Divide(pass.keys, pass.demand, IF granted THEN entitled ELSE pass.allowance)
  /\ UNCHANGED <<pools, entitled, declared>>

\* `set_limit` on the next pool: clamped, and a pool forgotten since the pass
\* began is made again.
SetNextLimit ==
  LET k == Head(pass.keys)
  IN  /\ pass.at = "setting"
      /\ pools' = [With(k) EXCEPT ![k].limit = Min({PoolMax, Head(pass.shares)}), ![k].fresh = FALSE]
      /\ pass' = IF Len(pass.keys) = 1 THEN Resting
                 ELSE [pass EXCEPT !.keys = Tail(@), !.shares = Tail(@)]
      /\ UNCHANGED <<entitled, declared, applied>>

SharesNext ==
  \/ \E k \in Pools : AcquireFrom(k)
  \/ \E k \in DOMAIN pools :
       \/ WaiterServed(k) \/ WaiterLeaves(k) \/ ReleaseTo(k) \/ ReapPool(k)
       \/ \E ok \in BOOLEAN : ConnectEnds(k, ok)
  \/ \E n \in Entitlements : EntitlementMoves(n)
  \/ Reloaded \/ PassBegins
  \/ \E granted \in BOOLEAN : LeaderAnswers(granted)
  \/ SetNextLimit

SharesSpec == SharesInit /\ [][SharesNext]_shareVars

-----------------------------------------------------------------------------
(* What the division is for.                                               *)

\* Pools a pass has reached: one made since goes by its configured size.
Reached == {k \in DOMAIN pools : ~pools[k].fresh}

\* Between passes, the limits a pass has set add up to no more than the
\* allowance it divided, whatever pools were made, forgotten or made again
\* while it asked the leader and set them one by one (run.rs:363-370).
LimitsFitTheAllowance ==
  pass.at = "rest" => SumOf([k \in Reached |-> pools[k].limit], Reached) <= applied

\* What clustering.md:7 and the comment of pool.rs on its limit say: a node with
\* every pool under a limit, and no more connections than the allowance in force,
\* opens none past it.
OpensWithinAllowance ==
  [][LET opened == {k \in DOMAIN pools \cap DOMAIN pools' : pools'[k].opening > pools[k].opening}
         total == SumOf([k \in DOMAIN pools |-> PoolTotal(pools[k])], DOMAIN pools)
     IN  opened # {} /\ Reached = DOMAIN pools /\ pass.at = "rest" /\ total <= applied => total < applied]_shareVars
=============================================================================
