---------------------------- MODULE LeaseLedger -----------------------------
(***************************************************************************)
(* The leader's ledger of the free pool of one server                      *)
(* (crates/pgprox-cluster/src/lease.rs), and how a cap divides into        *)
(* guaranteed shares and that pool (crates/pgprox-cluster/src/quota.rs).   *)
(*                                                                         *)
(* A ledger is a function from holder to its grant.  An absent grant has   *)
(* count 0.  Sums of counts are taken as the size of the set of units      *)
(* counted: unit <<h, i>> is the i-th connection leased to h.              *)
(***************************************************************************)
EXTENDS Membership

CONSTANTS
  Cap,              \* the server's `max_connections`
  GuaranteedTotal,  \* floor(cap * guaranteed_fraction)
  FleetSize,        \* the configured fleet size
  TTL,              \* how long a lease lives without renewal
  ConfiguredWait    \* the takeover wait the configuration asks for

ASSUME CapAssumption == Cap \in Nat /\ GuaranteedTotal \in 0..Cap
ASSUME FleetAssumption == FleetSize \in Nat /\ FleetSize > 0 /\ Cardinality(Node) <= FleetSize
ASSUME TTLAssumption == TTL \in Nat /\ TTL > 0 /\ ConfiguredWait \in Nat

\* `quota::split`: both halves round down, and the free pool does not depend
\* on the node count.
GuaranteedPerNode(nodes) == IF nodes = 0 THEN 0 ELSE GuaranteedTotal \div nodes

FreePool == Cap - GuaranteedTotal

Grant == [count : 0..FreePool, expires : Nat]

NoGrant == [count |-> 0, expires |-> 0]

NoGrants == [h \in Node |-> NoGrant]

Max2(a, b) == IF a >= b THEN a ELSE b

Min2(a, b) == IF a <= b THEN a ELSE b

\* Mistake: a wait that outlasts the leases but not the silent predecessor.
TakeoverWaitOfTTL == Max2(ConfiguredWait, TTL)

\* `CoordinatorConfig::effective_lease`: derived, not trusted.
TakeoverWait == Max2(ConfiguredWait, TTL + SuspectAfter)

\* `QuotaLease::count`: zero once expired.
LiveCount(lease, t) == IF t >= lease.expires THEN 0 ELSE lease.count

\* The connections leased out to the nodes of S, expired grants ignored.
LeasedUnits(ledger, S, t) == {u \in S \X (1..FreePool) : u[2] <= LiveCount(ledger[u[1]], t)}

Outstanding(ledger, t) == Cardinality(LeasedUnits(ledger, Node, t))

\* Mistake: the whole pool offered, other holders forgotten.
AvailableIgnoringOthers(ledger, h, t) == FreePool

\* `available` as `grant` computes it: the holder's own live grant is not
\* competing with its renewal.
AvailableTo(ledger, h, t) == FreePool - Cardinality(LeasedUnits(ledger, Node \ {h}, t))

\* `LeaseLedger::reap`.
ReapGrants(ledger, t) == [h \in Node |-> IF ledger[h].expires > t THEN ledger[h] ELSE NoGrant]

\* `LeaseLedger::grant` past its two refusals: a renewal replaces.
GrantTo(ledger, h, want, t) ==
  [ledger EXCEPT ![h] = [count |-> Min2(want, AvailableTo(ledger, h, t)), expires |-> t + TTL]]

\* Mistake: a new leader that grants at once.
CanGrantAtOnce(office, t) == office # Never /\ t >= office

\* `LeaseLedger::can_grant`.
CanGrant(office, t) == office # Never /\ t >= office + TakeoverWait

\* `LeaseLedger::observe_leadership`: the office half, then the grants half.
ObserveOffice(office, leading, t) ==
  IF leading THEN (IF office = Never THEN t ELSE office) ELSE Never

ObserveGrants(ledger, office, leading, t) ==
  IF ~leading /\ office # Never THEN NoGrants ELSE ReapGrants(ledger, t)
=============================================================================
