------------------------ MODULE QuotaClusterProofs -------------------------
(***************************************************************************)
(* What holds of QuotaCluster for every fleet, cap, timing and network; in *)
(* the second half, that the fleet stays within a server's cap: at most    *)
(* one node grants, it has every live lease on record, and so the          *)
(* allowances add up.                                                      *)
(***************************************************************************)
EXTENDS QuotaCluster, FiniteSetTheorems, TLAPS

\* First-order leaves go to Zenon, the others to the SMT solver.
USE ZenonT(3), SMTT(20)

-----------------------------------------------------------------------------
(* The ledger.                                                             *)

\* The free pool and the term of a lease are numbers.
LEMMA PoolType == FreePool \in Nat /\ TTL \in Nat
  BY CapAssumption, TTLAssumption, SMT DEF FreePool

\* The units of a ledger are a finite set, so that counting them means
\* something, and fewer holders have fewer of them.
LEMMA UnitsFinite ==
  ASSUME NEW ledger, NEW S \in SUBSET Node, NEW t
  PROVE  /\ IsFiniteSet(LeasedUnits(ledger, S, t))
         /\ Cardinality(LeasedUnits(ledger, S, t)) \in Nat
<1>1. IsFiniteSet(S)
  BY NodeAssumption, FS_Subset
<1>2. IsFiniteSet(1..FreePool)
  BY PoolType, FS_Interval, SMT
<1>3. IsFiniteSet(S \X (1..FreePool))
  BY <1>1, <1>2, FS_Product
<1>4. IsFiniteSet(LeasedUnits(ledger, S, t))
  BY <1>3, FS_Subset DEF LeasedUnits
<1>. QED
  BY <1>4, FS_CardinalityType

\* A holder is never offered more than the whole pool.
LEMMA AvailableType ==
  ASSUME NEW ledger, NEW h \in Node, NEW t
  PROVE  AvailableTo(ledger, h, t) \in Int /\ AvailableTo(ledger, h, t) <= FreePool
  BY UnitsFinite, PoolType, SMT DEF AvailableTo

\* `grant` keeps a ledger a ledger.
LEMMA GrantType ==
  ASSUME NEW ledger \in [Node -> Grant], NEW h \in Node, NEW want \in Nat, NEW t \in Nat,
         AvailableTo(ledger, h, t) > 0
  PROVE  /\ GrantTo(ledger, h, want, t) \in [Node -> Grant]
         /\ GrantTo(ledger, h, want, t)[h].count \in 0..FreePool
<1>1. Min2(want, AvailableTo(ledger, h, t)) \in 0..FreePool
  BY AvailableType, PoolType, SMT DEF Min2
<1>. QED
  BY <1>1, PoolType, SMT DEF GrantTo, Grant

\* Taking, keeping or losing office leaves a ledger a ledger.
LEMMA ObserveGrantsType ==
  ASSUME NEW ledger \in [Node -> Grant], NEW taken, NEW leading, NEW t
  PROVE  ObserveGrants(ledger, taken, leading, t) \in [Node -> Grant]
<1>1. NoGrant \in Grant
  BY PoolType, SMT DEF NoGrant, Grant
<1>. QED
  BY <1>1 DEF ObserveGrants, NoGrants, ReapGrants

\* Office is since some instant, or not at all.
LEMMA ObserveOfficeType ==
  ASSUME NEW taken \in Instant, NEW leading \in BOOLEAN, NEW t \in Nat
  PROVE  ObserveOffice(taken, leading, t) \in Instant
  BY DEF ObserveOffice, Instant

\* A heartbeat leaves the contacts of a node well formed.
LEMMA HeardType ==
  ASSUME NEW row \in [Node -> Contact], NEW m \in Node, NEW md \in Mode, NEW t \in Nat
  PROVE  /\ Heard(row, m, md, t) \in [Node -> Contact]
         /\ ReapPeers(Heard(row, m, md, t), t) \in [Node -> Contact]
<1>1. [mode |-> md, at |-> t] \in Contact
  BY DEF Contact, Instant
<1>2. Heard(row, m, md, t) \in [Node -> Contact]
  BY <1>1 DEF Heard
<1>3. NoContact \in Contact
  BY DEF NoContact, Contact, Mode, Instant
<1>. QED
  BY <1>2, <1>3 DEF ReapPeers

-----------------------------------------------------------------------------
(* Type correctness.                                                       *)

\* A ticker between requests has the empty request.
LEMMA NotAskingType == NotAsking \in Ask
  BY DEF Ask

\* What is in a request, and what a ticker that is not waiting has instead.
LEMMA AskFields ==
  ASSUME TypeOK, NEW n \in Node
  PROVE  /\ ask[n].want \in Nat /\ ask[n].sent \in Nat /\ ask[n].answer \in 0..FreePool
         /\ ask[n] # NotAsking => ask[n].to \in Node /\ ask[n].want \in 1..MaxWant
         /\ ask[n].answer > 0 => ask[n] # NotAsking
<1>1. ask[n] \in Ask
  BY DEF TypeOK
<1>2. CASE ask[n] = NotAsking
  BY <1>2, PoolType, SMT DEF NotAsking
<1>3. CASE ask[n] \in [to : Node, want : 1..MaxWant, sent : Nat, answer : 0..FreePool]
  <2>1. /\ ask[n].want \in 1..MaxWant /\ ask[n].sent \in Nat /\ ask[n].answer \in 0..FreePool
        /\ ask[n].to \in Node
    BY <1>3
  <2>2. ask[n].answer > 0 => ask[n] # NotAsking
    BY <1>3, SMT DEF NotAsking
  <2>. QED  BY <2>1, <2>2, EnvironmentAssumption, SMT
<1>. QED
  BY <1>1, <1>2, <1>3 DEF Ask

\* `observe` keeps a node's half of the state well formed, whoever was heard.
LEMMA ObserveKeepsTypes ==
  ASSUME TypeOK, NEW n \in Node, NEW m \in Node, NEW md \in Mode,
         Observe(n, Heard(peers[n], m, md, now))
  PROVE  /\ office' \in [Node -> Instant]
         /\ grants' \in [Node -> [Node -> Grant]]
         /\ peers' \in [Node -> [Node -> Contact]]
<1>. DEFINE row == Heard(peers[n], m, md, now)
            leading == IsLeader(row, n, now) /\ HasQuorum(row, now)
<1>1. office' = [office EXCEPT ![n] = ObserveOffice(office[n], leading, now)]
  BY DEF Observe
<1>2. grants' = [grants EXCEPT ![n] = ObserveGrants(grants[n], office[n], leading, now)]
  BY DEF Observe
<1>3. peers' = [peers EXCEPT ![n] = ReapPeers(row, now)]
  BY DEF Observe
<1>4. leading \in BOOLEAN
  BY DEF IsLeader, HasQuorum
<1>5. ObserveOffice(office[n], leading, now) \in Instant
  <2>. HIDE DEF leading
  <2>. QED  BY <1>4, ObserveOfficeType DEF TypeOK
<1>6. ObserveGrants(grants[n], office[n], leading, now) \in [Node -> Grant]
  <2>. HIDE DEF leading
  <2>. QED  BY ObserveGrantsType DEF TypeOK
<1>7. ReapPeers(row, now) \in [Node -> Contact]
  BY HeardType DEF TypeOK
<1>. HIDE DEF row, leading
<1>. QED
  BY <1>1, <1>2, <1>3, <1>5, <1>6, <1>7 DEF TypeOK

\* Every action keeps the types.
LEMMA NextKeepsTypes == TypeOK /\ [Next]_vars => TypeOK'
<1>. SUFFICES ASSUME TypeOK, [Next]_vars PROVE TypeOK'
  OBVIOUS
<1>. USE NotAskingType
<1>1. ASSUME NEW n \in Node, Beat(n) PROVE TypeOK'
  <2>1. mode[n] \in Mode
    BY DEF TypeOK
  <2>2. /\ office' \in [Node -> Instant] /\ grants' \in [Node -> [Node -> Grant]]
        /\ peers' \in [Node -> [Node -> Contact]]
    BY <1>1, <2>1, ObserveKeepsTypes DEF Beat
  <2>. QED  BY <1>1, <2>2 DEF Beat, TypeOK, env, Phase
<1>2. ASSUME NEW n \in Node, NEW m \in Node, Hear(n, m) PROVE TypeOK'
  <2>1. mode[m] \in Mode
    BY DEF TypeOK
  <2>2. /\ office' \in [Node -> Instant] /\ grants' \in [Node -> [Node -> Grant]]
        /\ peers' \in [Node -> [Node -> Contact]]
    BY <1>2, <2>1, ObserveKeepsTypes DEF Hear
  <2>. QED  BY <1>2, <2>2 DEF Hear, TypeOK, env
<1>3. ASSUME NEW n \in Node, NEW w \in Wants(n), RequestLocal(n, w) PROVE TypeOK'
  <2>1. w \in Nat
    BY EnvironmentAssumption, SMT DEF Wants
  <2>2. GrantTo(grants[n], n, w, now) \in [Node -> Grant]
    BY <1>3, <2>1, GrantType DEF RequestLocal, TypeOK
  <2>3. grants' = [grants EXCEPT ![n] = GrantTo(grants[n], n, w, now)]
    BY <1>3 DEF RequestLocal
  <2>4. grants' \in [Node -> [Node -> Grant]]
    BY <2>2, <2>3 DEF TypeOK
  <2>. QED  BY <1>3, <2>4, SMT DEF RequestLocal, TypeOK, env, Phase
<1>4. ASSUME NEW n \in Node, NEW w \in Wants(n), SendRequest(n, w) PROVE TypeOK'
  <2>1. w \in 1..MaxWant
    BY DEF Wants
  <2>2. PICK m \in Node : ask' = [ask EXCEPT ![n] = [to |-> m, want |-> w, sent |-> now, answer |-> 0]]
    BY <1>4 DEF SendRequest
  <2>3. [to |-> m, want |-> w, sent |-> now, answer |-> 0] \in Ask
    BY <2>1, PoolType, SMT DEF TypeOK, Ask
  <2>4. ask' \in [Node -> Ask]
    BY <2>2, <2>3 DEF TypeOK
  <2>. QED  BY <1>4, <2>4 DEF SendRequest, TypeOK, env, Phase
<1>5. ASSUME NEW n \in Node, Serve(n) PROVE TypeOK'
  <2>. DEFINE m == ask[n].to
              ledger == GrantTo(grants[m], n, ask[n].want, now)
  <2>1. ask[n] # NotAsking /\ m \in Node /\ ask[n].want \in Nat
    BY <1>5, AskFields DEF Serve
  <2>2. ledger \in [Node -> Grant] /\ ledger[n].count \in 0..FreePool
    BY <1>5, <2>1, GrantType DEF Serve, TypeOK
  <2>3. grants' = [grants EXCEPT ![m] = ledger] /\ ask' = [ask EXCEPT ![n].answer = grants'[m][n].count]
    BY <1>5 DEF Serve
  <2>. HIDE DEF m, ledger
  <2>4. grants' \in [Node -> [Node -> Grant]] /\ grants'[m] = ledger
    BY <2>1, <2>2, <2>3 DEF TypeOK
  <2>5. [ask[n] EXCEPT !.answer = ledger[n].count] \in Ask
    BY <2>1, <2>2 DEF TypeOK, Ask
  <2>6. ask' \in [Node -> Ask]
    BY <2>3, <2>4, <2>5 DEF TypeOK
  <2>. QED  BY <1>5, <2>4, <2>6 DEF Serve, TypeOK, env
<1>6. ASSUME NEW n \in Node, Accept(n) PROVE TypeOK'
  <2>1. Max2(now, ask[n].sent + TTL) \in Nat /\ ask[n].answer \in 0..FreePool
    BY PoolType, AskFields, SMT DEF TypeOK, Max2
  <2>2. held' \in [Node -> Grant]
    BY <1>6, <2>1 DEF Accept, TypeOK, Grant
  <2>. QED  BY <1>6, <2>2 DEF Accept, TypeOK, env
<1>7. ASSUME NEW n \in Node, GiveUp(n) PROVE TypeOK'
  <2>1. [to |-> ask[n].to, from |-> n, want |-> ask[n].want] \in Late
    BY <1>7, AskFields DEF GiveUp, Late
  <2>. QED  BY <1>7, <2>1 DEF GiveUp, TypeOK, env
<1>8. ASSUME NEW r \in late, ServeLate(r) PROVE TypeOK'
  <2>. DEFINE ledger == GrantTo(grants[r.to], r.from, r.want, now)
  <2>1. r.to \in Node /\ r.from \in Node /\ r.want \in Nat
    BY SMT DEF TypeOK, Late
  <2>2. CASE MayGrant(r.to) /\ AvailableTo(grants[r.to], r.from, now) > 0
    <3>1. ledger \in [Node -> Grant]
      BY <2>1, <2>2, GrantType DEF TypeOK
    <3>2. grants' = [grants EXCEPT ![r.to] = ledger]
      BY <1>8, <2>2 DEF ServeLate
    <3>. HIDE DEF ledger
    <3>3. grants' \in [Node -> [Node -> Grant]]
      BY <2>1, <3>1, <3>2 DEF TypeOK
    <3>. QED  BY <1>8, <3>3 DEF ServeLate, TypeOK, env
  <2>3. CASE ~(MayGrant(r.to) /\ AvailableTo(grants[r.to], r.from, now) > 0)
    BY <1>8, <2>3 DEF ServeLate, TypeOK, env
  <2>. QED  BY <2>2, <2>3
<1>9. ASSUME NEW n \in Node, StartDrain(n) \/ Settled(n) \/ Undrain(n) PROVE TypeOK'
  BY <1>9 DEF StartDrain, Settled, Undrain, TypeOK, env, Mode, Phase
<1>10. ASSUME NEW n \in Node, Crash(n) PROVE TypeOK'
  <2>1. NoPeers \in [Node -> Contact] /\ Never \in Instant
    BY DEF NoPeers, NoContact, Contact, Mode, Instant
  <2>2. NoGrant \in Grant /\ NoGrants \in [Node -> Grant]
    BY PoolType, SMT DEF NoGrants, NoGrant, Grant
  <2>. QED  BY <1>10, <2>1, <2>2 DEF Crash, TypeOK, env, Mode, Phase
<1>11. ASSUME NEW n \in Node, Restart(n) PROVE TypeOK'
  BY <1>11 DEF Restart, TypeOK, env
<1>12. ASSUME NEW net \in Topologies, Rewire(net) PROVE TypeOK'
  BY <1>12 DEF Rewire, TypeOK
<1>13. ASSUME Advance PROVE TypeOK'
  BY <1>13, SMT DEF Advance, TypeOK
<1>14. CASE UNCHANGED vars
  BY <1>14 DEF TypeOK, vars
<1>. QED
  BY <1>1, <1>2, <1>3, <1>4, <1>5, <1>6, <1>7, <1>8, <1>9, <1>10, <1>11, <1>12, <1>13, <1>14 DEF Next

\* Every state of every run is well formed: no grant and no lease exceeds the
\* free pool, and every request is awaited from some node.
THEOREM TypeCorrect == Spec => []TypeOK
<1>1. Init => TypeOK
  <2>1. NoPeers \in [Node -> Contact] /\ Never \in Instant
    BY DEF NoPeers, NoContact, Contact, Mode, Instant
  <2>2. NoGrant \in Grant /\ NoGrants \in [Node -> Grant]
    BY PoolType, SMT DEF NoGrants, NoGrant, Grant
  <2>. QED  BY <2>1, <2>2, NotAskingType, SMT DEF Init, TypeOK, Mode, Phase
<1>. QED
  BY <1>1, NextKeepsTypes, PTL DEF Spec

-----------------------------------------------------------------------------
(* No ledger over-commits the free pool.                                   *)

\* A union has no more elements than its parts have together.
LEMMA UnionBound ==
  ASSUME NEW S, NEW T, IsFiniteSet(S), IsFiniteSet(T)
  PROVE  /\ IsFiniteSet(S \cup T)
         /\ Cardinality(S \cup T) <= Cardinality(S) + Cardinality(T)
<1>1. IsFiniteSet(S \cup T) /\ Cardinality(S \cup T) = Cardinality(S) + Cardinality(T) - Cardinality(S \cap T)
  BY FS_Union
<1>2. Cardinality(S \cap T) \in Nat
  BY FS_Intersection, FS_CardinalityType
<1>3. Cardinality(S) \in Nat /\ Cardinality(T) \in Nat
  BY FS_CardinalityType
<1>. QED
  BY <1>1, <1>2, <1>3, SMT

\* As the clock moves, leases only run out.
LEMMA UnitsExpire ==
  ASSUME NEW ledger \in [Node -> Grant], NEW t \in Nat, NEW u \in Nat, t <= u
  PROVE  Outstanding(ledger, u) <= Outstanding(ledger, t)
<1>1. ASSUME NEW h \in Node PROVE LiveCount(ledger[h], u) <= LiveCount(ledger[h], t)
  BY PoolType, SMT DEF LiveCount, Grant
<1>2. ASSUME NEW h \in Node PROVE LiveCount(ledger[h], u) \in Nat /\ LiveCount(ledger[h], t) \in Nat
  BY PoolType, SMT DEF LiveCount, Grant
<1>3. LeasedUnits(ledger, Node, u) \subseteq LeasedUnits(ledger, Node, t)
  BY <1>1, <1>2, PoolType, SMT DEF LeasedUnits
<1>. QED
  BY <1>3, UnitsFinite, FS_Subset DEF Outstanding

\* `observe_leadership` drops grants and adds none.
LEMMA ObserveFreesUnits ==
  ASSUME NEW ledger \in [Node -> Grant], NEW taken, NEW leading, NEW t \in Nat
  PROVE  Outstanding(ObserveGrants(ledger, taken, leading, t), t) <= Outstanding(ledger, t)
<1>. DEFINE after == ObserveGrants(ledger, taken, leading, t)
<1>1. ASSUME NEW h \in Node PROVE LiveCount(after[h], t) \in {0, LiveCount(ledger[h], t)}
  BY DEF ObserveGrants, NoGrants, NoGrant, ReapGrants, LiveCount, Grant
<1>2. ASSUME NEW h \in Node PROVE LiveCount(ledger[h], t) \in Nat
  BY PoolType, SMT DEF LiveCount, Grant
<1>. HIDE DEF after
<1>3. LeasedUnits(after, Node, t) \subseteq LeasedUnits(ledger, Node, t)
  BY <1>1, <1>2, PoolType, SMT DEF LeasedUnits
<1>4. Outstanding(after, t) <= Outstanding(ledger, t)
  BY <1>3, UnitsFinite, FS_Subset DEF Outstanding
<1>. QED
  BY <1>4 DEF after

\* `grant` gives out no more than is left beside the other holders' leases.
LEMMA GrantStaysWithinPool ==
  ASSUME NEW ledger \in [Node -> Grant], NEW h \in Node, NEW want \in Nat, NEW t \in Nat,
         AvailableTo(ledger, h, t) > 0
  PROVE  Outstanding(GrantTo(ledger, h, want, t), t) <= FreePool
<1>. DEFINE count == Min2(want, AvailableTo(ledger, h, t))
            after == GrantTo(ledger, h, want, t)
            others == LeasedUnits(ledger, Node \ {h}, t)
            own == {h} \X (1..count)
<1>1. count \in Nat /\ count <= AvailableTo(ledger, h, t)
  BY AvailableType, SMT DEF Min2
<1>2. AvailableTo(ledger, h, t) = FreePool - Cardinality(others) /\ AvailableTo(ledger, h, t) \in Int
  BY AvailableType DEF AvailableTo
<1>3. IsFiniteSet(others) /\ Cardinality(others) \in Nat
  BY UnitsFinite
<1>4. IsFiniteSet(own) /\ Cardinality(own) = count
  <2>1. IsFiniteSet(1..count) /\ Cardinality(1..count) = count
    BY <1>1, FS_Interval, SMT
  <2>2. IsFiniteSet({h}) /\ Cardinality({h}) = 1
    BY FS_Singleton
  <2>. HIDE DEF count
  <2>3. IsFiniteSet(own) /\ Cardinality(own) = 1 * Cardinality(1..count)
    BY <2>1, <2>2, FS_Product
  <2>. QED  BY <1>1, <2>1, <2>3, SMT
<1>5. after \in [Node -> Grant] /\ after[h] = [count |-> count, expires |-> t + TTL]
      /\ \A k \in Node \ {h} : after[k] = ledger[k]
  BY GrantType DEF GrantTo
<1>6. LiveCount(after[h], t) \in {0, count}
  BY <1>5, SMT DEF LiveCount
<1>. HIDE DEF count, after
<1>7. LeasedUnits(after, Node, t) \subseteq others \cup own
  <2>. SUFFICES ASSUME NEW u \in LeasedUnits(after, Node, t) PROVE u \in others \cup own
    OBVIOUS
  <2>1. u \in Node \X (1..FreePool) /\ u[2] <= LiveCount(after[u[1]], t)
    BY DEF LeasedUnits
  <2>2. CASE u[1] = h
    BY <1>1, <1>6, <2>1, <2>2, SMT
  <2>3. CASE u[1] # h
    BY <1>5, <2>1, <2>3 DEF LeasedUnits
  <2>. QED  BY <2>2, <2>3
<1>. HIDE DEF others, own
<1>8. IsFiniteSet(others \cup own) /\ Cardinality(others \cup own) <= Cardinality(others) + count
  BY <1>3, <1>4, UnionBound
<1>9. Outstanding(after, t) <= Cardinality(others) + count
  <2>1. Cardinality(LeasedUnits(after, Node, t)) <= Cardinality(others \cup own)
    BY <1>7, <1>8, FS_Subset
  <2>2. Cardinality(LeasedUnits(after, Node, t)) \in Nat /\ Cardinality(others \cup own) \in Nat
    BY <1>8, UnitsFinite, FS_CardinalityType
  <2>. QED  BY <1>1, <1>3, <1>8, <2>1, <2>2, SMT DEF Outstanding
<1>10. Outstanding(after, t) \in Nat
  BY UnitsFinite DEF Outstanding
<1>11. Outstanding(after, t) <= FreePool
  BY <1>1, <1>2, <1>3, <1>9, <1>10, PoolType, SMT
<1>. QED
  BY <1>11 DEF after

\* Every action keeps every ledger within the free pool: only `grant` adds to
\* one, and only up to what is available.
LEMMA NextKeepsLedgersWithinPool ==
  TypeOK /\ LedgerWithinPool /\ [Next]_vars => LedgerWithinPool'
<1>. SUFFICES ASSUME TypeOK, LedgerWithinPool, [Next]_vars, NEW m \in Node
              PROVE  Outstanding(grants[m], now)' <= FreePool
  BY DEF LedgerWithinPool
<1>. DEFINE WithinPool == Outstanding(grants'[m], now') <= FreePool
<1>1. Outstanding(grants[m], now) <= FreePool /\ grants[m] \in [Node -> Grant] /\ now \in Nat
  BY DEF LedgerWithinPool, TypeOK
<1>2. ASSUME NEW ledger, NEW t PROVE Outstanding(ledger, t) \in Nat
  BY UnitsFinite DEF Outstanding
<1>3. ASSUME NEW n \in Node, NEW row, Observe(n, row), now' = now PROVE WithinPool
  <2>. DEFINE leading == IsLeader(row, n, now) /\ HasQuorum(row, now)
  <2>1. grants' = [grants EXCEPT ![n] = ObserveGrants(grants[n], office[n], leading, now)]
    BY <1>3 DEF Observe
  <2>. HIDE DEF leading
  <2>2. CASE n = m
    <3>1. grants'[m] = ObserveGrants(grants[m], office[m], leading, now)
      BY <2>1, <2>2 DEF TypeOK
    <3>2. Outstanding(ObserveGrants(grants[m], office[m], leading, now), now) <= Outstanding(grants[m], now)
      BY <1>1, ObserveFreesUnits
    <3>3. Outstanding(grants'[m], now) <= Outstanding(grants[m], now)
      BY <3>1, <3>2
    <3>. QED  BY <1>1, <1>2, <1>3, <3>3, PoolType, SMT
  <2>3. CASE n # m
    BY <1>1, <1>3, <2>1, <2>3 DEF TypeOK
  <2>. QED  BY <2>2, <2>3
<1>4. ASSUME NEW k \in Node, NEW h \in Node, NEW w \in Nat, AvailableTo(grants[k], h, now) > 0,
             grants' = [grants EXCEPT ![k] = GrantTo(grants[k], h, w, now)], now' = now
      PROVE  WithinPool
  <2>1. CASE k = m
    <3>1. grants'[m] = GrantTo(grants[m], h, w, now)
      BY <1>4, <2>1 DEF TypeOK
    <3>2. Outstanding(GrantTo(grants[m], h, w, now), now) <= FreePool
      BY <1>1, <1>4, <2>1, GrantStaysWithinPool
    <3>. QED  BY <1>4, <3>1, <3>2
  <2>2. CASE k # m
    BY <1>1, <1>4, <2>2 DEF TypeOK
  <2>. QED  BY <2>1, <2>2
<1>5. ASSUME NEW n \in Node, Beat(n) PROVE WithinPool
  BY <1>3, <1>5 DEF Beat, env
<1>6. ASSUME NEW n \in Node, NEW k \in Node, Hear(n, k) PROVE WithinPool
  BY <1>3, <1>6 DEF Hear, env
<1>7. ASSUME NEW n \in Node, NEW w \in Wants(n), RequestLocal(n, w) PROVE WithinPool
  <2>1. w \in Nat
    BY EnvironmentAssumption, SMT DEF Wants
  <2>. QED  BY <1>4, <1>7, <2>1 DEF RequestLocal, env
<1>8. ASSUME NEW n \in Node, Serve(n) PROVE WithinPool
  <2>1. ask[n].to \in Node /\ ask[n].want \in Nat
    BY <1>8, AskFields DEF Serve
  <2>. QED  BY <1>4, <1>8, <2>1 DEF Serve, env
<1>9. ASSUME NEW r \in late, ServeLate(r) PROVE WithinPool
  <2>1. r.to \in Node /\ r.from \in Node /\ r.want \in Nat
    BY EnvironmentAssumption, SMT DEF TypeOK, Late
  <2>2. CASE MayGrant(r.to) /\ AvailableTo(grants[r.to], r.from, now) > 0
    BY <1>4, <1>9, <2>1, <2>2 DEF ServeLate, env
  <2>3. CASE ~(MayGrant(r.to) /\ AvailableTo(grants[r.to], r.from, now) > 0)
    BY <1>1, <1>9, <2>3 DEF ServeLate, env
  <2>. QED  BY <2>2, <2>3
<1>10. ASSUME NEW n \in Node, Crash(n) PROVE WithinPool
  <2>1. CASE n = m
    <3>1. grants'[m] = NoGrants /\ now' = now
      BY <1>10, <2>1 DEF Crash, TypeOK, env
    <3>2. ASSUME NEW h \in Node PROVE LiveCount(NoGrants[h], now) = 0
      BY DEF NoGrants, NoGrant, LiveCount
    <3>3. LeasedUnits(NoGrants, Node, now) = {}
      BY <3>2, SMT DEF LeasedUnits
    <3>. QED  BY <3>1, <3>3, FS_EmptySet, PoolType, SMT DEF Outstanding
  <2>2. CASE n # m
    BY <1>1, <1>10, <2>2 DEF Crash, TypeOK, env
  <2>. QED  BY <2>1, <2>2
<1>11. ASSUME Advance PROVE WithinPool
  <2>1. grants' = grants /\ now' = now + 1
    BY <1>11 DEF Advance
  <2>2. Outstanding(grants[m], now + 1) <= Outstanding(grants[m], now)
    BY <1>1, UnitsExpire, SMT
  <2>. QED  BY <1>1, <1>2, <2>1, <2>2, PoolType, SMT
<1>12. ASSUME UNCHANGED <<grants, now>> PROVE WithinPool
  BY <1>1, <1>12
<1>13. ASSUME NEW n \in Node, \/ \E w \in Wants(n) : SendRequest(n, w)
                              \/ Accept(n) \/ GiveUp(n) \/ Restart(n)
                              \/ StartDrain(n) \/ Settled(n) \/ Undrain(n)
       PROVE  WithinPool
  BY <1>12, <1>13 DEF SendRequest, Accept, GiveUp, Restart, StartDrain, Settled, Undrain, env
<1>14. ASSUME NEW net \in Topologies, Rewire(net) PROVE WithinPool
  BY <1>12, <1>14 DEF Rewire
<1>15. ASSUME UNCHANGED vars PROVE WithinPool
  BY <1>12, <1>15 DEF vars
<1>16. WithinPool
  <2>. HIDE DEF WithinPool
  <2>. QED
    BY <1>5, <1>6, <1>7, <1>8, <1>9, <1>10, <1>11, <1>13, <1>14, <1>15 DEF Next
<1>. QED
  BY <1>16

\* No leader's ledger ever has more of the free pool out than there is,
\* whatever it was asked for, by whom, in what order and how late.
THEOREM LedgerNeverOvercommits == Spec => []LedgerWithinPool
<1>1. Init => LedgerWithinPool
  <2>. SUFFICES ASSUME Init, NEW m \in Node PROVE Outstanding(grants[m], now) <= FreePool
    BY DEF LedgerWithinPool
  <2>1. ASSUME NEW h \in Node PROVE LiveCount(grants[m][h], now) = 0
    BY DEF Init, NoGrants, NoGrant, LiveCount
  <2>2. LeasedUnits(grants[m], Node, now) = {}
    BY <2>1, SMT DEF LeasedUnits
  <2>. QED  BY <2>2, FS_EmptySet, PoolType, SMT DEF Outstanding
<1>. QED
  BY <1>1, TypeCorrect, NextKeepsLedgersWithinPool, PTL DEF Spec

-----------------------------------------------------------------------------
(* From one ledger to the server's cap.                                    *)

\* The guaranteed shares of a whole fleet fit in what is set aside for them,
\* whatever each node's view of the fleet is: `split` rounds down, and
\* `split_for` never divides by less than the configured size.
LEMMA SharesFit ==
  /\ \A n \in Node : Guaranteed(n) = GuaranteedPerNode(FleetSize)
  /\ GuaranteedPerNode(FleetSize) \in Nat
  /\ Cardinality(Node) * GuaranteedPerNode(FleetSize) <= GuaranteedTotal
<1>. DEFINE G == GuaranteedTotal \div FleetSize
<1>1. GuaranteedTotal \in Nat /\ FleetSize \in Nat /\ FleetSize > 0
  BY CapAssumption, FleetAssumption, SMT
<1>2. GuaranteedPerNode(FleetSize) = G
  BY <1>1, SMT DEF GuaranteedPerNode
<1>3. G \in Nat /\ FleetSize * G <= GuaranteedTotal
  BY <1>1, SMT
<1>. HIDE DEF G
<1>4. Cardinality(Node) \in Nat /\ Cardinality(Node) <= FleetSize
  BY NodeAssumption, FS_CardinalityType, FleetAssumption
<1>5. Cardinality(Node) * G <= FleetSize * G
  BY <1>1, <1>3, <1>4, SMT
<1>6. Cardinality(Node) * G <= GuaranteedTotal
  BY <1>1, <1>3, <1>4, <1>5, SMT
<1>7. ASSUME NEW n \in Node PROVE Guaranteed(n) = GuaranteedPerNode(FleetSize)
  <2>1. View(peers[n], now) \in SUBSET Node
    BY DEF View
  <2>2. Cardinality(View(peers[n], now)) <= Cardinality(Node)
    BY <2>1, NodeAssumption, FS_Subset
  <2>3. Cardinality(View(peers[n], now)) \in Nat
    BY <2>1, NodeAssumption, FS_Subset, FS_CardinalityType
  <2>4. Max2(FleetSize, Cardinality(View(peers[n], now))) = FleetSize
    BY <1>1, <1>4, <2>2, <2>3, SMT DEF Max2
  <2>. QED  BY <2>4 DEF Guaranteed
<1>. QED
  BY <1>2, <1>3, <1>6, <1>7

\* One ledger that accounts for every live lease is enough for the cap: the
\* leases fit in the free pool because the ledger does, and the shares fit in
\* the rest.
LEMMA OneLedgerIsEnough ==
  ASSUME TypeOK, NEW ledger \in [Node -> Grant], Outstanding(ledger, now) <= FreePool,
         \A n \in Node : Leased(n) <= LiveCount(ledger[n], now)
  PROVE  CapRespected
<1>. DEFINE G == GuaranteedPerNode(FleetSize)
            shares == Node \X (1..G)
            leases == LeasedUnits(ledger, Node, now)
            above == {u \in AllowedUnits : u[2] > G}
            down == [u \in above |-> <<u[1], u[2] - G>>]
<1>1. G \in Nat /\ Cardinality(Node) * G <= GuaranteedTotal /\ \A n \in Node : Guaranteed(n) = G
  BY SharesFit
<1>2. IsFiniteSet(Node) /\ Cardinality(Node) \in Nat
  BY NodeAssumption, FS_CardinalityType
<1>. HIDE DEF G
<1>3. IsFiniteSet(shares) /\ Cardinality(shares) = Cardinality(Node) * G
  <2>1. IsFiniteSet(1..G) /\ Cardinality(1..G) = G
    BY <1>1, FS_Interval, SMT
  <2>. QED  BY <1>2, <2>1, FS_Product
<1>4. IsFiniteSet(leases) /\ Cardinality(leases) \in Nat /\ Cardinality(leases) <= FreePool
  BY UnitsFinite DEF Outstanding
<1>5. ASSUME NEW u \in above
      PROVE  u \in Node \X (1..Cap) /\ u[2] > G /\ <<u[1], u[2] - G>> \in leases
  <2>1. u \in Node \X (1..Cap) /\ u[2] > G /\ u[2] <= Allowance(u[1])
    BY DEF AllowedUnits
  <2>2. Allowance(u[1]) = G + Leased(u[1])
    BY <1>1, <2>1 DEF Allowance
  <2>3. Leased(u[1]) \in Nat /\ LiveCount(ledger[u[1]], now) \in 0..FreePool
    BY <2>1, PoolType, SMT DEF Leased, LiveCount, TypeOK, Grant
  <2>4. u[2] - G \in 1..FreePool /\ u[2] - G <= LiveCount(ledger[u[1]], now)
    BY <1>1, <2>1, <2>2, <2>3, CapAssumption, PoolType, SMT
  <2>. QED  BY <2>1, <2>4 DEF LeasedUnits
<1>6. down \in Injection(above, leases)
  <2>. HIDE DEF above, leases
  <2>1. down \in [above -> leases]
    BY <1>5
  <2>2. ASSUME NEW u \in above, NEW v \in above, down[u] = down[v] PROVE u = v
    <3>1. u[1] = v[1] /\ u[2] - G = v[2] - G
      BY <2>2
    <3>2. u \in Node \X (1..Cap) /\ v \in Node \X (1..Cap)
      BY <1>5
    <3>3. u[2] = v[2]
      BY <1>1, <3>1, <3>2, CapAssumption, SMT
    <3>. QED  BY <3>1, <3>2, <3>3, SMT
  <2>. QED  BY <2>1, <2>2 DEF Injection, IsInjective
<1>7. IsFiniteSet(above) /\ Cardinality(above) <= Cardinality(leases)
  <2>. HIDE DEF above, leases, down
  <2>. QED  BY <1>4, <1>6, FS_Injection
<1>8. AllowedUnits \subseteq shares \cup above
  BY <1>1, CapAssumption, SMT DEF AllowedUnits
<1>. HIDE DEF shares, leases, above
<1>9. IsFiniteSet(shares \cup above) /\ Cardinality(shares \cup above) <= Cardinality(shares) + Cardinality(above)
  BY <1>3, <1>7, UnionBound
<1>10. IsFiniteSet(AllowedUnits) /\ Cardinality(AllowedUnits) <= Cardinality(shares \cup above)
  BY <1>8, <1>9, FS_Subset
<1>11. /\ Cardinality(AllowedUnits) \in Nat /\ Cardinality(above) \in Nat
       /\ Cardinality(shares) \in Nat /\ Cardinality(shares \cup above) \in Nat
  BY <1>3, <1>7, <1>9, <1>10, FS_CardinalityType
<1>12. Cardinality(shares) <= GuaranteedTotal
  BY <1>1, <1>3
<1>. QED
  BY <1>4, <1>7, <1>9, <1>10, <1>11, <1>12, CapAssumption, SMT DEF CapRespected, FreePool

\* Whenever some node may grant, and whoever may grant has every live lease on
\* record, the fleet's allowances are within the cap.  This is the reason the
\* takeover wait and the round trip taken off each lease keep the server safe:
\* they are what makes GrantorKnowsEveryLease true.
InformedGrantorKeepsTheCap ==
  GrantorKnowsEveryLease /\ (\E m \in Node : MayGrant(m)) => CapRespected

\* No ledger promises more than the free pool, so a ledger that has every lease
\* on record keeps what the nodes may open within the cap.
THEOREM CapFollowsFromTheLedger == Spec => []InformedGrantorKeepsTheCap
<1>1. TypeOK /\ LedgerWithinPool => InformedGrantorKeepsTheCap
  <2>. SUFFICES ASSUME TypeOK, LedgerWithinPool, GrantorKnowsEveryLease, NEW m \in Node, MayGrant(m)
                PROVE  CapRespected
    BY DEF InformedGrantorKeepsTheCap
  <2>1. ASSUME NEW n \in Node PROVE Leased(n) <= LiveCount(grants[m][n], now)
    <3>1. /\ grants[m][n].count \in Nat /\ grants[m][n].expires \in Nat
          /\ held[n].count \in Nat /\ held[n].expires \in Nat /\ now \in Nat
      BY PoolType, SMT DEF TypeOK, Grant
    <3>2. Leased(n) > 0 => Covers(grants[m][n], held[n])
      BY DEF GrantorKnowsEveryLease
    <3>. QED  BY <3>1, <3>2, SMT DEF Leased, LiveCount, Covers
  <2>2. grants[m] \in [Node -> Grant] /\ Outstanding(grants[m], now) <= FreePool
    BY DEF TypeOK, LedgerWithinPool
  <2>. QED  BY <2>1, <2>2, OneLedgerIsEnough
<1>. QED
  BY <1>1, TypeCorrect, LedgerNeverOvercommits, PTL

-----------------------------------------------------------------------------
(* The server's cap under clean faults.                                    *)

\* The side of the partition node n is on, and whether it is the larger one.
Reach(n) == {j \in Node : j = n \/ <<n, j>> \in links}

Majority(n) == 2 * Cardinality(Reach(n)) > FleetSize

\* A node that restarted may lead before it has heard from those who led.
RestartGap == IF MayCrash = {} THEN 0 ELSE HearEvery

\* What the protocol's timings are for: the network only ever splits into
\* sides, a side lasts until everyone on it has noticed, no request outlives
\* its asker, nobody drains, and the takeover wait covers the leases of a
\* leader that is still to notice that it has lost its majority.
CleanFaults ==
  /\ \A net \in Topologies, a, b, c \in Node : <<a, b>> \in net /\ <<b, c>> \in net => <<a, c>> \in net
  /\ MayDrain = {} /\ ~LateRequests
  /\ HearEvery < SuspectAfter /\ BeatEvery <= SuspectAfter
  /\ SuspectAfter + BeatEvery <= Dwell
  /\ TTL + SuspectAfter + RestartGap <= TakeoverWait

\* Nothing has happened in the future, nobody drains, and a node's contacts
\* are of its own life.
Clocked ==
  /\ changedAt <= now /\ late = {}
  /\ \A n \in Node :
       /\ bootedAt[n] <= now /\ mode[n] = "active" /\ phase[n] # "settling"
       /\ MayCrash = {} => up[n] /\ bootedAt[n] = 0
       /\ ~up[n] => peers[n][n].at = Never
       /\ peers[n][n].at # Never => bootedAt[n] <= peers[n][n].at
  /\ \A n, j \in Node : peers[n][j].at <= now /\ peers[n][j].mode = "active"

\* A running node has beaten lately, and those it can reach it has heard lately.
Timely ==
  /\ \A n \in Node : up[n] => now <= Max2(peers[n][n].at, bootedAt[n]) + BeatEvery
  /\ \A n, m \in Node : Linked(n, m) =>
       \/ now <= peers[n][m].at + HearEvery
       \/ now <= Max2(changedAt, Max2(bootedAt[n], bootedAt[m])) + HearEvery

\* Who has been heard since the network changed is on the hearer's side.  A node
\* in office is the lowest it knows of, and once its contacts from before the
\* change have gone stale its side is a majority.
Officers ==
  /\ \A n, j \in Node : peers[n][j].at > changedAt => j \in Reach(n)
  /\ \A n \in Node : office[n] # Never =>
       /\ up[n] /\ bootedAt[n] <= office[n] /\ office[n] <= now /\ peers[n][n].at # Never
       /\ \A m \in Node : m < n => peers[n][m].at = Never
       /\ peers[n][n].at >= changedAt + SuspectAfter => Majority(n)

\* Two nodes are in office at once only when the later took it since the
\* network last changed.
Rivals ==
  \A m, k \in Node : m # k /\ office[m] # Never /\ office[k] # Never
                       => changedAt <= Max2(office[m], office[k]) + RestartGap

\* A lease lives no longer than one granted now would, and what is asked for
\* is more than what is held.
Asked ==
  \A n \in Node :
    /\ held[n].expires <= now + TTL
    /\ ask[n] # NotAsking => ask[n].sent <= now /\ Leased(n) < ask[n].want

\* The lease that is on its way to node n, and every lease it may count on.
Promised(n) == [count |-> ask[n].answer, expires |-> ask[n].sent + TTL]

Leases(n) == {held[n], Promised(n)}

\* In office, and not on the side of a minority that has had time to notice.
Firm(m) == office[m] # Never /\ (now < changedAt + SuspectAfter \/ Majority(m))

\* A node in office has on record every lease that will outlast its takeover wait.
Known ==
  \A m, n \in Node : \A l \in Leases(n) :
    Firm(m) /\ LiveCount(l, now) > 0 /\ l.expires > office[m] + TakeoverWait => Covers(grants[m][n], l)

\* Some ledger within the pool accounts for every lease, also when nobody leads.
Accounted ==
  \E ledger \in [Node -> Grant] :
    /\ Outstanding(ledger, now) <= FreePool
    /\ \A n \in Node : \A l \in Leases(n) : LiveCount(l, now) > 0 => Covers(ledger[n], l)

\* A request carries the instant it was sent at; an idle ticker's carries 0.
LEMMA RequestsAreTimed == \A a \in Ask : a.sent \in Nat
<1>1. NotAsking.sent \in Nat
  BY DEF NotAsking
<1>. QED
  BY <1>1 DEF Ask

\* The timings as numbers.
LEMMA Timings ==
  /\ SuspectAfter \in Nat /\ DeadAfter \in Nat /\ 0 < SuspectAfter /\ SuspectAfter < DeadAfter
  /\ TTL \in Nat /\ TTL > 0 /\ TakeoverWait \in Nat /\ RestartGap \in Nat
  /\ Dwell \in Nat /\ BeatEvery \in Nat /\ HearEvery \in Nat
  BY MembershipIsSafe, TTLAssumption, EnvironmentAssumption, SMT DEF TakeoverWait, Max2, RestartGap

\* The sides are those of the network.
LEMMA SidesStay ==
  ASSUME links' = links
  PROVE  \A n \in Node : Reach(n)' = Reach(n) /\ (Majority(n)' <=> Majority(n))
<1>1. ASSUME NEW n \in Node PROVE Reach(n)' = Reach(n)
  BY DEF Reach
<1>. QED
  BY <1>1 DEF Majority

\* A quorum of contacts that are all on one side makes that side a majority.
LEMMA QuorumOnOneSide ==
  ASSUME NEW row \in [Node -> Contact], NEW side \in SUBSET Node, NEW since \in Nat, NEW t \in Nat,
         t >= since + SuspectAfter, HasQuorum(row, t),
         \A j \in Node : row[j].at > since => j \in side
  PROVE  2 * Cardinality(side) > FleetSize
<1>1. AliveMembers(row, t) \subseteq side
  BY Timings, SMT DEF AliveMembers, IsAlive, Contact, Instant, Never
<1>2. IsFiniteSet(side) /\ Cardinality(side) \in Nat
  BY NodeAssumption, FS_Subset, FS_CardinalityType
<1>3. Cardinality(AliveMembers(row, t)) <= Cardinality(side) /\ Cardinality(AliveMembers(row, t)) \in Nat
  BY <1>1, <1>2, FS_Subset, FS_CardinalityType
<1>. QED
  BY <1>2, <1>3, FleetAssumption, SMT DEF HasQuorum

\* Two majorities are one side.
LEMMA MajoritiesMeet ==
  ASSUME CleanFaults, TypeOK, NEW m \in Node, NEW k \in Node, m # k, Majority(m), Majority(k)
  PROVE  <<m, k>> \in links
<1>1. Reach(m) \subseteq Node /\ Reach(k) \subseteq Node
  BY DEF Reach
<1>2. Cardinality(Reach(m)) \in Nat /\ Cardinality(Reach(k)) \in Nat /\ Cardinality(Node) \in Nat
  BY <1>1, NodeAssumption, FS_Subset, FS_CardinalityType
<1>3. Cardinality(Reach(m)) + Cardinality(Reach(k)) > Cardinality(Node)
  BY <1>2, FleetAssumption, SMT DEF Majority
<1>4. PICK j \in Node : j \in Reach(m) /\ j \in Reach(k)
  BY <1>1, <1>3, NodeAssumption, FS_MajoritiesIntersect
<1>5. links \in Topologies
  BY DEF TypeOK
<1>6. \A a, b \in Node : <<a, b>> \in links => <<b, a>> \in links
  BY <1>5, EnvironmentAssumption
<1>7. \A a, b, c \in Node : <<a, b>> \in links /\ <<b, c>> \in links => <<a, c>> \in links
  BY <1>5 DEF CleanFaults
<1>. QED
  BY <1>4, <1>6, <1>7 DEF Reach

\* Two nodes in office on the majority's side have not had time to hear of each
\* other: one of them has just restarted.
LEMMA RivalsAreNew ==
  ASSUME CleanFaults, TypeOK, Clocked, Timely, Officers,
         NEW m \in Node, NEW k \in Node, m < k, office[m] # Never, office[k] # Never,
         Majority(m), Majority(k), now > changedAt + HearEvery
  PROVE  MayCrash # {} /\ now <= Max2(office[m], office[k]) + HearEvery
<1>1. <<k, m>> \in links /\ m # k /\ m \in Nat /\ k \in Nat
  BY MajoritiesMeet, NodeAssumption, SMT
<1>2. Linked(k, m)
  BY <1>1 DEF Linked, Officers
<1>3. peers[k][m].at = Never
  BY DEF Officers
<1>4. now \in Nat /\ changedAt \in Nat /\ bootedAt[m] \in Nat /\ bootedAt[k] \in Nat
  BY DEF TypeOK
<1>5. now <= Max2(changedAt, Max2(bootedAt[k], bootedAt[m])) + HearEvery
  BY <1>2, <1>3, <1>4, Timings, SMT DEF Timely, Never
<1>6. now <= Max2(bootedAt[k], bootedAt[m]) + HearEvery
  BY <1>4, <1>5, Timings, SMT DEF Max2
<1>7. bootedAt[m] <= office[m] /\ bootedAt[k] <= office[k] /\ office[m] \in Nat /\ office[k] \in Nat
  BY DEF Officers, TypeOK, Instant
<1>8. now <= Max2(office[m], office[k]) + HearEvery
  BY <1>4, <1>6, <1>7, Timings, SMT DEF Max2
<1>9. MayCrash # {}
  <2>. SUFFICES ASSUME MayCrash = {} PROVE FALSE
    OBVIOUS
  <2>1. bootedAt[m] = 0 /\ bootedAt[k] = 0
    BY DEF Clocked
  <2>. QED  BY <1>4, <1>6, <2>1, Timings, SMT DEF Max2
<1>. QED
  BY <1>8, <1>9

\* `observe` at node n, once node m has been heard: everyone else keeps what
\* they have, only the dead leave the contacts, and n is in office only as the
\* lowest node it knows of, with a quorum.
Observed(n, m) ==
  /\ \A k \in Node : k # n => office'[k] = office[k] /\ grants'[k] = grants[k] /\ peers'[k] = peers[k]
  /\ \A j \in Node : peers'[n][j].mode = "active"
  /\ peers'[n][m].at = now
  /\ \A j \in Node : j # m => \/ peers'[n][j].at = peers[n][j].at
                              \/ peers'[n][j].at = Never /\ now >= peers[n][j].at + DeadAfter
  /\ office'[n] # Never =>
       /\ \A j \in Node : j < n => peers'[n][j].at = Never
       /\ peers'[n][n].at # Never
       /\ office[n] = Never => office'[n] = now
       /\ office[n] # Never => office'[n] = office[n] /\ grants'[n] = ReapGrants(grants[n], now)
       /\ HasQuorum(peers'[n], now)

\* That is what Coordinator::observe does with a contact just recorded.
LEMMA ObserveEffect ==
  ASSUME TypeOK, Clocked, NEW n \in Node, NEW m \in Node, Observe(n, Heard(peers[n], m, "active", now))
  PROVE  Observed(n, m)
<1>. DEFINE row == Heard(peers[n], m, "active", now)
            leading == IsLeader(row, n, now) /\ HasQuorum(row, now)
<1>1. /\ office' = [office EXCEPT ![n] = ObserveOffice(office[n], leading, now)]
      /\ grants' = [grants EXCEPT ![n] = ObserveGrants(grants[n], office[n], leading, now)]
      /\ peers' = [peers EXCEPT ![n] = ReapPeers(row, now)]
  BY DEF Observe
<1>2. now \in Nat /\ \A j \in Node : peers[n][j].at \in Instant /\ peers[n][j].at <= now
                                      /\ peers[n][j].mode = "active"
  BY DEF TypeOK, Contact, Clocked
<1>3. row = [peers[n] EXCEPT ![m] = [mode |-> "active", at |-> now]]
  BY <1>2 DEF Heard
<1>4. row \in [Node -> Contact]
  BY HeardType DEF TypeOK, Mode
<1>5. row[m].at = now /\ (\A j \in Node : j # m => row[j] = peers[n][j]) /\ \A j \in Node : row[j].mode = "active"
  <2>1. peers[n] \in [Node -> Contact]
    BY DEF TypeOK
  <2>2. row[m] = [mode |-> "active", at |-> now] /\ \A j \in Node : j # m => row[j] = peers[n][j]
    BY <1>3, <2>1
  <2>3. \A j \in Node : row[j].mode = "active"
    BY <1>2, <2>2, SMT
  <2>. QED  BY <2>2, <2>3, SMT
<1>. HIDE DEF row
<1>6. ~IsDead(row, m, now)
  BY <1>2, <1>5, Timings, SMT DEF IsDead, Never
<1>7. \A k \in Node : k # n => office'[k] = office[k] /\ grants'[k] = grants[k] /\ peers'[k] = peers[k]
  <2>. HIDE DEF leading
  <2>. QED  BY <1>1 DEF TypeOK
<1>8. peers'[n] = ReapPeers(row, now)
  BY <1>1 DEF TypeOK
<1>9. \A j \in Node : peers'[n][j] = IF IsDead(row, j, now) THEN NoContact ELSE row[j]
  BY <1>8 DEF ReapPeers
<1>10. peers'[n][m].at = now /\ \A j \in Node : peers'[n][j].mode = "active"
  BY <1>5, <1>6, <1>9, SMT DEF NoContact
<1>11. ASSUME NEW j \in Node, j # m
       PROVE  \/ peers'[n][j].at = peers[n][j].at
              \/ peers'[n][j].at = Never /\ now >= peers[n][j].at + DeadAfter
  <2>1. CASE IsDead(row, j, now)
    <3>1. peers'[n][j].at = Never
      BY <1>9, <2>1, SMT DEF NoContact
    <3>. QED  BY <1>2, <1>5, <1>11, <2>1, <3>1, Timings, SMT DEF IsDead, Instant, Never
  <2>2. CASE ~IsDead(row, j, now)
    BY <1>5, <1>9, <1>11, <2>2
  <2>. QED  BY <2>1, <2>2
<1>12. ASSUME office'[n] # Never
       PROVE  /\ \A j \in Node : j < n => peers'[n][j].at = Never
              /\ peers'[n][n].at # Never
              /\ office[n] = Never => office'[n] = now
              /\ office[n] # Never => office'[n] = office[n] /\ grants'[n] = ReapGrants(grants[n], now)
              /\ HasQuorum(peers'[n], now)
  <2>1. office'[n] = ObserveOffice(office[n], leading, now)
        /\ grants'[n] = ObserveGrants(grants[n], office[n], leading, now)
    <3>. HIDE DEF leading
    <3>. QED  BY <1>1 DEF TypeOK
  <2>2. leading
    <3>. HIDE DEF leading
    <3>. QED  BY <1>12, <2>1 DEF ObserveOffice
  <2>3. /\ office[n] = Never => office'[n] = now
        /\ office[n] # Never => office'[n] = office[n] /\ grants'[n] = ReapGrants(grants[n], now)
    <3>. HIDE DEF leading
    <3>. QED  BY <2>1, <2>2 DEF ObserveOffice, ObserveGrants
  <2>4. IsLeader(row, n, now) /\ HasQuorum(row, now)
    BY <2>2
  <2>5. n \in View(row, now) /\ \A j \in Node : j \in View(row, now) => n <= j
    BY <1>5, <2>4 DEF IsLeader, ActiveMembers, View
  <2>6. ASSUME NEW j \in Node, j < n PROVE peers'[n][j].at = Never
    <3>1. IsDead(row, j, now)
      BY <2>5, <2>6, NodeAssumption, SMT DEF View
    <3>. QED  BY <1>9, <3>1, SMT DEF NoContact
  <2>7. peers'[n][n].at # Never
    <3>1. ~IsDead(row, n, now)
      BY <2>5 DEF View
    <3>. QED  BY <1>9, <3>1 DEF IsDead
  <2>8. AliveMembers(peers'[n], now) = AliveMembers(row, now)
    <3>1. ASSUME NEW j \in Node PROVE IsAlive(peers'[n], j, now) <=> IsAlive(row, j, now)
      <4>1. CASE IsDead(row, j, now)
        <5>1. peers'[n][j].at = Never
          BY <1>9, <4>1, SMT DEF NoContact
        <5>2. row[j].at \in Instant
          BY <1>4 DEF Contact
        <5>. QED  BY <1>2, <4>1, <5>1, <5>2, Timings, SMT DEF IsAlive, IsDead, Instant, Never
      <4>2. CASE ~IsDead(row, j, now)
        BY <1>9, <4>2 DEF IsAlive
      <4>. QED  BY <4>1, <4>2
    <3>. QED  BY <1>5, <1>10, <3>1 DEF AliveMembers
  <2>9. HasQuorum(peers'[n], now)
    BY <2>4, <2>8 DEF HasQuorum
  <2>. QED  BY <2>3, <2>6, <2>7, <2>9
<1>. QED
  BY <1>7, <1>10, <1>11, <1>12 DEF Observed

\* The steps of a clean fleet, as the contacts see them: one node observes
\* another or itself; requests and answers, which leave the contacts alone;
\* and the environment.
Observes(n, m) ==
  /\ up[n] /\ (m = n \/ Linked(n, m))
  /\ Observe(n, Heard(peers[n], m, "active", now))
  /\ \A k \in Node : phase'[k] # "settling"
  /\ UNCHANGED <<now, links, changedAt, up, bootedAt, mode, held, ask, late>>

Trades ==
  /\ \A k \in Node : phase'[k] # "settling"
  /\ UNCHANGED <<now, links, changedAt, up, bootedAt, mode, peers, office, late>>

\* A heartbeat, sent or received, is an observation of an active node.
LEMMA BeatsAndHears ==
  ASSUME TypeOK, Clocked, NEW n \in Node
  PROVE  /\ Beat(n) => Observes(n, n)
         /\ \A m \in Node : Hear(n, m) => Observes(n, m)
<1>1. \A k \in Node : mode[k] = "active" /\ phase[k] # "settling"
  BY DEF Clocked
<1>2. ASSUME Beat(n) PROVE Observes(n, n)
  <2>1. \A k \in Node : phase'[k] # "settling"
    BY <1>1, <1>2 DEF Beat, TypeOK
  <2>. QED  BY <1>1, <1>2, <2>1 DEF Beat, Observes, TickerAt, env
<1>3. ASSUME NEW m \in Node, Hear(n, m) PROVE Observes(n, m)
  BY <1>1, <1>3 DEF Hear, Observes, Linked, env
<1>. QED
  BY <1>2, <1>3

\* With no drain and no late request, every step is an observation, a step of
\* a ticker, or a step of the environment.
LEMMA CleanSteps ==
  ASSUME CleanFaults, TypeOK, Clocked, [Next]_vars
  PROVE  \/ \E n, m \in Node : Observes(n, m)
         \/ Trades
         \/ \E n \in Node : Crash(n) \/ Restart(n)
         \/ \E net \in Topologies : Rewire(net)
         \/ Advance
<1>1. \A n \in Node : mode[n] = "active" /\ phase[n] # "settling"
  BY DEF Clocked
<1>2. ASSUME NEW n \in Node, Beat(n) PROVE Observes(n, n)
  BY <1>2, BeatsAndHears
<1>3. ASSUME NEW n \in Node, NEW m \in Node, Hear(n, m) PROVE Observes(n, m)
  BY <1>3, BeatsAndHears
<1>4. ASSUME NEW n \in Node, NEW w \in Wants(n), RequestLocal(n, w) \/ SendRequest(n, w) PROVE Trades
  <2>1. phase' = [phase EXCEPT ![n] = "done"]
    BY <1>4 DEF RequestLocal, SendRequest
  <2>2. \A k \in Node : phase'[k] # "settling"
    BY <1>1, <2>1 DEF TypeOK
  <2>. QED  BY <1>4, <2>2 DEF RequestLocal, SendRequest, Trades, env
<1>5. ASSUME NEW n \in Node, Serve(n) \/ Accept(n) \/ GiveUp(n) PROVE Trades
  BY <1>1, <1>5 DEF Serve, Accept, GiveUp, Trades, CleanFaults, env
<1>6. ASSUME NEW n \in Node, StartDrain(n) \/ Settled(n) \/ Undrain(n) PROVE FALSE
  BY <1>1, <1>6 DEF StartDrain, Settled, Undrain, TickerAt, CleanFaults
<1>7. ASSUME NEW r \in late PROVE FALSE
  BY DEF Clocked
<1>8. ASSUME UNCHANGED vars PROVE Trades
  BY <1>1, <1>8 DEF vars, Trades
<1>. QED
  BY <1>2, <1>3, <1>4, <1>5, <1>6, <1>7, <1>8 DEF Next

\* Every step keeps Clocked: contacts are recorded at the instant they are made.
LEMMA ClockedStep ==
  ASSUME CleanFaults, TypeOK, TypeOK', Clocked, [Next]_vars
  PROVE  Clocked'
<1>1. ASSUME NEW n \in Node, NEW m \in Node, Observes(n, m) PROVE Clocked'
  <2>0. Observed(n, m)
    BY <1>1, ObserveEffect DEF Observes
  <2>1. /\ \A k \in Node : k # n => peers'[k] = peers[k]
        /\ \A j \in Node : peers'[n][j].mode = "active"
        /\ peers'[n][m].at = now
        /\ \A j \in Node : j # m => peers'[n][j].at \in {peers[n][j].at, Never}
    BY <2>0 DEF Observed
  <2>2. now \in Nat /\ bootedAt[n] <= now /\ up[n]
    BY <1>1 DEF TypeOK, Clocked, Observes
  <2>3. \A k, j \in Node : peers'[k][j].at <= now /\ peers'[k][j].mode = "active"
    BY <2>1, <2>2, SMT DEF Clocked, Never
  <2>4. \A k \in Node : /\ ~up[k] => peers'[k][k].at = Never
                        /\ peers'[k][k].at # Never => bootedAt[k] <= peers'[k][k].at
    BY <2>1, <2>2, SMT DEF Clocked
  <2>. QED  BY <1>1, <2>3, <2>4 DEF Clocked, Observes
<1>2. ASSUME Trades PROVE Clocked'
  BY <1>2 DEF Trades, Clocked
<1>3. ASSUME NEW n \in Node, Crash(n) PROVE Clocked'
  <2>1. /\ peers' = [peers EXCEPT ![n] = NoPeers] /\ mode' = [mode EXCEPT ![n] = "active"]
        /\ phase' = [phase EXCEPT ![n] = "idle"] /\ up' = [up EXCEPT ![n] = FALSE] /\ late' = {}
        /\ UNCHANGED <<now, changedAt, bootedAt>> /\ MayCrash # {}
    BY <1>3 DEF Crash, env, Clocked
  <2>2. \A j \in Node : NoPeers[j].at = Never /\ NoPeers[j].mode = "active"
    BY DEF NoPeers, NoContact
  <2>3. \A k, j \in Node : peers'[k][j].at <= now /\ peers'[k][j].mode = "active"
    BY <2>1, <2>2, SMT DEF Clocked, TypeOK, Never
  <2>4. \A k \in Node : /\ ~up'[k] => peers'[k][k].at = Never
                        /\ peers'[k][k].at # Never => bootedAt[k] <= peers'[k][k].at
                        /\ mode'[k] = "active" /\ phase'[k] # "settling"
    BY <2>1, <2>2, SMT DEF Clocked, TypeOK
  <2>. QED  BY <2>1, <2>3, <2>4 DEF Clocked
<1>4. ASSUME NEW n \in Node, Restart(n) PROVE Clocked'
  <2>1. /\ ~up[n] /\ up' = [up EXCEPT ![n] = TRUE] /\ bootedAt' = [bootedAt EXCEPT ![n] = now]
        /\ UNCHANGED <<now, changedAt, mode, phase, peers, late>>
    BY <1>4 DEF Restart, env
  <2>2. MayCrash # {} /\ peers[n][n].at = Never
    BY <2>1 DEF Clocked
  <2>3. \A k \in Node : /\ ~up'[k] => peers[k][k].at = Never
                        /\ bootedAt'[k] <= now
                        /\ peers[k][k].at # Never => bootedAt'[k] <= peers[k][k].at
    BY <2>1, <2>2, SMT DEF Clocked, TypeOK
  <2>. QED  BY <2>1, <2>2, <2>3 DEF Clocked
<1>5. ASSUME NEW net \in Topologies, Rewire(net) PROVE Clocked'
  BY <1>5, SMT DEF Rewire, Clocked, TypeOK
<1>6. ASSUME Advance PROVE Clocked'
  <2>1. now' = now + 1 /\ UNCHANGED <<changedAt, up, bootedAt, mode, phase, peers, late>>
    BY <1>6 DEF Advance
  <2>2. /\ now \in Nat /\ changedAt \in Nat /\ bootedAt \in [Node -> Nat]
        /\ \A k, j \in Node : peers[k][j].at \in Int
    BY SMT DEF TypeOK, Contact, Instant, Never
  <2>3. changedAt <= now + 1 /\ \A k, j \in Node : bootedAt[k] <= now + 1 /\ peers[k][j].at <= now + 1
    BY <2>2, SMT DEF Clocked
  <2>. QED  BY <2>1, <2>3 DEF Clocked
<1>. QED
  BY <1>1, <1>2, <1>3, <1>4, <1>5, <1>6, CleanSteps

\* Every step keeps Timely: the clock waits for the heartbeats that are due.
LEMMA TimelyStep ==
  ASSUME CleanFaults, TypeOK, TypeOK', Clocked, Timely, [Next]_vars
  PROVE  Timely'
<1>. DEFINE Beaten(n) == now <= Max2(peers[n][n].at, bootedAt[n]) + BeatEvery
            Near(n, m) == \/ now <= peers[n][m].at + HearEvery
                          \/ now <= Max2(changedAt, Max2(bootedAt[n], bootedAt[m])) + HearEvery
<1>0. /\ now \in Nat /\ changedAt \in Nat /\ \A n \in Node : bootedAt[n] \in Nat
      /\ \A n, j \in Node : peers[n][j].at \in Instant
  BY DEF TypeOK, Contact
<1>1. ASSUME NEW n \in Node, NEW m \in Node, Observes(n, m) PROVE Timely'
  <2>0. Observed(n, m)
    BY <1>1, ObserveEffect DEF Observes
  <2>1. /\ \A k \in Node : k # n => peers'[k] = peers[k]
        /\ peers'[n][m].at = now
        /\ \A j \in Node : j # m => \/ peers'[n][j].at = peers[n][j].at
                                    \/ peers'[n][j].at = Never /\ now >= peers[n][j].at + DeadAfter
    BY <2>0 DEF Observed
  <2>2. UNCHANGED <<now, links, changedAt, up, bootedAt>> /\ up[n]
    BY <1>1 DEF Observes
  <2>3. now <= Max2(peers'[n][n].at, bootedAt[n]) + BeatEvery
    <3>1. Beaten(n) /\ (peers[n][n].at # Never => bootedAt[n] <= peers[n][n].at)
      BY <2>2 DEF Timely, Clocked
    <3>2. CASE n = m
      <4>1. peers'[n][n].at = now
        BY <2>1, <3>2
      <4>. QED  BY <1>0, <4>1, Timings, SMT DEF Max2
    <3>3. CASE peers'[n][n].at = peers[n][n].at
      BY <3>1, <3>3
    <3>4. CASE peers'[n][n].at = Never /\ now >= peers[n][n].at + DeadAfter
      BY <1>0, <3>1, <3>4, Timings, SMT DEF Max2, Instant, Never, CleanFaults
    <3>. QED  BY <2>1, <3>2, <3>3, <3>4
  <2>4. ASSUME NEW j \in Node, Linked(n, j)
        PROVE  \/ now <= peers'[n][j].at + HearEvery
               \/ now <= Max2(changedAt, Max2(bootedAt[n], bootedAt[j])) + HearEvery
    <3>1. Near(n, j)
      BY <2>4 DEF Timely
    <3>2. CASE j = m
      BY <1>0, <2>1, <3>2, Timings, SMT
    <3>3. CASE peers'[n][j].at = peers[n][j].at
      BY <3>1, <3>3
    <3>4. CASE peers'[n][j].at = Never /\ now >= peers[n][j].at + DeadAfter
      <4>1. ~(now <= peers[n][j].at + HearEvery)
        BY <1>0, <3>4, Timings, SMT DEF CleanFaults, Instant, Never
      <4>. QED  BY <3>1, <4>1
    <3>. QED  BY <2>1, <3>2, <3>3, <3>4
  <2>. QED  BY <2>1, <2>2, <2>3, <2>4 DEF Timely, Linked
<1>2. ASSUME Trades PROVE Timely'
  BY <1>2 DEF Trades, Timely, Linked
<1>3. ASSUME NEW n \in Node, Crash(n) PROVE Timely'
  <2>1. /\ \A k \in Node : k # n => peers'[k] = peers[k] /\ up'[k] = up[k]
        /\ ~up'[n] /\ UNCHANGED <<now, links, changedAt, bootedAt>>
    BY <1>3, SMT DEF Crash, env, TypeOK
  <2>. QED  BY <2>1 DEF Timely, Linked
<1>4. ASSUME NEW n \in Node, Restart(n) PROVE Timely'
  <2>1. /\ \A k \in Node : k # n => bootedAt'[k] = bootedAt[k] /\ up'[k] = up[k]
        /\ bootedAt'[n] = now /\ UNCHANGED <<now, links, changedAt, peers>>
    BY <1>4 DEF Restart, env, TypeOK
  <2>2. ASSUME NEW k \in Node, up'[k] PROVE now <= Max2(peers[k][k].at, bootedAt'[k]) + BeatEvery
    BY <1>0, <2>1, <2>2, Timings, SMT DEF Timely, Max2, Instant, Never
  <2>3. ASSUME NEW k \in Node, NEW j \in Node, Linked(k, j)'
        PROVE  \/ now <= peers[k][j].at + HearEvery
               \/ now <= Max2(changedAt, Max2(bootedAt'[k], bootedAt'[j])) + HearEvery
    <3>1. CASE k = n \/ j = n
      BY <1>0, <2>1, <3>1, Timings, SMT DEF Max2
    <3>2. CASE k # n /\ j # n
      BY <2>1, <2>3, <3>2 DEF Timely, Linked
    <3>. QED  BY <3>1, <3>2
  <2>. QED  BY <2>1, <2>2, <2>3 DEF Timely
<1>5. ASSUME NEW net \in Topologies, Rewire(net) PROVE Timely'
  <2>1. changedAt' = now /\ UNCHANGED <<now, up, bootedAt, peers>>
    BY <1>5 DEF Rewire
  <2>2. \A k, j \in Node : now <= Max2(now, Max2(bootedAt[k], bootedAt[j])) + HearEvery
    BY <1>0, Timings, SMT DEF Max2
  <2>. QED  BY <2>1, <2>2 DEF Timely
<1>6. ASSUME Advance PROVE Timely'
  <2>1. now' = now + 1 /\ UNCHANGED <<links, changedAt, up, bootedAt, peers>>
        /\ (\A n \in Node : BeatsInTime(n)) /\ \A n, m \in Node : HearsInTime(n, m)
    BY <1>6 DEF Advance
  <2>2. ASSUME NEW k \in Node, up[k] PROVE now + 1 <= Max2(peers[k][k].at, bootedAt[k]) + BeatEvery
    BY <1>0, <2>1, <2>2, Timings, SMT DEF BeatsInTime, Clocked, Max2, Instant, Never
  <2>3. ASSUME NEW k \in Node, NEW j \in Node, Linked(k, j)
        PROVE  \/ now + 1 <= peers[k][j].at + HearEvery
               \/ now + 1 <= Max2(changedAt, Max2(bootedAt[k], bootedAt[j])) + HearEvery
    BY <1>0, <2>1, <2>3, Timings, SMT DEF HearsInTime, Max2, Instant, Never
  <2>. QED  BY <2>1, <2>2, <2>3 DEF Timely, Linked
<1>. QED
  BY <1>1, <1>2, <1>3, <1>4, <1>5, <1>6, CleanSteps

\* By the time the network changes again, everyone in office has noticed the
\* last change: whoever is still in office has a majority.
LEMMA SettledOfficers ==
  ASSUME CleanFaults, TypeOK, Clocked, Timely, Officers, now >= changedAt + Dwell,
         NEW n \in Node, office[n] # Never
  PROVE  Majority(n)
<1>1. up[n] /\ peers[n][n].at # Never
  BY DEF Officers
<1>2. now <= Max2(peers[n][n].at, bootedAt[n]) + BeatEvery /\ bootedAt[n] <= peers[n][n].at
  BY <1>1 DEF Timely, Clocked
<1>3. now \in Nat /\ changedAt \in Nat /\ bootedAt[n] \in Nat /\ peers[n][n].at \in Nat
  BY <1>1 DEF TypeOK, Contact, Instant
<1>4. peers[n][n].at >= changedAt + SuspectAfter
  BY <1>2, <1>3, Timings, SMT DEF Max2, CleanFaults
<1>. QED
  BY <1>4 DEF Officers

\* Every step keeps Officers: office is taken and kept on a quorum of live contacts.
LEMMA OfficersStep ==
  ASSUME CleanFaults, TypeOK, TypeOK', Clocked, Clocked', Timely, Officers, [Next]_vars
  PROVE  Officers'
<1>0. /\ now \in Nat /\ changedAt \in Nat /\ changedAt <= now
      /\ \A n, j \in Node : peers[n][j].at \in Int /\ peers[n][j].at <= now
  BY SMT DEF TypeOK, Contact, Clocked, Instant, Never
<1>1. ASSUME NEW n \in Node, NEW m \in Node, Observes(n, m) PROVE Officers'
  <2>0. Observed(n, m)
    BY <1>1, ObserveEffect DEF Observes
  <2>1. /\ \A k \in Node : k # n => peers'[k] = peers[k] /\ office'[k] = office[k]
        /\ \A j \in Node : j # m => peers'[n][j].at \in {peers[n][j].at, Never}
        /\ office'[n] # Never =>
             /\ \A j \in Node : j < n => peers'[n][j].at = Never
             /\ peers'[n][n].at # Never
             /\ office'[n] \in {office[n], now}
             /\ office[n] = Never => office'[n] = now
             /\ HasQuorum(peers'[n], now)
    BY <2>0 DEF Observed
  <2>2. UNCHANGED <<now, links, changedAt, up, bootedAt>> /\ up[n] /\ (m = n \/ <<n, m>> \in links)
    BY <1>1 DEF Observes, Linked
  <2>3. \A k, j \in Node : peers'[k][j].at > changedAt => j \in Reach(k)
    <3>1. \A k, j \in Node : peers[k][j].at > changedAt => j \in Reach(k)
      BY DEF Officers
    <3>2. m \in Reach(n)
      BY <2>2 DEF Reach
    <3>3. ASSUME NEW j \in Node, peers'[n][j].at > changedAt PROVE j \in Reach(n)
      <4>1. ~(Never > changedAt)
        BY <1>0, SMT DEF Never
      <4>2. j = m \/ peers'[n][j].at = peers[n][j].at
        BY <2>1, <3>3, <4>1
      <4>. QED  BY <3>1, <3>2, <3>3, <4>2
    <3>. QED  BY <2>1, <3>1, <3>3
  <2>4. ASSUME office'[n] # Never
        PROVE  /\ bootedAt[n] <= office'[n] /\ office'[n] <= now
               /\ peers'[n][n].at >= changedAt + SuspectAfter => Majority(n)
    <3>1. bootedAt[n] <= office'[n] /\ office'[n] <= now
      BY <1>0, <2>1, <2>4, SMT DEF Officers, Clocked
    <3>2. ASSUME peers'[n][n].at >= changedAt + SuspectAfter PROVE Majority(n)
      <4>1. peers'[n] \in [Node -> Contact] /\ peers'[n][n].at <= now /\ peers'[n][n].at \in Int
        BY <2>2, SMT DEF TypeOK, Clocked, Contact, Instant, Never
      <4>2. now >= changedAt + SuspectAfter
        BY <1>0, <3>2, <4>1, Timings, SMT
      <4>3. Reach(n) \in SUBSET Node /\ HasQuorum(peers'[n], now)
        BY <2>1, <2>4 DEF Reach
      <4>4. 2 * Cardinality(Reach(n)) > FleetSize
        BY <1>0, <2>3, <4>1, <4>2, <4>3, QuorumOnOneSide
      <4>. QED  BY <4>4 DEF Majority
    <3>. QED  BY <3>1, <3>2
  <2>. QED  BY <2>1, <2>2, <2>3, <2>4, SidesStay, SMT DEF Officers
<1>2. ASSUME Trades PROVE Officers'
  <2>1. UNCHANGED <<now, links, changedAt, up, bootedAt, peers, office>>
    BY <1>2 DEF Trades
  <2>2. \A n \in Node : Reach(n)' = Reach(n) /\ (Majority(n)' <=> Majority(n))
    BY <2>1, SidesStay
  <2>. QED  BY <2>1, <2>2, SMT DEF Officers
<1>3. ASSUME NEW n \in Node, Crash(n) PROVE Officers'
  <2>1. /\ \A k \in Node : k # n => peers'[k] = peers[k] /\ office'[k] = office[k] /\ up'[k] = up[k]
        /\ office'[n] = Never /\ peers'[n] = NoPeers
        /\ UNCHANGED <<now, links, changedAt, bootedAt>>
    BY <1>3, SMT DEF Crash, env, TypeOK
  <2>2. \A j \in Node : ~(NoPeers[j].at > changedAt)
    BY <1>0, SMT DEF NoPeers, NoContact, Never
  <2>. QED  BY <2>1, <2>2, SidesStay, SMT DEF Officers
<1>4. ASSUME NEW n \in Node, Restart(n) PROVE Officers'
  <2>1. /\ \A k \in Node : k # n => bootedAt'[k] = bootedAt[k] /\ up'[k] = up[k]
        /\ ~up[n] /\ UNCHANGED <<now, links, changedAt, peers, office>>
    BY <1>4 DEF Restart, env, TypeOK
  <2>2. office[n] = Never
    BY <2>1 DEF Officers
  <2>. QED  BY <2>1, <2>2, SidesStay, SMT DEF Officers
<1>5. ASSUME NEW net \in Topologies, Rewire(net) PROVE Officers'
  <2>1. changedAt' = now /\ UNCHANGED <<now, up, bootedAt, peers, office>>
    BY <1>5 DEF Rewire
  <2>2. \A k, j \in Node : ~(peers[k][j].at > now) /\ ~(peers[k][j].at >= now + SuspectAfter)
    BY <1>0, Timings, SMT
  <2>. QED  BY <2>1, <2>2 DEF Officers
<1>6. ASSUME Advance PROVE Officers'
  <2>1. now' = now + 1 /\ UNCHANGED <<links, changedAt, up, bootedAt, peers, office>>
    BY <1>6 DEF Advance
  <2>2. \A k \in Node : office[k] # Never => office[k] <= now + 1
    BY <1>0, SMT DEF Officers, TypeOK, Instant
  <2>. QED  BY <2>1, <2>2, SidesStay, SMT DEF Officers
<1>. QED
  BY <1>1, <1>2, <1>3, <1>4, <1>5, <1>6, CleanSteps

\* Every step keeps Rivals: a node that hears a lower one leaves office.
LEMMA RivalsStep ==
  ASSUME CleanFaults, TypeOK, TypeOK', Clocked, Timely, Officers, Rivals, [Next]_vars
  PROVE  Rivals'
<1>0. /\ now \in Nat /\ changedAt \in Nat /\ changedAt <= now
      /\ \A n \in Node : office[n] \in Int /\ office'[n] \in Int
  BY SMT DEF TypeOK, Clocked, Instant, Never
<1>1. ASSUME NEW n \in Node, NEW m \in Node, Observes(n, m) PROVE Rivals'
  <2>0. Observed(n, m)
    BY <1>1, ObserveEffect DEF Observes
  <2>1. /\ \A k \in Node : k # n => office'[k] = office[k]
        /\ office'[n] # Never => office'[n] = now \/ (office[n] # Never /\ office'[n] = office[n])
    BY <2>0 DEF Observed
  <2>2. UNCHANGED <<now, changedAt>>
    BY <1>1 DEF Observes
  <2>3. ASSUME NEW j \in Node, NEW k \in Node, j # k, office'[j] # Never, office'[k] # Never
        PROVE  changedAt <= Max2(office'[j], office'[k]) + RestartGap
    <3>1. CASE office'[j] = now \/ office'[k] = now
      BY <1>0, <3>1, Timings, SMT DEF Max2
    <3>2. CASE office[j] # Never /\ office'[j] = office[j] /\ office[k] # Never /\ office'[k] = office[k]
      BY <2>3, <3>2 DEF Rivals
    <3>. QED  BY <2>1, <2>3, <3>1, <3>2
  <2>. QED  BY <2>2, <2>3 DEF Rivals
<1>2. ASSUME Trades \/ Advance \/ \E n \in Node : Restart(n) PROVE Rivals'
  BY <1>2 DEF Trades, Advance, Restart, env, Rivals
<1>3. ASSUME NEW n \in Node, Crash(n) PROVE Rivals'
  <2>1. /\ \A k \in Node : k # n => office'[k] = office[k]
        /\ office'[n] = Never /\ UNCHANGED changedAt
    BY <1>3, SMT DEF Crash, env, TypeOK
  <2>. QED  BY <2>1 DEF Rivals
<1>4. ASSUME NEW net \in Topologies, Rewire(net) PROVE Rivals'
  <2>1. changedAt' = now /\ UNCHANGED <<now, office>> /\ now >= changedAt + Dwell
    BY <1>4 DEF Rewire
  <2>2. now > changedAt + HearEvery
    BY <1>0, <2>1, Timings, SMT DEF CleanFaults
  <2>3. ASSUME NEW j \in Node, NEW k \in Node, j < k, office[j] # Never, office[k] # Never
        PROVE  now <= Max2(office[j], office[k]) + RestartGap
    <3>1. Majority(j) /\ Majority(k)
      BY <2>1, <2>3, SettledOfficers
    <3>. QED  BY <2>2, <2>3, <3>1, RivalsAreNew DEF RestartGap
  <2>4. ASSUME NEW j \in Node, NEW k \in Node, j # k, office[j] # Never, office[k] # Never
        PROVE  now <= Max2(office[j], office[k]) + RestartGap
    <3>1. j < k \/ k < j
      BY <2>4, NodeAssumption, SMT
    <3>2. Max2(office[j], office[k]) = Max2(office[k], office[j])
      BY <1>0, SMT DEF Max2
    <3>. QED  BY <2>3, <2>4, <3>1, <3>2
  <2>. QED  BY <2>1, <2>4 DEF Rivals
<1>. QED
  BY <1>1, <1>2, <1>3, <1>4, CleanSteps

-----------------------------------------------------------------------------
(* The leases under clean faults.                                          *)

\* Every step keeps Asked: a ticker asks for more than it holds.
LEMMA AskedStep ==
  ASSUME CleanFaults, TypeOK, TypeOK', Clocked, Asked, [Next]_vars
  PROVE  Asked'
<1>0. /\ now \in Nat /\ \A n \in Node : held[n].expires \in Nat /\ held[n].count \in Nat
                                        /\ ask[n].sent \in Nat /\ ask[n].want \in Nat
  BY AskFields, PoolType, SMT DEF TypeOK, Grant
<1>1. ASSUME UNCHANGED <<now, held, ask>> PROVE Asked'
  BY <1>1 DEF Asked, Leased
<1>2. ASSUME NEW n \in Node, UNCHANGED now,
             \A k \in Node : k # n => held'[k] = held[k] /\ ask'[k] = ask[k],
             held'[n].expires <= now + TTL,
             ask'[n] # NotAsking => ask'[n].sent <= now /\ LiveCount(held'[n], now) < ask'[n].want
      PROVE  Asked'
  BY <1>2 DEF Asked, Leased
<1>3. ASSUME NEW n \in Node, NEW w \in Wants(n), RequestLocal(n, w) PROVE Asked'
  <2>1. ask[n] = NotAsking /\ UNCHANGED <<now, ask>> /\ held' = [held EXCEPT ![n] = grants'[n][n]]
        /\ grants' = [grants EXCEPT ![n] = GrantTo(grants[n], n, w, now)]
    BY <1>3 DEF RequestLocal, TickerAt, env
  <2>2. held'[n].expires = now + TTL
    BY <2>1 DEF TypeOK, GrantTo
  <2>3. \A k \in Node : k # n => held'[k] = held[k]
    BY <2>1 DEF TypeOK
  <2>. QED  BY <1>0, <1>2, <2>1, <2>2, <2>3, PoolType, SMT
<1>4. ASSUME NEW n \in Node, NEW w \in Wants(n), SendRequest(n, w) PROVE Asked'
  <2>1. PICK m \in Node : ask' = [ask EXCEPT ![n] = [to |-> m, want |-> w, sent |-> now, answer |-> 0]]
    BY <1>4 DEF SendRequest
  <2>2. UNCHANGED <<now, held>>
    BY <1>4 DEF SendRequest, env
  <2>3. ask'[n].sent = now /\ ask'[n].want = w /\ \A k \in Node : k # n => ask'[k] = ask[k]
    BY <2>1 DEF TypeOK
  <2>4. LiveCount(held[n], now) < w
    BY <1>0 DEF Wants, Leased, LiveCount
  <2>. QED  BY <1>0, <1>2, <2>2, <2>3, <2>4, SMT DEF Asked
<1>5. ASSUME NEW n \in Node, Serve(n) PROVE Asked'
  <2>1. /\ ask[n] # NotAsking /\ UNCHANGED <<now, held>>
        /\ ask' = [ask EXCEPT ![n].answer = grants'[ask[n].to][n].count]
    BY <1>5 DEF Serve, env
  <2>2. ask[n] \in [to : Node, want : 1..MaxWant, sent : Nat, answer : 0..FreePool]
    BY <2>1 DEF TypeOK, Ask
  <2>3. ask'[n].sent = ask[n].sent /\ ask'[n].want = ask[n].want /\ \A k \in Node : k # n => ask'[k] = ask[k]
    BY <2>1, <2>2 DEF TypeOK
  <2>. QED  BY <1>2, <2>1, <2>3 DEF Asked, Leased
<1>6. ASSUME NEW n \in Node, Accept(n) PROVE Asked'
  <2>1. ask[n].sent <= now
    BY <1>6, AskFields DEF Accept, Asked
  <2>2. held'[n].expires = Max2(now, ask[n].sent + TTL) /\ ask'[n] = NotAsking /\ UNCHANGED now
        /\ \A k \in Node : k # n => held'[k] = held[k] /\ ask'[k] = ask[k]
    BY <1>6 DEF Accept, TypeOK, env
  <2>. QED  BY <1>0, <1>2, <2>1, <2>2, PoolType, SMT DEF Max2
<1>7. ASSUME NEW n \in Node, GiveUp(n) PROVE Asked'
  <2>1. held' = held /\ ask'[n] = NotAsking /\ UNCHANGED now /\ \A k \in Node : k # n => ask'[k] = ask[k]
    BY <1>7 DEF GiveUp, TypeOK, env
  <2>. QED  BY <1>2, <2>1 DEF Asked
<1>8. ASSUME NEW n \in Node, Crash(n) PROVE Asked'
  <2>1. held'[n].expires = 0 /\ ask'[n] = NotAsking /\ UNCHANGED now
        /\ \A k \in Node : k # n => held'[k] = held[k] /\ ask'[k] = ask[k]
    BY <1>8 DEF Crash, NoGrant, TypeOK, env
  <2>. QED  BY <1>0, <1>2, <2>1, PoolType, SMT
<1>9. ASSUME Advance PROVE Asked'
  <2>1. now' = now + 1 /\ UNCHANGED <<held, ask>>
    BY <1>9 DEF Advance
  <2>2. ASSUME NEW n \in Node
        PROVE  /\ held[n].expires <= now + 1 + TTL
               /\ ask[n] # NotAsking => ask[n].sent <= now + 1 /\ LiveCount(held[n], now + 1) < ask[n].want
    BY <1>0, PoolType, SMT DEF Asked, Leased, LiveCount
  <2>. QED  BY <2>1, <2>2 DEF Asked, Leased
<1>10. ASSUME NEW n \in Node, StartDrain(n) \/ Settled(n) \/ Undrain(n) \/ Restart(n) \/ Beat(n)
                              \/ \E m \in Node : Hear(n, m)
       PROVE  UNCHANGED <<now, held, ask>>
  BY <1>10 DEF StartDrain, Settled, Undrain, Restart, Beat, Hear, env
<1>11. ASSUME NEW net \in Topologies, Rewire(net) PROVE UNCHANGED <<now, held, ask>>
  BY <1>11 DEF Rewire
<1>12. ASSUME NEW r \in late, ServeLate(r) PROVE UNCHANGED <<now, held, ask>>
  BY <1>12 DEF ServeLate, env
<1>13. ASSUME UNCHANGED vars PROVE UNCHANGED <<now, held, ask>>
  BY <1>13 DEF vars
<1>. QED
  BY <1>1, <1>3, <1>4, <1>5, <1>6, <1>7, <1>8, <1>9, <1>10, <1>11, <1>12, <1>13 DEF Next

\* What a ledger has out to a holder it can renew: the holder does not compete
\* with itself.
LEMMA RenewalFits ==
  ASSUME NEW ledger \in [Node -> Grant], NEW h \in Node, NEW t \in Nat, Outstanding(ledger, t) <= FreePool
  PROVE  LiveCount(ledger[h], t) <= AvailableTo(ledger, h, t)
<1>. DEFINE count == LiveCount(ledger[h], t)
            others == LeasedUnits(ledger, Node \ {h}, t)
            own == {h} \X (1..count)
            all == LeasedUnits(ledger, Node, t)
<1>1. count \in 0..FreePool /\ count \in Nat
  BY PoolType, SMT DEF LiveCount, Grant
<1>2. others \cup own \subseteq all /\ others \cap own = {}
  BY <1>1, PoolType, SMT DEF LeasedUnits
<1>. HIDE DEF count
<1>3. IsFiniteSet(own) /\ Cardinality(own) = count
  <2>1. IsFiniteSet(1..count) /\ Cardinality(1..count) = count
    BY <1>1, FS_Interval, SMT
  <2>2. IsFiniteSet({h}) /\ Cardinality({h}) = 1
    BY FS_Singleton
  <2>3. IsFiniteSet(own) /\ Cardinality(own) = 1 * Cardinality(1..count)
    BY <2>1, <2>2, FS_Product
  <2>. QED  BY <1>1, <2>1, <2>3, SMT
<1>4. IsFiniteSet(others) /\ Cardinality(others) \in Nat /\ IsFiniteSet(all) /\ Cardinality(all) \in Nat
  BY UnitsFinite
<1>5. Cardinality(all) <= FreePool /\ AvailableTo(ledger, h, t) = FreePool - Cardinality(others)
  BY DEF Outstanding, AvailableTo
<1>. HIDE DEF others, own, all
<1>6. Cardinality(others \cup own) = Cardinality(others) + count
  <2>1. Cardinality(others \cup own) = Cardinality(others) + Cardinality(own) - Cardinality(others \cap own)
    BY <1>3, <1>4, FS_Union
  <2>2. Cardinality(others \cap own) = 0
    BY <1>2, FS_EmptySet
  <2>. QED  BY <1>1, <1>3, <1>4, <2>1, <2>2, SMT
<1>7. Cardinality(others \cup own) <= Cardinality(all)
  BY <1>2, <1>4, FS_Subset
<1>8. count <= AvailableTo(ledger, h, t)
  BY <1>1, <1>4, <1>5, <1>6, <1>7, PoolType, SMT
<1>. QED
  BY <1>8 DEF count

\* The steps of a clean fleet, as the leases see them: somebody observes; a
\* step that makes no lease and touches no ledger; a grant; the environment.
NoNewLease ==
  \A n \in Node : \A l \in Leases(n)' : LiveCount(l, now') > 0 => l \in Leases(n)

Idles == NoNewLease /\ UNCHANGED <<now, links, changedAt, office, grants>>

Granted(g, h, w) ==
  /\ MayGrant(g) /\ AvailableTo(grants[g], h, now) > 0 /\ w > Leased(h) /\ ask[h].answer = 0
  /\ grants' = [grants EXCEPT ![g] = GrantTo(grants[g], h, w, now)]
  /\ UNCHANGED <<now, links, changedAt, office>>
  /\ \A n \in Node : n # h => Leases(n)' = Leases(n)
  /\ \A l \in Leases(h)' : LiveCount(l, now) > 0 =>
       l = held[h] \/ (l.count = grants'[g][h].count /\ l.expires \in Nat /\ l.expires <= now + TTL)

\* A request that has not been answered promises nothing.
LEMMA NothingPromised ==
  ASSUME NEW sent \in Nat, NEW t \in Nat
  PROVE  ~(LiveCount([count |-> 0, expires |-> sent + TTL], t) > 0)
  BY PoolType, SMT DEF LiveCount

\* A step either makes no lease or is a grant of the sitting leader.
LEMMA LeaseSteps ==
  ASSUME CleanFaults, TypeOK, TypeOK', Clocked, Asked, [Next]_vars
  PROVE  \/ \E n, m \in Node : Observes(n, m)
         \/ Idles
         \/ \E g, h \in Node, w \in Nat : Granted(g, h, w)
         \/ \E n \in Node : Crash(n)
         \/ \E net \in Topologies : Rewire(net)
         \/ Advance
<1>0. /\ now \in Nat /\ \A n \in Node : ask[n].sent \in Nat /\ ask[n].want \in Nat /\ ask[n].answer \in Nat
      /\ \A n \in Node : mode[n] = "active" /\ phase[n] # "settling"
  BY AskFields, PoolType, SMT DEF TypeOK, Clocked
<1>1. ASSUME NEW n \in Node, Beat(n) PROVE Observes(n, n)
  BY <1>1, BeatsAndHears
<1>2. ASSUME NEW n \in Node, NEW m \in Node, Hear(n, m) PROVE Observes(n, m)
  BY <1>2, BeatsAndHears
<1>3. ASSUME UNCHANGED <<now, links, changedAt, office, grants, held, ask>> PROVE Idles
  BY <1>3 DEF Idles, NoNewLease, Leases, Promised
<1>4. ASSUME NEW n \in Node, NEW w \in Wants(n), RequestLocal(n, w) PROVE Granted(n, n, w)
  <2>1. /\ ask[n] = NotAsking /\ MayGrant(n) /\ AvailableTo(grants[n], n, now) > 0
        /\ grants' = [grants EXCEPT ![n] = GrantTo(grants[n], n, w, now)]
        /\ held' = [held EXCEPT ![n] = grants'[n][n]]
        /\ UNCHANGED <<now, links, changedAt, office, ask>>
    BY <1>4 DEF RequestLocal, TickerAt, env
  <2>2. ask[n].answer = 0 /\ w > Leased(n)
    BY <2>1, SMT DEF NotAsking, Wants
  <2>3. held'[n] = grants'[n][n] /\ grants'[n][n].expires = now + TTL
        /\ \A k \in Node : k # n => held'[k] = held[k]
    BY <2>1 DEF TypeOK, GrantTo
  <2>4. \A k \in Node : k # n => Leases(k)' = Leases(k)
    BY <2>1, <2>3 DEF Leases, Promised
  <2>5. ASSUME NEW l \in Leases(n)', LiveCount(l, now) > 0
        PROVE  l.count = grants'[n][n].count /\ l.expires \in Nat /\ l.expires <= now + TTL
    <3>1. l = held'[n] \/ l = [count |-> 0, expires |-> ask[n].sent + TTL]
      BY <2>1, <2>2 DEF Leases, Promised
    <3>2. l = held'[n]
      BY <1>0, <2>5, <3>1, NothingPromised
    <3>. QED  BY <1>0, <2>3, <3>2, PoolType, SMT
  <2>. QED  BY <2>1, <2>2, <2>4, <2>5 DEF Granted
<1>5. ASSUME NEW n \in Node, NEW w \in Wants(n), SendRequest(n, w) PROVE Idles
  <2>1. PICK m \in Node : ask' = [ask EXCEPT ![n] = [to |-> m, want |-> w, sent |-> now, answer |-> 0]]
    BY <1>5 DEF SendRequest
  <2>2. UNCHANGED <<now, links, changedAt, office, grants, held>>
    BY <1>5 DEF SendRequest, env
  <2>3. ask'[n].sent = now /\ ask'[n].answer = 0 /\ \A k \in Node : k # n => ask'[k] = ask[k]
    BY <2>1 DEF TypeOK
  <2>4. ASSUME NEW k \in Node, NEW l \in Leases(k)', LiveCount(l, now') > 0 PROVE l \in Leases(k)
    <3>1. CASE k = n
      <4>1. l = held[n] \/ l = [count |-> 0, expires |-> now + TTL]
        BY <2>2, <2>3, <3>1 DEF Leases, Promised
      <4>. QED  BY <1>0, <2>2, <2>4, <3>1, <4>1, NothingPromised DEF Leases
    <3>2. CASE k # n
      BY <2>2, <2>3, <3>2 DEF Leases, Promised
    <3>. QED  BY <3>1, <3>2
  <2>. QED  BY <2>2, <2>4 DEF Idles, NoNewLease
<1>6. ASSUME NEW n \in Node, Serve(n) PROVE Granted(ask[n].to, n, ask[n].want)
  <2>. DEFINE m == ask[n].to
  <2>1. /\ ask[n] # NotAsking /\ ask[n].answer = 0 /\ MayGrant(m) /\ AvailableTo(grants[m], n, now) > 0
        /\ grants' = [grants EXCEPT ![m] = GrantTo(grants[m], n, ask[n].want, now)]
        /\ ask' = [ask EXCEPT ![n].answer = grants'[m][n].count]
        /\ UNCHANGED <<now, links, changedAt, office, held>>
    BY <1>6 DEF Serve, env
  <2>2. ask[n] \in [to : Node, want : 1..MaxWant, sent : Nat, answer : 0..FreePool]
    BY <2>1 DEF TypeOK, Ask
  <2>3. ask[n].want > Leased(n) /\ ask[n].sent <= now
    BY <1>0, <2>1 DEF Asked, Leased, LiveCount, TypeOK, Grant
  <2>. HIDE DEF m
  <2>4. ask'[n].sent = ask[n].sent /\ ask'[n].answer = grants'[m][n].count
        /\ \A k \in Node : k # n => ask'[k] = ask[k]
    BY <2>1, <2>2, SMT DEF TypeOK
  <2>5. \A k \in Node : k # n => Leases(k)' = Leases(k)
    BY <2>1, <2>4 DEF Leases, Promised
  <2>6. ASSUME NEW l \in Leases(n)'
        PROVE  l = held[n] \/ (l.count = grants'[m][n].count /\ l.expires \in Nat /\ l.expires <= now + TTL)
    <3>1. l = held[n] \/ l = [count |-> grants'[m][n].count, expires |-> ask[n].sent + TTL]
      BY <2>1, <2>4 DEF Leases, Promised
    <3>2. ask[n].sent + TTL \in Nat /\ ask[n].sent + TTL <= now + TTL
      BY <1>0, <2>3, PoolType, SMT
    <3>. QED  BY <3>1, <3>2, SMT
  <2>7. Granted(m, n, ask[n].want)
    BY <2>1, <2>3, <2>5, <2>6 DEF Granted
  <2>. QED  BY <2>7 DEF m
<1>7. ASSUME NEW n \in Node, Accept(n) \/ GiveUp(n) PROVE Idles
  <2>1. /\ ask' = [ask EXCEPT ![n] = NotAsking]
        /\ \A k \in Node : k # n => held'[k] = held[k]
        /\ held'[n] = held[n] \/ held'[n] = [count |-> ask[n].answer, expires |-> Max2(now, ask[n].sent + TTL)]
        /\ UNCHANGED <<now, links, changedAt, office, grants>>
    BY <1>7 DEF Accept, GiveUp, TypeOK, env
  <2>2. ask'[n].sent = 0 /\ ask'[n].answer = 0 /\ \A k \in Node : k # n => ask'[k] = ask[k]
    BY <2>1 DEF TypeOK, NotAsking
  <2>3. ASSUME NEW k \in Node, NEW l \in Leases(k)', LiveCount(l, now') > 0 PROVE l \in Leases(k)
    <3>1. CASE k = n
      <4>1. l = held'[n] \/ l = [count |-> 0, expires |-> 0 + TTL]
        BY <2>2, <3>1 DEF Leases, Promised
      <4>2. l = held'[n]
        BY <1>0, <2>1, <2>3, <4>1, NothingPromised
      <4>3. CASE held'[n] = [count |-> ask[n].answer, expires |-> Max2(now, ask[n].sent + TTL)]
        <5>1. ~(now >= Max2(now, ask[n].sent + TTL))
          BY <1>0, <2>1, <2>3, <4>2, <4>3, PoolType, SMT DEF LiveCount
        <5>2. Max2(now, ask[n].sent + TTL) = ask[n].sent + TTL
          BY <1>0, <5>1, PoolType, SMT DEF Max2
        <5>. QED  BY <3>1, <4>2, <4>3, <5>2 DEF Leases, Promised
      <4>. QED  BY <2>1, <3>1, <4>2, <4>3 DEF Leases
    <3>2. CASE k # n
      BY <2>1, <2>2, <3>2 DEF Leases, Promised
    <3>. QED  BY <3>1, <3>2
  <2>. QED  BY <2>1, <2>3 DEF Idles, NoNewLease
<1>8. ASSUME NEW n \in Node, StartDrain(n) \/ Settled(n) \/ Undrain(n) \/ Restart(n) PROVE Idles
  BY <1>3, <1>8 DEF StartDrain, Settled, Undrain, Restart, env
<1>9. ASSUME NEW r \in late PROVE FALSE
  BY DEF Clocked
<1>10. ASSUME UNCHANGED vars PROVE Idles
  BY <1>3, <1>10 DEF vars
<1>11. \A n \in Node : \A w \in Wants(n) : w \in Nat
  BY EnvironmentAssumption, SMT DEF Wants
<1>12. \A n \in Node : Serve(n) => ask[n].to \in Node /\ ask[n].want \in Nat
  BY AskFields DEF Serve
<1>. QED
  BY <1>1, <1>2, <1>4, <1>5, <1>6, <1>7, <1>8, <1>9, <1>10, <1>11, <1>12 DEF Next

\* Whoever may grant is not on a minority's side.
LEMMA GrantorIsFirm ==
  ASSUME TypeOK, Officers, NEW g \in Node, MayGrant(g)
  PROVE  Firm(g) /\ office[g] \in Nat /\ now >= office[g] + TakeoverWait
<1>1. office[g] # Never /\ now >= office[g] + TakeoverWait /\ HasQuorum(peers[g], now)
  BY DEF MayGrant, CanGrant
<1>2. office[g] \in Nat /\ now \in Nat /\ changedAt \in Nat /\ peers[g] \in [Node -> Contact]
  BY <1>1 DEF TypeOK, Instant
<1>3. ASSUME now >= changedAt + SuspectAfter PROVE Majority(g)
  <2>1. Reach(g) \in SUBSET Node /\ \A j \in Node : peers[g][j].at > changedAt => j \in Reach(g)
    BY DEF Reach, Officers
  <2>2. 2 * Cardinality(Reach(g)) > FleetSize
    BY <1>1, <1>2, <1>3, <2>1, QuorumOnOneSide
  <2>. QED  BY <2>2 DEF Majority
<1>. QED
  BY <1>1, <1>2, <1>3, Timings, SMT DEF Firm

\* While one node may grant, nobody else is in office whose wait a lease
\* granted now would outlast.
LEMMA OneFirmGrantor ==
  ASSUME CleanFaults, TypeOK, Clocked, Timely, Officers, Rivals,
         NEW g \in Node, NEW m \in Node, MayGrant(g), Firm(m), now + TTL > office[m] + TakeoverWait
  PROVE  m = g
<1>. SUFFICES ASSUME m # g PROVE FALSE
  OBVIOUS
<1>1. Firm(g) /\ office[g] \in Nat /\ now >= office[g] + TakeoverWait
  BY GrantorIsFirm
<1>2. office[m] \in Nat /\ now \in Nat /\ changedAt \in Nat /\ office[m] # Never /\ office[g] # Never
  BY <1>1 DEF Firm, TypeOK, Instant
<1>. DEFINE later == Max2(office[m], office[g])
<1>3. changedAt <= later + RestartGap /\ later \in Nat
  BY <1>1, <1>2 DEF Rivals, Max2
<1>4. now > later + SuspectAfter + RestartGap
  BY <1>1, <1>2, Timings, SMT DEF Max2, CleanFaults
<1>5. Max2(office[g], office[m]) = later
  BY <1>1, <1>2, SMT DEF Max2
<1>. HIDE DEF later
<1>6. now > changedAt + SuspectAfter /\ now > later + HearEvery
  BY <1>2, <1>3, <1>4, Timings, SMT DEF CleanFaults
<1>7. Majority(m) /\ Majority(g)
  BY <1>1, <1>2, <1>6, Timings, SMT DEF Firm
<1>8. now > changedAt + HearEvery
  BY <1>2, <1>6, Timings, SMT DEF CleanFaults
<1>9. m < g \/ g < m
  BY NodeAssumption, SMT
<1>10. now <= later + HearEvery
  BY <1>2, <1>5, <1>7, <1>8, <1>9, RivalsAreNew DEF later
<1>. QED
  BY <1>2, <1>3, <1>6, <1>10, Timings, SMT

\* A grant keeps every ledger that counts informed: the grantor's own, whose
\* renewal is never for less than the holder has, and everybody else's.
LEMMA GrantKeepsKnown ==
  ASSUME CleanFaults, TypeOK, LedgerWithinPool, Clocked, Timely, Officers, Rivals, Asked, Known,
         NEW g \in Node, NEW h \in Node, NEW w \in Nat, Granted(g, h, w)
  PROVE  Known'
<1>0. /\ MayGrant(g) /\ AvailableTo(grants[g], h, now) > 0 /\ w > Leased(h) /\ ask[h].answer = 0
      /\ grants' = [grants EXCEPT ![g] = GrantTo(grants[g], h, w, now)]
      /\ UNCHANGED <<now, links, changedAt, office>>
  BY DEF Granted
<1>1. now \in Nat /\ held[h].count \in Nat /\ held[h].expires \in Nat /\ grants[g] \in [Node -> Grant]
      /\ Outstanding(grants[g], now) <= FreePool
  BY PoolType, SMTT(30) DEF TypeOK, Grant, LedgerWithinPool
<1>2. /\ \A m \in Node : m # g => grants'[m] = grants[m]
      /\ \A n \in Node : n # h => grants'[g][n] = grants[g][n]
      /\ grants'[g][h].count = Min2(w, AvailableTo(grants[g], h, now))
      /\ grants'[g][h].expires = now + TTL
  BY <1>0 DEF TypeOK, GrantTo
<1>3. AvailableTo(grants[g], h, now) \in Int /\ LiveCount(grants[g][h], now) <= AvailableTo(grants[g], h, now)
  BY <1>1, AvailableType, RenewalFits
<1>4. ASSUME NEW m \in Node, NEW l, l.count = grants'[g][h].count, l.expires <= now + TTL,
             l.expires > office[m] + TakeoverWait, l.expires \in Nat, Firm(m)
      PROVE  Covers(grants'[m][h], l)
  <2>1. office[m] \in Nat
    BY <1>4 DEF Firm, TypeOK, Instant
  <2>2. now + TTL > office[m] + TakeoverWait
    BY <1>1, <1>4, <2>1, Timings, SMT
  <2>3. m = g
    BY <1>0, <1>4, <2>2, OneFirmGrantor
  <2>4. grants'[g][h].count \in Int
    BY <1>2, <1>3, SMT DEF Min2
  <2>. QED  BY <1>1, <1>2, <1>4, <2>3, <2>4, SMT DEF Covers
<1>5. ASSUME NEW m \in Node, Firm(m), LiveCount(held[h], now) > 0, held[h].expires > office[m] + TakeoverWait
      PROVE  Covers(grants'[m][h], held[h])
  <2>1. Covers(grants[m][h], held[h])
    BY <1>5 DEF Known, Leases
  <2>2. CASE m # g
    BY <1>2, <2>1, <2>2
  <2>3. CASE m = g
    <3>1. grants[g][h].count \in Nat /\ grants[g][h].expires \in Nat
      BY <1>1, PoolType, SMT DEF Grant
    <3>2. now < held[h].expires /\ held[h].count = Leased(h)
      BY <1>1, <1>5, SMT DEF LiveCount, Leased
    <3>3. LiveCount(grants[g][h], now) = grants[g][h].count /\ grants[g][h].count >= held[h].count
      BY <1>1, <2>1, <2>3, <3>1, <3>2, SMT DEF Covers, LiveCount
    <3>4. grants'[g][h].count >= held[h].count
      <4>1. held[h].count <= w
        BY <1>0, <1>1, <3>2, SMT
      <4>2. held[h].count <= AvailableTo(grants[g], h, now)
        BY <1>1, <1>3, <3>1, <3>3, SMT
      <4>. QED  BY <1>1, <1>2, <1>3, <4>1, <4>2 DEF Min2
    <3>5. held[h].expires <= now + TTL
      BY DEF Asked
    <3>. QED  BY <1>2, <2>3, <3>4, <3>5 DEF Covers
  <2>. QED  BY <2>2, <2>3
<1>6. ASSUME NEW m \in Node, NEW n \in Node, NEW l \in Leases(n)', Firm(m), LiveCount(l, now) > 0,
             l.expires > office[m] + TakeoverWait
      PROVE  Covers(grants'[m][n], l)
  <2>1. CASE n # h
    <3>1. l \in Leases(n)
      BY <2>1 DEF Granted
    <3>2. Covers(grants[m][n], l)
      BY <1>6, <3>1 DEF Known
    <3>. QED  BY <1>2, <2>1, <3>2
  <2>2. CASE n = h
    <3>1. l = held[h] \/ (l.count = grants'[g][h].count /\ l.expires \in Nat /\ l.expires <= now + TTL)
      BY <1>6, <2>2 DEF Granted
    <3>. QED  BY <1>4, <1>5, <1>6, <2>2, <3>1
  <2>. QED  BY <2>1, <2>2
<1>7. \A m \in Node : Firm(m)' => Firm(m)
  BY <1>0, SidesStay DEF Firm
<1>. QED
  BY <1>0, <1>6, <1>7 DEF Known

\* No lease outlasts one that would be granted now.
LEMMA LeasesAreShort ==
  ASSUME TypeOK, Asked, NEW n \in Node, NEW l \in Leases(n), LiveCount(l, now) > 0
  PROVE  l.expires \in Nat /\ l.count \in Nat /\ now < l.expires /\ l.expires <= now + TTL
<1>1. ask[n].sent \in Nat /\ ask[n].answer \in Nat /\ now \in Nat
  BY AskFields, PoolType, SMT DEF TypeOK
<1>2. CASE l = held[n]
  <2>1. held[n].expires \in Nat /\ held[n].count \in Nat /\ held[n].expires <= now + TTL
    BY PoolType, SMT DEF TypeOK, Grant, Asked
  <2>. QED  BY <1>1, <1>2, <2>1, SMT DEF LiveCount
<1>3. CASE l = Promised(n)
  <2>1. l.count = ask[n].answer /\ l.expires = ask[n].sent + TTL
    BY <1>3 DEF Promised
  <2>2. ask[n].answer > 0 /\ now < ask[n].sent + TTL
    BY <1>1, <2>1, PoolType, SMT DEF LiveCount
  <2>3. ask[n].sent <= now
    BY <2>2, AskFields DEF Asked
  <2>. QED  BY <1>1, <2>1, <2>2, <2>3, PoolType, SMT
<1>. QED
  BY <1>2, <1>3 DEF Leases

\* Every step keeps Known: a lease made elsewhere ends within the takeover wait.
LEMMA KnownStep ==
  ASSUME CleanFaults, TypeOK, TypeOK', LedgerWithinPool, Clocked, Timely, Officers, Rivals, Asked, Known,
         [Next]_vars
  PROVE  Known'
<1>0. now \in Nat /\ changedAt \in Nat /\ \A m, n \in Node : grants[m][n].expires \in Nat
  BY SMT DEF TypeOK, Grant
<1>1. ASSUME NEW n \in Node, NEW k \in Node, Observes(n, k) PROVE Known'
  <2>0. Observed(n, k)
    BY <1>1, ObserveEffect DEF Observes
  <2>1. UNCHANGED <<now, links, changedAt, held, ask>>
    BY <1>1 DEF Observes
  <2>2. /\ \A m \in Node : m # n => office'[m] = office[m] /\ grants'[m] = grants[m]
        /\ office'[n] # Never =>
             /\ office[n] = Never => office'[n] = now
             /\ office[n] # Never => office'[n] = office[n] /\ grants'[n] = ReapGrants(grants[n], now)
    BY <2>0 DEF Observed
  <2>3. ASSUME NEW m \in Node, NEW h \in Node, NEW l \in Leases(h), office'[m] # Never, LiveCount(l, now) > 0,
               now < changedAt + SuspectAfter \/ Majority(m), l.expires > office'[m] + TakeoverWait
        PROVE  Covers(grants'[m][h], l)
    <3>1. l.expires \in Nat /\ now < l.expires /\ l.expires <= now + TTL
      BY <2>3, LeasesAreShort
    <3>2. office[m] # Never /\ office'[m] = office[m]
      <4>1. office'[m] # now
        BY <1>0, <2>3, <3>1, Timings, SMT DEF TakeoverWait, Max2
      <4>. QED  BY <2>2, <2>3, <4>1
    <3>3. Covers(grants[m][h], l)
      BY <2>3, <3>2 DEF Known, Firm
    <3>4. CASE m # n
      BY <2>2, <3>3, <3>4
    <3>5. CASE m = n
      <4>1. grants[m][h].expires > now
        BY <1>0, <3>1, <3>3, SMT DEF Covers
      <4>2. grants'[m][h] = grants[m][h]
        BY <2>2, <2>3, <3>2, <3>5, <4>1 DEF ReapGrants
      <4>. QED  BY <3>3, <4>2
    <3>. QED  BY <3>4, <3>5
  <2>4. \A m \in Node : Leases(m)' = Leases(m) /\ (Majority(m)' <=> Majority(m))
    BY <2>1, SidesStay DEF Leases, Promised
  <2>. QED  BY <2>1, <2>3, <2>4 DEF Known, Firm
<1>2. ASSUME Idles PROVE Known'
  BY <1>2, SidesStay DEF Idles, NoNewLease, Known, Firm
<1>3. ASSUME NEW g \in Node, NEW h \in Node, NEW w \in Nat, Granted(g, h, w) PROVE Known'
  BY <1>3, GrantKeepsKnown
<1>4. ASSUME NEW n \in Node, Crash(n) PROVE Known'
  <2>1. /\ UNCHANGED <<now, links, changedAt>> /\ office'[n] = Never
        /\ \A m \in Node : m # n => office'[m] = office[m] /\ grants'[m] = grants[m]
                                    /\ held'[m] = held[m] /\ ask'[m] = ask[m]
        /\ held'[n] = NoGrant /\ ask'[n] = NotAsking
    BY <1>4, SMT DEF Crash, TypeOK, env
  <2>2. \A m \in Node : m # n => Leases(m)' = Leases(m)
    BY <2>1 DEF Leases, Promised
  <2>3. \A l \in Leases(n)' : ~(LiveCount(l, now) > 0)
    <3>1. Leases(n)' = {NoGrant, [count |-> 0, expires |-> NotAsking.sent + TTL]}
      BY <2>1, SMT DEF Leases, Promised, NotAsking
    <3>2. \A l \in Leases(n)' : l.count = 0
      BY <3>1, SMT DEF NoGrant
    <3>. QED  BY <3>2, SMT DEF LiveCount
  <2>. QED  BY <2>1, <2>2, <2>3, SidesStay DEF Known, Firm
<1>5. ASSUME NEW net \in Topologies, Rewire(net) PROVE Known'
  <2>1. UNCHANGED <<now, office, grants, held, ask>> /\ now >= changedAt + Dwell
    BY <1>5 DEF Rewire
  <2>2. \A m \in Node : office[m] # Never => Firm(m)
    BY <2>1, SettledOfficers DEF Firm
  <2>. QED  BY <2>1, <2>2 DEF Known, Firm, Leases, Promised
<1>6. ASSUME Advance PROVE Known'
  <2>1. now' = now + 1 /\ UNCHANGED <<links, changedAt, office, grants, held, ask>>
    BY <1>6 DEF Advance
  <2>2. \A m \in Node : Firm(m)' => Firm(m)
    BY <1>0, <2>1, Timings, SidesStay, SMT DEF Firm
  <2>3. \A m \in Node : Leases(m)' = Leases(m)
    BY <2>1 DEF Leases, Promised
  <2>4. ASSUME NEW n \in Node, NEW l \in Leases(n), LiveCount(l, now + 1) > 0 PROVE LiveCount(l, now) > 0
    <3>1. l.expires \in Nat
      <4>1. held[n].expires \in Nat /\ ask[n].sent + TTL \in Nat
        BY AskFields, PoolType, SMT DEF TypeOK, Grant
      <4>. QED  BY <4>1, SMT DEF Leases, Promised
    <3>. QED  BY <1>0, <2>4, <3>1, SMT DEF LiveCount
  <2>. QED  BY <2>1, <2>2, <2>3, <2>4 DEF Known
<1>. QED
  BY <1>1, <1>2, <1>3, <1>4, <1>5, <1>6, LeaseSteps

\* Every step keeps Accounted: leases in use are all in one ledger.
LEMMA AccountedStep ==
  ASSUME CleanFaults, TypeOK, TypeOK', LedgerWithinPool', Clocked, Officers, Asked, Known', Accounted,
         [Next]_vars
  PROVE  Accounted'
<1>0. now \in Nat
  BY DEF TypeOK
<1>1. PICK ledger \in [Node -> Grant] :
        /\ Outstanding(ledger, now) <= FreePool
        /\ \A n \in Node : \A l \in Leases(n) : LiveCount(l, now) > 0 => Covers(ledger[n], l)
  BY DEF Accounted
<1>2. ASSUME NoNewLease, now' = now PROVE Accounted'
  BY <1>1, <1>2 DEF Accounted, NoNewLease
<1>3. ASSUME UNCHANGED <<now, held, ask>> PROVE Accounted'
  BY <1>2, <1>3 DEF NoNewLease, Leases, Promised
<1>4. ASSUME NEW n \in Node, NEW m \in Node, Observes(n, m) PROVE Accounted'
  BY <1>3, <1>4 DEF Observes
<1>5. ASSUME Idles PROVE Accounted'
  BY <1>2, <1>5 DEF Idles
<1>6. ASSUME NEW g \in Node, NEW h \in Node, NEW w \in Nat, Granted(g, h, w) PROVE Accounted'
  <2>1. MayGrant(g) /\ UNCHANGED <<now, links, changedAt, office>>
    BY <1>6 DEF Granted
  <2>2. Firm(g) /\ office[g] \in Nat /\ now >= office[g] + TakeoverWait
    BY <2>1, GrantorIsFirm
  <2>3. Firm(g)'
    BY <2>1, <2>2, SidesStay DEF Firm
  <2>4. grants'[g] \in [Node -> Grant] /\ Outstanding(grants'[g], now') <= FreePool
    BY DEF TypeOK, LedgerWithinPool
  <2>5. ASSUME NEW n \in Node, NEW l \in Leases(n)', LiveCount(l, now') > 0 PROVE Covers(grants'[g][n], l)
    <3>1. l.expires \in Nat /\ now < l.expires
      <4>1. l = held'[n] \/ l = Promised(n)'
        BY DEF Leases
      <4>0. ask'[n] \in Ask /\ held'[n] \in Grant
        BY DEF TypeOK
      <4>2. ask'[n].sent \in Nat /\ held'[n].expires \in Nat
        BY <4>0, RequestsAreTimed DEF Grant
      <4>3. Promised(n)'.expires = ask'[n].sent + TTL
        BY DEF Promised
      <4>4. ask'[n].sent + TTL \in Nat
        BY <4>2, PoolType, SMT
      <4>5. l.expires \in Nat
        BY <4>1, <4>2, <4>3, <4>4
      <4>. QED  BY <1>0, <2>1, <2>5, <4>5, SMT DEF LiveCount
    <3>2. l.expires > office[g] + TakeoverWait
      BY <1>0, <2>2, <3>1, Timings, SMT
    <3>. QED  BY <2>1, <2>3, <2>5, <3>2 DEF Known
  <2>. QED  BY <2>4, <2>5 DEF Accounted
<1>7. ASSUME NEW n \in Node, Crash(n) PROVE Accounted'
  <2>1. /\ now' = now /\ held'[n] = NoGrant /\ ask'[n] = NotAsking
        /\ \A m \in Node : m # n => held'[m] = held[m] /\ ask'[m] = ask[m]
    BY <1>7 DEF Crash, TypeOK, env
  <2>2. \A m \in Node : m # n => Leases(m)' = Leases(m)
    BY <2>1 DEF Leases, Promised
  <2>3. \A l \in Leases(n)' : ~(LiveCount(l, now) > 0)
    <3>1. Leases(n)' = {NoGrant, [count |-> 0, expires |-> NotAsking.sent + TTL]}
      BY <2>1, SMT DEF Leases, Promised, NotAsking
    <3>2. \A l \in Leases(n)' : l.count = 0
      BY <3>1, SMT DEF NoGrant
    <3>. QED  BY <3>2, SMT DEF LiveCount
  <2>. QED  BY <1>2, <2>1, <2>2, <2>3 DEF NoNewLease
<1>8. ASSUME NEW net \in Topologies, Rewire(net) PROVE Accounted'
  BY <1>3, <1>8 DEF Rewire
<1>9. ASSUME Advance PROVE Accounted'
  <2>1. now' = now + 1 /\ UNCHANGED <<held, ask>>
    BY <1>9 DEF Advance
  <2>2. Outstanding(ledger, now + 1) <= FreePool
    <3>1. Outstanding(ledger, now + 1) <= Outstanding(ledger, now)
      BY <1>0, <1>1, UnitsExpire, SMT
    <3>2. Outstanding(ledger, now + 1) \in Nat /\ Outstanding(ledger, now) \in Nat
      BY UnitsFinite DEF Outstanding
    <3>. QED  BY <1>1, <3>1, <3>2, PoolType, SMT
  <2>3. ASSUME NEW n \in Node, NEW l \in Leases(n), LiveCount(l, now + 1) > 0 PROVE LiveCount(l, now) > 0
    <3>1. l.expires \in Nat
      <4>1. held[n].expires \in Nat /\ ask[n].sent + TTL \in Nat
        BY AskFields, PoolType, SMT DEF TypeOK, Grant
      <4>. QED  BY <4>1, SMT DEF Leases, Promised
    <3>. QED  BY <1>0, <2>3, <3>1, SMT DEF LiveCount
  <2>4. \A n \in Node : Leases(n)' = Leases(n)
    BY <2>1 DEF Leases, Promised
  <2>. QED  BY <1>1, <2>1, <2>2, <2>3, <2>4 DEF Accounted
<1>. QED
  BY <1>4, <1>5, <1>6, <1>7, <1>8, <1>9, LeaseSteps

\* The invariant of a fleet under clean faults.
QuotaInv ==
  TypeOK /\ LedgerWithinPool /\ Clocked /\ Timely /\ Officers /\ Rivals /\ Asked /\ Known /\ Accounted

\* The fleet starts with nobody in office and nothing leased.
LEMMA QuotaInit ==
  ASSUME CleanFaults, Init, TypeOK, LedgerWithinPool
  PROVE  QuotaInv
<1>1. /\ now = 0 /\ changedAt = 0 /\ late = {} /\ links \in Topologies
      /\ \A n \in Node : /\ up[n] /\ bootedAt[n] = 0 /\ mode[n] = "active" /\ phase[n] = "idle"
                         /\ office[n] = Never /\ held[n] = NoGrant /\ ask[n] = NotAsking
      /\ \A n, j \in Node : peers[n][j].at = Never /\ peers[n][j].mode = "active"
  BY DEF Init, NoPeers, NoContact
<1>2. Clocked
  BY <1>1, SMTT(30) DEF Clocked, Never
<1>3. Timely
  BY <1>1, Timings, SMT DEF Timely, Max2, Never
<1>4. Officers /\ Rivals
  BY <1>1, SMTT(30) DEF Officers, Rivals, Never
<1>5. \A n \in Node : \A l \in Leases(n) : ~(LiveCount(l, now) > 0)
  BY <1>1, PoolType, SMT DEF Leases, Promised, NoGrant, NotAsking, LiveCount
<1>6. Asked
  BY <1>1, PoolType, SMT DEF Asked, NoGrant
<1>7. Known
  BY <1>5 DEF Known
<1>8. Accounted
  <2>1. NoGrants \in [Node -> Grant]
    BY PoolType, SMT DEF NoGrants, NoGrant, Grant
  <2>2. Outstanding(NoGrants, now) <= FreePool
    <3>1. \A h \in Node : LiveCount(NoGrants[h], now) = 0
      BY DEF NoGrants, NoGrant, LiveCount
    <3>2. LeasedUnits(NoGrants, Node, now) = {}
      BY <3>1, SMT DEF LeasedUnits
    <3>. QED  BY <3>2, FS_EmptySet, PoolType, SMT DEF Outstanding
  <2>. QED  BY <1>5, <2>1, <2>2 DEF Accounted
<1>. QED
  BY <1>2, <1>3, <1>4, <1>6, <1>7, <1>8 DEF QuotaInv

\* Every step keeps the invariant.
LEMMA QuotaStep ==
  ASSUME CleanFaults, QuotaInv, [Next]_vars
  PROVE  QuotaInv'
<1>1. TypeOK /\ LedgerWithinPool /\ Clocked /\ Timely /\ Officers /\ Rivals /\ Asked /\ Known /\ Accounted
  BY DEF QuotaInv
<1>2. TypeOK' /\ LedgerWithinPool'
  BY <1>1, NextKeepsTypes, NextKeepsLedgersWithinPool
<1>3. Clocked'
  BY <1>1, <1>2, ClockedStep
<1>4. Timely'
  BY <1>1, <1>2, TimelyStep
<1>5. Officers'
  BY <1>1, <1>2, <1>3, OfficersStep
<1>6. Rivals'
  BY <1>1, <1>2, RivalsStep
<1>7. Asked'
  BY <1>1, <1>2, AskedStep
<1>8. Known'
  BY <1>1, <1>2, KnownStep
<1>9. Accounted'
  BY <1>1, <1>2, <1>8, AccountedStep
<1>. QED
  BY <1>2, <1>3, <1>4, <1>5, <1>6, <1>7, <1>8, <1>9 DEF QuotaInv

\* The invariant the three theorems below follow from.
LEMMA QuotaInvariant ==
  ASSUME CleanFaults
  PROVE  Spec => []QuotaInv
<1>1. ASSUME Init, TypeOK, LedgerWithinPool PROVE QuotaInv
  BY <1>1, QuotaInit
<1>2. ASSUME QuotaInv, [Next]_vars PROVE QuotaInv'
  BY <1>2, QuotaStep
<1>. QED
  BY <1>1, <1>2, TypeCorrect, LedgerNeverOvercommits, PTL DEF Spec

\* Under clean faults at most one ledger hands out leases at any time: the
\* quorum rule and the takeover wait of coordinator.rs and lease.rs together
\* keep a new leader from granting while the old one still may.
THEOREM NeverTwoGrantors ==
  ASSUME CleanFaults
  PROVE  Spec => []AtMostOneGrantor
<1>1. ASSUME QuotaInv PROVE AtMostOneGrantor
  <2>. SUFFICES ASSUME NEW m \in Node, NEW k \in Node, MayGrant(m), MayGrant(k) PROVE m = k
    BY DEF AtMostOneGrantor
  <2>1. CleanFaults /\ TypeOK /\ Clocked /\ Timely /\ Officers /\ Rivals
    BY <1>1 DEF QuotaInv
  <2>2. Firm(m) /\ office[m] \in Nat /\ now >= office[m] + TakeoverWait
    BY <2>1, GrantorIsFirm
  <2>3. now + TTL > office[m] + TakeoverWait
    BY <2>1, <2>2, Timings, SMT DEF TypeOK
  <2>. QED  BY <2>1, <2>2, <2>3, OneFirmGrantor
<1>. QED
  BY <1>1, QuotaInvariant, PTL

\* Under clean faults whoever may grant has every live lease of the fleet on
\* record, at its size and for its life: what the takeover wait of lease.rs and
\* the round trip `request_over` takes off a lease are for.
THEOREM GrantorsKnowEveryLease ==
  ASSUME CleanFaults
  PROVE  Spec => []GrantorKnowsEveryLease
<1>1. ASSUME QuotaInv PROVE GrantorKnowsEveryLease
  <2>. SUFFICES ASSUME NEW m \in Node, NEW n \in Node, MayGrant(m), Leased(n) > 0
                PROVE  Covers(grants[m][n], held[n])
    BY DEF GrantorKnowsEveryLease
  <2>1. TypeOK /\ Officers /\ Asked /\ Known
    BY <1>1 DEF QuotaInv
  <2>2. Firm(m) /\ office[m] \in Nat /\ now >= office[m] + TakeoverWait
    BY <2>1, GrantorIsFirm
  <2>3. held[n] \in Leases(n) /\ LiveCount(held[n], now) > 0
    BY DEF Leases, Leased
  <2>4. held[n].expires > office[m] + TakeoverWait
    BY <2>1, <2>2, <2>3, LeasesAreShort, Timings, SMT DEF TypeOK
  <2>. QED  BY <2>1, <2>2, <2>3, <2>4 DEF Known
<1>. QED
  BY <1>1, QuotaInvariant, PTL

\* Under clean faults the fleet's allowances never exceed the server's cap,
\* also while nobody leads: the property coordinator.rs tests after every step,
\* for every fleet, cap, lease lifetime and timing.
THEOREM CapIsNeverExceeded ==
  ASSUME CleanFaults
  PROVE  Spec => []CapRespected
<1>1. ASSUME QuotaInv PROVE CapRespected
  <2>1. TypeOK /\ Asked /\ Accounted
    BY <1>1 DEF QuotaInv
  <2>2. PICK ledger \in [Node -> Grant] :
          /\ Outstanding(ledger, now) <= FreePool
          /\ \A n \in Node : \A l \in Leases(n) : LiveCount(l, now) > 0 => Covers(ledger[n], l)
    BY <2>1 DEF Accounted
  <2>3. ASSUME NEW n \in Node PROVE Leased(n) <= LiveCount(ledger[n], now)
    <3>1. /\ ledger[n].count \in Nat /\ ledger[n].expires \in Nat
          /\ held[n].count \in Nat /\ held[n].expires \in Nat /\ now \in Nat
      BY <2>1, PoolType, SMT DEF TypeOK, Grant
    <3>2. Leased(n) > 0 => Covers(ledger[n], held[n])
      BY <2>2 DEF Leases, Leased
    <3>. QED  BY <3>1, <3>2, SMT DEF Leased, LiveCount, Covers
  <2>. QED  BY <2>1, <2>2, <2>3, OneLedgerIsEnough
<1>. QED
  BY <1>1, QuotaInvariant, PTL

=============================================================================
