-------------------------- MODULE GrantCacheProofs --------------------------
(***************************************************************************)
(* What GrantCache, and PrimaryWatch over it, guarantee for every number   *)
(* of callers, keys and servers, every capacity and every lifetime.        *)
(***************************************************************************)
EXTENDS PrimaryWatch, FiniteSetTheorems, TLAPS

\* First-order leaves go to Zenon, the others to the SMT solver.
USE ZenonT(3), SMTT(20)

\* A caller inside `resolve` has a key; only then do the types carry over.
KeysChosen == \A c \in Caller : pc[c] # "away" => key[c] \in Key

Typed == TypeOK /\ KeysChosen

-----------------------------------------------------------------------------
(* Types.                                                                  *)

\* What the map can be read for.
LEMMA EntryFields ==
  ASSUME TypeOK, NEW k \in Key
  PROVE  /\ entries[k] \in Entry /\ entries[k].left \in Nat
         /\ entries[k] # NoEntry => entries[k].verdict \in Verdict
BY DEF TypeOK, Entry, NoEntry

\* What an answer can be read for.
LEMMA AnswerFields ==
  ASSUME TypeOK, NEW c \in Caller
  PROVE  answer[c].ttl \in 0..LongestTTL
BY CacheAssumption DEF TypeOK, Answer, NoAnswer

\* A lifetime is a number, and no longer than the token has to live.
LEMMA EffectiveTTLType ==
  ASSUME TypeOK, NEW k \in Key, NEW ttl \in Nat
  PROVE  /\ EffectiveTTL(k, ttl) \in Nat
         /\ tokenLeft[k] # Forever => EffectiveTTL(k, ttl) <= tokenLeft[k]
<1>1. tokenLeft[k] \in 0..LongestTTL \cup {Forever}
  BY DEF TypeOK
<1>2. MaxTTL \in Nat /\ LongestTTL \in Nat
  BY CacheAssumption
<1>. QED  BY <1>1, <1>2 DEF EffectiveTTL, Lesser, Forever

\* Whatever `store` does to the map, it is a map of entries.
LEMMA StoreType ==
  ASSUME TypeOK, NEW k \in Key, NEW v \in Verdict, NEW ttl \in Nat, Store(k, v, ttl)
  PROVE  entries' \in [Key -> Entry] /\ sinceSweep' \in 0..SweepInterval
<1>1. [verdict |-> v, left |-> ttl] \in Entry
  BY DEF Entry
<1>2. Swept \in [Key -> Entry]
  BY DEF Swept, TypeOK, Entry
<1>3. 0 \in 0..SweepInterval
  BY CacheAssumption
<1>. QED  BY <1>1, <1>2, <1>3 DEF Store, TypeOK

\* What a caller is left with when it is done.
LEMMA KeepsType ==
  ASSUME Typed, NEW c \in Caller, NEW v, Keeps(c, v), v \in Server => key[c] \in Key
  PROVE  /\ answer' \in [Caller -> Answer] /\ key' \in [Caller -> Key \cup {NoOne}]
         /\ \A d \in Caller : d # c => key'[d] = key[d]
         /\ v \in Server => key'[c] = key[c]
<1>1. 0 \in 0..LongestTTL
  BY CacheAssumption
<1>. QED  BY <1>1 DEF Keeps, Typed, TypeOK, Answer, Verdict

\* Every step of a caller keeps the types.
LEMMA ResolveKeepsTypes ==
  ASSUME Typed, NEW c \in Caller, Resolve(c)
  PROVE  Typed'
<1>. USE DEF Typed
<1>0. /\ TypeOK /\ KeysChosen
  OBVIOUS
<1>1. ASSUME NEW k \in Key, Arrive(c, k) PROVE Typed'
  BY <1>1 DEF TypeOK, KeysChosen, Arrive, Goto, world, Place
<1>2. ASSUME LookupHits(c) PROVE Typed'
  <2>1. key[c] \in Key
    BY <1>2 DEF LookupHits, KeysChosen
  <2>2. /\ answer' \in [Caller -> Answer] /\ key' \in [Caller -> Key \cup {NoOne}]
        /\ \A d \in Caller : d # c => key'[d] = key[d]
        /\ entries[key[c]].verdict \in Server => key'[c] = key[c]
    BY <1>2, <2>1, KeepsType DEF LookupHits
  <2>3. pc' = [pc EXCEPT ![c] = After(entries[key[c]].verdict)]
    BY <1>2 DEF LookupHits, Goto
  <2>. QED  BY <1>2, <2>1, <2>2, <2>3 DEF LookupHits, TypeOK, KeysChosen, world, Place, After
<1>3. ASSUME LookupMisses(c) PROVE Typed'
  <2>1. entries' \in [Key -> Entry]
    BY <1>3 DEF LookupMisses, LookedUp, TypeOK, Entry
  <2>. QED  BY <1>3, <2>1 DEF LookupMisses, TypeOK, KeysChosen, world, Goto, Place
<1>4. ASSUME Lead(c) PROVE Typed'
  BY <1>4 DEF Lead, TypeOK, KeysChosen, world, Goto, Place
<1>5. ASSUME Follow(c) PROVE Typed'
  BY <1>5 DEF Follow, TypeOK, KeysChosen, world, Goto, Place
<1>6. ASSUME RecheckHits(c) PROVE Typed'
  <2>1. key[c] \in Key
    BY <1>6 DEF RecheckHits, KeysChosen
  <2>2. entries[key[c]].verdict \in Verdict
    BY <1>6, <2>1, EntryFields DEF RecheckHits, Live
  <2>3. [verdict |-> entries[key[c]].verdict, ttl |-> 0] \in Answer
    BY <2>2, CacheAssumption DEF Answer
  <2>. QED  BY <1>6, <2>3 DEF RecheckHits, TypeOK, KeysChosen, world, Goto, Place
<1>7. ASSUME RecheckMisses(c) PROVE Typed'
  <2>1. entries' \in [Key -> Entry]
    BY <1>7 DEF RecheckMisses, LookedUp, TypeOK, Entry
  <2>. QED  BY <1>7, <2>1 DEF RecheckMisses, TypeOK, KeysChosen, world, Goto, Place
<1>8. ASSUME SidecarAnswers(c) PROVE Typed'
  <2>1. SidecarReplies(key[c]) \subseteq Answer
    BY CacheAssumption DEF SidecarReplies, Answer, Verdict, TypeOK
  <2>. QED  BY <1>8, <2>1 DEF SidecarAnswers, TypeOK, KeysChosen, world, Goto, Place
<1>9. ASSUME ResolveAndStore(c) PROVE Typed'
  <2>1. key[c] \in Key
    BY <1>9 DEF ResolveAndStore, KeysChosen
  <2>2. EffectiveTTL(key[c], answer[c].ttl) \in Nat
    BY <2>1, AnswerFields, EffectiveTTLType, CacheAssumption
  <2>3. entries' \in [Key -> Entry] /\ sinceSweep' \in 0..SweepInterval
    <3>1. CASE answer[c].verdict \in Server
      BY <1>9, <2>1, <2>2, <3>1, StoreType DEF ResolveAndStore, Verdict
    <3>2. CASE answer[c].verdict \notin Server /\ answer[c].verdict = "refused"
      BY <1>9, <2>1, <3>2, StoreType, CacheAssumption DEF ResolveAndStore, Verdict
    <3>3. CASE answer[c].verdict \notin Server /\ answer[c].verdict # "refused"
      BY <1>9, <3>3 DEF ResolveAndStore, TypeOK
    <3>. QED  BY <3>1, <3>2, <3>3
  <2>. QED  BY <1>9, <2>3 DEF ResolveAndStore, TypeOK, KeysChosen, world, Goto, Place
<1>10. ASSUME Release(c) PROVE Typed'
  BY <1>10 DEF Release, RemoveClaim, TypeOK, KeysChosen, world, Place
<1>11. ASSUME DropGuard(c) PROVE Typed'
  <2>1. key[c] \in Key
    BY <1>11 DEF DropGuard, KeysChosen
  <2>2. /\ answer' \in [Caller -> Answer] /\ key' \in [Caller -> Key \cup {NoOne}]
        /\ \A d \in Caller : d # c => key'[d] = key[d]
        /\ answer[c].verdict \in Server => key'[c] = key[c]
    BY <1>11, <2>1, KeepsType DEF DropGuard
  <2>. QED  BY <1>11, <2>1, <2>2 DEF DropGuard, RemoveClaim, TypeOK, KeysChosen, world, Place, After
<1>12. ASSUME CancelCall(c) \/ CancelWait(c) \/ Leave(c) PROVE Typed'
  <2>1. Keeps(c, NoOne) /\ NoOne \notin Server
    BY <1>12, CacheAssumption DEF CancelCall, CancelWait, Leave
  <2>2. /\ answer' \in [Caller -> Answer] /\ key' \in [Caller -> Key \cup {NoOne}]
        /\ \A d \in Caller : d # c => key'[d] = key[d]
    BY <2>1, KeepsType
  <2>3. pc' \in [Caller -> Place] /\ pc'[c] = "away"
        /\ \A d \in Caller : d # c => pc'[d] = pc[d] \/ pc[d] = "waiting"
    BY <1>12 DEF CancelCall, CancelWait, Leave, RemoveClaim, Goto, TypeOK, Place
  <2>4. claim' \in [Key -> Caller \cup {NoOne}] /\ UNCHANGED <<entries, sinceSweep, world>>
    BY <1>12 DEF CancelCall, CancelWait, Leave, RemoveClaim, TypeOK
  <2>. QED  BY <2>2, <2>3, <2>4 DEF TypeOK, KeysChosen, world
<1>. QED
  BY <1>1, <1>2, <1>3, <1>4, <1>5, <1>6, <1>7, <1>8, <1>9, <1>10, <1>11, <1>12 DEF Resolve

\* And so does every step of the cache's surroundings.
LEMMA NextKeepsTypes == Typed /\ [Next]_vars => Typed'
<1>. SUFFICES ASSUME Typed, [Next]_vars PROVE Typed'
  OBVIOUS
<1>1. ASSUME NEW c \in Caller, Resolve(c) PROVE Typed'
  BY <1>1, ResolveKeepsTypes
<1>2. ASSUME NEW s \in Server, InvalidatePrimary(s) PROVE Typed'
  <2>1. entries' \in [Key -> Entry]
    BY <1>2 DEF InvalidatePrimary, WithoutPrimary, Typed, TypeOK, Entry
  <2>. QED  BY <1>2, <2>1 DEF InvalidatePrimary, Typed, TypeOK, KeysChosen, world, callers
<1>3. ASSUME NEW s \in Server, Failover(s) PROVE Typed'
  BY <1>3 DEF Failover, Typed, TypeOK, KeysChosen, callers
<1>4. ASSUME Tick PROVE Typed'
  <2>1. ASSUME NEW k \in Key
        PROVE  [verdict |-> entries[k].verdict, left |-> Less(entries[k].left)] \in Entry
    BY EntryFields DEF Typed, Less, Entry, NoEntry
  <2>2. entries' \in [Key -> Entry]
    BY <1>4, <2>1 DEF Tick
  <2>3. sinceSweep' \in 0..SweepInterval
    BY <1>4, CacheAssumption DEF Tick, Lesser, Typed, TypeOK
  <2>4. tokenLeft' \in [Key -> 0..LongestTTL \cup {Forever}]
    BY <1>4, CacheAssumption DEF Tick, Less, Typed, TypeOK, Forever
  <2>. QED  BY <1>4, <2>2, <2>3, <2>4 DEF Tick, Typed, TypeOK, KeysChosen, callers
<1>5. CASE UNCHANGED vars
  BY <1>5 DEF vars, Typed, TypeOK, KeysChosen
<1>. QED  BY <1>1, <1>2, <1>3, <1>4, <1>5 DEF Next

\* An empty cache is well formed.
LEMMA InitTyped == Init => Typed
BY CacheAssumption DEF Init, Typed, TypeOK, KeysChosen, Entry, Answer, Place

\* The cache stays well formed.
LEMMA AlwaysTyped == Spec => []Typed
BY InitTyped, NextKeepsTypes, PTL DEF Spec

\* Every variable of the grant cache keeps its type, whatever its callers, its
\* sidecar and the clock do.
THEOREM CacheTypeCorrect == Spec => []TypeOK
<1>1. Typed => TypeOK
  BY DEF Typed
<1>. QED  BY <1>1, AlwaysTyped, PTL

-----------------------------------------------------------------------------
(* Claims.                                                                 *)

\* Removing the claim of c's key leaves every other claim with its owner.
LEMMA RemovingKeepsOwners ==
  ASSUME Typed, ClaimsAreOwned, NEW c \in Caller, NEW place, RemoveClaim(c, place),
         key[c] \in Key, \A d \in Caller : d # c => key'[d] = key[d]
  PROVE  ClaimsAreOwned'
<1>. SUFFICES ASSUME NEW k \in Key, claim'[k] # NoOne
              PROVE  key'[claim'[k]] = k /\ pc'[claim'[k]] \in Leading
  BY DEF ClaimsAreOwned, Leading
<1>1. k # key[c] /\ claim'[k] = claim[k]
  BY DEF RemoveClaim, Typed, TypeOK
<1>2. claim[k] \in Caller /\ key[claim[k]] = k /\ pc[claim[k]] \in Leading
  BY <1>1 DEF ClaimsAreOwned, Typed, TypeOK
<1>3. claim[k] # c
  BY <1>1, <1>2
<1>4. pc'[claim[k]] = pc[claim[k]]
  BY <1>2, <1>3 DEF RemoveClaim, Leading
<1>. QED  BY <1>1, <1>2, <1>3, <1>4

\* A step that moves only a caller that is not leading, or keeps it leading on
\* the same key, leaves every claim with its owner.
LEMMA MovingKeepsOwners ==
  ASSUME Typed, ClaimsAreOwned, NEW c \in Caller, claim' = claim,
         \A d \in Caller : d # c => key'[d] = key[d] /\ pc'[d] = pc[d],
         pc[c] \in Leading => key'[c] = key[c] /\ pc'[c] \in Leading
  PROVE  ClaimsAreOwned'
BY DEF ClaimsAreOwned, Typed, TypeOK, Leading

\* Every step keeps each claim with the caller that made it.
LEMMA NextKeepsOwners == Typed /\ ClaimsAreOwned /\ [Next]_vars => ClaimsAreOwned'
<1>. SUFFICES ASSUME Typed, ClaimsAreOwned, [Next]_vars PROVE ClaimsAreOwned'
  OBVIOUS
<1>1. ASSUME NEW c \in Caller, Resolve(c) PROVE ClaimsAreOwned'
  <2>1. ASSUME NEW k \in Key, Arrive(c, k) PROVE ClaimsAreOwned'
    BY <2>1, MovingKeepsOwners DEF Arrive, Goto, Leading, Typed, TypeOK
  <2>2. CASE LookupHits(c)
    BY <2>2, MovingKeepsOwners DEF LookupHits, Goto, Keeps, Leading, Typed, TypeOK
  <2>3. CASE LookupMisses(c) \/ Follow(c) \/ CancelWait(c) \/ Leave(c)
    BY <2>3, MovingKeepsOwners
    DEF LookupMisses, Follow, CancelWait, Leave, Keeps, Goto, Leading, Typed, TypeOK
  <2>4. CASE Lead(c)
    BY <2>4 DEF Lead, Goto, ClaimsAreOwned, Leading, Typed, TypeOK, KeysChosen
  <2>5. CASE RecheckHits(c) \/ RecheckMisses(c) \/ SidecarAnswers(c) \/ ResolveAndStore(c)
    BY <2>5, MovingKeepsOwners
    DEF RecheckHits, RecheckMisses, SidecarAnswers, ResolveAndStore, Goto, Leading, Typed, TypeOK
  <2>6. CASE Release(c)
    BY <2>6, RemovingKeepsOwners DEF Release, Typed, KeysChosen
  <2>7. CASE DropGuard(c)
    <3>1. key[c] \in Key
      BY <2>7 DEF DropGuard, Typed, KeysChosen
    <3>2. \A d \in Caller : d # c => key'[d] = key[d]
      BY <2>7 DEF DropGuard, Keeps, Typed, TypeOK
    <3>. QED  BY <2>7, <3>1, <3>2, RemovingKeepsOwners DEF DropGuard
  <2>8. CASE CancelCall(c)
    <3>1. key[c] \in Key
      BY <2>8 DEF CancelCall, Typed, KeysChosen
    <3>2. \A d \in Caller : d # c => key'[d] = key[d]
      BY <2>8 DEF CancelCall, Keeps, Typed, TypeOK
    <3>. QED  BY <2>8, <3>1, <3>2, RemovingKeepsOwners DEF CancelCall
  <2>. QED  BY <1>1, <2>1, <2>2, <2>3, <2>4, <2>5, <2>6, <2>7, <2>8 DEF Resolve
<1>2. ASSUME NEW s \in Server, InvalidatePrimary(s) \/ Failover(s) PROVE ClaimsAreOwned'
  BY <1>2 DEF InvalidatePrimary, Failover, ClaimsAreOwned, callers
<1>3. CASE Tick
  BY <1>3 DEF Tick, ClaimsAreOwned, callers
<1>4. CASE UNCHANGED vars
  BY <1>4 DEF vars, ClaimsAreOwned
<1>. QED  BY <1>1, <1>2, <1>3, <1>4 DEF Next

\* No claim outlives the caller that took it, so no follower waits on a channel
\* nothing will send on: what InflightGuard is for, for every number of callers,
\* and in spite of the guard removing claims that are not its own.
THEOREM ClaimsAlwaysOwned == Spec => []ClaimsAreOwned
<1>1. Init => ClaimsAreOwned
  BY DEF Init, ClaimsAreOwned
<1>. QED  BY <1>1, AlwaysTyped, NextKeepsOwners, PTL DEF Spec

-----------------------------------------------------------------------------
(* Lifetimes and capacity.                                                 *)

\* What holds of the map, apart from its type.
Bounded == NeverOutlivesToken /\ CapacityRespected

\* A map that only lost entries is as bounded as it was.
LEMMA LosingKeepsBounds ==
  ASSUME Typed, Bounded, tokenLeft' = tokenLeft,
         \A k \in Key : entries'[k] = entries[k] \/ entries'[k] = NoEntry
  PROVE  Bounded'
<1>1. NeverOutlivesToken'
  BY CacheAssumption DEF Bounded, NeverOutlivesToken, NoEntry, Forever
<1>2. CapacityRespected'
  <2>1. Held(entries') \subseteq Held(entries) /\ Held(entries) \subseteq Key
    BY DEF Held
  <2>2. IsFiniteSet(Held(entries))
    BY <2>1, CacheAssumption, FS_Subset
  <2>3. Cardinality(Held(entries')) <= Cardinality(Held(entries))
    BY <2>1, <2>2, FS_Subset
  <2>4. Cardinality(Held(entries)) \in Nat /\ Cardinality(Held(entries')) \in Nat
    BY <2>1, <2>2, FS_Subset, FS_CardinalityType
  <2>. QED  BY <2>3, <2>4, CacheAssumption DEF Bounded, CapacityRespected
<1>. QED  BY <1>1, <1>2 DEF Bounded

\* `store` keeps both bounds when the lifetime it is given does.
LEMMA StoreKeepsBounds ==
  ASSUME Typed, Bounded, NEW k \in Key, NEW v \in Verdict, NEW ttl \in Nat, Store(k, v, ttl),
         tokenLeft' = tokenLeft,
         v \in Server /\ tokenLeft[k] # Forever => ttl <= tokenLeft[k]
  PROVE  Bounded'
<1>. DEFINE sweeps == Full(entries, k) /\ sinceSweep = SweepInterval
            map == IF sweeps THEN Swept ELSE entries
            new == [map EXCEPT ![k] = [verdict |-> v, left |-> ttl]]
<1>1. CASE entries' = entries
  BY <1>1, LosingKeepsBounds
<1>2. map \in [Key -> Entry] /\ \A j \in Key : map[j] = entries[j] \/ map[j] = NoEntry
  BY DEF Swept, Typed, TypeOK, Entry
<1>3. CASE entries' = map
  BY <1>2, <1>3, LosingKeepsBounds
<1>4. CASE ~Full(map, k) /\ entries' = new
  <2>. HIDE DEF map
  <2>0. new \in [Key -> Entry] /\ new[k] = [verdict |-> v, left |-> ttl]
        /\ \A j \in Key \ {k} : new[j] = map[j]
    BY <1>2 DEF Entry
  <2>1. NeverOutlivesToken'
    <3>. SUFFICES ASSUME NEW j \in Key, entries'[j].verdict \in Server, tokenLeft'[j] # Forever
                  PROVE  entries'[j].left <= tokenLeft'[j]
      BY DEF NeverOutlivesToken
    <3>1. CASE j = k
      BY <1>4, <2>0, <3>1
    <3>2. CASE j # k
      <4>1. entries'[j] = entries[j] \/ entries'[j] = NoEntry
        BY <1>2, <1>4, <2>0, <3>2
      <4>2. entries'[j] = entries[j]
        BY <4>1, CacheAssumption DEF NoEntry
      <4>. QED  BY <4>2 DEF Bounded, NeverOutlivesToken
    <3>. QED  BY <3>1, <3>2
  <2>2. CapacityRespected'
    <3>1. Held(map) \subseteq Key /\ Held(map) \subseteq Held(entries) /\ Held(entries) \subseteq Key
      BY <1>2 DEF Held
    <3>2. IsFiniteSet(Held(map)) /\ IsFiniteSet(Held(entries))
      BY <3>1, CacheAssumption, FS_Subset
    <3>3. /\ Cardinality(Held(map)) \in Nat /\ Cardinality(Held(entries)) \in Nat
          /\ Cardinality(Held(map)) <= Cardinality(Held(entries))
      BY <3>1, <3>2, FS_Subset, FS_CardinalityType
    <3>4. CASE map[k] # NoEntry
      <4>1. Held(entries') \subseteq Held(map)
        BY <1>4, <2>0, <3>4 DEF Held
      <4>2. Cardinality(Held(entries')) <= Cardinality(Held(map)) /\ Cardinality(Held(entries')) \in Nat
        BY <4>1, <3>2, FS_Subset, FS_CardinalityType
      <4>. QED  BY <4>2, <3>3, CacheAssumption DEF Bounded, CapacityRespected
    <3>5. CASE map[k] = NoEntry
      <4>1. Cardinality(Held(map)) < Capacity
        BY <1>4, <3>5, <3>3, CacheAssumption DEF Full
      <4>2. Held(entries') \subseteq Held(map) \cup {k}
        BY <1>4, <2>0 DEF Held
      <4>3. /\ IsFiniteSet(Held(map) \cup {k})
            /\ Cardinality(Held(map) \cup {k}) <= Cardinality(Held(map)) + 1
            /\ Cardinality(Held(map) \cup {k}) \in Nat
        <5>1. k \notin Held(map)
          BY <3>5 DEF Held
        <5>2. IsFiniteSet(Held(map) \cup {k})
          BY <3>2, FS_AddElement
        <5>3. Cardinality(Held(map) \cup {k}) = Cardinality(Held(map)) + 1
          BY <3>2, <5>1, FS_AddElement
        <5>. QED  BY <3>3, <5>2, <5>3
      <4>4. /\ Cardinality(Held(entries')) <= Cardinality(Held(map) \cup {k})
            /\ Cardinality(Held(entries')) \in Nat
        BY <4>2, <4>3, FS_Subset, FS_CardinalityType
      <4>. QED  BY <4>1, <4>3, <4>4, <3>3, CacheAssumption DEF CapacityRespected
    <3>. QED  BY <3>4, <3>5
  <2>. QED  BY <2>1, <2>2 DEF Bounded
<1>. QED  BY <1>1, <1>3, <1>4 DEF Store

\* Every step keeps the cache within its bounds.
LEMMA NextKeepsBounds == Typed /\ Bounded /\ [Next]_vars => Bounded'
<1>. SUFFICES ASSUME Typed, Bounded, [Next]_vars PROVE Bounded'
  OBVIOUS
<1>1. ASSUME NEW c \in Caller, Resolve(c) PROVE Bounded'
  <2>1. CASE LookupMisses(c) \/ RecheckMisses(c)
    <3>1. \A k \in Key : entries'[k] = entries[k] \/ entries'[k] = NoEntry
      BY <2>1 DEF LookupMisses, RecheckMisses, LookedUp, Typed, TypeOK
    <3>. QED  BY <2>1, <3>1, LosingKeepsBounds DEF LookupMisses, RecheckMisses, world
  <2>2. CASE ResolveAndStore(c)
    <3>1. key[c] \in Key
      BY <2>2 DEF ResolveAndStore, Typed, KeysChosen
    <3>2. /\ EffectiveTTL(key[c], answer[c].ttl) \in Nat
          /\ tokenLeft[key[c]] # Forever => EffectiveTTL(key[c], answer[c].ttl) <= tokenLeft[key[c]]
      BY <3>1, AnswerFields, EffectiveTTLType, CacheAssumption DEF Typed
    <3>3. tokenLeft' = tokenLeft
      BY <2>2 DEF ResolveAndStore, world
    <3>4. CASE answer[c].verdict \in Server
      BY <2>2, <3>1, <3>2, <3>3, <3>4, StoreKeepsBounds DEF ResolveAndStore, Verdict
    <3>5. CASE answer[c].verdict \notin Server /\ answer[c].verdict = "refused"
      BY <2>2, <3>1, <3>3, <3>5, StoreKeepsBounds, CacheAssumption DEF ResolveAndStore, Verdict
    <3>6. CASE answer[c].verdict \notin Server /\ answer[c].verdict # "refused"
      BY <2>2, <3>3, <3>6, LosingKeepsBounds DEF ResolveAndStore
    <3>. QED  BY <3>4, <3>5, <3>6
  <2>3. CASE UNCHANGED <<entries, world>>
    BY <2>3, LosingKeepsBounds DEF world
  <2>. QED
    BY <1>1, <2>1, <2>2, <2>3
    DEF Resolve, Arrive, LookupHits, Lead, Follow, RecheckHits, SidecarAnswers, Release, DropGuard,
        CancelCall, CancelWait, Leave
<1>2. ASSUME NEW s \in Server, InvalidatePrimary(s) \/ Failover(s) PROVE Bounded'
  <2>1. \A k \in Key : entries'[k] = entries[k] \/ entries'[k] = NoEntry
    BY <1>2 DEF InvalidatePrimary, Failover, WithoutPrimary
  <2>. QED  BY <1>2, <2>1, LosingKeepsBounds DEF InvalidatePrimary, Failover, world
<1>3. CASE Tick
  <2>1. NeverOutlivesToken'
    <3>. SUFFICES ASSUME NEW k \in Key, entries'[k].verdict \in Server, tokenLeft'[k] # Forever
                  PROVE  entries'[k].left <= tokenLeft'[k]
      BY DEF NeverOutlivesToken
    <3>1. /\ entries'[k].verdict = entries[k].verdict
          /\ entries'[k].left = Less(entries[k].left) /\ tokenLeft'[k] = Less(tokenLeft[k])
      BY <1>3 DEF Tick
    <3>2. tokenLeft[k] \in 0..LongestTTL \cup {Forever} /\ entries[k].left \in Nat /\ LongestTTL \in Nat
      BY EntryFields, CacheAssumption DEF Typed, TypeOK
    <3>3. tokenLeft[k] # Forever
      BY <3>1, <3>2 DEF Less, Forever
    <3>4. entries[k].left <= tokenLeft[k]
      BY <3>1, <3>3 DEF Bounded, NeverOutlivesToken
    <3>. QED  BY <3>1, <3>2, <3>3, <3>4 DEF Less, Forever
  <2>2. CapacityRespected'
    <3>1. ASSUME NEW k \in Key, entries[k] = NoEntry PROVE entries'[k] = NoEntry
      BY <1>3, <3>1 DEF Tick, NoEntry, Less
    <3>2. Held(entries') \subseteq Held(entries) /\ Held(entries) \subseteq Key
      BY <3>1 DEF Held
    <3>3. IsFiniteSet(Held(entries))
      BY <3>2, CacheAssumption, FS_Subset
    <3>4. /\ Cardinality(Held(entries')) <= Cardinality(Held(entries))
          /\ Cardinality(Held(entries')) \in Nat /\ Cardinality(Held(entries)) \in Nat
      BY <3>2, <3>3, FS_Subset, FS_CardinalityType
    <3>. QED  BY <3>4, CacheAssumption DEF Bounded, CapacityRespected
  <2>. QED  BY <2>1, <2>2 DEF Bounded
<1>4. CASE UNCHANGED vars
  BY <1>4, LosingKeepsBounds DEF vars
<1>. QED  BY <1>1, <1>2, <1>3, <1>4 DEF Next

\* The cache stays within its bounds.
LEMMA AlwaysBounded == Spec => []Bounded
<1>1. Init => Bounded
  <2>. SUFFICES ASSUME Init PROVE Bounded
    OBVIOUS
  <2>1. Held(entries) = {}
    BY DEF Init, Held
  <2>2. CapacityRespected
    BY <2>1, FS_EmptySet, CacheAssumption DEF CapacityRespected
  <2>3. NeverOutlivesToken
    BY CacheAssumption DEF Init, NeverOutlivesToken, NoEntry
  <2>. QED  BY <2>2, <2>3 DEF Bounded
<1>. QED  BY <1>1, AlwaysTyped, NextKeepsBounds, PTL DEF Spec

\* A token is never honoured from the cache after it has expired, for every
\* lifetime the sidecar gives and every delay of its answer.
THEOREM TokensNeverOutlived == Spec => []NeverOutlivesToken
<1>1. Bounded => NeverOutlivesToken
  BY DEF Bounded
<1>. QED  BY <1>1, AlwaysBounded, PTL

\* The map never outgrows its capacity, for every capacity and number of keys.
THEOREM CacheWithinCapacity == Spec => []CapacityRespected
<1>1. Bounded => CapacityRespected
  BY DEF Bounded
<1>. QED  BY <1>1, AlwaysBounded, PTL

-----------------------------------------------------------------------------
(* Calls to the sidecar.                                                   *)

\* Only a recheck that misses leads a caller to the call.
LEMMA CallsFollowARecheck ==
  ASSUME Typed, NEW c \in Caller, Resolve(c), NEW d \in Caller, pc[d] # "calling", pc'[d] = "calling"
  PROVE  ~Live(key[d])
<1>0. pc \in [Caller -> Place]
  BY DEF Typed, TypeOK
<1>1. ASSUME NEW to, Goto(c, to), to # "calling" PROVE FALSE
  BY <1>0, <1>1 DEF Goto
<1>2. ASSUME NEW to, RemoveClaim(c, to), to # "calling" PROVE FALSE
  BY <1>2 DEF RemoveClaim
<1>3. \A v : After(v) # "calling"
  BY DEF After
<1>4. CASE RecheckMisses(c)
  <2>1. Goto(c, "calling") /\ ~Live(key[c])
    BY <1>4 DEF RecheckMisses
  <2>2. d = c
    BY <1>0, <2>1 DEF Goto
  <2>. QED  BY <2>1, <2>2
<1>5. CASE Release(c) \/ DropGuard(c) \/ CancelCall(c)
  BY <1>2, <1>3, <1>5 DEF Release, DropGuard, CancelCall
<1>6. CASE \/ LookupHits(c) \/ LookupMisses(c) \/ Lead(c) \/ Follow(c) \/ RecheckHits(c)
           \/ SidecarAnswers(c) \/ ResolveAndStore(c) \/ CancelWait(c) \/ Leave(c) \/ \E k \in Key : Arrive(c, k)
  BY <1>1, <1>3, <1>6
     DEF LookupHits, LookupMisses, Lead, Follow, RecheckHits, SidecarAnswers, ResolveAndStore, CancelWait, Leave, Arrive
<1>. QED
  BY <1>4, <1>5, <1>6 DEF Resolve

\* A leader calls the sidecar only for a key that is not cached at that moment,
\* whatever other leaders stored between its lookup and its claim.
THEOREM NeverCallsForCachedKey == Spec => NoCallForCachedKey
<1>1. Typed /\ [Next]_vars =>
        [\A c \in Caller : pc[c] # "calling" /\ pc'[c] = "calling" => ~Live(key[c])]_vars
  <2>. SUFFICES ASSUME Typed, Next, NEW d \in Caller, pc[d] # "calling", pc'[d] = "calling"
                PROVE  ~Live(key[d])
    OBVIOUS
  <2>1. ASSUME NEW c \in Caller, Resolve(c) PROVE ~Live(key[d])
    BY <2>1, CallsFollowARecheck
  <2>2. ASSUME Tick \/ \E s \in Server : InvalidatePrimary(s) \/ Failover(s) PROVE pc' = pc
    BY <2>2 DEF Tick, InvalidatePrimary, Failover, callers
  <2>. QED  BY <2>1, <2>2 DEF Next
<1>. QED
  BY <1>1, AlwaysTyped, PTL DEF Spec, NoCallForCachedKey

-----------------------------------------------------------------------------
(* The watch on the primary.                                               *)

\* Every step of the watch is a step of the cache, or none of its business.
LEMMA WatchStepIsCacheStep == [WatchNext]_watchVars => [Next]_vars
<1>. SUFFICES ASSUME WatchNext PROVE [Next]_vars
  BY DEF watchVars
<1>1. ASSUME NEW c \in Caller, (Resolve(c) /\ UNCHANGED <<watch, failovers>>) \/ EnsureWatched(c) PROVE [Next]_vars
  BY <1>1 DEF Next, EnsureWatched
<1>2. ASSUME NEW s \in Server, \/ Poll(s) \/ SidecarRefreshes(s) \/ Refresh(s) \/ RefreshFails(s)
                               \/ Failover(s)
      PROVE  [Next]_vars
  BY <1>2 DEF Next, Poll, SidecarRefreshes, Refresh, RefreshFails
<1>3. CASE Tick
  BY <1>3 DEF Next
<1>. QED
  BY <1>1, <1>2, <1>3 DEF WatchNext

\* The cache under the watch is the cache: what is shown of one holds of the
\* other, since the watch touches it only through `invalidate_primary_entries`.
THEOREM WatchedCacheIsTheCache == WatchSpec => Spec
<1>1. WatchInit => Init
  BY DEF WatchInit
<1>. QED
  BY <1>1, WatchStepIsCacheStep, PTL DEF WatchSpec, Spec

\* Before the first failover every grant names the one primary there has been,
\* so no server is ever seen demoted and no refresh is asked for.
Untouched ==
  /\ \A k \in Key : entries[k].verdict \in Server => entries[k].verdict = primary
  /\ \A c \in Caller : answer[c].verdict \in Server => answer[c].verdict = primary
  /\ \A s \in Server : s \in watched => s = primary
  /\ \A s \in Server : refreshing[s] = NoOne /\ overrides[s] = NoOne

\* Between the first and the second every answer names the server that took over.
Corrected == \A s \in Server : refreshing[s] \in {NoOne, "asked", "failed", primary} /\ overrides[s] \in {NoOne, primary}

FirstFailover ==
  /\ failovers \in Nat
  /\ refreshing \in [Server -> Server \cup {NoOne, "asked", "failed"}]
  /\ overrides \in [Server -> Server \cup {NoOne}]
  /\ failovers = 0 => Untouched
  /\ failovers = 1 => Corrected

\* What a caller keeps names whom its answer named.
LEMMA KeepsNames ==
  ASSUME Typed, NEW c \in Caller, NEW v, Keeps(c, v), v \in Server => v = primary,
         \A d \in Caller : answer[d].verdict \in Server => answer[d].verdict = primary
  PROVE  \A d \in Caller : answer'[d].verdict \in Server => answer'[d].verdict = primary
<1>1. answer' = [answer EXCEPT ![c] = IF v \in Server THEN [verdict |-> v, ttl |-> 0] ELSE NoAnswer]
  BY DEF Keeps
<1>2. answer \in [Caller -> Answer] /\ NoAnswer.verdict \notin Server
  BY CacheAssumption DEF Typed, TypeOK, NoAnswer
<1>3. answer'[c] = IF v \in Server THEN [verdict |-> v, ttl |-> 0] ELSE NoAnswer
  BY <1>1, <1>2
<1>4. \A d \in Caller \ {c} : answer'[d] = answer[d]
  BY <1>1, <1>2
<1>. QED
  BY <1>2, <1>3, <1>4

\* Storing an answer that names the primary leaves entries that do.
LEMMA StoreNames ==
  ASSUME Typed, NEW k \in Key, NEW v, NEW ttl, Store(k, v, ttl), v \in Server => v = primary,
         \A j \in Key : entries[j].verdict \in Server => entries[j].verdict = primary
  PROVE  \A j \in Key : entries'[j].verdict \in Server => entries'[j].verdict = primary
<1>. DEFINE map == IF Full(entries, k) /\ sinceSweep = SweepInterval THEN Swept ELSE entries
            new == [map EXCEPT ![k] = [verdict |-> v, left |-> ttl]]
<1>1. entries \in [Key -> Entry] /\ NoEntry.verdict \notin Server
  BY CacheAssumption DEF Typed, TypeOK, NoEntry
<1>2. map \in [Key -> Entry] /\ \A j \in Key : map[j] = entries[j] \/ map[j] = NoEntry
  BY <1>1 DEF Swept, Entry
<1>3. entries' = entries \/ entries' = map \/ entries' = new
  BY DEF Store
<1>. HIDE DEF map
<1>4. new[k].verdict = v /\ \A j \in Key \ {k} : new[j] = map[j]
  BY <1>2
<1>. HIDE DEF new
<1>. QED
  BY <1>1, <1>2, <1>3, <1>4

\* While there is one primary, nothing a caller does brings up another.
LEMMA ResolveNames ==
  ASSUME Typed, NEW c \in Caller, Resolve(c),
         \A k \in Key : entries[k].verdict \in Server => entries[k].verdict = primary,
         \A d \in Caller : answer[d].verdict \in Server => answer[d].verdict = primary
  PROVE  /\ \A k \in Key : entries'[k].verdict \in Server => entries'[k].verdict = primary
         /\ \A d \in Caller : answer'[d].verdict \in Server => answer'[d].verdict = primary
         /\ primary' = primary
<1>. DEFINE E == \A k \in Key : entries'[k].verdict \in Server => entries'[k].verdict = primary
            A == \A d \in Caller : answer'[d].verdict \in Server => answer'[d].verdict = primary
            P == primary' = primary
<1>. USE DEF world
<1>0. /\ TypeOK /\ entries \in [Key -> Entry] /\ answer \in [Caller -> Answer]
      /\ NoEntry.verdict \notin Server /\ \A d \in Caller : pc[d] # "away" => key[d] \in Key
  BY CacheAssumption DEF Typed, TypeOK, KeysChosen, NoEntry
<1>1. ASSUME entries' = entries PROVE E
  BY <1>1
<1>2. ASSUME answer' = answer PROVE A
  BY <1>2
<1>3. CASE Lead(c) \/ Follow(c) \/ Release(c) \/ \E k \in Key : Arrive(c, k)
  BY <1>1, <1>2, <1>3 DEF Lead, Follow, Release, Arrive
<1>4. CASE LookupHits(c)
  <2>1. key[c] \in Key /\ Keeps(c, entries[key[c]].verdict) /\ entries' = entries /\ P
    BY <1>0, <1>4 DEF LookupHits
  <2>2. A
    BY <2>1, KeepsNames
  <2>. QED  BY <1>1, <2>1, <2>2
<1>5. CASE LookupMisses(c) \/ RecheckMisses(c)
  <2>1. answer' = answer /\ P /\ entries' = LookedUp(key[c])
    BY <1>5 DEF LookupMisses, RecheckMisses
  <2>2. \A k \in Key : entries'[k] = entries[k] \/ entries'[k] = NoEntry
    BY <1>0, <2>1 DEF LookedUp
  <2>. QED  BY <1>0, <1>2, <2>1, <2>2
<1>6. CASE RecheckHits(c)
  <2>1. key[c] \in Key /\ entries' = entries /\ P
        /\ answer' = [answer EXCEPT ![c] = [verdict |-> entries[key[c]].verdict, ttl |-> 0]]
    BY <1>0, <1>6 DEF RecheckHits
  <2>2. answer'[c].verdict = entries[key[c]].verdict /\ \A d \in Caller \ {c} : answer'[d] = answer[d]
    BY <1>0, <2>1
  <2>. QED  BY <1>1, <2>1, <2>2
<1>7. CASE SidecarAnswers(c)
  <2>1. PICK reply \in SidecarReplies(key[c]) : answer' = [answer EXCEPT ![c] = reply]
    BY <1>7 DEF SidecarAnswers
  <2>2. reply.verdict \in {"refused", "unavailable", primary}
    BY DEF SidecarReplies
  <2>3. answer'[c] = reply /\ \A d \in Caller \ {c} : answer'[d] = answer[d]
    BY <1>0, <2>1
  <2>4. entries' = entries /\ P
    BY <1>7 DEF SidecarAnswers
  <2>. QED  BY <1>1, <2>2, <2>3, <2>4, CacheAssumption
<1>8. CASE ResolveAndStore(c)
  <2>1. key[c] \in Key /\ answer' = answer /\ P
    BY <1>0, <1>8 DEF ResolveAndStore
  <2>2. CASE answer[c].verdict \in Server
    <3>1. Store(key[c], answer[c].verdict, EffectiveTTL(key[c], answer[c].ttl))
      BY <1>8, <2>2 DEF ResolveAndStore
    <3>2. E
      BY <2>1, <3>1, StoreNames
    <3>. QED  BY <1>2, <2>1, <3>2
  <2>3. CASE answer[c].verdict \notin Server /\ answer[c].verdict = "refused"
    <3>1. Store(key[c], "refused", NegativeTTL)
      BY <1>8, <2>3 DEF ResolveAndStore
    <3>2. E
      BY <2>1, <3>1, StoreNames, CacheAssumption
    <3>. QED  BY <1>2, <2>1, <3>2
  <2>4. CASE answer[c].verdict \notin Server /\ answer[c].verdict # "refused"
    BY <1>1, <1>2, <1>8, <2>1, <2>4 DEF ResolveAndStore
  <2>. QED  BY <2>2, <2>3, <2>4
<1>9. CASE DropGuard(c)
  <2>1. Keeps(c, answer[c].verdict) /\ entries' = entries /\ P
    BY <1>9 DEF DropGuard
  <2>2. A
    BY <2>1, KeepsNames
  <2>. QED  BY <1>1, <2>1, <2>2
<1>10. CASE CancelCall(c) \/ CancelWait(c) \/ Leave(c)
  <2>1. Keeps(c, NoOne) /\ entries' = entries /\ P
    BY <1>10 DEF CancelCall, CancelWait, Leave
  <2>2. A
    BY <2>1, KeepsNames, CacheAssumption
  <2>. QED  BY <1>1, <2>1, <2>2
<1>. QED
  BY <1>3, <1>4, <1>5, <1>6, <1>7, <1>8, <1>9, <1>10 DEF Resolve

\* Every step keeps the account of the first failover.
LEMMA WatchKeepsFirstFailover == Typed /\ FirstFailover /\ [WatchNext]_watchVars => FirstFailover'
<1>. SUFFICES ASSUME Typed, FirstFailover, [WatchNext]_watchVars PROVE FirstFailover'
  OBVIOUS
<1>. DEFINE R == Server \cup {NoOne, "asked", "failed"}
            V == Server \cup {NoOne}
<1>0. /\ failovers \in Nat /\ refreshing \in [Server -> R] /\ overrides \in [Server -> V]
      /\ (failovers = 0 => Untouched) /\ (failovers = 1 => Corrected)
  BY DEF FirstFailover
<1>1. primary \in Server /\ NoOne \notin Server /\ NoOne # "asked" /\ "asked" \notin Server /\ "failed" \notin Server
  BY CacheAssumption, WatchAssumption DEF Typed, TypeOK
<1>2. ASSUME failovers' = failovers, refreshing' \in [Server -> R], overrides' \in [Server -> V],
             failovers = 0 => Untouched', failovers = 1 => Corrected'
      PROVE  FirstFailover'
  BY <1>0, <1>2 DEF FirstFailover
<1>3. ASSUME UNCHANGED <<watched, refreshing, overrides, primary>>,
             Untouched => /\ \A k \in Key : entries'[k].verdict \in Server => entries'[k].verdict = primary
                          /\ \A c \in Caller : answer'[c].verdict \in Server => answer'[c].verdict = primary
      PROVE  (Untouched => Untouched') /\ (Corrected => Corrected')
  BY <1>3 DEF Untouched, Corrected
<1>4. ASSUME NEW c \in Caller, Resolve(c), UNCHANGED <<watch, failovers>> PROVE FirstFailover'
  <2>1. UNCHANGED <<watched, refreshing, overrides, failovers>>
    BY <1>4 DEF watch
  <2>2. primary' = primary
    BY <1>4
    DEF Resolve, Arrive, LookupHits, LookupMisses, Lead, Follow, RecheckHits, RecheckMisses, SidecarAnswers,
        ResolveAndStore, Release, DropGuard, CancelCall, CancelWait, Leave, world
  <2>3. Untouched => /\ \A k \in Key : entries'[k].verdict \in Server => entries'[k].verdict = primary
                     /\ \A d \in Caller : answer'[d].verdict \in Server => answer'[d].verdict = primary
    BY <1>4, ResolveNames DEF Untouched
  <2>. QED  BY <1>0, <1>2, <1>3, <2>1, <2>2, <2>3
<1>5. ASSUME NEW c \in Caller, EnsureWatched(c) PROVE FirstFailover'
  <2>1. /\ UNCHANGED <<vars, refreshing, overrides, failovers>>
        /\ watched' = watched \cup {answer[c].verdict}
    BY <1>5 DEF EnsureWatched
  <2>2. UNCHANGED <<entries, answer, primary>>
    BY <2>1 DEF vars
  <2>3. Corrected => Corrected'
    BY <2>1, <2>2 DEF Corrected
  <2>5. Untouched => Untouched'
    BY <2>1, <2>2 DEF Untouched
  <2>. QED  BY <1>0, <1>2, <2>1, <2>3, <2>5
<1>6. ASSUME NEW s \in Server, Poll(s) PROVE FirstFailover'
  <2>1. /\ s \in watched /\ s # primary /\ UNCHANGED <<watched, overrides, failovers, primary>>
        /\ refreshing' = [refreshing EXCEPT ![s] = "asked"]
    BY <1>6 DEF Poll, InvalidatePrimary, world
  <2>2. ~Untouched
    BY <2>1 DEF Untouched
  <2>3. refreshing'[s] = "asked" /\ \A t \in Server \ {s} : refreshing'[t] = refreshing[t]
    BY <1>0, <2>1
  <2>4. Corrected => Corrected'
    BY <2>1, <2>3 DEF Corrected
  <2>5. refreshing' \in [Server -> R]
    BY <1>0, <2>1
  <2>. QED  BY <1>0, <1>2, <2>1, <2>2, <2>4, <2>5
<1>7. ASSUME NEW s \in Server, SidecarRefreshes(s) \/ Refresh(s) \/ RefreshFails(s) PROVE FirstFailover'
  <2>1. UNCHANGED <<entries, answer, primary, watched, failovers>> /\ refreshing[s] # NoOne
    BY <1>1, <1>7 DEF SidecarRefreshes, Refresh, RefreshFails, vars
  <2>2. ~Untouched
    BY <2>1 DEF Untouched
  <2>3. CASE SidecarRefreshes(s)
    <3>1. refreshing' = [refreshing EXCEPT ![s] = primary] /\ overrides' = overrides
      BY <2>3 DEF SidecarRefreshes
    <3>2. refreshing'[s] = primary /\ \A t \in Server \ {s} : refreshing'[t] = refreshing[t]
      BY <1>0, <3>1
    <3>3. Corrected => Corrected'
      BY <2>1, <3>1, <3>2 DEF Corrected
    <3>4. refreshing' \in [Server -> R]
      BY <1>0, <1>1, <3>1
    <3>. QED  BY <1>0, <1>2, <2>1, <2>2, <3>1, <3>3, <3>4
  <2>4. CASE Refresh(s)
    <3>1. /\ refreshing[s] \in Server /\ refreshing' = [refreshing EXCEPT ![s] = NoOne]
          /\ overrides' = [overrides EXCEPT ![s] = refreshing[s]]
      BY <2>4 DEF Refresh
    <3>2. /\ refreshing'[s] = NoOne /\ \A t \in Server \ {s} : refreshing'[t] = refreshing[t]
          /\ overrides'[s] = refreshing[s] /\ \A t \in Server \ {s} : overrides'[t] = overrides[t]
      BY <1>0, <3>1
    <3>3. Corrected => Corrected'
      BY <1>1, <2>1, <3>1, <3>2 DEF Corrected
    <3>4. refreshing' \in [Server -> R] /\ overrides' \in [Server -> V]
      BY <1>0, <3>1
    <3>. QED  BY <1>0, <1>2, <2>1, <2>2, <3>3, <3>4
  <2>5. CASE RefreshFails(s)
    <3>1. refreshing' = [refreshing EXCEPT ![s] = "failed"] /\ overrides' = overrides
      BY <2>5 DEF RefreshFails
    <3>2. refreshing'[s] = "failed" /\ \A t \in Server \ {s} : refreshing'[t] = refreshing[t]
      BY <1>0, <3>1
    <3>3. Corrected => Corrected'
      BY <2>1, <3>1, <3>2 DEF Corrected
    <3>4. refreshing' \in [Server -> R]
      BY <1>0, <3>1
    <3>. QED  BY <1>0, <1>2, <2>1, <2>2, <3>1, <3>3, <3>4
  <2>. QED  BY <1>7, <2>3, <2>4, <2>5
<1>8. ASSUME NEW s \in Server, failovers' = failovers + 1, Failover(s), UNCHANGED watch PROVE FirstFailover'
  <2>1. UNCHANGED <<refreshing, overrides>>
    BY <1>8 DEF watch
  <2>2. failovers' = 1 => failovers = 0
    BY <1>0, <1>8
  <2>3. Untouched => Corrected'
    BY <2>1 DEF Untouched, Corrected
  <2>4. failovers' \in Nat /\ failovers' # 0
    BY <1>0, <1>8
  <2>. QED  BY <1>0, <2>1, <2>2, <2>3, <2>4 DEF FirstFailover
<1>9. ASSUME Tick, UNCHANGED <<watch, failovers>> PROVE FirstFailover'
  <2>1. /\ UNCHANGED <<watched, refreshing, overrides, failovers, primary, answer>>
        /\ \A k \in Key : entries'[k].verdict = entries[k].verdict
    BY <1>9 DEF watch, Tick, callers
  <2>2. (Untouched => Untouched') /\ (Corrected => Corrected')
    BY <2>1, <1>3 DEF Untouched
  <2>. QED  BY <1>0, <1>2, <2>1, <2>2
<1>10. CASE UNCHANGED watchVars
  <2>1. UNCHANGED <<watched, refreshing, overrides, failovers, primary, answer, entries>>
    BY <1>10 DEF watchVars, vars
  <2>2. (Untouched => Untouched') /\ (Corrected => Corrected')
    BY <2>1, <1>3 DEF Untouched
  <2>. QED  BY <1>0, <1>2, <2>1, <2>2
<1>. QED
  BY <1>4, <1>5, <1>6, <1>7, <1>8, <1>9, <1>10 DEF WatchNext

\* Until the database fails over a second time no correction is out of date,
\* for any number of servers and callers: a refresh is asked for only once a
\* server is seen in recovery, so its answer, however late, names the server
\* that took over.
THEOREM OverridesAlwaysNameThePrimary == WatchSpec => []OverridesNameThePrimary
<1>1. WatchInit => FirstFailover
  <2>. SUFFICES ASSUME WatchInit PROVE FirstFailover
    OBVIOUS
  <2>1. /\ failovers = 0 /\ watched = {}
        /\ refreshing = [s \in Server |-> NoOne] /\ overrides = [s \in Server |-> NoOne]
        /\ entries = [k \in Key |-> NoEntry] /\ answer = [c \in Caller |-> NoAnswer]
    BY DEF WatchInit, Init
  <2>2. NoEntry.verdict \notin Server /\ NoAnswer.verdict \notin Server
    BY CacheAssumption DEF NoEntry, NoAnswer
  <2>3. Untouched
    BY <2>1, <2>2 DEF Untouched
  <2>4. failovers \in Nat /\ failovers # 1
    BY <2>1
  <2>5. refreshing \in [Server -> Server \cup {NoOne, "asked", "failed"}] /\ overrides \in [Server -> Server \cup {NoOne}]
    BY <2>1
  <2>. QED  BY <2>3, <2>4, <2>5 DEF FirstFailover
<1>2. FirstFailover => OverridesNameThePrimary
  <2>. SUFFICES ASSUME FirstFailover, failovers <= 1 PROVE \A s \in Server : overrides[s] \in {NoOne, primary}
    BY DEF OverridesNameThePrimary
  <2>1. failovers = 0 \/ failovers = 1
    BY DEF FirstFailover
  <2>. QED  BY <2>1 DEF FirstFailover, Untouched, Corrected
<1>3. WatchSpec => []Typed
  BY WatchedCacheIsTheCache, AlwaysTyped, PTL
<1>. QED
  BY <1>1, <1>2, <1>3, WatchKeepsFirstFailover, PTL DEF WatchSpec
=============================================================================
