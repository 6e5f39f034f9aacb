----------------------------- MODULE CacheStore -----------------------------
(***************************************************************************)
(* The query cache's store (crates/pgprox-cache/src/store.rs): entries     *)
(* bounded by bytes, their recency kept as a doubly linked list over slots *)
(* that are reused, an index by tenant, and settings that change under it. *)
(*                                                                         *)
(* `inner` is what the mutex guards; `settings` is behind a lock of its    *)
(* own, so a put reads it in one step and takes the mutex in a later one,  *)
(* and a reconfiguration replaces it in one step and purges in a later     *)
(* one.  Counters kept for metrics are left out.                           *)
(***************************************************************************)
EXTENDS Naturals, Sequences, FiniteSets, SequencesExt, FiniteSetsExt

CONSTANTS
    CacheKeys,    \* cache keys
    Tenants,
    TenantOf,     \* CacheKey::tenant
    Sizes,        \* what `weigh` makes of a key and a result
    CacheConfigs,    \* the configurations a document may hold
    Puts          \* how many sessions store an answer at a time

\* A QueryCacheConfig: the TTL, in ticks and capped, of each served tenant,
\* and the byte budget.
ASSUME CacheStoreAssumption ==
    /\ TenantOf \in [CacheKeys -> Tenants]
    /\ Sizes \subseteq Nat \ {0} /\ Puts \in Nat
    /\ \A d \in CacheConfigs : d.max \in Nat /\ DOMAIN d.ttl \subseteq Tenants /\ \A t \in DOMAIN d.ttl : d.ttl[t] \in Nat

NoSlot == 0

VARIABLES
    inner,      \* Inner
    settings,   \* QueryCacheConfig: the TTL of each served tenant, the budget
    purging,    \* a reconfiguration between its two locks, if any
    putting,    \* puts between their two locks
    straddled,  \* whether a put has carried an old budget or TTL past a change
    hit         \* the key the last step was answered from, or "none"

cacheVars == <<inner, settings, purging, putting, straddled, hit>>

NotCached == [slot |-> NoSlot, left |-> 0, bytes |-> 0]

Vacant == [key |-> "none", older |-> NoSlot, newer |-> NoSlot]

Serves(config, t) == t \in DOMAIN config.ttl

\* QueryCacheConfig::default serves nobody.
Off == [ttl |-> <<>>, max |-> 0]

CacheInit ==
    /\ inner = [entries |-> [k \in CacheKeys |-> NotCached], least |-> NoSlot, most |-> NoSlot,
                byTenant |-> [t \in Tenants |-> {}], slots |-> <<>>, free |-> <<>>, bytes |-> 0]
    /\ settings = Off
    /\ purging = <<>> /\ putting = {} /\ straddled = FALSE /\ hit = "none"

Held(in, k) == in.entries[k] # NotCached

----------------------------------------------------------------------------
\* Inner's own operations.

\* Mutant: the new end of the list is left where it was.
UnlinkKeepingEnd(in, slot) ==
    LET older == in.slots[slot].older
        newer == in.slots[slot].newer
        links == [i \in DOMAIN in.slots |->
                    IF i = older THEN [in.slots[i] EXCEPT !.newer = newer]
                    ELSE IF i = newer THEN [in.slots[i] EXCEPT !.older = older]
                    ELSE in.slots[i]]
    IN  [in EXCEPT !.slots = links, !.least = IF older = NoSlot THEN newer ELSE @]

Unlink(in, slot) ==
    LET older == in.slots[slot].older
        newer == in.slots[slot].newer
        links == [i \in DOMAIN in.slots |->
                    IF i = older THEN [in.slots[i] EXCEPT !.newer = newer]
                    ELSE IF i = newer THEN [in.slots[i] EXCEPT !.older = older]
                    ELSE in.slots[i]]
    IN  [in EXCEPT !.slots = links,
                   !.least = IF older = NoSlot THEN newer ELSE @,
                   !.most  = IF newer = NoSlot THEN older ELSE @]

LinkNewest(in, slot) ==
    [in EXCEPT !.slots = [i \in DOMAIN in.slots |->
                            IF i = slot THEN [in.slots[i] EXCEPT !.older = in.most, !.newer = NoSlot]
                            ELSE IF i = in.most THEN [in.slots[i] EXCEPT !.newer = slot]
                            ELSE in.slots[i]],
               !.most  = slot,
               !.least = IF @ = NoSlot THEN slot ELSE @]

\* Mutant: a hit leaves its entry where it is.
TouchNothing(in, slot) == in

Touch(in, slot) == IF in.most = slot THEN in ELSE LinkNewest(Unlink(in, slot), slot)

RemoveKey(in, k) ==
    LET entry    == in.entries[k]
        unlinked == Unlink(in, entry.slot)
    IN  IF entry = NotCached THEN in
        ELSE [unlinked EXCEPT
                !.entries[k]            = NotCached,
                !.byTenant[TenantOf[k]] = @ \ {entry.slot},
                !.slots[entry.slot]     = Vacant,
                !.free                  = Append(@, entry.slot),
                !.bytes                 = @ - entry.bytes]

RECURSIVE RemoveAll(_, _)
RemoveAll(in, keys) == IF keys = <<>> THEN in ELSE RemoveAll(RemoveKey(in, Head(keys)), Tail(keys))

\* `claim`: the slot given back last, or a new one.
NextSlot(in) == IF in.free = <<>> THEN Len(in.slots) + 1 ELSE Last(in.free)

Claim(in, k) ==
    LET placed == [Vacant EXCEPT !.key = k]
    IN  IF in.free = <<>>
        THEN [in EXCEPT !.slots = Append(@, placed)]
        ELSE [in EXCEPT !.slots[Last(in.free)] = placed, !.free = Front(@)]

RECURSIVE EvictToFit(_, _)
EvictToFit(in, max) ==
    IF in.bytes > max /\ in.least # NoSlot
    THEN EvictToFit(RemoveKey(in, in.slots[in.least].key), max) ELSE in

----------------------------------------------------------------------------
\* `get`.
Get(k) ==
    /\ Serves(settings, TenantOf[k]) /\ Held(inner, k)
    /\ inner' = IF inner.entries[k].left = 0 THEN RemoveKey(inner, k)
                ELSE Touch(inner, inner.entries[k].slot)
    /\ hit' = IF inner.entries[k].left = 0 THEN "none" ELSE k
    /\ UNCHANGED <<settings, purging, putting, straddled>>

\* `put`, up to its lock: what the tenant is granted and what the budget is.
PutReads(k, size) ==
    /\ Serves(settings, TenantOf[k]) /\ Cardinality(putting) < Puts
    /\ putting' = putting \cup {[key |-> k, bytes |-> size, ttl |-> settings.ttl[TenantOf[k]], max |-> settings.max]}
    /\ hit' = "none" /\ UNCHANGED <<inner, settings, purging, straddled>>

Stored(in, p) ==
    LET cleared == RemoveKey(in, p.key)
        slot    == NextSlot(cleared)
        claimed == Claim(cleared, p.key)
        filed   == [claimed EXCEPT
                      !.bytes = @ + p.bytes,
                      !.byTenant[TenantOf[p.key]] = @ \cup {slot},
                      !.entries[p.key] = [slot |-> slot, left |-> p.ttl, bytes |-> p.bytes]]
    IN  EvictToFit(LinkNewest(filed, slot), p.max)

PutStores(p) ==
    /\ putting' = putting \ {p}
    /\ inner' = IF p.bytes > p.max THEN inner ELSE Stored(inner, p)
    /\ straddled' = (straddled \/ (p.bytes <= p.max /\ (p.max > settings.max \/ ~Serves(settings, TenantOf[p.key]))))
    /\ hit' = "none" /\ UNCHANGED <<settings, purging>>

\* `invalidate_tenant`: the tenant's slots in whatever order the set gives them.
Invalidate(t) ==
    /\ inner.byTenant[t] # {}
    /\ \E order \in SetToSeqs(inner.byTenant[t]) :
          inner' = RemoveAll([inner EXCEPT !.byTenant[t] = {}],
                             [i \in DOMAIN order |-> inner.slots[order[i]].key])
    /\ hit' = "none" /\ UNCHANGED <<settings, purging, putting, straddled>>

\* `reconfigure`: a tick that changed nothing does nothing.  The ticker is
\* one task, so there is one at a time.
Reconfigure(config) ==
    /\ purging = <<>> /\ config # settings
    /\ settings' = config /\ purging' = <<config>>
    /\ hit' = "none" /\ UNCHANGED <<inner, putting, straddled>>

\* Mutant: a reconfiguration makes room and forgets who is served.
PurgeBytesOnly ==
    /\ purging # <<>>
    /\ inner' = EvictToFit(inner, Head(purging).max)
    /\ purging' = <<>> /\ straddled' = FALSE
    /\ hit' = "none" /\ UNCHANGED <<settings, putting>>

Purge ==
    /\ purging # <<>>
    /\ LET config == Head(purging)
           doomed == {k \in CacheKeys : Held(inner, k) /\ ~Serves(config, TenantOf[k])}
       IN  \E order \in SetToSeqs(doomed) :
              inner' = EvictToFit(RemoveAll(inner, order), config.max)
    /\ purging' = <<>> /\ straddled' = FALSE
    /\ hit' = "none" /\ UNCHANGED <<settings, putting>>

\* Time passes: every entry is one tick nearer its end.
Tick ==
    /\ \E k \in CacheKeys : inner.entries[k].left > 0
    /\ inner' = [inner EXCEPT !.entries = [k \in CacheKeys |->
                    IF @[k].left > 0 THEN [@[k] EXCEPT !.left = @ - 1] ELSE @[k]]]
    /\ hit' = "none" /\ UNCHANGED <<settings, purging, putting, straddled>>

CacheNext ==
    \/ \E k \in CacheKeys : Get(k) \/ \E size \in Sizes : PutReads(k, size)
    \/ \E p \in putting : PutStores(p)
    \/ \E t \in Tenants : Invalidate(t)
    \/ \E config \in CacheConfigs : Reconfigure(config)
    \/ Purge
    \/ Tick

CacheSpec == CacheInit /\ [][CacheNext]_cacheVars

----------------------------------------------------------------------------
\* The slots read along `newer` or `older`, as far as there are entries.
RECURSIVE Along(_, _, _)
Along(in, slot, link) ==
    IF slot = NoSlot THEN <<>> ELSE <<slot>> \o Along([in EXCEPT !.slots[slot] = Vacant], in.slots[slot][link], link)

Walk(in) == Along(in, in.least, "newer")

Recency(in) == [i \in DOMAIN Walk(in) |-> in.slots[Walk(in)[i]].key]

\* The list over the slots is an order of the entries: one way it visits the
\* slot of every entry once and stops, the other way it is the same backwards.
RecencyIsAnOrder ==
    /\ ToSet(Walk(inner)) = {inner.entries[k].slot : k \in {j \in CacheKeys : Held(inner, j)}}
    /\ Len(Walk(inner)) = Cardinality(ToSet(Walk(inner)))
    /\ Along(inner, inner.most, "older") = Reverse(Walk(inner))
    /\ \A k \in CacheKeys : Held(inner, k) => inner.slots[inner.entries[k].slot].key = k

\* Everything beside the map agrees with the map: the byte total is the sum,
\* the tenant index holds exactly each tenant's slots, and a slot is free or
\* holds an entry, never both and never neither (`remove`: or they drift).
IndexesAgree ==
    LET used == {inner.entries[k].slot : k \in {j \in CacheKeys : Held(inner, j)}}
    IN  /\ inner.bytes = MapThenSumSet(LAMBDA k : inner.entries[k].bytes, CacheKeys)
        /\ \A t \in Tenants :
             inner.byTenant[t] = {inner.entries[k].slot : k \in {j \in CacheKeys : Held(inner, j) /\ TenantOf[j] = t}}
        /\ Len(inner.free) = Cardinality(ToSet(inner.free))
        /\ used \cap ToSet(inner.free) = {} /\ used \cup ToSet(inner.free) = DOMAIN inner.slots

\* After every operation the five structures `Inner` keeps describe the same
\* entries.  A link or an index left behind by one operation shows only many
\* operations later.
StoreIsConsistent == RecencyIsAnOrder /\ IndexesAgree

\* Between reconfigurations the store keeps to its budget and holds nothing
\* for a tenant that is not served -- unless a put read the old settings and
\* stored after the purge, which nothing repairs until the next change.
SettingsHold ==
    (purging = <<>> /\ ~straddled) =>
        /\ inner.bytes <= settings.max
        /\ \A k \in CacheKeys : Held(inner, k) => Serves(settings, TenantOf[k])

Lru == INSTANCE LruCache WITH
    LruKeys <- CacheKeys, LruSizes <- Sizes, LruBudgets <- {d.max : d \in CacheConfigs},
    recency <- Recency(inner), weight <- [k \in CacheKeys |-> inner.entries[k].bytes], answered <- hit

\* The store, links and slots and indexes and all, is an LRU cache: a hit
\* moves its key to the new end, an insert goes there, and only the least
\* recently used leave to make room.
ImplementsLru == Lru!LruSpec
=============================================================================
