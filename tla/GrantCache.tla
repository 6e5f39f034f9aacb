----------------------------- MODULE GrantCache -----------------------------
(***************************************************************************)
(* The cache of credential grants (crates/pgprox-auth/src/cache.rs):       *)
(* CachingResolver's entries, its claims that collapse concurrent lookups, *)
(* and its refusals.  Each section under one of its two mutexes is a step. *)
(*                                                                         *)
(* A key stands for one token with one startup database and user, so it    *)
(* has the token's expiry.  Instants are held as ticks left.               *)
(***************************************************************************)
EXTENDS Integers, FiniteSets

CONSTANTS
  Caller,         \* tasks inside `resolve`, then sessions with their grant
  Key,            \* CacheKey
  Server,         \* the primaries a grant may name
  NoOne,          \* no caller, no key, no server
  Capacity,       \* CacheConfig::capacity
  MaxTTL,         \* CacheConfig::max_ttl
  NegativeTTL,    \* CacheConfig::negative_ttl
  SweepInterval,  \* SWEEP_INTERVAL
  LongestTTL      \* bound on the lifetime the sidecar gives a grant, and on a token's

ASSUME CacheAssumption ==
  /\ IsFiniteSet(Key) /\ NoOne \notin Caller \cup Server \cup Key
  /\ "refused" \notin Server /\ "unavailable" \notin Server
  /\ Capacity \in Nat /\ MaxTTL \in Nat /\ NegativeTTL \in Nat
  /\ SweepInterval \in Nat /\ LongestTTL \in Nat

VARIABLES
  entries,    \* Entries::map
  sinceSweep, \* ticks since Entries::swept_at, at most SweepInterval
  claim,      \* `inflight`: whose sender stands in the map under each key
  tokenLeft,  \* ticks until each key's token expires
  primary,    \* the primary the sidecar would name
  pc,         \* where each caller is
  key,        \* the key it resolves
  answer      \* what it has been told so far

callers == <<pc, key, answer>>
world == <<tokenLeft, primary>>
vars == <<entries, sinceSweep, claim, tokenLeft, primary, pc, key, answer>>

\* A token without an expiry.
Forever == -1

\* A grant is told apart by the primary it names.
Verdict == Server \cup {"refused"}

NoEntry == [verdict |-> NoOne, left |-> 0]

Entry == {NoEntry} \cup [verdict : Verdict, left : Nat]

\* What the sidecar says; `unavailable` stands for every error but a refusal.
NoAnswer == [verdict |-> NoOne, ttl |-> 0]

Answer == {NoAnswer} \cup [verdict : Verdict \cup {"unavailable"}, ttl : 0..LongestTTL]

\* lookup: the top of the loop.  claim: missed.  waiting: a follower.
\* recheck: a leader about to look again.  calling: awaiting the sidecar.
\* answered: its answer has been decided.  release: about to remove the claim.
\* drop: about to drop its InflightGuard.  granted: a session.
Place ==
  {"away", "lookup", "claim", "waiting", "recheck", "calling", "answered", "release", "drop", "granted"}

Leading == {"recheck", "calling", "answered", "release"}

TypeOK ==
  /\ entries \in [Key -> Entry] /\ sinceSweep \in 0..SweepInterval
  /\ claim \in [Key -> Caller \cup {NoOne}]
  /\ tokenLeft \in [Key -> 0..LongestTTL \cup {Forever}] /\ primary \in Server
  /\ pc \in [Caller -> Place] /\ key \in [Caller -> Key \cup {NoOne}] /\ answer \in [Caller -> Answer]

Init ==
  /\ entries = [k \in Key |-> NoEntry] /\ sinceSweep = SweepInterval
  /\ claim = [k \in Key |-> NoOne]
  /\ tokenLeft \in [Key -> 0..LongestTTL \cup {Forever}] /\ primary \in Server
  /\ pc = [c \in Caller |-> "away"] /\ key = [c \in Caller |-> NoOne]
  /\ answer = [c \in Caller |-> NoAnswer]

-----------------------------------------------------------------------------
(* The entry map.                                                          *)

Live(k) == entries[k] # NoEntry /\ entries[k].left > 0

\* `lookup` drops the entry it finds expired.
LookedUp(k) == IF Live(k) THEN entries ELSE [entries EXCEPT ![k] = NoEntry]

Swept == [k \in Key |-> IF Live(k) THEN entries[k] ELSE NoEntry]

Held(map) == {k \in Key : map[k] # NoEntry}

Full(map, k) == Cardinality(Held(map)) >= Capacity /\ map[k] = NoEntry

\* `store`: a full map is swept, at most once an interval, and if it is still
\* full the entry is refused.
Store(k, verdict, ttl) ==
  LET sweeps == Full(entries, k) /\ sinceSweep = SweepInterval
      map == IF sweeps THEN Swept ELSE entries
  IN  IF ttl = 0 THEN UNCHANGED <<entries, sinceSweep>>
      ELSE /\ sinceSweep' = IF sweeps THEN 0 ELSE sinceSweep
           /\ entries' = IF Full(map, k) THEN map
                         ELSE [map EXCEPT ![k] = [verdict |-> verdict, left |-> ttl]]

Lesser(a, b) == IF a <= b THEN a ELSE b

\* `Grant::effective_ttl`, asked when the answer is stored.
EffectiveTTL(k, ttl) ==
  IF tokenLeft[k] = Forever THEN Lesser(ttl, MaxTTL)
  ELSE Lesser(Lesser(ttl, MaxTTL), tokenLeft[k])

-----------------------------------------------------------------------------
(* `resolve`.                                                              *)

Goto(c, place) == pc' = [pc EXCEPT ![c] = place]

\* Past the check of the token's algorithm, which touches nothing.
Arrive(c, k) ==
  /\ pc[c] = "away" /\ Goto(c, "lookup")
  /\ key' = [key EXCEPT ![c] = k]
  /\ UNCHANGED <<entries, sinceSweep, claim, world, answer>>

\* The caller has its result: a session starts, or the client is turned away.
After(verdict) == IF verdict \in Server THEN "granted" ELSE "away"

Keeps(c, verdict) ==
  /\ answer' = [answer EXCEPT ![c] = IF verdict \in Server THEN [verdict |-> verdict, ttl |-> 0] ELSE NoAnswer]
  /\ key' = [key EXCEPT ![c] = IF verdict \in Server THEN @ ELSE NoOne]

LookupHits(c) ==
  /\ pc[c] = "lookup" /\ Live(key[c])
  /\ Goto(c, After(entries[key[c]].verdict)) /\ Keeps(c, entries[key[c]].verdict)
  /\ UNCHANGED <<entries, sinceSweep, claim, world>>

LookupMisses(c) ==
  /\ pc[c] = "lookup" /\ ~Live(key[c]) /\ Goto(c, "claim")
  /\ entries' = LookedUp(key[c])
  /\ UNCHANGED <<sinceSweep, claim, world, key, answer>>

Lead(c) ==
  /\ pc[c] = "claim" /\ claim[key[c]] = NoOne /\ Goto(c, "recheck")
  /\ claim' = [claim EXCEPT ![key[c]] = c]
  /\ UNCHANGED <<entries, sinceSweep, world, key, answer>>

Follow(c) ==
  /\ pc[c] = "claim" /\ claim[key[c]] # NoOne /\ Goto(c, "waiting")
  /\ UNCHANGED <<entries, sinceSweep, claim, world, key, answer>>

\* Removing the key's claim, whoever put it there, and sending on its channel
\* happen under one lock.  With no claim there is nobody waiting.
RemoveClaim(c, place) ==
  LET k == key[c]
  IN  /\ claim' = [claim EXCEPT ![k] = NoOne]
      /\ pc' = [d \in Caller |-> IF d = c THEN place
                                 ELSE IF pc[d] = "waiting" /\ key[d] = k /\ claim[k] # NoOne THEN "lookup"
                                 ELSE pc[d]]

\* `recheck_before_calling` finds an entry the previous leader stored.
RecheckHits(c) ==
  /\ pc[c] = "recheck" /\ Live(key[c]) /\ Goto(c, "release")
  /\ answer' = [answer EXCEPT ![c] = [verdict |-> entries[key[c]].verdict, ttl |-> 0]]
  /\ UNCHANGED <<entries, sinceSweep, claim, world, key>>

\* Mistake: the claim taken for proof of being first.
CallUnchecked(c) ==
  /\ pc[c] = "recheck" /\ Goto(c, "calling")
  /\ UNCHANGED <<entries, sinceSweep, claim, world, key, answer>>

RecheckMisses(c) ==
  /\ pc[c] = "recheck" /\ ~Live(key[c]) /\ Goto(c, "calling")
  /\ entries' = LookedUp(key[c])
  /\ UNCHANGED <<sinceSweep, claim, world, key, answer>>

\* The sidecar decides; its answer is on the way.  It refuses an expired token.
SidecarReplies(k) ==
  {[verdict |-> v, ttl |-> 0] : v \in {"refused", "unavailable"}}
    \cup {[verdict |-> primary, ttl |-> t] : t \in {u \in 0..LongestTTL : tokenLeft[k] # 0}}

SidecarAnswers(c) ==
  /\ pc[c] = "calling" /\ Goto(c, "answered")
  /\ \E reply \in SidecarReplies(key[c]) : answer' = [answer EXCEPT ![c] = reply]
  /\ UNCHANGED <<entries, sinceSweep, claim, world, key>>

\* The end of `resolve_and_store`.
ResolveAndStore(c) ==
  LET a == answer[c]
  IN  /\ pc[c] = "answered" /\ Goto(c, "release")
      /\ IF a.verdict \in Server THEN Store(key[c], a.verdict, EffectiveTTL(key[c], a.ttl))
         ELSE IF a.verdict = "refused" THEN Store(key[c], "refused", NegativeTTL)
         ELSE UNCHANGED <<entries, sinceSweep>>
      /\ UNCHANGED <<claim, world, key, answer>>

\* The leader removes the claim and wakes its followers.
Release(c) ==
  /\ pc[c] = "release" /\ RemoveClaim(c, "drop")
  /\ UNCHANGED <<entries, sinceSweep, world, key, answer>>

\* InflightGuard::drop, on the way out, removes the claim again.
DropGuard(c) ==
  /\ pc[c] = "drop" /\ RemoveClaim(c, After(answer[c].verdict)) /\ Keeps(c, answer[c].verdict)
  /\ UNCHANGED <<entries, sinceSweep, world>>

\* Mistake: no guard, so a dropped leader leaves its claim behind.
CancelCallUnguarded(c) ==
  /\ pc[c] \in {"calling", "answered"} /\ Goto(c, "away") /\ Keeps(c, NoOne)
  /\ UNCHANGED <<entries, sinceSweep, claim, world>>

\* The client disconnects while its leader's call is outstanding.
CancelCall(c) ==
  /\ pc[c] \in {"calling", "answered"} /\ RemoveClaim(c, "away") /\ Keeps(c, NoOne)
  /\ UNCHANGED <<entries, sinceSweep, world>>

\* ... or while it follows another's.
CancelWait(c) ==
  /\ pc[c] = "waiting" /\ Goto(c, "away") /\ Keeps(c, NoOne)
  /\ UNCHANGED <<entries, sinceSweep, claim, world>>

\* The session ends.
Leave(c) ==
  /\ pc[c] = "granted" /\ Goto(c, "away") /\ Keeps(c, NoOne)
  /\ UNCHANGED <<entries, sinceSweep, claim, world>>

-----------------------------------------------------------------------------
(* Invalidation, and what is not the cache.                                *)

\* `invalidate_primary_entries`.
WithoutPrimary(s) == [k \in Key |-> IF entries[k].verdict = s THEN NoEntry ELSE entries[k]]

InvalidatePrimary(s) ==
  /\ entries' = WithoutPrimary(s)
  /\ UNCHANGED <<sinceSweep, claim, world, callers>>

\* The database fails over, and the control plane knows.
Failover(s) ==
  /\ s # primary /\ primary' = s
  /\ UNCHANGED <<entries, sinceSweep, claim, tokenLeft, callers>>

Less(n) == IF n > 0 THEN n - 1 ELSE n

Tick ==
  /\ entries' = [k \in Key |-> [verdict |-> entries[k].verdict, left |-> Less(entries[k].left)]]
  /\ sinceSweep' = Lesser(sinceSweep + 1, SweepInterval)
  /\ tokenLeft' = [k \in Key |-> Less(tokenLeft[k])]
  /\ UNCHANGED <<claim, primary, callers>>

Resolve(c) ==
  \/ \E k \in Key : Arrive(c, k)
  \/ LookupHits(c) \/ LookupMisses(c) \/ Lead(c) \/ Follow(c)
  \/ RecheckHits(c) \/ RecheckMisses(c)
  \/ SidecarAnswers(c) \/ ResolveAndStore(c) \/ Release(c) \/ DropGuard(c)
  \/ CancelCall(c) \/ CancelWait(c) \/ Leave(c)

Next ==
  \/ \E c \in Caller : Resolve(c)
  \/ \E s \in Server : InvalidatePrimary(s) \/ Failover(s)
  \/ Tick

Spec == Init /\ [][Next]_vars

\* Tasks run, and every call ends: SidecarResolver puts a deadline on it.
Progress(c) ==
  \/ LookupHits(c) \/ LookupMisses(c) \/ Lead(c) \/ Follow(c)
  \/ RecheckHits(c) \/ RecheckMisses(c)
  \/ SidecarAnswers(c) \/ ResolveAndStore(c) \/ Release(c) \/ DropGuard(c)

FairSpec == Spec /\ \A c \in Caller : WF_vars(Progress(c))

-----------------------------------------------------------------------------
(* Properties.                                                             *)

\* Every claim in the map belongs to a leader that is still at work on that
\* key and will remove it, cancelled leaders and the second removal by the
\* guard included: InflightGuard is there so that no claim outlives its caller.
ClaimsAreOwned ==
  \A k \in Key : claim[k] # NoOne => key[claim[k]] = k /\ pc[claim[k]] \in Leading

\* A cached grant never outlives the token behind it, however long the answer
\* was on its way: the lifetime is measured when the answer is stored
\* (`effective_ttl`), on the wall clock, and spent on the monotonic one.
NeverOutlivesToken ==
  \A k \in Key : entries[k].verdict \in Server /\ tokenLeft[k] # Forever => entries[k].left <= tokenLeft[k]

\* The map never holds more than its capacity, dead entries included.
CapacityRespected == Cardinality(Held(entries)) <= Capacity

\* A leader calls the sidecar only for a key that is not cached at that moment,
\* although its own lookup and its claim were two separate locks: what
\* `recheck_before_calling` is for.
NoCallForCachedKey ==
  [][\A c \in Caller : pc[c] # "calling" /\ pc'[c] = "calling" => ~Live(key[c])]_vars

\* A follower is always woken, whatever becomes of the leader it follows.
FollowersWake == \A c \in Caller : pc[c] = "waiting" ~> pc[c] # "waiting"
=============================================================================
