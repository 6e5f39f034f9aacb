--------------------------- MODULE BackendProofs ---------------------------
(***************************************************************************)
(* Theorems about how a client comes to its servers: the login that lets   *)
(* it in (Login), and the replicas its reads are sent to (ReplicaSets).    *)
(* For any number of clients, hosts and grants.                            *)
(***************************************************************************)
EXTENDS ReplicaSets, Login, WellFoundedInduction, SequenceTheorems, TLAPS

\* First-order leaves go to Zenon, the others to the SMT solver.
USE ZenonT(3), SMTT(20)

-----------------------------------------------------------------------------
(* The replicas.                                                           *)

\* A reading of every slot of a list.
Positions(k) == [DOMAIN k -> Int]

\* No reading is ahead of what its host has replayed.  (The marks of a probe
\* that has no position are below every position.)
NoneAhead(k, p, r) == \A i \in DOMAIN k : p[i] <= r[k[i]]

\* The watch of a list: of that list's hosts, in its order, with nothing in it
\* that was not measured.
TrueWatch(k, w, r) ==
  /\ w \in [hosts : {k}, obs : Positions(k), lapsed : BOOLEAN, round : {Asleep} \cup Positions(k)]
  /\ NoneAhead(k, w.obs, r)
  /\ w.round # Asleep => w.round \in Positions(k) /\ NoneAhead(k, w.round, r)

\* A session: while it is there the registry (the lists ws) has its watch, and
\* the replica it reads from is one of its list that has replayed its writes.
Attached(x, ws, r) ==
  /\ x \in [list : Lists \cup {<<>>}, floor : Nat, wrote : BOOLEAN, on : BOOLEAN,
            index : Nat, busy : BOOLEAN]
  /\ x.busy => x.on
  /\ x.on => x.list \in Lists /\ x.list \in ws
  /\ x.index # Primary =>
       /\ x.busy /\ ~x.wrote
       /\ x.index \in DOMAIN x.list
       /\ r[x.list[x.index]] >= x.floor

\* The inductive invariant of ReadsWhatWasMeasured.
MeasureInv ==
  /\ wal \in Nat /\ replayed \in [Host -> Nat]
  /\ \A k \in DOMAIN watches : k \in Lists /\ TrueWatch(k, watches[k], replayed)
  /\ reader = [s \in Reader |-> reader[s]]
  /\ \A s \in Reader : Attached(reader[s], DOMAIN watches, replayed)

\* A list of a grant names hosts at its positions, which are not Primary.
LEMMA ListNamesHosts ==
    ASSUME NEW k \in Lists
    PROVE  /\ k \in Seq(Host) /\ k # <<>>
           /\ \A i \in DOMAIN k : k[i] \in Host /\ i \in Nat /\ i # Primary
<1>1. k \in Seq(Host) /\ k # <<>>
  BY ReplicaAssumption DEF Lists
<1>2. \A i \in DOMAIN k : k[i] \in Host /\ i \in Nat /\ i # Primary
  BY <1>1, SMT DEF Primary
<1>. QED  BY <1>1, <1>2

\* A set of positions has a first one: `decide` stops at the first slot that
\* can serve.
LEMMA FirstFit ==
    ASSUME NEW S \in SUBSET Nat, S # {}
    PROVE  Min(S) \in S
<1>1. PICK i \in S : \A j \in S : ~ (<<j, i>> \in OpToRel(<, Nat))
  BY NatLessThanWellFounded, WFMin
<1>2. \A j \in S : ~ (j < i)
  BY <1>1 DEF OpToRel
<1>3. \A j \in S : i <= j
  BY <1>2, SMT
<1>. QED  BY <1>3 DEF Min

\* How long a watch has gone unasked for says nothing of its readings.
LEMMA AgeIsNoReading ==
    ASSUME NEW k, NEW w, NEW r, NEW b \in BOOLEAN, TrueWatch(k, w, r)
    PROVE  TrueWatch(k, [w EXCEPT !.lapsed = b], r)
<1>. DEFINE v == [w EXCEPT !.lapsed = b]
<1>1. v.obs = w.obs /\ v.round = w.round
      /\ v \in [hosts : {k}, obs : Positions(k), lapsed : BOOLEAN, round : {Asleep} \cup Positions(k)]
  BY SMT DEF TrueWatch
<1>. HIDE DEF v
<1>. QED  BY <1>1 DEF TrueWatch, v

\* A session that has presented its grant reads nowhere yet.
LEMMA FreshSession ==
    ASSUME NEW list \in Lists, NEW ws, list \in ws, NEW r
    PROVE  Attached([Gone EXCEPT !.list = list, !.on = TRUE], ws, r)
<1>. DEFINE x == [Gone EXCEPT !.list = list, !.on = TRUE]
<1>1. /\ x.list = list /\ x.floor = 0 /\ x.wrote = FALSE /\ x.on = TRUE
      /\ x.index = Primary /\ x.busy = FALSE
  BY DEF Gone
<1>2. Gone \in [list : Lists \cup {<<>>}, floor : Nat, wrote : BOOLEAN, on : BOOLEAN,
                index : Nat, busy : BOOLEAN]
  BY SMT DEF Gone, Primary
<1>3. x \in [list : Lists \cup {<<>>}, floor : Nat, wrote : BOOLEAN, on : BOOLEAN,
             index : Nat, busy : BOOLEAN]
  BY <1>2, Zenon
<1>. HIDE DEF x
<1>4. Attached(x, ws, r)
  BY <1>1, <1>3 DEF Attached
<1>. QED  BY <1>4 DEF x

\* One session changes, and is as a session should be.
LEMMA OneSessionChanges ==
    ASSUME MeasureInv, NEW s \in Reader, NEW x, Attached(x, DOMAIN watches, replayed),
           reader' = [reader EXCEPT ![s] = x], wal' \in Nat, UNCHANGED <<replayed, watches>>
    PROVE  MeasureInv'
<1>1. reader' = [t \in Reader |-> IF t = s THEN x ELSE reader[t]]
  BY DEF MeasureInv
<1>2. \A t \in Reader : Attached(reader'[t], DOMAIN watches', replayed')
  BY <1>1 DEF MeasureInv
<1>3. reader' = [t \in Reader |-> reader'[t]]
  BY <1>1
<1>. QED  BY <1>2, <1>3 DEF MeasureInv

\* One watch changes, and is still true.
LEMMA OneWatchChanges ==
    ASSUME MeasureInv, NEW k \in DOMAIN watches, NEW w, TrueWatch(k, w, replayed),
           watches' = [watches EXCEPT ![k] = w], UNCHANGED <<wal, replayed, reader>>
    PROVE  MeasureInv'
<1>1. DOMAIN watches' = DOMAIN watches
      /\ \A j \in DOMAIN watches : watches'[j] = IF j = k THEN w ELSE watches[j]
  OBVIOUS
<1>2. \A j \in DOMAIN watches' : j \in Lists /\ TrueWatch(j, watches'[j], replayed')
  BY <1>1 DEF MeasureInv
<1>. QED  BY <1>1, <1>2 DEF MeasureInv

\* At first nobody is connected and nothing is watched.
LEMMA InitMeasured == ReplicaInit => MeasureInv
<1>. SUFFICES ASSUME ReplicaInit PROVE MeasureInv
  OBVIOUS
<1>1. wal \in Nat /\ replayed \in [Host -> Nat]
  BY DEF ReplicaInit
<1>2. DOMAIN watches = {}
  BY SMT DEF ReplicaInit
<1>3. \A s \in Reader : Attached(reader[s], DOMAIN watches, replayed)
  BY SMT DEF ReplicaInit, Attached, Gone, Primary
<1>4. reader = [s \in Reader |-> reader[s]]
  BY DEF ReplicaInit
<1>. QED  BY <1>1, <1>2, <1>3, <1>4 DEF MeasureInv

\* `watch_for` drops no watch a session holds, and the one it makes claims
\* nothing about any replica.
LEMMA PresentsMeasured ==
    ASSUME MeasureInv, NEW s \in Reader, NEW list \in Grants[s], Presents(s, list)
    PROVE  MeasureInv'
<1>. DEFINE kept == KeptWatches
            x == [Gone EXCEPT !.list = list, !.on = TRUE]
<1>1. list \in Lists
  BY DEF Lists
<1>2. /\ reader' = [t \in Reader |-> IF t = s THEN x ELSE reader[t]]
      /\ DOMAIN watches' = kept \cup {list}
      /\ \A k \in kept \cup {list} :
           watches'[k] = IF k \notin kept THEN NewWatch(list)
                         ELSE IF k = list THEN [watches[k] EXCEPT !.lapsed = FALSE]
                         ELSE watches[k]
      /\ wal' = wal /\ replayed' = replayed
  BY DEF Presents, WatchKey, MeasureInv
<1>3. kept \subseteq DOMAIN watches
      /\ \A t \in Reader : reader[t].on => reader[t].list \in kept
  BY DEF MeasureInv, Attached, KeptWatches, Held, WatchKey
<1>4. TrueWatch(list, NewWatch(list), replayed)
  <2>1. \A i \in DOMAIN list : list[i] \in Host /\ replayed[list[i]] \in Nat
    BY <1>1, ListNamesHosts DEF MeasureInv
  <2>. QED  BY <2>1, SMT DEF TrueWatch, NewWatch, NoneAhead, Positions, Unknown
<1>5. \A k \in DOMAIN watches : TrueWatch(k, [watches[k] EXCEPT !.lapsed = FALSE], replayed)
  BY AgeIsNoReading DEF MeasureInv
<1>6. \A k \in DOMAIN watches' : k \in Lists /\ TrueWatch(k, watches'[k], replayed')
  <2>. TAKE k \in DOMAIN watches'
  <2>1. k \in Lists
    BY <1>1, <1>2, <1>3 DEF MeasureInv
  <2>2. CASE k \notin kept
    BY <2>1, <2>2, <1>2, <1>4
  <2>3. CASE k \in kept /\ k = list
    BY <2>1, <2>3, <1>2, <1>3, <1>5
  <2>4. CASE k \in kept /\ k # list
    BY <2>1, <2>4, <1>2, <1>3 DEF MeasureInv
  <2>. QED  BY <2>1, <2>2, <2>3, <2>4
<1>7. Attached(x, DOMAIN watches', replayed')
  BY <1>1, <1>2, FreshSession
<1>8. \A t \in Reader : Attached(reader'[t], DOMAIN watches', replayed')
  <2>. TAKE t \in Reader
  <2>1. CASE t = s
    BY <2>1, <1>2, <1>7
  <2>2. CASE t # s
    <3>1. reader'[t] = reader[t] /\ Attached(reader[t], DOMAIN watches, replayed)
      BY <2>2, <1>2 DEF MeasureInv
    <3>. QED  BY <3>1, <1>2, <1>3 DEF Attached
  <2>. QED  BY <2>1, <2>2
<1>. QED  BY <1>2, <1>6, <1>8 DEF MeasureInv

\* A round's answers: a slot is set to what its host said, or to less.
LEMMA AnswersMeasured ==
    ASSUME MeasureInv, NEW k \in DOMAIN watches, NEW i \in DOMAIN watches[k].hosts,
           NEW answer \in ProbeResult(watches[k].hosts[i]), Answers(k, i, answer)
    PROVE  MeasureInv'
<1>. DEFINE w == watches[k]
            after == [w.round EXCEPT ![i] = answer]
            ready == Ready(after)
            obs == [j \in DOMAIN w.obs |-> IF j \in ready THEN Observe(after[j], w.obs[j]) ELSE w.obs[j]]
            round == [j \in DOMAIN after |-> IF j \in ready THEN Recorded ELSE after[j]]
            next == IF ready = DOMAIN after THEN Asleep ELSE round
            v == [w EXCEPT !.obs = obs, !.round = next]
<1>1. k \in Lists /\ TrueWatch(k, w, replayed) /\ w.round # Asleep
  BY DEF MeasureInv, Answers
<1>2. /\ w \in [hosts : {k}, obs : Positions(k), lapsed : BOOLEAN, round : {Asleep} \cup Positions(k)]
      /\ w.hosts = k /\ w.obs \in Positions(k) /\ NoneAhead(k, w.obs, replayed)
      /\ w.round \in Positions(k) /\ NoneAhead(k, w.round, replayed)
  BY <1>1 DEF TrueWatch
<1>3. \A j \in DOMAIN k : k[j] \in Host /\ replayed[k[j]] \in Nat
  BY <1>1, ListNamesHosts DEF MeasureInv
<1>4. answer \in Int /\ answer <= replayed[k[i]] /\ i \in DOMAIN k
  BY <1>2, <1>3, SMT DEF ProbeResult, Unknown, Panicked
<1>5. after \in Positions(k) /\ NoneAhead(k, after, replayed)
  BY <1>2, <1>4, SMT DEF Positions, NoneAhead
<1>. HIDE DEF after, ready
<1>6. obs \in Positions(k) /\ NoneAhead(k, obs, replayed)
  BY <1>2, <1>5, SMT DEF Positions, NoneAhead, Observe
<1>7. round \in Positions(k) /\ NoneAhead(k, round, replayed)
  BY <1>3, <1>5, SMT DEF Positions, NoneAhead, Recorded
<1>. HIDE DEF obs, round
<1>8. next \in {Asleep} \cup Positions(k)
      /\ (next # Asleep => next \in Positions(k) /\ NoneAhead(k, next, replayed))
  BY <1>7
<1>9. watches' = [watches EXCEPT ![k] = v]
  <2>. HIDE DEF next
  <2>1. watches' = [watches EXCEPT ![k].obs = obs, ![k].round = next]
    BY DEF Answers, after, ready, obs, round, next
  <2>. QED  BY <2>1
<1>. HIDE DEF next, w
<1>10. v \in [hosts : {k}, obs : Positions(k), lapsed : BOOLEAN, round : {Asleep} \cup Positions(k)]
       /\ v.obs = obs /\ v.round = next
  BY <1>2, <1>6, <1>8, Zenon
<1>. HIDE DEF v
<1>11. TrueWatch(k, v, replayed)
  BY <1>6, <1>8, <1>10 DEF TrueWatch
<1>12. UNCHANGED <<wal, replayed, reader>>
  BY DEF Answers
<1>. QED  BY <1>9, <1>11, <1>12, OneWatchChanges

\* The other steps of a watch: it ages, a round begins, a reading grows old.
LEMMA WatchStepsMeasured ==
    ASSUME MeasureInv, NEW k \in DOMAIN watches, NEW i \in DOMAIN watches[k].hosts,
           WatchLapses(k) \/ PollStarts(k) \/ GoesStale(k, i)
    PROVE  MeasureInv'
<1>. DEFINE w == watches[k]
<1>0. UNCHANGED <<wal, replayed, reader>>
  BY DEF WatchLapses, PollStarts, GoesStale
<1>1. k \in Lists /\ TrueWatch(k, w, replayed)
  BY DEF MeasureInv
<1>2. /\ w \in [hosts : {k}, obs : Positions(k), lapsed : BOOLEAN, round : {Asleep} \cup Positions(k)]
      /\ w.hosts = k /\ w.obs \in Positions(k) /\ NoneAhead(k, w.obs, replayed)
  BY <1>1 DEF TrueWatch
<1>3. \A j \in DOMAIN k : k[j] \in Host /\ replayed[k[j]] \in Nat
  BY <1>1, ListNamesHosts DEF MeasureInv
<1>4. CASE WatchLapses(k)
  <2>1. watches' = [watches EXCEPT ![k] = [w EXCEPT !.lapsed = TRUE]]
    BY <1>4 DEF WatchLapses
  <2>2. TrueWatch(k, [w EXCEPT !.lapsed = TRUE], replayed)
    BY <1>1, AgeIsNoReading
  <2>. QED  BY <1>0, <2>1, <2>2, OneWatchChanges
<1>5. CASE PollStarts(k)
  <2>. DEFINE round == [j \in DOMAIN k |-> Asking]
              v == [w EXCEPT !.round = round]
  <2>1. watches' = [watches EXCEPT ![k] = v]
    BY <1>2, <1>5 DEF PollStarts
  <2>2. round \in Positions(k) /\ NoneAhead(k, round, replayed)
    BY <1>3, SMT DEF Positions, NoneAhead, Asking
  <2>. HIDE DEF round, w
  <2>3. v \in [hosts : {k}, obs : Positions(k), lapsed : BOOLEAN, round : {Asleep} \cup Positions(k)]
        /\ v.obs = w.obs /\ v.round = round
    BY <1>2, <2>2, SMT
  <2>. HIDE DEF v
  <2>4. TrueWatch(k, v, replayed)
    BY <1>2, <2>2, <2>3 DEF TrueWatch
  <2>. QED  BY <1>0, <2>1, <2>4, OneWatchChanges
<1>6. CASE GoesStale(k, i)
  <2>. DEFINE obs == [w.obs EXCEPT ![i] = Unknown]
              v == [w EXCEPT !.obs = obs]
  <2>1. watches' = [watches EXCEPT ![k] = v]
    BY <1>6 DEF GoesStale
  <2>2. obs \in Positions(k) /\ NoneAhead(k, obs, replayed)
    BY <1>2, <1>3, SMT DEF Positions, NoneAhead, Unknown
  <2>. HIDE DEF obs, w
  <2>3. v \in [hosts : {k}, obs : Positions(k), lapsed : BOOLEAN, round : {Asleep} \cup Positions(k)]
        /\ v.obs = obs /\ v.round = w.round
    BY <1>2, <2>2, SMT
  <2>. HIDE DEF v
  <2>4. TrueWatch(k, v, replayed)
    BY <1>1, <2>2, <2>3 DEF TrueWatch
  <2>. QED  BY <1>0, <2>1, <2>4, OneWatchChanges
<1>. QED  BY <1>4, <1>5, <1>6

\* The replica `decide` chooses is one of the session's own list, and the host
\* named there has replayed what the session wrote.
LEMMA DecideIsSafe ==
    ASSUME MeasureInv, NEW s \in Reader, reader[s].on, Decide(s) # Primary
    PROVE  /\ ~reader[s].wrote
           /\ Decide(s) \in DOMAIN reader[s].list /\ Decide(s) \in Nat
           /\ replayed[reader[s].list[Decide(s)]] >= reader[s].floor
<1>. DEFINE list == reader[s].list
            w == watches[list]
            fit == {i \in DOMAIN list :
                      /\ i \in DOMAIN watches[WatchKey(list)].obs
                      /\ CanServe(watches[WatchKey(list)].obs[i], reader[s].floor)}
<1>1. list \in Lists /\ TrueWatch(list, w, replayed) /\ reader[s].floor \in Nat
  BY DEF MeasureInv, Attached
<1>2. w.obs \in Positions(list) /\ NoneAhead(list, w.obs, replayed)
  BY <1>1 DEF TrueWatch
<1>3. ~reader[s].wrote /\ fit # {} /\ Decide(s) = Min(fit)
  BY DEF Decide
<1>4. fit \in SUBSET Nat
  BY <1>1, ListNamesHosts
<1>5. Min(fit) \in fit
  BY <1>3, <1>4, FirstFit
<1>. DEFINE i == Decide(s)
<1>6. i \in DOMAIN list /\ i \in Nat /\ w.obs[i] >= reader[s].floor
  BY <1>3, <1>4, <1>5 DEF CanServe, WatchKey
<1>. HIDE DEF i
<1>7. list[i] \in Host /\ replayed[list[i]] \in Nat
  BY <1>1, <1>6, ListNamesHosts DEF MeasureInv
<1>8. w.obs[i] \in Int /\ w.obs[i] <= replayed[list[i]]
  BY <1>2, <1>6 DEF Positions, NoneAhead
<1>9. replayed[list[i]] >= reader[s].floor
  BY <1>1, <1>6, <1>7, <1>8, SMT
<1>. QED  BY <1>3, <1>6, <1>9 DEF i

\* What a session does of its own: it leaves, writes, learns where its write
\* is, reads, and ends a read.
LEMMA SessionStepsMeasured ==
    ASSUME MeasureInv, NEW s \in Reader,
           Departs(s) \/ Writes(s) \/ LearnsPosition(s) \/ RoutesRead(s) \/ ReadEnds(s)
    PROVE  MeasureInv'
<1>. DEFINE R == [list : Lists \cup {<<>>}, floor : Nat, wrote : BOOLEAN, on : BOOLEAN,
                  index : Nat, busy : BOOLEAN]
            x == reader[s]
            ws == DOMAIN watches
<1>0. UNCHANGED <<replayed, watches>> /\ wal' \in Nat
  BY SMT DEF MeasureInv, Departs, Writes, LearnsPosition, RoutesRead, ReadEnds
<1>1. Attached(x, ws, replayed) /\ x \in R /\ wal \in Nat
  BY DEF MeasureInv, Attached
<1>2. CASE Departs(s)
  <2>1. reader' = [reader EXCEPT ![s] = Gone]
    BY <1>2 DEF Departs
  <2>2. Attached(Gone, ws, replayed)
    BY SMT DEF Attached, Gone, Primary
  <2>. QED  BY <1>0, <2>1, <2>2, OneSessionChanges
<1>3. CASE Writes(s)
  <2>. DEFINE y == [x EXCEPT !.wrote = TRUE]
  <2>1. reader' = [reader EXCEPT ![s] = y] /\ x.on /\ ~x.busy
    BY <1>3 DEF Writes
  <2>. HIDE DEF x
  <2>2. y \in R /\ y.list = x.list /\ y.on = x.on /\ y.busy = x.busy /\ y.index = x.index
    BY <1>1, Zenon
  <2>. HIDE DEF y
  <2>3. Attached(y, ws, replayed)
    BY <1>1, <2>1, <2>2 DEF Attached
  <2>. QED  BY <1>0, <2>1, <2>3, OneSessionChanges
<1>4. CASE LearnsPosition(s)
  <2>. DEFINE floor == Max({x.floor, wal})
              y == [x EXCEPT !.wrote = FALSE, !.floor = floor]
  <2>1. x.wrote /\ reader' = [reader EXCEPT ![s].wrote = FALSE, ![s].floor = floor]
    <3>. DEFINE r == [reader EXCEPT ![s].wrote = FALSE]
    <3>1. x.wrote /\ reader' = [r EXCEPT ![s].floor = Max({r[s].floor, wal})]
      BY <1>4 DEF LearnsPosition
    <3>2. r[s].floor = x.floor
      BY <1>1 DEF MeasureInv
    <3>. HIDE DEF r
    <3>3. reader' = [r EXCEPT ![s].floor = floor]
      BY <3>1, <3>2
    <3>. QED  BY <3>1, <3>3 DEF r
  <2>2. reader' = [reader EXCEPT ![s] = y]
    <3>. HIDE DEF floor
    <3>. QED  BY <1>1, <2>1 DEF MeasureInv
  <2>3. floor \in Nat
    <3>1. x.floor \in Nat
      BY <1>1
    <3>2. \E m \in {x.floor, wal} : \A n \in {x.floor, wal} : m >= n
      BY <1>1, <3>1, SMT
    <3>. QED  BY <1>1, <3>1, <3>2 DEF Max
  <2>. HIDE DEF x, floor
  <2>4. y \in R /\ y.list = x.list /\ y.on = x.on /\ y.busy = x.busy /\ y.index = x.index
    BY <1>1, <2>3, Zenon
  <2>. HIDE DEF y
  <2>5. x.index = Primary
    BY <1>1, <2>1 DEF Attached
  <2>6. Attached(y, ws, replayed)
    BY <1>1, <2>4, <2>5 DEF Attached
  <2>. QED  BY <1>0, <2>2, <2>6, OneSessionChanges
<1>5. CASE RoutesRead(s)
  <2>. DEFINE index == Decide(s)
              y == [x EXCEPT !.index = index, !.busy = TRUE]
  <2>1. x.on /\ reader' = [reader EXCEPT ![s].index = index, ![s].busy = TRUE]
    BY <1>5 DEF RoutesRead
  <2>2. index # Primary =>
          /\ ~x.wrote
          /\ index \in DOMAIN x.list /\ index \in Nat
          /\ replayed[x.list[index]] >= x.floor
    BY <2>1, DecideIsSafe
  <2>3. index \in Nat
    BY <2>2, SMT DEF Primary
  <2>. HIDE DEF index
  <2>4. reader' = [reader EXCEPT ![s] = y]
    BY <1>1, <2>1 DEF MeasureInv
  <2>. HIDE DEF x
  <2>5. y \in R /\ y.list = x.list /\ y.on = x.on /\ y.wrote = x.wrote /\ y.floor = x.floor
        /\ y.busy = TRUE /\ y.index = index
    BY <1>1, <2>3, Zenon
  <2>. HIDE DEF y
  <2>6. Attached(y, ws, replayed)
    BY <1>1, <2>1, <2>2, <2>5 DEF Attached
  <2>. QED  BY <1>0, <2>4, <2>6, OneSessionChanges
<1>6. CASE ReadEnds(s)
  <2>. DEFINE y == [x EXCEPT !.index = Primary, !.busy = FALSE]
  <2>1. reader' = [reader EXCEPT ![s].index = Primary, ![s].busy = FALSE]
    BY <1>6 DEF ReadEnds
  <2>2. Primary \in Nat
    BY SMT DEF Primary
  <2>3. reader' = [reader EXCEPT ![s] = y]
    BY <1>1, <2>1 DEF MeasureInv
  <2>. HIDE DEF x
  <2>4. y \in R /\ y.list = x.list /\ y.on = x.on /\ y.busy = FALSE /\ y.index = Primary
    BY <1>1, <2>2, Zenon
  <2>. HIDE DEF y
  <2>5. Attached(y, ws, replayed)
    BY <1>1, <2>4 DEF Attached
  <2>. QED  BY <1>0, <2>3, <2>5, OneSessionChanges
<1>. QED  BY <1>2, <1>3, <1>4, <1>5, <1>6

\* A host that replays more takes nothing away from what was measured of it.
LEMMA ReplaysMeasured ==
    ASSUME MeasureInv, NEW h \in Host, Replays(h)
    PROVE  MeasureInv'
<1>1. /\ replayed \in [Host -> Nat] /\ replayed' \in [Host -> Nat]
      /\ \A j \in Host : replayed[j] <= replayed'[j]
      /\ UNCHANGED <<wal, watches, reader>>
  BY SMT DEF MeasureInv, Replays
<1>2. \A k \in DOMAIN watches : TrueWatch(k, watches[k], replayed')
  <2>. SUFFICES ASSUME NEW k \in DOMAIN watches PROVE TrueWatch(k, watches[k], replayed')
    OBVIOUS
  <2>1. k \in Lists /\ TrueWatch(k, watches[k], replayed) /\ \A i \in DOMAIN k : k[i] \in Host
    BY ListNamesHosts DEF MeasureInv
  <2>2. \A p \in Positions(k) : NoneAhead(k, p, replayed) => NoneAhead(k, p, replayed')
    BY <1>1, <2>1, SMT DEF Positions, NoneAhead
  <2>. QED  BY <2>1, <2>2 DEF TrueWatch
<1>3. \A s \in Reader : Attached(reader[s], DOMAIN watches, replayed')
  <2>. SUFFICES ASSUME NEW s \in Reader PROVE Attached(reader[s], DOMAIN watches, replayed')
    OBVIOUS
  <2>. DEFINE x == reader[s]
  <2>1. Attached(x, DOMAIN watches, replayed)
    BY DEF MeasureInv
  <2>2. CASE x.index = Primary
    BY <2>1, <2>2 DEF Attached
  <2>3. CASE x.index # Primary
    <3>1. /\ x.list \in Lists /\ x.index \in DOMAIN x.list /\ x.floor \in Nat
          /\ replayed[x.list[x.index]] >= x.floor
      BY <2>1, <2>3 DEF Attached
    <3>2. x.list[x.index] \in Host
      BY <3>1, ListNamesHosts
    <3>3. replayed'[x.list[x.index]] >= x.floor
      BY <1>1, <3>1, <3>2, SMT
    <3>. QED  BY <2>1, <3>3 DEF Attached
  <2>. QED  BY <2>2, <2>3
<1>. QED  BY <1>1, <1>2, <1>3 DEF MeasureInv

\* Every step keeps the invariant.
LEMMA NextMeasured == MeasureInv /\ [ReplicaNext]_replicaVars => MeasureInv'
<1>. SUFFICES ASSUME MeasureInv, [ReplicaNext]_replicaVars PROVE MeasureInv'
  OBVIOUS
<1>1. ASSUME NEW s \in Reader, NEW list \in Grants[s], Presents(s, list)
      PROVE  MeasureInv'
  BY <1>1, PresentsMeasured
<1>2. ASSUME NEW s \in Reader,
             Departs(s) \/ Writes(s) \/ LearnsPosition(s) \/ RoutesRead(s) \/ ReadEnds(s)
      PROVE  MeasureInv'
  BY <1>2, SessionStepsMeasured
<1>3. ASSUME NEW k \in DOMAIN watches, WatchLapses(k) \/ PollStarts(k)
      PROVE  MeasureInv'
  <2>1. k \in Lists /\ watches[k].hosts = k
    BY DEF MeasureInv, TrueWatch
  <2>2. PICK i : i \in DOMAIN watches[k].hosts
    <3>1. k \in Seq(Host) /\ k # <<>>
      BY <2>1, ListNamesHosts
    <3>2. Len(k) # 0 /\ Len(k) \in Nat /\ DOMAIN k = 1..Len(k)
      BY <3>1, SMT
    <3>3. 1 \in DOMAIN k
      BY <3>2, SMT
    <3>. QED  BY <2>1, <3>3
  <2>. QED  BY <1>3, <2>2, WatchStepsMeasured
<1>4. ASSUME NEW k \in DOMAIN watches, NEW i \in DOMAIN watches[k].hosts, GoesStale(k, i)
      PROVE  MeasureInv'
  BY <1>4, WatchStepsMeasured
<1>5. ASSUME NEW k \in DOMAIN watches, NEW i \in DOMAIN watches[k].hosts,
             NEW answer \in ProbeResult(watches[k].hosts[i]), Answers(k, i, answer)
      PROVE  MeasureInv'
  BY <1>5, AnswersMeasured
<1>6. ASSUME NEW h \in Host, Replays(h) PROVE MeasureInv'
  BY <1>6, ReplaysMeasured
<1>7. CASE UNCHANGED replicaVars
  BY <1>7 DEF replicaVars, MeasureInv
<1>. QED  BY <1>1, <1>2, <1>3, <1>4, <1>5, <1>6, <1>7 DEF ReplicaNext

\* ReadsWhatWasMeasured, for every list of replicas and every order grants name
\* them in: a read goes to a replica of the session's own grant that has
\* replayed the session's writes (replicas.rs `watch_for`, route.rs `decide`).
THEOREM ReadsAreMeasured == ReplicaSpec => []ReadsWhatWasMeasured
<1>1. MeasureInv => ReadsWhatWasMeasured
  BY DEF MeasureInv, Attached, ReadsWhatWasMeasured
<1>. QED  BY <1>1, InitMeasured, NextMeasured, PTL DEF ReplicaSpec

-----------------------------------------------------------------------------
(* What a client is told, as a sequence.                                   *)

\* The bytes that answer a request before the startup packet, and every frame
\* but the one that says no.
Plain == {"S", "N"}
Frame == Plain \cup {"Negotiate", "AskPassword", "AskSasl", "SaslContinue", "SaslFinal",
                     "Ok", "Params", "Key", "Ready"}

Offers == {<< >>, <<"Negotiate">>}

\* A conversation that has come to the end of `body` and goes on.
Talk(t, body) == \E pre \in Seq(Plain), offer \in Offers : t = pre \o (offer \o body)

\* The exchanges are made of frames.
LEMMA ExchangesAreFrames ==
  /\ \A offer \in Offers : offer \in Seq(Frame)
  /\ \A user : /\ \A body \in Exchange(user) : body \in Seq(Frame)
               /\ Complete(user) \in Exchange(user)
  /\ <<"Ok", "Params", "Key", "Ready">> \in Seq(Frame)
  /\ \A t \in Seq(Plain) : t \in Seq(Frame)
<1>2. << >> \in Seq(Frame) /\ <<"Negotiate">> \in Seq(Frame)
      /\ <<"AskSasl">> \in Seq(Frame) /\ <<"AskPassword">> \in Seq(Frame)
      /\ <<"AskSasl", "SaslContinue">> \in Seq(Frame)
      /\ <<"AskSasl", "SaslContinue", "SaslFinal">> \in Seq(Frame)
      /\ <<"Ok", "Params", "Key", "Ready">> \in Seq(Frame)
  BY SMT DEF Frame
<1>1. \A offer \in Offers : offer \in Seq(Frame)
  BY <1>2 DEF Offers
<1>3. \A user : /\ \A body \in Exchange(user) : body \in Seq(Frame)
                /\ Complete(user) \in Exchange(user)
  BY <1>2 DEF Exchange, Complete
<1>4. Plain \subseteq Frame
  BY DEF Frame
<1>5. \A t \in Seq(Plain) : t \in Seq(Frame)
  BY <1>4, SeqMonotonic
<1> QED BY <1>1, <1>2, <1>3, <1>5

\* What goes on is free of refusals.
LEMMA TalkIsFrames ==
  ASSUME NEW t, NEW body \in Seq(Frame), Talk(t, body)
  PROVE  t \in Seq(Frame)
<1>1. PICK pre \in Seq(Plain), offer \in Offers : t = pre \o (offer \o body)
  BY DEF Talk
<1>2. pre \in Seq(Frame) /\ offer \in Seq(Frame)
  BY ExchangesAreFrames
<1>3. offer \o body \in Seq(Frame)
  BY <1>2, ConcatProperties
<1> QED BY <1>1, <1>2, <1>3, ConcatProperties

\* A conversation goes on by what is said next.
LEMMA TalkGoesOn ==
  ASSUME NEW t, NEW body \in Seq(Frame), Talk(t, body), NEW x \in Seq(Frame)
  PROVE  Talk(t \o x, body \o x)
<1>1. PICK pre \in Seq(Plain), offer \in Offers : t = pre \o (offer \o body)
  BY DEF Talk
<1>2. pre \in Seq(Frame) /\ offer \in Seq(Frame)
  BY ExchangesAreFrames
<1>3. offer \o body \in Seq(Frame)
  BY <1>2, ConcatProperties
<1>4. t \o x = pre \o ((offer \o body) \o x)
  BY <1>1, <1>2, <1>3, ConcatAssociative, SMTT(30)
<1>5. (offer \o body) \o x = offer \o (body \o x)
  BY <1>2, ConcatAssociative, SMT
<1> QED BY <1>4, <1>5 DEF Talk

\* A conversation begins with answers to requests, and the first question.
LEMMA TalkBegins ==
  ASSUME NEW t \in Seq(Plain)
  PROVE  /\ Talk(t, << >>)
         /\ \A f \in Plain : t \o <<f>> \in Seq(Plain)
         /\ \A offer \in Offers : \A body : Talk(t \o (offer \o body), body)
<1>1. << >> \o << >> = << >> /\ t \o << >> = t
  BY ConcatEmptySeq, EmptySeq
<1>2. Talk(t, << >>)
  BY <1>1 DEF Talk, Offers
<1>3. \A f \in Plain : t \o <<f>> \in Seq(Plain)
  <2> TAKE f \in Plain
  <2>1. Append(t, f) \in Seq(Plain) /\ Append(t, f) = t \o <<f>>
    BY AppendProperties, AppendIsConcat
  <2> QED BY <2>1
<1>4. \A offer \in Offers : \A body : Talk(t \o (offer \o body), body)
  BY DEF Talk
<1> QED BY <1>2, <1>3, <1>4

\* A sequence put together is the one part, and then the other.
LEMMA Splits ==
  ASSUME NEW S, NEW a \in Seq(S), NEW b \in Seq(S)
  PROVE  SubSeq(a \o b, 1, Len(a)) = a /\ SubSeq(a \o b, Len(a) + 1, Len(a \o b)) = b
<1> DEFINE c == a \o b
           x == SubSeq(c, 1, Len(a))
           y == SubSeq(c, Len(a) + 1, Len(c))
<1>1. Len(a) \in Nat /\ Len(b) \in Nat
  BY LenProperties
<1>2. /\ c \in Seq(S) /\ Len(c) = Len(a) + Len(b)
      /\ \A i \in 1..(Len(a) + Len(b)) : c[i] = IF i <= Len(a) THEN a[i] ELSE b[i - Len(a)]
  BY ConcatProperties
<1> HIDE DEF c
<1>3. \A i \in 1..(Len(a) + Len(b)) : c[i] \in S
  BY <1>2, ElementOfSeq
<1>4. x = a
  <2>1. \A i \in 1..Len(a) : c[i] \in S /\ c[i] = a[i]
    BY <1>1, <1>2, <1>3, SMT
  <2>2. /\ x \in Seq(S) /\ Len(x) = IF 1 <= Len(a) THEN Len(a) - 1 + 1 ELSE 0
        /\ \A i \in 1..(Len(a) - 1 + 1) : x[i] = c[1 + i - 1]
    BY <1>1, <2>1, SubSeqProperties, SMT
  <2> HIDE DEF x
  <2>3. Len(x) = Len(a) /\ \A i \in 1..Len(a) : x[i] = c[i]
    BY <1>1, <2>2, SMT
  <2>4. \A i \in 1..Len(x) : x[i] = a[i]
    BY <2>1, <2>3
  <2> QED BY <2>2, <2>3, <2>4, SeqEqual
<1>5. y = b
  <2>1. \A i \in (Len(a) + 1)..Len(c) : c[i] \in S
    BY <1>1, <1>2, <1>3, SMT
  <2>2. /\ y \in Seq(S) /\ Len(y) = IF Len(a) + 1 <= Len(c) THEN Len(c) - (Len(a) + 1) + 1 ELSE 0
        /\ \A i \in 1..(Len(c) - (Len(a) + 1) + 1) : y[i] = c[Len(a) + 1 + i - 1]
    BY <1>1, <1>2, <2>1, SubSeqProperties, SMT
  <2> HIDE DEF y
  <2>5. /\ Len(c) - (Len(a) + 1) + 1 = Len(b) /\ (~(Len(a) + 1 <= Len(c)) => Len(b) = 0)
        /\ \A i \in 1..Len(b) : Len(a) + 1 + i - 1 = Len(a) + i
    <3>1. Len(c) = Len(a) + Len(b)
      BY <1>2
    <3> QED BY <1>1, <3>1, SMT
  <2>3. Len(y) = Len(b) /\ \A i \in 1..Len(b) : y[i] = c[Len(a) + i]
    BY <2>2, <2>5
  <2>4. ASSUME NEW i \in 1..Len(y) PROVE y[i] = b[i]
    <3>1. Len(a) + i \in 1..(Len(a) + Len(b)) /\ ~(Len(a) + i <= Len(a)) /\ (Len(a) + i) - Len(a) = i /\ i \in 1..Len(b)
      BY <1>1, <2>3, <2>4, SMT
    <3>2. c[Len(a) + i] = b[(Len(a) + i) - Len(a)]
      BY <1>2, <3>1
    <3> QED BY <2>3, <3>1, <3>2
  <2> QED BY <2>2, <2>3, <2>4, SeqEqual
<1> QED BY <1>4, <1>5 DEF c

\* What has been said, and an ending of it, is a startup conversation.
LEMMA TalkIsConversation ==
  ASSUME NEW l, NEW t, NEW body \in Exchange(l.user), NEW ending \in Endings(l.user, body),
         Talk(t, body), l.told = t \o ending
  PROVE  Conversation(l)
<1> DEFINE S == Frame \cup {"Error"}
<1>1. PICK pre \in Seq(Plain), offer \in Offers : t = pre \o (offer \o body)
  BY DEF Talk
<1>2. Frame \subseteq S /\ << >> \in Seq(S) /\ <<"Error">> \in Seq(S)
  BY SMT
<1> HIDE DEF S
<1>3. pre \in Seq(S) /\ offer \in Seq(S) /\ body \in Seq(S) /\ <<"Ok", "Params", "Key", "Ready">> \in Seq(S)
  BY <1>2, ExchangesAreFrames, SeqMonotonic
<1>4. ending \in Seq(S)
  BY <1>2, <1>3 DEF Endings
<1>5. offer \o body \in Seq(S)
  BY <1>3, ConcatProperties
<1> DEFINE rest == (offer \o body) \o ending
<1>6. rest \in Seq(S)
  BY <1>4, <1>5, ConcatProperties
<1>7. l.told = pre \o rest
  BY <1>1, <1>3, <1>4, <1>5, ConcatAssociative, SMTT(30)
<1> HIDE DEF rest
<1>8. SubSeq(l.told, 1, Len(pre)) = pre /\ SubSeq(l.told, Len(pre) + 1, Len(l.told)) = rest
  BY <1>3, <1>6, <1>7, Splits, SMT
<1>9. Len(pre) \in 0..Len(l.told)
  <2>1. Len(l.told) = Len(pre) + Len(rest) /\ Len(pre) \in Nat /\ Len(rest) \in Nat
    BY <1>3, <1>6, <1>7, ConcatProperties, LenProperties
  <2> QED BY <2>1, SMT
<1> QED BY <1>1, <1>8, <1>9 DEF Conversation, Offers, Plain, rest

\* The last frame says whether it was a refusal.
LEMMA LastWord ==
  ASSUME NEW t \in Seq(Frame)
  PROVE  /\ ~(t # << >> /\ t[Len(t)] = "Error")
         /\ t \o <<"Error">> # << >> /\ (t \o <<"Error">>)[Len(t \o <<"Error">>)] = "Error"
<1>1. "Error" \notin Frame
  BY DEF Frame, Plain
<1>2. t # << >> => t[Len(t)] \in Frame
  <2>1. t # << >> => Len(t) \in Nat \ {0}
    BY EmptySeq
  <2>2. Len(t) \in Nat \ {0} => Len(t) \in 1..Len(t)
    BY SMT
  <2> QED BY <2>1, <2>2, ElementOfSeq
<1> DEFINE u == Append(t, "Error")
           S == Frame \cup {"Error"}
<1>3. t \in Seq(S) /\ "Error" \in S
  BY SeqMonotonic
<1>4. u = t \o <<"Error">> /\ u # << >> /\ Len(u) = Len(t) + 1 /\ u[Len(t) + 1] = "Error"
  BY <1>3, AppendProperties, AppendIsConcat, SMT
<1> QED BY <1>1, <1>2, <1>4

-----------------------------------------------------------------------------
(* One login.                                                              *)

LoginFields == {"at", "stage", "encrypted", "user", "offered", "told", "params", "hellos", "left",
                "ended", "from"}

\* How far the exchange has come where a login is.
BodyAt(at, user) ==
  IF at \in {"hello", "upgrading"} THEN << >>
  ELSE IF at = "initial" THEN <<"AskSasl">>
  ELSE IF at = "proof" THEN <<"AskSasl", "SaslContinue">>
  ELSE Complete(user)

\* Who may be where.
UsersAt(at) ==
  IF at \in {"hello", "upgrading"} THEN {NotYet}
  ELSE IF at \in {"initial", "proof"} THEN StaticUsers
  ELSE IF at \in {"password", "resolving", "dial", "upstream"} THEN {"tenant"}
  ELSE {"tenant", "operator"}

\* What a user is told of its server.
ParamsOf(user) == IF user = "tenant" THEN {"server_version"} ELSE {"proxy"}

\* A login that has not ended has told the client all of what belongs to where
\* it is and nothing more.
Underway(l) ==
  /\ l.at \in LoginPlaces \ {"closed"} => l.user \in UsersAt(l.at) /\ l.ended = NotYet
  /\ l.at \in {"hello", "upgrading"} => l.told \in Seq(Plain)
  /\ l.at \in LoginPlaces \ {"in", "closed"} => Talk(l.told, BodyAt(l.at, l.user))
  /\ l.at = "in" =>
       \E t : Talk(t, Complete(l.user)) /\ l.told = t \o <<"Ok", "Params", "Key", "Ready">>

\* One that has: with a refusal it is told of, or without a word.
Ended(l) ==
  /\ l.at = "closed" =>
       \E t : \E body \in Exchange(l.user) :
         Talk(t, body) /\ l.told = IF l.ended = "Refused" THEN t \o <<"Error">> ELSE t
  /\ l.ended = "Disconnected" /\ ~l.left => l.from \in UnderDeadline

\* What is known of a client where it is.
Vouched(l, posture) ==
  /\ l.at \in {"dial", "upstream", "welcome", "in"} => l.offered = "valid"
  /\ l.at \in {"welcome", "in"} => l.params = ParamsOf(l.user)
  /\ l.at \in LoginPlaces \ {"hello", "upgrading", "closed"} => (posture = "Required" => l.encrypted)

GoodLogin(l, posture) ==
  DOMAIN l = LoginFields /\ l.at \in LoginPlaces /\ Underway(l) /\ Ended(l) /\ Vouched(l, posture)

\* The exchange is as far as a user may have come.
LEMMA BodyIsExchange ==
  ASSUME NEW at \in LoginPlaces \ {"in", "closed"}, NEW user \in UsersAt(at)
  PROVE  BodyAt(at, user) \in Exchange(user)
<1>1. Complete(user) \in Exchange(user) /\ << >> \in Exchange(user)
  BY ExchangesAreFrames DEF Exchange
<1>2. CASE at \in {"initial", "proof"}
  <2>1. user \in StaticUsers
    BY <1>2 DEF UsersAt
  <2> QED BY <1>2, <2>1 DEF BodyAt, Exchange
<1>3. CASE at \notin {"initial", "proof"}
  BY <1>1, <1>3 DEF BodyAt
<1> QED BY <1>2, <1>3

\* A login may end from wherever it is: refused, and then told so; or without a
\* word, if the client has gone or has not given its credential.
LEMMA EndingIsGood ==
  ASSUME NEW l, NEW posture, GoodLogin(l, posture), l.at \notin {"in", "closed"},
         NEW how \in {"Refused", "Cancel", "Disconnected"},
         how = "Disconnected" => l.left \/ l.at \in UnderDeadline,
         NEW m, DOMAIN m = LoginFields, m.at = "closed", m.user = l.user, m.ended = how, m.from = l.at,
         m.left = l.left, m.told = IF how = "Refused" THEN l.told \o <<"Error">> ELSE l.told
  PROVE  GoodLogin(m, posture)
<1>1. l.at \in LoginPlaces \ {"in", "closed"} /\ l.user \in UsersAt(l.at) /\ Talk(l.told, BodyAt(l.at, l.user))
  BY DEF GoodLogin, Underway
<1>2. BodyAt(l.at, l.user) \in Exchange(m.user)
  BY <1>1, BodyIsExchange
<1>3. Ended(m)
  BY <1>1, <1>2 DEF Ended
<1>4. Underway(m) /\ Vouched(m, posture) /\ m.at \in LoginPlaces
  BY DEF Underway, Vouched, LoginPlaces
<1> QED BY <1>3, <1>4 DEF GoodLogin

\* Wire::refuse, alone or as the handshake's violation.
LEMMA RefusedIsGood ==
  ASSUME NEW l, NEW posture, GoodLogin(l, posture), l.at \notin {"in", "closed"}
  PROVE  GoodLogin(Refused(l), posture) /\ GoodLogin(Violation(l), posture)
<1> DEFINE a == Told(l, <<"Error">>)
           b == Closed(a, "Refused")
           c == [b EXCEPT !.stage = "Closed"]
<1>0. DOMAIN l = LoginFields
  BY DEF GoodLogin
<1>1. DOMAIN a = LoginFields /\ a.at = l.at /\ a.user = l.user /\ a.left = l.left /\ a.told = l.told \o <<"Error">>
  BY <1>0 DEF Told, LoginFields
<1>2. Refused(l) = b /\ Violation(l) = c
  BY DEF Refused, Violation
<1> HIDE DEF a
<1>3. /\ DOMAIN b = LoginFields /\ b.at = "closed" /\ b.user = l.user /\ b.ended = "Refused" /\ b.from = l.at
      /\ b.left = l.left /\ b.told = l.told \o <<"Error">>
  BY <1>1 DEF Closed, LoginFields
<1> HIDE DEF b
<1>4. /\ DOMAIN c = LoginFields /\ c.at = "closed" /\ c.user = l.user /\ c.ended = "Refused" /\ c.from = l.at
      /\ c.left = l.left /\ c.told = l.told \o <<"Error">>
  BY <1>3 DEF LoginFields
<1> HIDE DEF c
<1>5. GoodLogin(b, posture)
  BY <1>3, EndingIsGood
<1>6. GoodLogin(c, posture)
  BY <1>4, EndingIsGood
<1> QED BY <1>2, <1>5, <1>6

\* A task that ends without a word, and a cancel request.
LEMMA DroppedIsGood ==
  ASSUME NEW l, NEW posture, GoodLogin(l, posture), l.at \notin {"in", "closed"},
         l.left \/ l.at \in UnderDeadline
  PROVE  GoodLogin(Dropped(l), posture)
<1> DEFINE b == Closed(l, "Disconnected")
<1>1. /\ DOMAIN b = LoginFields /\ b.at = "closed" /\ b.user = l.user /\ b.ended = "Disconnected" /\ b.from = l.at
      /\ b.left = l.left /\ b.told = l.told
  BY DEF Closed, LoginFields, GoodLogin
<1>2. Dropped(l) = b
  BY DEF Dropped
<1> HIDE DEF b
<1> QED BY <1>1, <1>2, EndingIsGood

\* A client at the door.
LEMMA NewLoginIsGood == ASSUME NEW posture PROVE GoodLogin(NewLogin, posture)
<1>1. /\ DOMAIN NewLogin = LoginFields /\ NewLogin.at = "hello" /\ NewLogin.user = NotYet /\ NewLogin.told = << >>
      /\ NewLogin.ended = NotYet
  BY DEF NewLogin, LoginFields
<1>2. << >> \in Seq(Plain) /\ Talk(<< >>, << >>)
  BY TalkBegins, EmptySeq
<1>3. Underway(NewLogin)
  BY <1>1, <1>2 DEF Underway, UsersAt, BodyAt
<1>4. Ended(NewLogin) /\ Vouched(NewLogin, posture) /\ NewLogin.at \in LoginPlaces
  BY <1>1 DEF Ended, Vouched, NotYet, LoginPlaces
<1> QED BY <1>1, <1>3, <1>4 DEF GoodLogin

\* A login that goes on: it is good where it gets to.
LEMMA GoingOnIsGood ==
  ASSUME NEW m, NEW posture, DOMAIN m = LoginFields, m.at \in LoginPlaces \ {"in", "closed"},
         m.user \in UsersAt(m.at), m.ended = NotYet, Talk(m.told, BodyAt(m.at, m.user)),
         m.at \in {"hello", "upgrading"} => m.told \in Seq(Plain),
         Vouched(m, posture)
  PROVE  GoodLogin(m, posture)
<1>1. Underway(m)
  BY DEF Underway
<1>2. Ended(m)
  BY DEF Ended, NotYet
<1> QED BY <1>1, <1>2 DEF GoodLogin

\* What a good login is where it is.
LEMMA WhereItIs ==
  ASSUME NEW l, NEW posture, GoodLogin(l, posture), l.at \notin {"in", "closed"}
  PROVE  /\ DOMAIN l = LoginFields /\ l.at \in LoginPlaces \ {"in", "closed"}
         /\ l.user \in UsersAt(l.at) /\ l.ended = NotYet /\ Talk(l.told, BodyAt(l.at, l.user))
         /\ l.at \in {"hello", "upgrading"} => l.told \in Seq(Plain)
         /\ Vouched(l, posture)
BY DEF GoodLogin, Underway

\* A message read, a client gone: neither is anything the client is told.
LEMMA AlikeIsGood ==
  ASSUME NEW l, NEW posture, GoodLogin(l, posture), l.at \notin {"in", "closed"},
         NEW m, DOMAIN m = LoginFields, m.at = l.at, m.user = l.user, m.ended = l.ended, m.told = l.told,
         m.offered = l.offered, m.params = l.params, m.encrypted = l.encrypted
  PROVE  GoodLogin(m, posture)
<1>1. Vouched(m, posture)
  BY WhereItIs DEF Vouched
<1> QED BY <1>1, WhereItIs, GoingOnIsGood

\* An answer to a request, before the startup packet.
LEMMA AnswerIsGood ==
  ASSUME NEW l, NEW posture, GoodLogin(l, posture), l.at = "hello", NEW f \in Plain,
         NEW m, DOMAIN m = LoginFields, m.at \in {"hello", "upgrading"}, m.user = l.user,
         m.ended = l.ended, m.told = l.told \o <<f>>
  PROVE  GoodLogin(m, posture)
<1>1. l.told \in Seq(Plain) /\ l.user \in UsersAt("hello") /\ l.ended = NotYet
  BY WhereItIs
<1>2. m.told \in Seq(Plain)
  BY <1>1, TalkBegins
<1>3. Talk(m.told, << >>)
  BY <1>2, TalkBegins
<1>4. m.user \in UsersAt(m.at) /\ BodyAt(m.at, m.user) = << >>
  BY <1>1 DEF UsersAt, BodyAt
<1>5. Vouched(m, posture) /\ m.at \in LoginPlaces \ {"in", "closed"}
  BY DEF Vouched, LoginPlaces
<1> QED BY <1>1, <1>2, <1>3, <1>4, <1>5, GoingOnIsGood

\* An SSLRequest: answered S or N, or a violation (on_ssl_request).
LEMMA SslRequestIsGood ==
  ASSUME NEW l, GoodLogin(l, listener.posture), l.at = "hello"
  PROVE  GoodLogin(OnSslRequest(l), listener.posture)
<1> DEFINE n == Told(l, <<"N">>)
           s == Told(l, <<"S">>)
           nn == [n EXCEPT !.stage = "Settled"]
           ss == [s EXCEPT !.stage = "Settled", !.encrypted = TRUE, !.at = "upgrading"]
<1>0. DOMAIN l = LoginFields
  BY DEF GoodLogin
<1>1. DOMAIN n = LoginFields /\ n.at = "hello" /\ n.user = l.user /\ n.ended = l.ended /\ n.told = l.told \o <<"N">>
  BY <1>0 DEF Told, LoginFields
<1>2. DOMAIN s = LoginFields /\ s.at = "hello" /\ s.user = l.user /\ s.ended = l.ended /\ s.told = l.told \o <<"S">>
  BY <1>0 DEF Told, LoginFields
<1>3. GoodLogin(Violation(l), listener.posture)
  BY RefusedIsGood
<1>4. OnSslRequest(l) \in {Violation(l), nn, ss}
  BY DEF OnSslRequest
<1> HIDE DEF n, s
<1>5. DOMAIN nn = LoginFields /\ nn.at = "hello" /\ nn.user = l.user /\ nn.ended = l.ended /\ nn.told = l.told \o <<"N">>
  BY <1>1 DEF LoginFields
<1>6. /\ DOMAIN ss = LoginFields /\ ss.at = "upgrading" /\ ss.user = l.user /\ ss.ended = l.ended
      /\ ss.told = l.told \o <<"S">>
  BY <1>2 DEF LoginFields
<1> HIDE DEF nn, ss
<1>7. "N" \in Plain /\ "S" \in Plain
  BY DEF Plain
<1>8. GoodLogin(nn, listener.posture)
  BY <1>5, <1>7, AnswerIsGood
<1>9. GoodLogin(ss, listener.posture)
  BY <1>6, <1>7, AnswerIsGood
<1> QED BY <1>3, <1>4, <1>8, <1>9

\* A GSSENCRequest: answered N, or a violation.
LEMMA GssRequestIsGood ==
  ASSUME NEW l, NEW posture, GoodLogin(l, posture), l.at = "hello"
  PROVE  GoodLogin(OnGssRequest(l), posture)
<1> DEFINE n == Told(l, <<"N">>)
<1>0. DOMAIN l = LoginFields
  BY DEF GoodLogin
<1>1. DOMAIN n = LoginFields /\ n.at = "hello" /\ n.user = l.user /\ n.ended = l.ended /\ n.told = l.told \o <<"N">>
  BY <1>0 DEF Told, LoginFields
<1>2. OnGssRequest(l) \in {Violation(l), n}
  BY DEF OnGssRequest
<1> HIDE DEF n
<1>3. GoodLogin(n, posture)
  BY <1>1, AnswerIsGood DEF Plain
<1> QED BY <1>2, <1>3, RefusedIsGood

\* A cancel request ends the login without a word.
LEMMA CancelIsGood ==
  ASSUME NEW l, NEW posture, GoodLogin(l, posture), l.at = "hello"
  PROVE  GoodLogin(OnCancel(l), posture)
<1> DEFINE b == Closed(l, "Cancel")
           c == [b EXCEPT !.stage = "Closed"]
<1>0. DOMAIN l = LoginFields
  BY DEF GoodLogin
<1>1. /\ DOMAIN b = LoginFields /\ b.at = "closed" /\ b.user = l.user /\ b.ended = "Cancel" /\ b.from = l.at
      /\ b.left = l.left /\ b.told = l.told
  BY <1>0 DEF Closed, LoginFields
<1>2. OnCancel(l) \in {Violation(l), c}
  BY DEF OnCancel
<1> HIDE DEF b
<1>3. /\ DOMAIN c = LoginFields /\ c.at = "closed" /\ c.user = l.user /\ c.ended = "Cancel" /\ c.from = l.at
      /\ c.left = l.left /\ c.told = l.told
  BY <1>1 DEF LoginFields
<1> HIDE DEF c
<1>4. GoodLogin(c, posture)
  BY <1>3, EndingIsGood
<1> QED BY <1>2, <1>4, RefusedIsGood

\* The startup packet: the first question is put to whom it names.
LEMMA MessageIsGood ==
  ASSUME NEW l, GoodLogin(l, listener.posture), l.at = "hello", NEW m \in StartupPackets
  PROVE  GoodLogin(OnMessage(l, m), listener.posture)
<1> DEFINE P == listener.posture
           offer == IF m.negotiate THEN <<"Negotiate">> ELSE << >>
           asked == [l EXCEPT !.stage = "Asked", !.user = m.user]
           ts == Told(asked, offer \o <<"AskSasl">>)
           tp == Told(asked, offer \o <<"AskPassword">>)
           sasl == [ts EXCEPT !.at = "initial"]
           pass == [tp EXCEPT !.at = "password"]
<1>0. DOMAIN l = LoginFields /\ l.told \in Seq(Plain) /\ l.ended = NotYet
  BY WhereItIs
<1>1. offer \in Offers /\ m.user \in Users
  BY DEF Offers, StartupPackets
<1>2. CASE l.stage \in {"Asked", "Closed"} \/ (P = "Required" /\ ~l.encrypted) \/ m.unservable
  <2>1. OnMessage(l, m) = Violation(l)
    BY <1>2 DEF OnMessage
  <2> QED BY <2>1, RefusedIsGood
<1>3. CASE ~(l.stage \in {"Asked", "Closed"} \/ (P = "Required" /\ ~l.encrypted) \/ m.unservable)
  <2>1. OnMessage(l, m) = IF m.user \notin StaticUsers THEN pass ELSE IF listener.statics THEN sasl ELSE Refused(sasl)
    BY <1>3 DEF OnMessage
  <2>2. P = "Required" => l.encrypted
    BY <1>3
  <2> HIDE DEF P, offer
  <2>3. /\ DOMAIN asked = LoginFields /\ asked.user = m.user /\ asked.told = l.told /\ asked.ended = NotYet
        /\ asked.encrypted = l.encrypted
    BY <1>0 DEF LoginFields
  <2> HIDE DEF asked
  <2>4. /\ DOMAIN ts = LoginFields /\ ts.user = m.user /\ ts.told = l.told \o (offer \o <<"AskSasl">>)
        /\ ts.ended = NotYet /\ ts.encrypted = l.encrypted
    BY <2>3 DEF LoginFields, Told
  <2>5. /\ DOMAIN tp = LoginFields /\ tp.user = m.user /\ tp.told = l.told \o (offer \o <<"AskPassword">>)
        /\ tp.ended = NotYet /\ tp.encrypted = l.encrypted
    BY <2>3 DEF LoginFields, Told
  <2> HIDE DEF ts, tp
  <2>6. /\ DOMAIN sasl = LoginFields /\ sasl.at = "initial" /\ sasl.user = m.user /\ sasl.ended = NotYet
        /\ sasl.told = l.told \o (offer \o <<"AskSasl">>) /\ sasl.encrypted = l.encrypted
    BY <2>4 DEF LoginFields
  <2>7. /\ DOMAIN pass = LoginFields /\ pass.at = "password" /\ pass.user = m.user /\ pass.ended = NotYet
        /\ pass.told = l.told \o (offer \o <<"AskPassword">>) /\ pass.encrypted = l.encrypted
    BY <2>5 DEF LoginFields
  <2> HIDE DEF sasl, pass
  <2>8. Talk(sasl.told, <<"AskSasl">>) /\ Talk(pass.told, <<"AskPassword">>)
    BY <1>0, <1>1, <2>6, <2>7, TalkBegins
  <2>9. CASE m.user \notin StaticUsers
    <3>1. m.user = "tenant" /\ Complete(m.user) = <<"AskPassword">>
      BY <1>1, <2>9 DEF Users, StaticUsers, Complete
    <3>2. pass.user \in UsersAt("password") /\ BodyAt("password", pass.user) = <<"AskPassword">>
      BY <2>7, <3>1 DEF UsersAt, BodyAt
    <3>3. Vouched(pass, P) /\ pass.at \in LoginPlaces \ {"in", "closed"}
      BY <2>2, <2>7 DEF Vouched, LoginPlaces
    <3>4. GoodLogin(pass, P)
      BY <2>7, <2>8, <3>2, <3>3, GoingOnIsGood
    <3> QED BY <2>1, <2>9, <3>4 DEF P
  <2>10. CASE m.user \in StaticUsers
    <3>2. sasl.user \in UsersAt("initial") /\ BodyAt("initial", sasl.user) = <<"AskSasl">>
      BY <2>6, <2>10 DEF UsersAt, BodyAt
    <3>3. Vouched(sasl, P) /\ sasl.at \in LoginPlaces \ {"in", "closed"}
      BY <2>2, <2>6 DEF Vouched, LoginPlaces
    <3>4. GoodLogin(sasl, P)
      BY <2>6, <2>8, <3>2, <3>3, GoingOnIsGood
    <3>5. GoodLogin(Refused(sasl), P)
      BY <2>6, <3>4, RefusedIsGood
    <3> QED BY <2>1, <2>10, <3>4, <3>5 DEF P
  <2> QED BY <2>9, <2>10
<1> QED BY <1>2, <1>3


-----------------------------------------------------------------------------
(* The probe.                                                              *)

ProbeFields == {"server", "stage", "exchange", "params"}

\* A probe has been told the server's version before the server is ready.
Probing(p) ==
  /\ DOMAIN p = ProbeFields
  /\ p.stage \in {"Opening", "Authenticating", "Settling"}
  /\ p.params \subseteq Reported
  /\ p.server \in {"start", "password", "first", "final", "verified", "settling", "reported", "gone"}
  /\ p.server = "reported" => "server_version" \in p.params

\* A probe that has not begun, and one that has sent its startup packet.
LEMMA ProbeBegins == Probing(NoProbe) /\ Probing([NoProbe EXCEPT !.stage = "Authenticating"])
<1> DEFINE q == [NoProbe EXCEPT !.stage = "Authenticating"]
<1>1. /\ DOMAIN NoProbe = ProbeFields /\ NoProbe.server = "start" /\ NoProbe.stage = "Opening"
      /\ NoProbe.params = {}
  BY DEF NoProbe, ProbeFields
<1>2. DOMAIN q = ProbeFields /\ q.server = "start" /\ q.stage = "Authenticating" /\ q.params = {}
  BY <1>1 DEF ProbeFields
<1> HIDE DEF q
<1>3. Probing(NoProbe)
  BY <1>1 DEF Probing
<1>4. Probing(q)
  BY <1>2 DEF Probing
<1> QED BY <1>3, <1>4 DEF q

\* A frame of the server: the probe goes on, fails, or has what it was for.
LEMMA ProbeGoesOn ==
  ASSUME NEW p, Probing(p), NEW s \in Says(p.server)
  PROVE  LET q == [OnFrame(p, s[1]) EXCEPT !.server = s[2]]
         IN \/ Probing(q)
            \/ q.stage = "Failed"
            \/ q.stage = "Ready" /\ Kept(q.params) = {"server_version"}
<1> DEFINE f == OnFrame(p, s[1])
           q == [f EXCEPT !.server = s[2]]
           settling == [p EXCEPT !.stage = "Settling"]
           begun == [p EXCEPT !.exchange = TRUE]
           told == [p EXCEPT !.params = @ \cup {s[1]}]
           ready == [p EXCEPT !.stage = "Ready"]
           failed == [p EXCEPT !.stage = "Failed"]
<1> SUFFICES Probing(q) \/ q.stage = "Failed" \/ (q.stage = "Ready" /\ Kept(q.params) = {"server_version"})
  OBVIOUS
<1>0. DOMAIN p = ProbeFields
  BY DEF Probing
<1>1. DOMAIN settling = ProbeFields /\ settling.stage = "Settling" /\ settling.params = p.params
  BY <1>0 DEF ProbeFields
<1>2. DOMAIN begun = ProbeFields /\ begun.stage = p.stage /\ begun.params = p.params
  BY <1>0 DEF ProbeFields
<1>3. DOMAIN told = ProbeFields /\ told.stage = p.stage /\ told.params = p.params \cup {s[1]}
  BY <1>0 DEF ProbeFields
<1>4. DOMAIN ready = ProbeFields /\ ready.stage = "Ready" /\ ready.params = p.params
  BY <1>0 DEF ProbeFields
<1>5. DOMAIN failed = ProbeFields /\ failed.stage = "Failed" /\ failed.params = p.params
  BY <1>0 DEF ProbeFields
<1>6. /\ s[1] \in {"AuthOk", "Cleartext", "Sasl", "Md5", "SaslContinue", "SaslFinal",
                    "application_name", "server_version", "Ready"}
      /\ s[2] \in {"start", "password", "first", "final", "verified", "settling", "reported", "gone", "ready"}
      /\ s[1] = "Ready" => p.server = "reported"
      /\ s[2] = "ready" => s[1] = "Ready"
      /\ s[2] = "reported" => s[1] = "server_version" \/ p.server = "reported"
  BY SMT DEF Says, Probing
<1> HIDE DEF f, settling, begun, told, ready, failed
<1>7. ASSUME DOMAIN f = ProbeFields
      PROVE  DOMAIN q = ProbeFields /\ q.server = s[2] /\ q.stage = f.stage /\ q.params = f.params
  BY <1>7 DEF ProbeFields
<1> HIDE DEF q
<1>8. ASSUME DOMAIN f = ProbeFields, f.stage \in {p.stage, "Settling"}, s[1] # "Ready",
             p.params \subseteq f.params, f.params \subseteq Reported,
             s[1] = "server_version" => s[1] \in f.params
      PROVE  Probing(q)
  BY <1>6, <1>7, <1>8 DEF Probing
<1>9. CASE s[1] = "AuthOk"
  <2>1. f = settling
    BY <1>9 DEF f, settling, OnFrame, Reported
  <2> QED BY <1>1, <1>8, <1>9, <2>1 DEF Probing
<1>10. CASE s[1] \in {"Cleartext", "SaslContinue", "SaslFinal", "Sasl", "Md5"}
  <2>1. f = p \/ f = begun \/ f = failed
    BY <1>10 DEF f, begun, failed, OnFrame, Reported
  <2>2. CASE f = failed
    BY <1>5, <1>7, <2>2
  <2>3. CASE f = p \/ f = begun
    BY <1>0, <1>2, <1>8, <1>10, <2>3 DEF Probing
  <2> QED BY <2>1, <2>2, <2>3
<1>11. CASE s[1] \in Reported
  <2>1. f = told
    BY <1>11 DEF f, told, OnFrame, Reported
  <2> QED BY <1>3, <1>8, <1>11, <2>1 DEF Probing, Reported
<1>12. CASE s[1] = "Ready"
  <2>1. f = ready \/ f = failed
    BY <1>12 DEF f, ready, failed, OnFrame, Reported
  <2>2. CASE f = failed
    BY <1>5, <1>7, <2>2
  <2>3. CASE f = ready
    <3>1. q.stage = "Ready" /\ q.params = p.params
      BY <1>4, <1>7, <2>3
    <3>2. Kept(p.params) = {"server_version"}
      BY <1>6, <1>12 DEF Probing, Kept, Reported
    <3> QED BY <3>1, <3>2
  <2> QED BY <2>1, <2>2, <2>3
<1> QED BY <1>6, <1>9, <1>10, <1>11, <1>12 DEF Reported

-----------------------------------------------------------------------------
(* All of them.                                                            *)

LoginsInv ==
  /\ DOMAIN login = Guests
  /\ \A g \in Guests : GoodLogin(login[g], listener.posture)
  /\ listener = NotListening => \A g \in Guests : login[g].at = "hello"

ProbesInv ==
  /\ DOMAIN probe = Guests
  /\ \A g \in Guests : Probing(probe[g])
  /\ known \subseteq {{"server_version"}}

\* Before the node listens.
LEMMA LoginsBegin == LoginInit => LoginsInv /\ ProbesInv
<1> SUFFICES ASSUME LoginInit PROVE LoginsInv /\ ProbesInv
  OBVIOUS
<1>1. DOMAIN login = Guests /\ \A g \in Guests : login[g] = NewLogin
  BY DEF LoginInit
<1>2. DOMAIN probe = Guests /\ (\A g \in Guests : probe[g] = NoProbe) /\ known = {}
  BY DEF LoginInit
<1>3. NewLogin.at = "hello"
  BY DEF NewLogin
<1>4. LoginsInv
  BY <1>1, <1>3, NewLoginIsGood DEF LoginsInv
<1>5. ProbesInv
  BY <1>2, ProbeBegins DEF ProbesInv
<1> QED BY <1>4, <1>5

\* A step of one guest that leaves it good leaves all of them good.
LEMMA GoesWell ==
  ASSUME LoginsInv, NEW g \in Guests, NEW m, Goes(g, m), GoodLogin(m, listener.posture),
         listener # NotListening, UNCHANGED listener
  PROVE  LoginsInv'
<1>1. DOMAIN login' = Guests /\ \A h \in Guests : login'[h] = IF h = g THEN m ELSE login[h]
  BY DEF Goes, LoginsInv
<1> QED BY <1>1 DEF LoginsInv

\* The same for the probes.
LEMMA ProbesWell ==
  ASSUME ProbesInv, NEW g \in Guests, NEW p, probe' = [probe EXCEPT ![g] = p], Probing(p),
         known' = known \/ known' = {{"server_version"}}
  PROVE  ProbesInv'
<1>1. DOMAIN probe' = Guests /\ \A h \in Guests : probe'[h] = IF h = g THEN p ELSE probe[h]
  BY DEF ProbesInv
<1>2. known' \subseteq {{"server_version"}}
  BY DEF ProbesInv
<1> QED BY <1>1, <1>2 DEF ProbesInv

\* The node begins to listen.
LEMMA ListensWell == ASSUME LoginsInv, Listens PROVE LoginsInv'
<1>1. /\ login' = login
      /\ \A g \in Guests : login[g].at = "hello" /\ GoodLogin(login[g], listener.posture)
  BY DEF Listens, LoginsInv
<1>2. ASSUME NEW g \in Guests PROVE GoodLogin(login[g], listener'.posture)
  <2>1. Vouched(login[g], listener'.posture)
    BY <1>1, <1>2 DEF Vouched
  <2> QED BY <1>1, <1>2, <2>1 DEF GoodLogin
<1> QED BY <1>1, <1>2 DEF LoginsInv

\* A turn of negotiate's loop.
LEMMA HelloIsWell == ASSUME LoginsInv, NEW g \in Guests, Hello(g) PROVE LoginsInv'
<1> DEFINE P == listener.posture
           l == [login[g] EXCEPT !.hellos = @ + 1]
<1>1. GoodLogin(login[g], P) /\ login[g].at = "hello" /\ listener # NotListening /\ UNCHANGED listener
  BY DEF LoginsInv, Hello, Listening
<1>2. \/ Goes(g, OnSslRequest(l)) \/ Goes(g, OnGssRequest(l)) \/ Goes(g, OnCancel(l))
      \/ (\E m \in StartupPackets : Goes(g, OnMessage(l, m))) \/ Goes(g, Dropped(l))
  BY DEF Hello
<1>3. /\ DOMAIN l = LoginFields /\ l.at = "hello" /\ l.user = login[g].user /\ l.ended = login[g].ended
      /\ l.told = login[g].told /\ l.offered = login[g].offered /\ l.params = login[g].params
      /\ l.encrypted = login[g].encrypted
  BY <1>1 DEF GoodLogin, LoginFields
<1> HIDE DEF l
<1>4. GoodLogin(l, P)
  BY <1>1, <1>3, AlikeIsGood
<1>5. GoodLogin(Dropped(l), P)
  BY <1>3, <1>4, DroppedIsGood DEF UnderDeadline
<1>6. GoodLogin(OnSslRequest(l), P) /\ GoodLogin(OnGssRequest(l), P) /\ GoodLogin(OnCancel(l), P)
  BY <1>3, <1>4, SslRequestIsGood, GssRequestIsGood, CancelIsGood
<1>7. \A m \in StartupPackets : GoodLogin(OnMessage(l, m), P)
  BY <1>3, <1>4, MessageIsGood
<1> QED BY <1>1, <1>2, <1>5, <1>6, <1>7, GoesWell

\* The upgrade to TLS, and the ways it fails.
LEMMA UpgradesWell == ASSUME LoginsInv, NEW g \in Guests, Upgrades(g) PROVE LoginsInv'
<1> DEFINE P == listener.posture
           l == [login[g] EXCEPT !.at = "hello"]
<1>1. GoodLogin(login[g], P) /\ login[g].at = "upgrading" /\ listener # NotListening /\ UNCHANGED listener
  BY DEF LoginsInv, Upgrades, Listening
<1>2. Goes(g, Refused(login[g])) \/ Goes(g, Dropped(login[g])) \/ Goes(g, l)
  BY DEF Upgrades
<1>3. /\ DOMAIN l = LoginFields /\ l.at = "hello" /\ l.user = login[g].user /\ l.ended = login[g].ended
      /\ l.told = login[g].told
  BY <1>1 DEF GoodLogin, LoginFields
<1> HIDE DEF l
<1>4. /\ login[g].user \in UsersAt("upgrading") /\ login[g].ended = NotYet
      /\ login[g].told \in Seq(Plain) /\ Talk(login[g].told, BodyAt("upgrading", login[g].user))
  BY <1>1, WhereItIs
<1>5. l.user \in UsersAt("hello") /\ Talk(l.told, BodyAt("hello", l.user))
  BY <1>3, <1>4 DEF UsersAt, BodyAt
<1>6. Vouched(l, P) /\ l.at \in LoginPlaces \ {"in", "closed"}
  BY <1>3 DEF Vouched, LoginPlaces
<1>7. GoodLogin(l, P)
  BY <1>3, <1>4, <1>5, <1>6, GoingOnIsGood
<1>8. GoodLogin(Dropped(login[g]), P) /\ GoodLogin(Refused(login[g]), P)
  BY <1>1, DroppedIsGood, RefusedIsGood DEF UnderDeadline
<1> QED BY <1>1, <1>2, <1>7, <1>8, GoesWell

\* A place a login is in once the node listens.
LEMMA NodeListens ==
  ASSUME LoginsInv, NEW g \in Guests, login[g].at # "hello"
  PROVE  listener # NotListening
BY DEF LoginsInv

\* A login that goes from one place of the tenant's to another is told nothing.
LEMMA TenantGoesOn ==
  ASSUME NEW l, NEW posture, GoodLogin(l, posture),
         l.at \in {"password", "resolving", "dial", "upstream"},
         NEW m, DOMAIN m = LoginFields, m.at \in {"resolving", "dial", "upstream", "welcome"},
         m.user = l.user, m.ended = l.ended, m.told = l.told, m.encrypted = l.encrypted,
         m.at # "resolving" => m.offered = "valid",
         m.at = "welcome" => m.params = {"server_version"}
  PROVE  GoodLogin(m, posture)
<1>1. l.user = "tenant"
  BY WhereItIs DEF UsersAt
<1>2. m.user \in UsersAt(m.at)
  BY <1>1 DEF UsersAt
<1>3. BodyAt(m.at, m.user) = BodyAt(l.at, l.user)
  BY DEF BodyAt
<1>4. posture = "Required" => l.encrypted
  BY WhereItIs DEF Vouched
<1>5. Vouched(m, posture)
  BY <1>1, <1>4 DEF Vouched, ParamsOf
<1>6. m.at \in LoginPlaces \ {"in", "closed"}
  BY DEF LoginPlaces
<1> QED BY <1>2, <1>3, <1>5, <1>6, WhereItIs, GoingOnIsGood


\* The password message.
LEMMA PasswordIsWell == ASSUME LoginsInv, NEW g \in Guests, Password(g) PROVE LoginsInv'
<1> DEFINE P == listener.posture
           l(o) == [login[g] EXCEPT !.at = "resolving", !.offered = o]
<1>1. GoodLogin(login[g], P) /\ login[g].at = "password" /\ listener # NotListening /\ UNCHANGED listener
  BY DEF LoginsInv, Password, Listening
<1>2. Goes(g, Refused(login[g])) \/ \E o \in {"valid", "invalid"} : Goes(g, l(o))
  BY DEF Password
<1>3. ASSUME NEW o PROVE GoodLogin(l(o), P)
  <2>1. /\ DOMAIN l(o) = LoginFields /\ l(o).at = "resolving" /\ l(o).user = login[g].user
        /\ l(o).ended = login[g].ended /\ l(o).told = login[g].told /\ l(o).encrypted = login[g].encrypted
    BY <1>1 DEF GoodLogin, LoginFields
  <2> HIDE DEF l
  <2> QED BY <1>1, <2>1, TenantGoesOn
<1> HIDE DEF l
<1> QED BY <1>1, <1>2, <1>3, RefusedIsGood, GoesWell

\* The resolver answers: refused, to be probed for, or known already.
LEMMA ResolvesWell == ASSUME LoginsInv, ProbesInv, NEW g \in Guests, Resolves(g) PROVE LoginsInv'
<1> DEFINE P == listener.posture
           params == CHOOSE e \in known : TRUE
           d == [login[g] EXCEPT !.at = "dial"]
           w == [login[g] EXCEPT !.at = "welcome", !.params = params]
<1>1. GoodLogin(login[g], P) /\ login[g].at = "resolving" /\ UNCHANGED listener
  BY DEF LoginsInv, Resolves
<1>2. listener # NotListening
  BY <1>1, NodeListens
<1>3. \/ Goes(g, Refused(login[g]))
      \/ login[g].offered = "valid" /\ known = {} /\ Goes(g, d)
      \/ login[g].offered = "valid" /\ known # {} /\ Goes(g, w)
  BY DEF Resolves
<1>4. CASE Goes(g, Refused(login[g]))
  BY <1>1, <1>2, <1>4, RefusedIsGood, GoesWell
<1>5. CASE login[g].offered = "valid" /\ known = {} /\ Goes(g, d)
  <2>1. /\ DOMAIN d = LoginFields /\ d.at = "dial" /\ d.user = login[g].user /\ d.ended = login[g].ended
        /\ d.told = login[g].told /\ d.encrypted = login[g].encrypted /\ d.offered = login[g].offered
    BY <1>1 DEF GoodLogin, LoginFields
  <2> HIDE DEF d
  <2>2. GoodLogin(d, P)
    BY <1>1, <1>5, <2>1, TenantGoesOn
  <2> QED BY <1>1, <1>2, <1>5, <2>2, GoesWell
<1>6. CASE login[g].offered = "valid" /\ known # {} /\ Goes(g, w)
  <2>0. params \in known
    BY <1>6
  <2>1. params = {"server_version"}
    BY <2>0 DEF ProbesInv
  <2> HIDE DEF params
  <2>2. /\ DOMAIN w = LoginFields /\ w.at = "welcome" /\ w.user = login[g].user /\ w.ended = login[g].ended
        /\ w.told = login[g].told /\ w.encrypted = login[g].encrypted /\ w.offered = login[g].offered
        /\ w.params = params
    BY <1>1 DEF GoodLogin, LoginFields
  <2> HIDE DEF w
  <2>3. GoodLogin(w, P)
    BY <1>1, <1>6, <2>1, <2>2, TenantGoesOn
  <2> QED BY <1>1, <1>2, <1>6, <2>3, GoesWell
<1> QED BY <1>3, <1>4, <1>5, <1>6

\* A frame more.
LEMMA OneMore ==
  ASSUME NEW S, NEW a \in Seq(S), NEW z \in S
  PROVE  LET b == a \o <<z>>
         IN b \in Seq(S) /\ Len(b) = Len(a) + 1 /\ (\A i \in 1..Len(a) : b[i] = a[i]) /\ b[Len(a) + 1] = z
<1>1. Append(a, z) = a \o <<z>>
  BY AppendIsConcat
<1> QED BY <1>1, AppendProperties, SMT

\* A frame and a frame.
LEMMA OneAndOne ==
  ASSUME NEW S, NEW x \in S, NEW y \in S
  PROVE  <<x>> \o <<y>> = <<x, y>>
<1> DEFINE a == <<x>>
           b == a \o <<y>>
           c == <<x, y>>
<1>0. a \in Seq(S)
  BY SMT
<1>1. Len(a) = 1 /\ a[1] = x
  BY SMT
<1>2. c \in Seq(S) /\ Len(c) = 2 /\ c[1] = x /\ c[2] = y
  BY SMT
<1> HIDE DEF a
<1>3. b \in Seq(S) /\ Len(b) = Len(a) + 1 /\ (\A i \in 1..Len(a) : b[i] = a[i]) /\ b[Len(a) + 1] = y
  BY <1>0, OneMore, Zenon
<1> HIDE DEF b, c
<1>4. Len(b) = 2 /\ b[1] = x /\ b[2] = y
  BY <1>1, <1>3, SMT
<1>5. \A i \in 1..2 : i = 1 \/ i = 2
  BY SMT
<1>6. b = c
  BY <1>2, <1>3, <1>4, <1>5, SeqEqual
<1> QED BY <1>6 DEF a, b, c

\* Two frames and a frame.
LEMMA TwoAndOne ==
  ASSUME NEW S, NEW x \in S, NEW y \in S, NEW z \in S
  PROVE  <<x, y>> \o <<z>> = <<x, y, z>>
<1> DEFINE a == <<x, y>>
           b == a \o <<z>>
           c == <<x, y, z>>
<1>0. a \in Seq(S)
  BY SMT
<1>1. Len(a) = 2 /\ a[1] = x /\ a[2] = y
  BY SMT
<1>2. c \in Seq(S) /\ Len(c) = 3 /\ c[1] = x /\ c[2] = y /\ c[3] = z
  BY SMT
<1> HIDE DEF a
<1>3. b \in Seq(S) /\ Len(b) = Len(a) + 1 /\ (\A i \in 1..Len(a) : b[i] = a[i]) /\ b[Len(a) + 1] = z
  BY <1>0, OneMore, Zenon
<1> HIDE DEF b, c
<1>4. Len(b) = 3 /\ b[1] = x /\ b[2] = y /\ b[3] = z
  BY <1>1, <1>3, SMT
<1>5. \A i \in 1..3 : i = 1 \/ i = 2 \/ i = 3
  BY SMT
<1>6. b = c
  BY <1>2, <1>3, <1>4, <1>5, SeqEqual
<1> QED BY <1>6 DEF a, b, c

\* The exchange of a static user grows by a frame at a time.
LEMMA SaslGrows ==
  /\ <<"AskSasl">> \in Seq(Frame) /\ <<"AskSasl", "SaslContinue">> \in Seq(Frame)
  /\ <<"SaslContinue">> \in Seq(Frame) /\ <<"SaslFinal">> \in Seq(Frame)
  /\ <<"AskSasl">> \o <<"SaslContinue">> = <<"AskSasl", "SaslContinue">>
  /\ <<"AskSasl", "SaslContinue">> \o <<"SaslFinal">> = <<"AskSasl", "SaslContinue", "SaslFinal">>
<1>1. /\ "AskSasl" \in Frame /\ "SaslContinue" \in Frame /\ "SaslFinal" \in Frame
      /\ <<"AskSasl">> \in Seq(Frame) /\ <<"AskSasl", "SaslContinue">> \in Seq(Frame)
      /\ <<"SaslContinue">> \in Seq(Frame) /\ <<"SaslFinal">> \in Seq(Frame)
  BY SMT DEF Frame
<1>2. <<"AskSasl">> \o <<"SaslContinue">> = <<"AskSasl", "SaslContinue">>
  BY <1>1, OneAndOne
<1>3. <<"AskSasl", "SaslContinue">> \o <<"SaslFinal">> = <<"AskSasl", "SaslContinue", "SaslFinal">>
  BY <1>1, TwoAndOne
<1> QED BY <1>1, <1>2, <1>3

\* SASLInitialResponse.
LEMMA InitialIsWell == ASSUME LoginsInv, NEW g \in Guests, OnInitial(g) PROVE LoginsInv'
<1> DEFINE P == listener.posture
           t == Told(login[g], <<"SaslContinue">>)
           l == [t EXCEPT !.at = "proof"]
<1>1. GoodLogin(login[g], P) /\ login[g].at = "initial" /\ listener # NotListening /\ UNCHANGED listener
  BY DEF LoginsInv, OnInitial, Listening
<1>2. Goes(g, Refused(login[g])) \/ Goes(g, l)
  BY DEF OnInitial
<1>3. /\ DOMAIN t = LoginFields /\ t.user = login[g].user /\ t.ended = login[g].ended
      /\ t.told = login[g].told \o <<"SaslContinue">> /\ t.encrypted = login[g].encrypted
  BY <1>1 DEF GoodLogin, LoginFields, Told
<1> HIDE DEF t
<1>4. /\ DOMAIN l = LoginFields /\ l.at = "proof" /\ l.user = login[g].user /\ l.ended = login[g].ended
      /\ l.told = login[g].told \o <<"SaslContinue">> /\ l.encrypted = login[g].encrypted
  BY <1>3 DEF LoginFields
<1> HIDE DEF l
<1>5. /\ login[g].user \in StaticUsers /\ Talk(login[g].told, <<"AskSasl">>) /\ login[g].ended = NotYet
      /\ P = "Required" => login[g].encrypted
  <2>1. UsersAt("initial") = StaticUsers /\ BodyAt("initial", login[g].user) = <<"AskSasl">>
    BY DEF UsersAt, BodyAt
  <2> QED BY <1>1, <2>1, WhereItIs DEF Vouched
<1>7. Talk(l.told, <<"AskSasl", "SaslContinue">>)
  BY <1>4, <1>5, SaslGrows, TalkGoesOn
<1>8. l.user \in UsersAt("proof") /\ BodyAt("proof", l.user) = <<"AskSasl", "SaslContinue">>
  BY <1>4, <1>5 DEF UsersAt, BodyAt
<1>9. Vouched(l, P) /\ l.at \in LoginPlaces \ {"in", "closed"}
  BY <1>4, <1>5 DEF Vouched, LoginPlaces
<1>10. GoodLogin(l, P)
  BY <1>4, <1>5, <1>7, <1>8, <1>9, GoingOnIsGood
<1> QED BY <1>1, <1>2, <1>10, RefusedIsGood, GoesWell

\* SASLResponse: only the operator with a right proof goes on.
LEMMA ResponseIsWell == ASSUME LoginsInv, NEW g \in Guests, OnResponse(g) PROVE LoginsInv'
<1> DEFINE P == listener.posture
           l(o) == [login[g] EXCEPT !.offered = o]
           t(o) == Told(l(o), <<"SaslFinal">>)
           w(o) == [t(o) EXCEPT !.at = "welcome", !.params = {"proxy"}]
<1>1. GoodLogin(login[g], P) /\ login[g].at = "proof" /\ listener # NotListening /\ UNCHANGED listener
  BY DEF LoginsInv, OnResponse, Listening
<1>2. CASE Goes(g, Refused(login[g]))
  BY <1>1, <1>2, RefusedIsGood, GoesWell
<1>3. ASSUME NEW o, Goes(g, IF o = "valid" /\ l(o).user = "operator" THEN w(o) ELSE Refused(l(o)))
      PROVE  LoginsInv'
  <2>1. /\ DOMAIN l(o) = LoginFields /\ l(o).at = "proof" /\ l(o).user = login[g].user
        /\ l(o).ended = login[g].ended /\ l(o).told = login[g].told /\ l(o).encrypted = login[g].encrypted
        /\ l(o).offered = o
    BY <1>1 DEF GoodLogin, LoginFields
  <2> HIDE DEF l
  <2>2. /\ l(o).user \in StaticUsers /\ Talk(l(o).told, <<"AskSasl", "SaslContinue">>) /\ l(o).ended = NotYet
        /\ P = "Required" => l(o).encrypted
    <3>1. /\ UsersAt("proof") = StaticUsers
          /\ BodyAt("proof", login[g].user) = <<"AskSasl", "SaslContinue">>
      BY DEF UsersAt, BodyAt
    <3> QED BY <1>1, <2>1, <3>1, WhereItIs, SMT DEF Vouched
  <2>3. GoodLogin(l(o), P)
    <3>1. l(o).user \in UsersAt("proof") /\ BodyAt("proof", l(o).user) = <<"AskSasl", "SaslContinue">>
      BY <2>2 DEF UsersAt, BodyAt
    <3>2. Vouched(l(o), P) /\ l(o).at \in LoginPlaces \ {"in", "closed"}
      BY <2>1, <2>2 DEF Vouched, LoginPlaces
    <3> QED BY <2>1, <2>2, <3>1, <3>2, GoingOnIsGood
  <2>4. CASE ~(o = "valid" /\ l(o).user = "operator")
    BY <1>1, <1>3, <2>1, <2>3, <2>4, RefusedIsGood, GoesWell
  <2>5. CASE o = "valid" /\ l(o).user = "operator"
    <3>1. /\ DOMAIN t(o) = LoginFields /\ t(o).user = "operator" /\ t(o).ended = NotYet
          /\ t(o).told = l(o).told \o <<"SaslFinal">> /\ t(o).encrypted = l(o).encrypted
          /\ t(o).offered = "valid"
      BY <2>1, <2>2, <2>5 DEF LoginFields, Told
    <3> HIDE DEF t
    <3>2. /\ DOMAIN w(o) = LoginFields /\ w(o).user = "operator" /\ w(o).ended = NotYet
          /\ w(o).told = l(o).told \o <<"SaslFinal">> /\ w(o).encrypted = l(o).encrypted
          /\ w(o).offered = "valid" /\ w(o).at = "welcome" /\ w(o).params = {"proxy"}
      BY <3>1 DEF LoginFields
    <3> HIDE DEF w
    <3>4. Talk(w(o).told, <<"AskSasl", "SaslContinue", "SaslFinal">>)
      <4>1. Talk(l(o).told \o <<"SaslFinal">>, <<"AskSasl", "SaslContinue">> \o <<"SaslFinal">>)
        BY <2>2, SaslGrows, TalkGoesOn
      <4> QED BY <3>2, <4>1, SaslGrows
    <3>5. /\ w(o).user \in UsersAt("welcome")
          /\ BodyAt("welcome", w(o).user) = <<"AskSasl", "SaslContinue", "SaslFinal">>
      BY <3>2 DEF UsersAt, BodyAt, Complete, StaticUsers
    <3>6. Vouched(w(o), P) /\ w(o).at \in LoginPlaces \ {"in", "closed"}
      BY <2>2, <3>2 DEF Vouched, LoginPlaces, ParamsOf
    <3>7. GoodLogin(w(o), P)
      BY <3>2, <3>4, <3>5, <3>6, GoingOnIsGood
    <3> QED BY <1>1, <1>3, <2>5, <3>7, GoesWell
  <2> QED BY <2>4, <2>5
<1>4. \/ Goes(g, Refused(login[g]))
      \/ \E o \in {"valid", "invalid"} : Goes(g, IF o = "valid" /\ l(o).user = "operator" THEN w(o) ELSE Refused(l(o)))
  BY DEF OnResponse
<1> HIDE DEF l, w
<1> QED BY <1>2, <1>3, <1>4


\* The probe connection is opened.
LEMMA DialsWell ==
  ASSUME LoginsInv, ProbesInv, NEW g \in Guests, Dials(g)
  PROVE  LoginsInv' /\ ProbesInv'
<1> DEFINE P == listener.posture
           l == [login[g] EXCEPT !.at = "upstream"]
<1>1. GoodLogin(login[g], P) /\ login[g].at = "dial" /\ UNCHANGED listener /\ Goes(g, l)
  BY DEF LoginsInv, Dials
<1>2. /\ DOMAIN l = LoginFields /\ l.at = "upstream" /\ l.user = login[g].user /\ l.ended = login[g].ended
      /\ l.told = login[g].told /\ l.encrypted = login[g].encrypted /\ l.offered = login[g].offered
  BY <1>1 DEF GoodLogin, LoginFields
<1> HIDE DEF l
<1>3. login[g].offered = "valid"
  BY <1>1, WhereItIs DEF Vouched
<1>4. GoodLogin(l, P)
  BY <1>1, <1>2, <1>3, TenantGoesOn
<1>5. listener # NotListening
  BY <1>1, NodeListens
<1>6. LoginsInv'
  BY <1>1, <1>4, <1>5, GoesWell
<1>7. probe' = [probe EXCEPT ![g] = [NoProbe EXCEPT !.stage = "Authenticating"]] /\ known' = known
  BY DEF Dials
<1>8. ProbesInv'
  BY <1>7, ProbeBegins, ProbesWell
<1> QED BY <1>6, <1>8

\* A frame of the probed server.
LEMMA ServerSaysWell ==
  ASSUME LoginsInv, ProbesInv, NEW g \in Guests, ServerSays(g)
  PROVE  LoginsInv' /\ ProbesInv'
<1> DEFINE P == listener.posture
           q(s) == [OnFrame(probe[g], s[1]) EXCEPT !.server = s[2]]
           w(s) == [login[g] EXCEPT !.at = "welcome", !.params = Kept(q(s).params)]
<1>1. GoodLogin(login[g], P) /\ login[g].at = "upstream" /\ UNCHANGED listener /\ Probing(probe[g])
  BY DEF LoginsInv, ProbesInv, ServerSays
<1>2. listener # NotListening /\ login[g].offered = "valid"
  BY <1>1, NodeListens, WhereItIs DEF Vouched
<1>3. PICK s \in Says(probe[g].server) :
        /\ probe' = [probe EXCEPT ![g] = IF q(s).stage \in {"Ready", "Failed"} THEN NoProbe ELSE q(s)]
        /\ known' = IF q(s).stage = "Ready" THEN {Kept(q(s).params)} ELSE known
        /\ CASE q(s).stage = "Ready" -> Goes(g, w(s))
             [] q(s).stage = "Failed" -> Goes(g, ProbeFailed(login[g]))
             [] OTHER -> UNCHANGED login
  BY DEF ServerSays
<1>4. \/ Probing(q(s))
      \/ q(s).stage = "Failed"
      \/ q(s).stage = "Ready" /\ Kept(q(s).params) = {"server_version"}
  BY <1>1, ProbeGoesOn
<1> HIDE DEF q
<1>5. CASE Probing(q(s))
  <2>1. q(s).stage \notin {"Ready", "Failed"}
    BY <1>5 DEF Probing
  <2>2. UNCHANGED login /\ known' = known /\ probe' = [probe EXCEPT ![g] = q(s)]
    BY <1>3, <2>1
  <2>3. LoginsInv'
    BY <1>1, <2>2 DEF LoginsInv
  <2> QED BY <1>5, <2>2, <2>3, ProbesWell
<1>6. CASE q(s).stage = "Failed"
  <2>1. Goes(g, Refused(login[g])) /\ known' = known /\ probe' = [probe EXCEPT ![g] = NoProbe]
    BY <1>3, <1>6 DEF ProbeFailed
  <2>2. GoodLogin(Refused(login[g]), P)
    BY <1>1, RefusedIsGood
  <2> QED BY <1>1, <1>2, <2>1, <2>2, GoesWell, ProbesWell, ProbeBegins
<1>7. CASE q(s).stage = "Ready" /\ Kept(q(s).params) = {"server_version"}
  <2>1. Goes(g, w(s)) /\ known' = {{"server_version"}} /\ probe' = [probe EXCEPT ![g] = NoProbe]
    BY <1>3, <1>7
  <2>2. /\ DOMAIN w(s) = LoginFields /\ w(s).at = "welcome" /\ w(s).user = login[g].user
        /\ w(s).ended = login[g].ended /\ w(s).told = login[g].told /\ w(s).encrypted = login[g].encrypted
        /\ w(s).offered = login[g].offered /\ w(s).params = Kept(q(s).params)
    BY <1>1 DEF GoodLogin, LoginFields
  <2> HIDE DEF w
  <2>3. GoodLogin(w(s), P)
    BY <1>1, <1>2, <1>7, <2>2, TenantGoesOn
  <2> QED BY <1>1, <1>2, <2>1, <2>3, GoesWell, ProbesWell, ProbeBegins
<1> QED BY <1>4, <1>5, <1>6, <1>7

\* The end of the login: all four frames, or a refusal.
LEMMA WelcomeIsWell == ASSUME LoginsInv, NEW g \in Guests, Welcome(g) PROVE LoginsInv'
<1> DEFINE P == listener.posture
           t == Told(login[g], <<"Ok", "Params", "Key", "Ready">>)
           l == [t EXCEPT !.at = "in"]
<1>1. GoodLogin(login[g], P) /\ login[g].at = "welcome" /\ UNCHANGED listener
  BY DEF LoginsInv, Welcome
<1>2. Goes(g, Refused(login[g])) \/ Goes(g, l)
  BY DEF Welcome
<1>3. /\ DOMAIN t = LoginFields /\ t.user = login[g].user /\ t.ended = login[g].ended
      /\ t.told = login[g].told \o <<"Ok", "Params", "Key", "Ready">> /\ t.encrypted = login[g].encrypted
      /\ t.offered = login[g].offered /\ t.params = login[g].params
  BY <1>1 DEF GoodLogin, LoginFields, Told
<1> HIDE DEF t
<1>4. /\ DOMAIN l = LoginFields /\ l.at = "in" /\ l.user = login[g].user /\ l.ended = login[g].ended
      /\ l.told = login[g].told \o <<"Ok", "Params", "Key", "Ready">> /\ l.encrypted = login[g].encrypted
      /\ l.offered = login[g].offered /\ l.params = login[g].params
  BY <1>3 DEF LoginFields
<1> HIDE DEF l
<1>5. /\ login[g].user \in UsersAt("welcome") /\ login[g].ended = NotYet /\ Vouched(login[g], P)
      /\ Talk(login[g].told, Complete(login[g].user))
  <2>1. BodyAt("welcome", login[g].user) = Complete(login[g].user)
    BY DEF BodyAt
  <2> QED BY <1>1, <2>1, WhereItIs
<1>6. UsersAt("welcome") = UsersAt("in")
  BY DEF UsersAt
<1>7. Underway(l)
  BY <1>4, <1>5, <1>6 DEF Underway
<1>8. Ended(l)
  BY <1>4, <1>5 DEF Ended, NotYet
<1>9. Vouched(l, P) /\ l.at \in LoginPlaces
  BY <1>1, <1>4, <1>5 DEF Vouched, LoginPlaces
<1>10. GoodLogin(l, P)
  BY <1>4, <1>7, <1>8, <1>9 DEF GoodLogin
<1>11. listener # NotListening
  BY <1>1, NodeListens
<1> QED BY <1>1, <1>2, <1>10, <1>11, RefusedIsGood, GoesWell

\* The client goes away.
LEMMA DisconnectsWell == ASSUME LoginsInv, NEW g \in Guests, Disconnects(g) PROVE LoginsInv'
<1> DEFINE P == listener.posture
           l == [login[g] EXCEPT !.left = TRUE]
<1>1. /\ GoodLogin(login[g], P) /\ login[g].at \notin {"in", "closed"} /\ UNCHANGED listener
      /\ listener # NotListening
  BY DEF LoginsInv, Disconnects
<1>2. Goes(g, l) \/ Goes(g, Dropped(l))
  BY DEF Disconnects
<1>3. /\ DOMAIN l = LoginFields /\ l.at = login[g].at /\ l.user = login[g].user /\ l.ended = login[g].ended
      /\ l.told = login[g].told /\ l.offered = login[g].offered /\ l.params = login[g].params
      /\ l.encrypted = login[g].encrypted /\ l.left = TRUE
  BY <1>1 DEF GoodLogin, LoginFields
<1> HIDE DEF l
<1>4. GoodLogin(l, P)
  BY <1>1, <1>3, AlikeIsGood
<1>5. GoodLogin(Dropped(l), P)
  BY <1>1, <1>3, <1>4, DroppedIsGood
<1> QED BY <1>1, <1>2, <1>4, <1>5, GoesWell


\* Every step keeps the logins and the probes.
LEMMA LoginsGoOn ==
  ASSUME LoginsInv, ProbesInv, [LoginNext]_loginVars
  PROVE  LoginsInv' /\ ProbesInv'
<1>1. CASE UNCHANGED loginVars
  BY <1>1 DEF loginVars, LoginsInv, ProbesInv
<1>2. ASSUME UNCHANGED <<probe, known>> PROVE ProbesInv'
  BY <1>2 DEF ProbesInv
<1>3. CASE Listens
  BY <1>2, <1>3, ListensWell DEF Listens
<1>4. ASSUME NEW g \in Guests,
             \/ Hello(g) \/ Upgrades(g) \/ Password(g) \/ Resolves(g) \/ OnInitial(g) \/ OnResponse(g)
             \/ DialFails(g) \/ Dials(g) \/ ServerSays(g) \/ ServerFails(g)
             \/ Welcome(g) \/ TimesOut(g) \/ Disconnects(g) \/ FindsItGone(g) \/ Again(g)
      PROVE  LoginsInv' /\ ProbesInv'
  <2> DEFINE P == listener.posture
  <2>0. GoodLogin(login[g], P)
    BY DEF LoginsInv
  <2> HIDE DEF P
  <2>1. CASE Hello(g)
    BY <1>2, <2>1, HelloIsWell DEF Hello
  <2>2. CASE Upgrades(g)
    BY <1>2, <2>2, UpgradesWell DEF Upgrades
  <2>3. CASE Password(g)
    BY <1>2, <2>3, PasswordIsWell DEF Password
  <2>4. CASE Resolves(g)
    BY <1>2, <2>4, ResolvesWell DEF Resolves
  <2>5. CASE OnInitial(g)
    BY <1>2, <2>5, InitialIsWell DEF OnInitial
  <2>6. CASE OnResponse(g)
    BY <1>2, <2>6, ResponseIsWell DEF OnResponse
  <2>7. CASE DialFails(g)
    <3>1. login[g].at = "dial" /\ Goes(g, Refused(login[g])) /\ UNCHANGED <<listener, probe, known>>
      BY <2>7 DEF DialFails
    <3>2. GoodLogin(Refused(login[g]), P) /\ listener # NotListening
      BY <2>0, <3>1, RefusedIsGood, NodeListens
    <3> QED BY <1>2, <3>1, <3>2, GoesWell DEF P
  <2>8. CASE Dials(g)
    BY <2>8, DialsWell
  <2>9. CASE ServerSays(g)
    BY <2>9, ServerSaysWell
  <2>10. CASE ServerFails(g)
    <3>1. /\ login[g].at = "upstream" /\ Goes(g, Refused(login[g])) /\ UNCHANGED <<listener, known>>
          /\ probe' = [probe EXCEPT ![g] = NoProbe]
      BY <2>10 DEF ServerFails, ProbeFailed
    <3>2. GoodLogin(Refused(login[g]), P) /\ listener # NotListening
      BY <2>0, <3>1, RefusedIsGood, NodeListens
    <3>3. LoginsInv'
      BY <3>1, <3>2, GoesWell DEF P
    <3> QED BY <3>1, <3>3, ProbesWell, ProbeBegins
  <2>11. CASE Welcome(g)
    BY <1>2, <2>11, WelcomeIsWell DEF Welcome
  <2>12. CASE TimesOut(g)
    <3>1. /\ login[g].at \in UnderDeadline /\ Goes(g, Dropped(login[g])) /\ UNCHANGED <<listener, probe, known>>
          /\ listener # NotListening
      BY <2>12 DEF TimesOut
    <3>2. login[g].at \notin {"in", "closed"}
      BY <3>1 DEF UnderDeadline
    <3>3. GoodLogin(Dropped(login[g]), P)
      BY <2>0, <3>1, <3>2, DroppedIsGood
    <3> QED BY <1>2, <3>1, <3>3, GoesWell DEF P
  <2>13. CASE Disconnects(g)
    BY <1>2, <2>13, DisconnectsWell DEF Disconnects
  <2>14. CASE FindsItGone(g)
    <3>1. /\ login[g].at = "welcome" /\ login[g].left /\ Goes(g, Dropped(login[g]))
          /\ UNCHANGED <<listener, probe, known>>
      BY <2>14 DEF FindsItGone
    <3>2. GoodLogin(Dropped(login[g]), P) /\ listener # NotListening
      BY <2>0, <3>1, DroppedIsGood, NodeListens
    <3> QED BY <1>2, <3>1, <3>2, GoesWell DEF P
  <2>15. CASE Again(g)
    <3>1. /\ login[g].at \in {"in", "closed"} /\ Goes(g, NewLogin) /\ UNCHANGED <<listener, probe, known>>
      BY <2>15 DEF Again
    <3>2. GoodLogin(NewLogin, P) /\ listener # NotListening
      BY <3>1, NewLoginIsGood, NodeListens
    <3> QED BY <1>2, <3>1, <3>2, GoesWell DEF P
  <2> QED BY <1>4, <2>1, <2>2, <2>3, <2>4, <2>5, <2>6, <2>7, <2>8, <2>9, <2>10, <2>11, <2>12, <2>13, <2>14, <2>15
<1> QED BY <1>1, <1>3, <1>4 DEF LoginNext

\* A good login has told the truth.
LEMMA GoodIsTrue ==
  ASSUME NEW l, NEW posture, GoodLogin(l, posture)
  PROVE  /\ Conversation(l)
         /\ l.at = "in" =>
              /\ l.offered = "valid" /\ l.user # "stranger"
              /\ posture = "Required" => l.encrypted
              /\ IF l.user = "tenant" THEN l.params = {"server_version"} ELSE l.params = {"proxy"}
         /\ (l.ended = "Refused") = (l.told # << >> /\ l.told[Len(l.told)] = "Error")
         /\ l.ended = "Disconnected" /\ ~l.left => l.from \in UnderDeadline
<1> DEFINE whole == <<"Ok", "Params", "Key", "Ready">>
<1>1. /\ l.at \in LoginPlaces /\ Underway(l) /\ Ended(l) /\ Vouched(l, posture)
  BY DEF GoodLogin
<1>2. /\ l.at = "in" =>
           /\ l.offered = "valid" /\ l.user # "stranger"
           /\ posture = "Required" => l.encrypted
           /\ IF l.user = "tenant" THEN l.params = {"server_version"} ELSE l.params = {"proxy"}
  BY <1>1 DEF Underway, UsersAt, Vouched, ParamsOf, LoginPlaces
<1>3. l.ended = "Disconnected" /\ ~l.left => l.from \in UnderDeadline
  BY <1>1 DEF Ended
<1>4. PICK t, body, ending :
        /\ body \in Exchange(l.user) /\ ending \in Endings(l.user, body)
        /\ Talk(t, body) /\ l.told = t \o ending /\ ending \in {<< >>, <<"Error">>, whole}
        /\ (l.ended = "Refused") <=> (ending = <<"Error">>)
  <2>0. \A s \in Seq(Frame) : s \o << >> = s
    BY ConcatEmptySeq
  <2>a. << >> # <<"Error">> /\ whole # <<"Error">>
    BY SMT
  <2>1. CASE l.at = "closed"
    <3>1. PICK t : \E body \in Exchange(l.user) :
            Talk(t, body) /\ l.told = IF l.ended = "Refused" THEN t \o <<"Error">> ELSE t
      BY <1>1, <2>1 DEF Ended
    <3>2. PICK body \in Exchange(l.user) :
            Talk(t, body) /\ l.told = IF l.ended = "Refused" THEN t \o <<"Error">> ELSE t
      BY <3>1
    <3>3. t \o << >> = t
      BY <2>0, <3>2, ExchangesAreFrames, TalkIsFrames
    <3>4. << >> \in Endings(l.user, body) /\ <<"Error">> \in Endings(l.user, body)
      BY DEF Endings
    <3>5. CASE l.ended = "Refused"
      BY <3>2, <3>4, <3>5
    <3>6. CASE l.ended # "Refused"
      BY <2>a, <3>2, <3>3, <3>4, <3>6
    <3> QED BY <3>5, <3>6
  <2>2. CASE l.at = "in"
    <3>1. PICK t : Talk(t, Complete(l.user)) /\ l.told = t \o whole /\ l.ended = NotYet
      BY <1>1, <2>2 DEF Underway
    <3>2. Complete(l.user) \in Exchange(l.user) /\ whole \in Endings(l.user, Complete(l.user))
      BY ExchangesAreFrames DEF Endings
    <3>3. l.ended # "Refused"
      BY <3>1 DEF NotYet
    <3> HIDE DEF whole
    <3> QED BY <2>a, <3>1, <3>2, <3>3
  <2>3. CASE l.at \notin {"in", "closed"}
    <3>1. Talk(l.told, BodyAt(l.at, l.user)) /\ BodyAt(l.at, l.user) \in Exchange(l.user) /\ l.ended = NotYet
      BY <2>3, WhereItIs, BodyIsExchange
    <3>2. l.told \o << >> = l.told
      BY <2>0, <3>1, ExchangesAreFrames, TalkIsFrames
    <3>3. << >> \in Endings(l.user, BodyAt(l.at, l.user))
      BY DEF Endings
    <3>4. l.ended # "Refused"
      BY <3>1 DEF NotYet
    <3> QED BY <2>a, <3>1, <3>2, <3>3, <3>4
  <2> QED BY <2>1, <2>2, <2>3
<1>5. Conversation(l)
  BY <1>4, TalkIsConversation
<1>6. t \in Seq(Frame)
  BY <1>4, ExchangesAreFrames, TalkIsFrames
<1>7. (l.ended = "Refused") <=> (l.told # << >> /\ l.told[Len(l.told)] = "Error")
  <2>1. CASE ending = <<"Error">>
    BY <1>4, <1>6, <2>1, LastWord
  <2>2. CASE ending # <<"Error">>
    <3>1. ending \in Seq(Frame)
      BY <1>4, <2>2, ExchangesAreFrames, EmptySeq
    <3>2. l.told \in Seq(Frame)
      BY <1>4, <1>6, <3>1, ConcatProperties
    <3> QED BY <1>4, <2>2, <3>2, LastWord
  <2> QED BY <2>1, <2>2
<1> QED BY <1>2, <1>3, <1>5, <1>7

\* What a login tells a client is true and complete, however many clients log
\* in together and whatever the listener is set up to ask of them: session,
\* serve_client and authenticate in serve.rs, with the probe of probe.rs.
THEOREM LoginsAlwaysTellTheTruth == LoginSpec => []LoginTellsTheTruth
<1>1. LoginsInv => LoginTellsTheTruth
  BY GoodIsTrue DEF LoginsInv, LoginTellsTheTruth
<1> QED BY <1>1, LoginsBegin, LoginsGoOn, PTL DEF LoginSpec
============================================================================
