---------------------------- MODULE ReplicaSets ----------------------------
(***************************************************************************)
(* The replicas a node watches: the registry of watches, keyed by the      *)
(* primary and the ordered list of a grant, its eviction and its poll      *)
(* loops (bin/pgprox/src/replicas.rs), the round of concurrent probes a    *)
(* loop runs (pgprox-route poller.rs, pgprox-session probe.rs), what is    *)
(* kept of their answers (replica.rs), and a session that routes reads by  *)
(* them (pgprox-core route.rs) and sends each to the backend its own grant *)
(* names at the index the router chose.                                    *)
(*                                                                         *)
(* One primary.  A WAL position is a number; the age of a reading and of   *)
(* a watch matter only as fresh or not, and either may lapse at any time.  *)
(***************************************************************************)
EXTENDS Integers, FiniteSets, Sequences, FiniteSetsExt

CONSTANTS
  Reader,      \* sessions
  Host,        \* replica hosts
  Grants,      \* session -> the replica lists its grant may carry, in order
  Busy,        \* sessions that also write and read; the others only hold a watch
  Hung,        \* hosts that may stop answering without closing
  MaxWal       \* bound: the last position the primary reaches

ASSUME ReplicaAssumption ==
  /\ Hung \subseteq Host /\ Busy \subseteq Reader /\ MaxWal \in Nat
  /\ \A s \in Reader : \A l \in Grants[s] : l \in Seq(Host) /\ l # <<>>

VARIABLES
  wal,         \* the primary's insert position
  replayed,    \* how far each host has really replayed
  watches,     \* ReplicaSets::watches
  reader       \* each session: its grant's list, its floor, where it reads

\* Every list there is.
Lists == UNION {Grants[s] : s \in Reader}

replicaVars == <<wal, replayed, watches, reader>>

\* A slot's reading: a position, or Unknown for one never polled, failed,
\* promoted or too old, which `Replicas::state` reports alike as unhealthy.
Unknown == -1

\* A probe of a round: out with the host, answered and recorded, or panicked.
Asking == -2
Recorded == -3
Panicked == -4

\* The loop between two rounds.
Asleep == <<>>

Primary == 0

\* A session that is not connected.
Gone == [list |-> <<>>, floor |-> 0, wrote |-> FALSE, on |-> FALSE, index |-> Primary, busy |-> FALSE]

ReplicaTypeOK ==
  /\ wal \in 0..MaxWal /\ replayed \in [Host -> 0..MaxWal]
  /\ \A k \in DOMAIN watches :
       /\ watches[k].lapsed \in BOOLEAN
       /\ watches[k].obs \in [DOMAIN watches[k].hosts -> Unknown..MaxWal]
       /\ watches[k].round \in {Asleep} \cup [DOMAIN watches[k].hosts -> Panicked..MaxWal]
  /\ reader \in [Reader ->
       [list : Lists \cup {<<>>}, floor : 0..MaxWal, wrote : BOOLEAN, on : BOOLEAN,
        index : Nat, busy : BOOLEAN]]

ReplicaInit ==
  /\ wal = 0 /\ replayed = [h \in Host |-> 0]
  /\ watches = <<>>
  /\ reader = [s \in Reader |-> Gone]

-----------------------------------------------------------------------------
(* The registry.                                                           *)

\* Mistake: the primary alone, as it was before the list became part of it.
KeyByPrimary(list) == <<>>

\* WatchKey::of: the ordered list is part of the key.
WatchKey(list) == list

\* A strong count above one: a session's, or a loop's that is inside a round.
Held(k) ==
  \/ \E s \in Reader : reader[s].on /\ WatchKey(reader[s].list) = k
  \/ watches[k].round # Asleep

\* `evict_unused` keeps what somebody holds and what was asked for lately; the
\* loop of a watch it drops finds nothing to upgrade at its next tick and returns.
KeptWatches == {k \in DOMAIN watches : Held(k) \/ ~watches[k].lapsed}

\* `Replicas::new`: every slot unhealthy until it is polled.
NewWatch(list) ==
  [hosts |-> list, obs |-> [i \in DOMAIN list |-> Unknown], lapsed |-> FALSE, round |-> Asleep]

\* A session presents its grant.  `watch_for` evicts, then finds or makes the
\* watch of the list.  (A grant without replicas has none, and reads on the
\* primary.)
Presents(s, list) ==
  LET key == WatchKey(list)
      kept == KeptWatches
  IN  /\ ~reader[s].on
      /\ reader' = [reader EXCEPT ![s] = [Gone EXCEPT !.list = list, !.on = TRUE]]
      /\ watches' = [k \in kept \cup {key} |->
                       IF k \notin kept THEN NewWatch(list)
                       ELSE IF k = key THEN [watches[k] EXCEPT !.lapsed = FALSE]
                       ELSE watches[k]]
      /\ UNCHANGED <<wal, replayed>>

\* The session ends and drops the watch it held.
Departs(s) ==
  /\ reader[s].on /\ ~reader[s].busy
  /\ reader' = [reader EXCEPT ![s] = Gone]
  /\ UNCHANGED <<wal, replayed, watches>>

\* WATCH_GRACE passes with no grant asking for the watch.
WatchLapses(k) ==
  /\ ~watches[k].lapsed
  /\ watches' = [watches EXCEPT ![k].lapsed = TRUE]
  /\ UNCHANGED <<wal, replayed, reader>>

-----------------------------------------------------------------------------
(* The poll loop.                                                          *)

\* A tick: the watch is upgraded and a probe of every slot is spawned.
PollStarts(k) ==
  /\ watches[k].round = Asleep
  /\ watches' = [watches EXCEPT ![k].round = [i \in DOMAIN watches[k].hosts |-> Asking]]
  /\ UNCHANGED <<wal, replayed, reader>>

\* What a probe of a host may bring back: its position, nothing if it failed,
\* answered something unreadable (the held connection is then dropped) or has
\* been promoted, or a panic of the task.
ProbeResult(h) == {replayed[h], Unknown, Panicked}

\* The slots whose handle, and every handle before it, has finished.
Ready(round) == {i \in DOMAIN round : \A j \in 1..i : round[j] # Asking}

\* `record` of one slot: a position is observed, a failure clears what was
\* there, and a task that panicked leaves it.
Observe(answer, last) == IF answer \in {Recorded, Panicked} THEN last ELSE answer

\* A probe finishes.  The handles are awaited in order, so every finished one
\* that nothing earlier holds up is recorded now, and the round ends with the last.
Answers(k, i, answer) ==
  LET w == watches[k]
      after == [w.round EXCEPT ![i] = answer]
      ready == Ready(after)
  IN  /\ w.round # Asleep /\ w.round[i] = Asking /\ answer \in ProbeResult(w.hosts[i])
      /\ watches' = [watches EXCEPT
           ![k].obs = [j \in DOMAIN w.obs |-> IF j \in ready THEN Observe(after[j], w.obs[j]) ELSE w.obs[j]],
           ![k].round = IF ready = DOMAIN after THEN Asleep
                        ELSE [j \in DOMAIN after |-> IF j \in ready THEN Recorded ELSE after[j]]]
      /\ UNCHANGED <<wal, replayed, reader>>

\* A reading outlives the freshness window.
GoesStale(k, i) ==
  /\ watches[k].obs[i] # Unknown
  /\ watches' = [watches EXCEPT ![k].obs[i] = Unknown]
  /\ UNCHANGED <<wal, replayed, reader>>

-----------------------------------------------------------------------------
(* A session's writes and reads, and the servers.                          *)

\* A write commits on the primary; until its position is known the session
\* reads there.
Writes(s) ==
  /\ s \in Busy /\ reader[s].on /\ ~reader[s].busy /\ wal < MaxWal
  /\ wal' = wal + 1
  /\ reader' = [reader EXCEPT ![s].wrote = TRUE]
  /\ UNCHANGED <<replayed, watches>>

\* `primary_lsn` answers and the floor advances to what it said.
LearnsPosition(s) ==
  /\ reader[s].wrote
  /\ reader' = [reader EXCEPT ![s].wrote = FALSE, ![s].floor = Max({@, wal})]
  /\ UNCHANGED <<wal, replayed, watches>>

\* `can_serve`.
CanServe(seen, floor) == seen # Unknown /\ seen >= floor

\* `decide`: the first slot of the session's watch that can serve it.
Decide(s) ==
  LET list == reader[s].list
      fit == {i \in DOMAIN list :
                /\ i \in DOMAIN watches[WatchKey(list)].obs
                /\ CanServe(watches[WatchKey(list)].obs[i], reader[s].floor)}
  IN  IF reader[s].wrote \/ fit = {} THEN Primary ELSE Min(fit)

\* A read is routed, and goes to the backend of that index in its own grant.
RoutesRead(s) ==
  /\ s \in Busy /\ reader[s].on /\ ~reader[s].busy
  /\ reader' = [reader EXCEPT ![s].index = Decide(s), ![s].busy = TRUE]
  /\ UNCHANGED <<wal, replayed, watches>>

\* `backend_for` has been asked, and the read is over.
ReadEnds(s) ==
  /\ reader[s].busy
  /\ reader' = [reader EXCEPT ![s].index = Primary, ![s].busy = FALSE]
  /\ UNCHANGED <<wal, replayed, watches>>

\* A replica replays one more record.
Replays(h) ==
  /\ replayed[h] < wal
  /\ replayed' = [replayed EXCEPT ![h] = @ + 1]
  /\ UNCHANGED <<wal, watches, reader>>

ReplicaNext ==
  \/ \E s \in Reader :
       \/ \E list \in Grants[s] : Presents(s, list)
       \/ Departs(s) \/ Writes(s) \/ LearnsPosition(s) \/ RoutesRead(s) \/ ReadEnds(s)
  \/ \E k \in DOMAIN watches :
       \/ WatchLapses(k) \/ PollStarts(k)
       \/ \E i \in DOMAIN watches[k].hosts :
            GoesStale(k, i) \/ \E answer \in ProbeResult(watches[k].hosts[i]) : Answers(k, i, answer)
  \/ \E h \in Host : Replays(h)

ReplicaSpec == ReplicaInit /\ [][ReplicaNext]_replicaVars

\* A loop ticks, and a probe of a host that is not hung ends one way or the other.
LoopTicks(k) == k \in DOMAIN watches /\ PollStarts(k)

ProbeEnds(k, i) ==
  k \in DOMAIN watches /\ \E answer \in ProbeResult(k[i]) : Answers(k, i, answer)

-----------------------------------------------------------------------------
(* What the readings and the registry are for.                             *)

\* The index a read was cleared for is an index into the session's own list,
\* and the host it names there has replayed what the session wrote: the slot the
\* router looked at and the backend the read goes to are one host, whatever
\* order other grants name the replicas in (replicas.rs:22-24).
ReadsWhatWasMeasured ==
  \A s \in Reader :
    reader[s].index # Primary => replayed[reader[s].list[reader[s].index]] >= reader[s].floor

\* What poller.rs:141-145 says of a round: a replica that does not answer delays
\* nobody else's reading, so an answer that has come is recorded.
AnswersAreRecorded ==
  \A k \in Lists : \A i \in DOMAIN k :
    (k \in DOMAIN watches /\ watches[k].round # Asleep /\ watches[k].round[i] \in Nat)
      ~> (k \notin DOMAIN watches \/ watches[k].round = Asleep \/ watches[k].round[i] \notin Nat)
=============================================================================
