--------------------------- MODULE MCQuotaCluster ---------------------------
(***************************************************************************)
(* QuotaCluster for TLC: instants are seen only through their distance     *)
(* from the clock, and only as far as any guard can tell them apart.       *)
(***************************************************************************)
EXTENDS QuotaCluster

\* Every link of the full mesh, and the cuts a run may put in it.
Mesh == Node \X Node

Split(S) == {l \in Mesh : (l[1] \in S) = (l[2] \in S)}

Cut(n, m) == {l \in Mesh : {l[1], l[2]} # {n, m}}

Whole == {Mesh}

\* The whole fleet, or one node split off: every clean partition of three.
CleanPartitions == {Mesh} \cup {Split({n}) : n \in Node}

\* One link of the mesh down, the others up.
OneLinkDown == {Mesh} \cup {Cut(n, m) : n, m \in Node}

\* A fleet whose first and last node never reach each other.
Line == {Cut(1, 3)}

Age(at, top) == IF at = Never \/ now - at >= top THEN top ELSE now - at

LeaseSeen(l) == IF LiveCount(l, now) = 0 THEN <<0, 0>> ELSE <<l.count, l.expires - now>>

\* A node that is below no majority of the fleet never leads a quorum, and if it
\* never asks either, nothing but the lateness of the next digest reads its view.
OnlyHears(n) == n \notin Busy /\ 2 * Cardinality({m \in Node : m >= n}) <= FleetSize

\* A draining peer and a dead one count for nothing but the next digest's lateness.
ContactSeen(n, c) ==
  IF ~OnlyHears(n) /\ c.mode = "active" /\ c.at # Never /\ now - c.at < DeadAfter
    THEN <<"active", now - c.at>>
    ELSE <<"gone", Age(c.at, Max2(BeatEvery, HearEvery))>>

\* Two states with one view allow the same steps from here on.
Seen ==
  << links, up, mode, phase,
     Age(changedAt, Max2(Dwell, HearEvery)),
     [n \in Node |-> Age(bootedAt[n], Max2(BeatEvery, HearEvery))],
     [n \in Node |-> [m \in Node |-> ContactSeen(n, peers[n][m])]],
     [n \in Node |-> IF office[n] = Never THEN Never ELSE Age(office[n], TakeoverWait)],
     [n \in Node |-> [h \in Node |-> LeaseSeen(grants[n][h])]],
     [n \in Node |-> LeaseSeen(held[n])],
     [n \in Node |-> IF ask[n] = NotAsking THEN <<>>
                     ELSE <<ask[n].to, Min2(ask[n].want, FreePool), ask[n].answer, now - ask[n].sent,
                            bootedAt[ask[n].to] <= ask[n].sent>>],
     late >>
=============================================================================
