----------------------------- MODULE Membership -----------------------------
(***************************************************************************)
(* Liveness as one node sees it (crates/pgprox-cluster/src/membership.rs)  *)
(* and what the rest of the node reads off it: the membership view, the    *)
(* leader and the quorum count (crates/pgprox-core/src/cluster.rs).        *)
(*                                                                         *)
(* `peers`, the map from node to last contact, is a function over Node     *)
(* whose absent entries carry the instant Never.                           *)
(***************************************************************************)
EXTENDS Integers, FiniteSets

CONSTANTS
  Node,          \* the node ids of the fleet; the leader is the lowest
  SuspectAfter,  \* silence after which a peer no longer counts for a quorum
  DeadAfter      \* silence after which a peer leaves the view

ASSUME NodeAssumption == Node \subseteq Nat /\ IsFiniteSet(Node)

\* `MembershipConfig::is_safe`.
ASSUME MembershipIsSafe ==
  SuspectAfter \in Nat /\ DeadAfter \in Nat /\ 0 < SuspectAfter /\ SuspectAfter < DeadAfter

Never == -1

Instant == Nat \cup {Never}

Mode == {"active", "draining"}

Contact == [mode : Mode, at : Instant]

NoContact == [mode |-> "active", at |-> Never]

NoPeers == [m \in Node |-> NoContact]

\* Contact only ever moves forward.
Heard(peers, m, mode, t) ==
  IF t >= peers[m].at THEN [peers EXCEPT ![m] = [mode |-> mode, at |-> t]] ELSE peers

IsDead(peers, m, t) == peers[m].at = Never \/ t - peers[m].at >= DeadAfter

IsAlive(peers, m, t) == peers[m].at # Never /\ t - peers[m].at < SuspectAfter

\* Suspects stay in the view; only the dead leave it.
View(peers, t) == {m \in Node : ~IsDead(peers, m, t)}

ActiveMembers(peers, t) == {m \in View(peers, t) : peers[m].mode = "active"}

IsLeader(peers, m, t) ==
  /\ m \in ActiveMembers(peers, t)
  /\ \A k \in ActiveMembers(peers, t) : m <= k

\* The quorum count: suspects and draining nodes are left out.
AliveMembers(peers, t) ==
  {m \in Node : peers[m].mode = "active" /\ IsAlive(peers, m, t)}

\* `Membership::reap`.
ReapPeers(peers, t) == [m \in Node |-> IF IsDead(peers, m, t) THEN NoContact ELSE peers[m]]
=============================================================================
