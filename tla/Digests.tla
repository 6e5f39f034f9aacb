------------------------------ MODULE Digests ------------------------------
(***************************************************************************)
(* What one node holds of another: the digests a peer sends on separate    *)
(* connections (pgprox-cluster service.rs, bin/pgprox gossip.rs), their    *)
(* order (digest.rs), and the contact and the digest kept of it, which are *)
(* dropped together when it goes silent (coordinator.rs, membership.rs).   *)
(*                                                                         *)
(* A digest is the mode it carries and the run of the peer that made it.   *)
(* It is made under one lock and numbered outside it; a delivery reads the *)
(* clock before it takes the receiver's lock.  Deliveries may be lost,     *)
(* late and out of order.                                                  *)
(***************************************************************************)
EXTENDS Integers, FiniteSets

CONSTANTS
  MaxRun,   \* bound: how often the peer restarts
  MaxSent,  \* bound: digests one run of the peer sends
  MaxNow    \* bound: the receiver's clock

ASSUME DigestAssumption == MaxRun \in Nat /\ MaxSent \in Nat \ {0} /\ MaxNow \in Nat

VARIABLES
  peer,      \* the sender: its run, its next version, its mode
  drafts,    \* digests made and not yet numbered: how many of each mode
  flying,    \* digests numbered and not yet delivered
  applying,  \* deliveries that have read the clock and not yet taken the lock
  store,     \* DigestStore: what the receiver holds of the peer
  contact,   \* Membership: when and as what it last heard of it
  instant,   \* the receiver's clock
  newest     \* history: the latest run heard of since the peer was last reaped

digestVars == <<peer, drafts, flying, applying, store, contact, instant, newest>>

Modes == {"active", "draining"}

Nothing == [version |-> -1, mode |-> "active", run |-> -1]

Unheard == [mode |-> "active", at |-> -1]

\* Mistake: every run numbers its digests from the beginning.
FloorZero(run) == 0

\* `version_floor`: a run starts above anything an earlier one can have sent,
\* as it sends fewer digests than milliseconds pass.
VersionFloor(run) == run * (MaxSent + 1)

DigestTypeOK ==
  /\ peer.run \in 0..MaxRun /\ peer.mode \in Modes
  /\ drafts \in [Modes -> 0..MaxSent] /\ instant \in 0..MaxNow
  /\ contact.at \in -1..MaxNow /\ newest \in -1..MaxRun

DigestInit ==
  /\ peer = [run |-> 0, next |-> VersionFloor(0), mode |-> "active"]
  /\ drafts = [m \in Modes |-> 0] /\ flying = {} /\ applying = {}
  /\ store = Nothing /\ contact = Unheard /\ instant = 0 /\ newest = -1

-----------------------------------------------------------------------------
(* The peer.                                                               *)

\* `set_mode`.
ChangesMode ==
  /\ peer' = [peer EXCEPT !.mode = CHOOSE m \in Modes : m # peer.mode]
  /\ UNCHANGED <<drafts, flying, applying, store, contact, instant, newest>>

InHand == drafts["active"] + drafts["draining"]

\* `outgoing`, its first half: the digest, under the coordinator's lock.
MakesDigest ==
  /\ peer.next + InHand < VersionFloor(peer.run) + MaxSent
  /\ drafts' = [drafts EXCEPT ![peer.mode] = @ + 1]
  /\ UNCHANGED <<peer, flying, applying, store, contact, instant, newest>>

\* Its second half: the version, from a counter.
NumbersDigest(m) ==
  /\ drafts[m] > 0 /\ drafts' = [drafts EXCEPT ![m] = @ - 1]
  /\ flying' = flying \cup {[version |-> peer.next, mode |-> m, run |-> peer.run]}
  /\ peer' = [peer EXCEPT !.next = @ + 1]
  /\ UNCHANGED <<applying, store, contact, instant, newest>>

\* The peer is killed and comes back; what it had not sent is gone.
PeerRestarts ==
  /\ peer.run < MaxRun
  /\ peer' = [run |-> peer.run + 1, next |-> VersionFloor(peer.run + 1), mode |-> "active"]
  /\ drafts' = [m \in Modes |-> 0]
  /\ UNCHANGED <<flying, applying, store, contact, instant, newest>>

-----------------------------------------------------------------------------
(* The receiver.                                                           *)

\* `GossipCoordinator::gossip` reads the clock.
Arrives(d) ==
  /\ flying' = flying \ {d}
  /\ applying' = applying \cup {[digest |-> d, at |-> instant]}
  /\ UNCHANGED <<peer, drafts, store, contact, instant, newest>>

\* `DigestStore::merge` keeps what is held when it is not older.
IsStale(d) == store # Nothing /\ d.version <= store.version

\* `Membership::heard`.
HeardPeer(m, at) == IF at >= contact.at THEN [mode |-> m, at |-> at] ELSE contact

\* Mistake: the mode of a rejected digest taken with the contact.
HeardWithMode(d, at) == HeardPeer(d.mode, at)

\* `Membership::heard_without_mode`.
HeardWithoutMode(d, at) ==
  IF contact # Unheard /\ at >= contact.at THEN [contact EXCEPT !.at = at] ELSE contact

\* `NodeCoordinator::gossip`, under the lock: the digest is merged, and its mode
\* taken only if it was news.
Applies(a) ==
  /\ applying' = applying \ {a}
  /\ IF IsStale(a.digest)
     THEN contact' = HeardWithoutMode(a.digest, a.at) /\ UNCHANGED store
     ELSE contact' = HeardPeer(a.digest.mode, a.at) /\ store' = a.digest
  /\ newest' = IF a.digest.run > newest THEN a.digest.run ELSE newest
  /\ UNCHANGED <<peer, drafts, flying, instant>>

\* `observe`: a peer silent for too long is reaped, and its digest with it.
ReapsPeer ==
  /\ contact # Unheard
  /\ contact' = Unheard /\ store' = Nothing /\ newest' = -1
  /\ UNCHANGED <<peer, drafts, flying, applying, instant>>

ClockMoves ==
  /\ instant < MaxNow /\ instant' = instant + 1
  /\ UNCHANGED <<peer, drafts, flying, applying, store, contact, newest>>

DigestNext ==
  \/ ChangesMode \/ MakesDigest \/ PeerRestarts \/ ReapsPeer \/ ClockMoves
  \/ \E m \in Modes : NumbersDigest(m)
  \/ \E d \in flying : Arrives(d)
  \/ \E a \in applying : Applies(a)

DigestSpec == DigestInit /\ [][DigestNext]_digestVars

-----------------------------------------------------------------------------
(* What the versions and the reaping are for.                              *)

\* A restarted peer is heard at once, whatever of its last run is still on the
\* way, and a peer is in the sums over the store exactly while it is in the
\* view (service.rs:302-309, coordinator.rs:373-391).
StoreTracksThePeer ==
  /\ (store = Nothing) = (contact = Unheard)
  /\ store # Nothing => store.run = newest

\* The view takes a peer's mode only from a digest that was news: one that was
\* overtaken on the way cannot undo a drain (coordinator.rs:245-254).
OldNewsChangesNothing ==
  [][contact # Unheard /\ contact' # Unheard /\ contact'.mode # contact.mode
       => store'.version > store.version]_digestVars
=============================================================================
