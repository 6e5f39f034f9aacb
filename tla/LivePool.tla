------------------------------ MODULE LivePool ------------------------------
(***************************************************************************)
(* The pool of one key: the decisions of Pool                              *)
(* (crates/pgprox-pool/src/pool.rs), the waiting, opening and waking of    *)
(* LivePool (live.rs) around them, and its reaper (reap.rs).               *)
(*                                                                         *)
(* Each section under the pool's mutex is one step, and so is each ring of *)
(* the doorbell, because the code rings it outside the mutex.  A client is *)
(* one task inside `acquire`, then the holder of the guard it returned.    *)
(***************************************************************************)
EXTENDS Integers, FiniteSets, Sequences

CONSTANTS
  Client,   \* tasks that use the pool
  Conn,     \* ids of upstream connections
  NoConn,   \* what a client holds when it holds none
  MaxSize,  \* PoolConfig::max_size
  Limits    \* what `set_limit` may be called with

ASSUME PoolAssumption ==
  /\ IsFiniteSet(Client) /\ IsFiniteSet(Conn) /\ NoConn \notin Conn
  /\ MaxSize \in Nat /\ MaxSize > 0 /\ Cardinality(Conn) >= MaxSize
  /\ Limits \subseteq Nat

VARIABLES
  limit,       \* Pool::limit
  idle,        \* Pool::idle: connections nobody holds
  checkedOut,  \* Pool::checked_out
  expired,     \* connections marked past `max_lifetime` while checked out
  opening,     \* Pool::opening: reserved slots
  waiting,     \* Pool::waiting: what `stats` reports
  pc,          \* where each client is
  conn,        \* the connection each client's guard names
  bell,        \* each client's Notified future
  queue,       \* the doorbell's waiters, first in first out
  permit,      \* the doorbell's stored permit
  limitMoved,  \* whether `set_limit` has yet to ring for the limit it set
  allowance    \* history: the last limit `set_limit` was given

pool == <<limit, idle, checkedOut, expired, opening, waiting>>
clients == <<pc, conn>>
doorbell == <<bell, queue, permit>>
set == <<limitMoved, allowance>>
vars == <<limit, idle, checkedOut, expired, opening, waiting, pc, conn, bell, queue, permit, limitMoved, allowance>>

\* away: outside `acquire`.  enrol: about to register interest.  check: about
\* to ask the pool.  told: answered Wait, not yet counted.  parked: awaiting
\* the doorbell.  opening: connecting.  using: holding a guard.  ringing: has
\* given something back and has yet to ring for it.
Place == {"away", "enrol", "check", "told", "parked", "opening", "using", "ringing"}

\* Not registered; registered; woken by notify_one; woken by notify_waiters;
\* registered straight onto a stored permit.
Notified == {"none", "queued", "one", "all", "spent"}

TypeOK ==
  /\ limit \in 0..MaxSize /\ allowance \in 0..MaxSize /\ opening \in Nat /\ waiting \in Nat
  /\ idle \subseteq Conn /\ checkedOut \subseteq Conn /\ expired \subseteq Conn
  /\ pc \in [Client -> Place] /\ conn \in [Client -> Conn \cup {NoConn}]
  /\ bell \in [Client -> Notified] /\ queue \in Seq(Client)
  /\ permit \in BOOLEAN /\ limitMoved \in BOOLEAN

Init ==
  /\ limit = MaxSize /\ opening = 0 /\ waiting = 0
  /\ idle = {} /\ checkedOut = {} /\ expired = {}
  /\ pc = [c \in Client |-> "away"] /\ conn = [c \in Client |-> NoConn]
  /\ bell = [c \in Client |-> "none"] /\ queue = <<>>
  /\ permit = FALSE /\ limitMoved = FALSE /\ allowance = MaxSize

\* `Pool::total`: what the pool answers for, reserved slots included.
Total == Cardinality(idle) + Cardinality(checkedOut) + opening

\* `Pool::retained`: what it would still have if every client let go at once.
Retained == Cardinality(idle) + opening

-----------------------------------------------------------------------------
(* tokio's Notify, as the pool uses it.  A doorbell state is a record so   *)
(* that a ring and a drop can follow one another in one step.              *)

Doorbell == [bell |-> bell, queue |-> queue, permit |-> permit]

SetDoorbell(d) == bell' = d.bell /\ queue' = d.queue /\ permit' = d.permit

\* A client is queued at most once, so any place it has is its only one.
Without(q, c) ==
  IF \E i \in 1..Len(q) : q[i] = c
  THEN LET at == CHOOSE i \in 1..Len(q) : q[i] = c IN SubSeq(q, 1, at - 1) \o SubSeq(q, at + 1, Len(q))
  ELSE q

\* `notify_one`: the longest-registered waiter, or a permit if there is none.
NotifyOne(d) ==
  IF d.queue = <<>> THEN [d EXCEPT !.permit = TRUE]
  ELSE [bell |-> [d.bell EXCEPT ![Head(d.queue)] = "one"], queue |-> Tail(d.queue), permit |-> d.permit]

\* `notify_waiters`: everyone registered, and no permit.
NotifyAll(d) ==
  [bell |-> [c \in Client |-> IF d.bell[c] = "queued" THEN "all" ELSE d.bell[c]],
   queue |-> <<>>, permit |-> d.permit]

\* `notified()` and `enable()`.
Enrol(d, c) ==
  IF d.permit THEN [bell |-> [d.bell EXCEPT ![c] = "spent"], queue |-> d.queue, permit |-> FALSE]
  ELSE [bell |-> [d.bell EXCEPT ![c] = "queued"], queue |-> Append(d.queue, c), permit |-> FALSE]

\* Dropping a Notified: one that notify_one chose and that was never polled
\* hands the notification on.
Drop(d, c) ==
  LET gone == [bell |-> [d.bell EXCEPT ![c] = "none"], queue |-> Without(d.queue, c), permit |-> d.permit]
  IN  IF d.bell[c] = "one" THEN NotifyOne(gone) ELSE gone

-----------------------------------------------------------------------------
(* `acquire_inner`, one step per lock section, ring and await.             *)

Goto(c, place) == pc' = [pc EXCEPT ![c] = place]

\* A caller arrives and takes the key's doorbell.
Arrive(c) ==
  /\ pc[c] = "away" /\ Goto(c, "enrol")
  /\ UNCHANGED <<pool, conn, doorbell, set>>

\* The top of the loop: interest is registered before the pool is asked.
Register(c) ==
  /\ pc[c] = "enrol" /\ Goto(c, "check")
  /\ SetDoorbell(Enrol(Doorbell, c))
  /\ UNCHANGED <<pool, conn, set>>

\* Pool::acquire answers Reused.  Which idle connection is left open: the code
\* takes the last, and no property here tells them apart.
Reuse(c) ==
  /\ pc[c] = "check" /\ Goto(c, "using")
  /\ \E k \in idle :
        /\ idle' = idle \ {k} /\ checkedOut' = checkedOut \cup {k}
        /\ conn' = [conn EXCEPT ![c] = k]
  /\ SetDoorbell(Drop(Doorbell, c))
  /\ UNCHANGED <<limit, expired, opening, waiting, set>>

\* Pool::acquire answers OpenNew and reserves the slot.  `return self.open(key)
\* .await` leaves the Notified registered until the connect is over.
Reserve(c) ==
  /\ pc[c] = "check" /\ idle = {} /\ Total < limit
  /\ opening' = opening + 1 /\ Goto(c, "opening")
  /\ UNCHANGED <<limit, idle, checkedOut, expired, waiting, conn, doorbell, set>>

\* Pool::acquire answers Wait.
MustWait(c) ==
  /\ pc[c] = "check" /\ idle = {} /\ Total >= limit
  /\ Goto(c, "told")
  /\ UNCHANGED <<pool, conn, doorbell, set>>

\* The deadline had passed before the caller was counted as waiting.
GiveUpAtOnce(c) ==
  /\ pc[c] = "told" /\ Goto(c, "away")
  /\ SetDoorbell(Drop(Doorbell, c))
  /\ UNCHANGED <<pool, conn, set>>

\* WaitGuard::new, then the await.
Park(c) ==
  /\ pc[c] = "told" /\ Goto(c, "parked")
  /\ waiting' = waiting + 1
  /\ UNCHANGED <<limit, idle, checkedOut, expired, opening, conn, doorbell, set>>

\* `saturating_sub(1)`.
Less(n) == IF n = 0 THEN 0 ELSE n - 1

\* The Notified resolves: the guard goes, and the loop turns.
Wake(c) ==
  /\ pc[c] = "parked" /\ bell[c] \in {"one", "all", "spent"}
  /\ Goto(c, "enrol") /\ waiting' = Less(waiting)
  /\ bell' = [bell EXCEPT ![c] = "none"]
  /\ UNCHANGED <<limit, idle, checkedOut, expired, opening, conn, queue, permit, set>>

\* Mistake: the count restored by code after the await, which a dropped future
\* never reaches.
StopWaitingUncounted(c) ==
  /\ pc[c] = "parked" /\ Goto(c, "away")
  /\ SetDoorbell(Drop(Doorbell, c))
  /\ UNCHANGED <<pool, conn, set>>

\* The deadline passes, or the client goes and its future is dropped, while it
\* waits.  A ring may have reached it after its last poll.
StopWaiting(c) ==
  /\ pc[c] = "parked" /\ Goto(c, "away")
  /\ waiting' = Less(waiting)
  /\ SetDoorbell(Drop(Doorbell, c))
  /\ UNCHANGED <<limit, idle, checkedOut, expired, opening, conn, set>>

\* The connect succeeds: the slot becomes a connection under a fresh id.
Opened(c) ==
  /\ pc[c] = "opening" /\ Goto(c, "using")
  /\ opening' = Less(opening)
  /\ \E k \in Conn \ (idle \cup checkedOut) :
        /\ checkedOut' = checkedOut \cup {k} /\ expired' = expired \ {k}
        /\ conn' = [conn EXCEPT ![c] = k]
  /\ SetDoorbell(Drop(Doorbell, c))
  /\ UNCHANGED <<limit, idle, waiting, set>>

\* Mistake: the slot given back and nobody told.
OpenFailsSilently(c) ==
  /\ pc[c] = "opening" /\ Goto(c, "away")
  /\ opening' = Less(opening)
  /\ SetDoorbell(Drop(Doorbell, c))
  /\ UNCHANGED <<limit, idle, checkedOut, expired, waiting, conn, set>>

\* The connect fails, or its future is dropped: SlotGuard gives the slot back,
\* and has yet to ring.
OpenFails(c) ==
  /\ pc[c] = "opening" /\ Goto(c, "ringing")
  /\ opening' = Less(opening)
  /\ UNCHANGED <<limit, idle, checkedOut, expired, waiting, conn, doorbell, set>>

-----------------------------------------------------------------------------
(* Giving back, the limit, and the reaper.                                 *)

\* Mistake: only a connection that went back to the pool rings.
ReleaseRingingIfKept(c, clean) ==
  LET k == conn[c]
      kept == clean /\ Retained < limit /\ k \notin expired
  IN  /\ pc[c] = "using" /\ Goto(c, IF kept THEN "ringing" ELSE "away")
      /\ checkedOut' = checkedOut \ {k} /\ expired' = expired \ {k}
      /\ idle' = IF kept THEN idle \cup {k} ELSE idle
      /\ conn' = [conn EXCEPT ![c] = NoConn]
      /\ UNCHANGED <<limit, opening, waiting, doorbell, set>>

\* Mistake: a clean connection kept whatever the limit has become.
ReleaseIgnoringLimit(c, clean) ==
  LET k == conn[c]
  IN  /\ pc[c] = "using" /\ Goto(c, "ringing")
      /\ checkedOut' = checkedOut \ {k} /\ expired' = expired \ {k}
      /\ idle' = IF clean /\ k \notin expired THEN idle \cup {k} ELSE idle
      /\ conn' = [conn EXCEPT ![c] = NoConn]
      /\ UNCHANGED <<limit, opening, waiting, doorbell, set>>

\* Pool::release under the lock.  A clean connection is kept only while the
\* pool retains less than the limit and the connection is not marked expired.
Release(c, clean) ==
  LET k == conn[c]
      kept == clean /\ Retained < limit /\ k \notin expired
  IN  /\ pc[c] = "using" /\ Goto(c, "ringing")
      /\ checkedOut' = checkedOut \ {k} /\ expired' = expired \ {k}
      /\ idle' = IF kept THEN idle \cup {k} ELSE idle
      /\ conn' = [conn EXCEPT ![c] = NoConn]
      /\ UNCHANGED <<limit, opening, waiting, doorbell, set>>

\* The ring that follows a release or a slot given back, outside the lock.  A
\* failed opener then drops the Notified it was still registered with.
Ring(c) ==
  /\ pc[c] = "ringing" /\ Goto(c, "away")
  /\ SetDoorbell(Drop(NotifyOne(Doorbell), c))
  /\ UNCHANGED <<pool, conn, set>>

\* LivePool::set_limit: the pool's half, clamped to the configured size.
SetLimit(l) ==
  /\ ~limitMoved /\ limitMoved' = TRUE
  /\ limit' = IF l < MaxSize THEN l ELSE MaxSize
  /\ allowance' = limit'
  /\ UNCHANGED <<idle, checkedOut, expired, opening, waiting, clients, doorbell>>

\* The doorbell's half.
RingForLimit ==
  /\ limitMoved /\ limitMoved' = FALSE
  /\ SetDoorbell(NotifyAll(Doorbell))
  /\ UNCHANGED <<pool, clients, allowance>>

\* LivePool::reap_idle under the lock: it closes idle connections `old`, marks
\* checked-out ones `stale`, and forgets the key if nothing is left of it.  A
\* forgotten key comes back as Pool::new makes it: empty, its limit `max_size`.
ReapIdle(old, stale) ==
  LET unused == idle = old /\ checkedOut = {} /\ opening = 0 /\ waiting = 0
  IN  /\ idle' = idle \ old /\ expired' = expired \cup stale
      /\ limit' = IF unused THEN MaxSize ELSE limit
      /\ UNCHANGED <<checkedOut, opening, waiting, clients, doorbell, set>>

\* forget_unheld_doorbells: a bell no caller holds goes, its permit with it.
ForgetDoorbell ==
  /\ \A c \in Client : pc[c] \in {"away", "using"} \/ (pc[c] = "ringing" /\ bell[c] = "none")
  /\ permit' = FALSE
  /\ UNCHANGED <<pool, clients, bell, queue, set>>

Next ==
  \/ \E c \in Client :
        \/ Arrive(c) \/ Register(c)
        \/ Reuse(c) \/ Reserve(c) \/ MustWait(c)
        \/ GiveUpAtOnce(c) \/ Park(c) \/ Wake(c) \/ StopWaiting(c)
        \/ Opened(c) \/ OpenFails(c) \/ Ring(c)
        \/ \E clean \in BOOLEAN : Release(c, clean)
  \/ \E l \in Limits : SetLimit(l)
  \/ RingForLimit
  \/ \E old \in SUBSET idle, stale \in SUBSET checkedOut : ReapIdle(old, stale)
  \/ ForgetDoorbell

Spec == Init /\ [][Next]_vars

\* Tasks are scheduled, connects end one way or the other, and a ring that is
\* due is made.  No client need ever give a connection back, arrive or leave.
Progress(c) ==
  \/ Register(c) \/ Reuse(c) \/ Reserve(c) \/ MustWait(c) \/ Park(c) \/ Wake(c)
  \/ Opened(c) \/ OpenFails(c) \/ Ring(c)

Fairness == WF_vars(RingForLimit) /\ \A c \in Client : WF_vars(Progress(c))

FairSpec == Spec /\ Fairness

-----------------------------------------------------------------------------
(* Properties.                                                             *)

At(place) == {c \in Client : pc[c] = place}

\* Every slot, waiter and connection the pool counts belongs to a caller that
\* is really there, whatever was cancelled, failed or forgotten on the way:
\* no slot leaks (SlotGuard), no waiter is counted after it left (WaitGuard),
\* and each connection checked out is held by one guard and is not idle too.
SlotsAccountedFor ==
  /\ opening = Cardinality(At("opening"))
  /\ waiting = Cardinality(At("parked"))
  /\ checkedOut = {conn[c] : c \in At("using")}
  /\ idle \cap checkedOut = {}
  /\ \A c, d \in At("using") : conn[c] = conn[d] => c = d

\* However the limit moves while connects are in flight, the pool never
\* answers for more connections than `max_size`: `acquire` reserves a slot
\* before the connect, and `set_limit` clamps.
NeverAboveMaxSize == Total <= MaxSize

\* Room the allowance gives: a limit that forgetting the key has put back to
\* `max_size` does not count.
Room == idle # {} \/ (Total < limit /\ Total < allowance)

\* Somebody who is going to look at the pool, or to ring for it.
Stirring ==
  \/ limitMoved
  \/ \E c \in Client :
        \/ pc[c] \in {"enrol", "check", "ringing"}
        \/ pc[c] \in {"told", "parked"} /\ bell[c] \in {"one", "all", "spent"}

Waiter(c) == pc[c] = "parked" /\ bell[c] = "queued"

\* While a caller is parked and the pool has room for it, a wakeup is on its
\* way: one not yet rung, one not yet acted on, or one that an opener was
\* given and hands on when its connect ends.
NoLostWakeup ==
  Room /\ (\E c \in Client : Waiter(c)) =>
    Stirring \/ \E c \in At("opening") : bell[c] = "one"

\* Room reaches the waiters: a parked caller the pool has room for is woken, or
\* the room goes to somebody else, given that tasks run and connects end.
RoomReachesWaiters ==
  \A c \in Client : (pc[c] = "parked" /\ Room) ~> (pc[c] # "parked" \/ ~Room)

\* A pool over its limit shrinks and never grows: whatever happens in it, it
\* opens nothing, and it keeps nothing that would put what it retains over.
OverLimitOnlyShrinks ==
  [][limit' = limit => /\ Total > limit => Total' <= Total
                       /\ Cardinality(idle') > Cardinality(idle) => Retained' <= limit]_vars

=============================================================================
